------------------------ MODULE OtpVerificationProofs ------------------------
(***************************************************************************)
(* Theorems about OtpVerification, for any threads, customers, limits and  *)
(* times.                                                                  *)
(***************************************************************************)
EXTENDS OtpVerification, FunctionTheorems, FiniteSetTheorems, TLAPS

\* A row that no number of attempts has made unusable and still usable.
InLimit(row) == row.attempts <= row.max_attempts \/ row.verified

\* What no statement takes back from a row.
Becomes(row, new) ==
  /\ new.pair = row.pair
  /\ new.created_at = row.created_at
  /\ new.max_attempts = row.max_attempts
  /\ row.verified => new.verified
  /\ row.legitimately_verified => new.legitimately_verified

\* The table after a step: every row is still there, and there may be more.
Grown ==
  /\ otps' \in Seq(Otp)
  /\ \A i \in Otps' : InLimit(otps'[i])
  /\ \A i \in Otps : i \in Otps' /\ Becomes(otps[i], otps'[i])

\* What TypeOK says of one request, over a table.
RequestOK(r, table) ==
  /\ r.op = "resend" => r.old \subseteq {i \in 1..Len(table) : table[i].pair = r.pair}
  /\ r.op = "verify" =>
       r.otp \in 1..Len(table) /\ r.attempts < table[r.otp].max_attempts

-----------------------------------------------------------------------------
(* Rows *)

LEMMA NewTyped ==
  ASSUME NEW pair \in Pairs, clock \in Nat,
         NEW limit \in {MAX_VERIFY_ATTEMPTS, LEGACY_VERIFY_ATTEMPTS}
  PROVE  /\ NewOtp(pair, limit) \in Otp
         /\ InLimit(NewOtp(pair, limit))
         /\ NewOtp(pair, limit).pair = pair
         /\ ~ NewOtp(pair, limit).verified
         /\ NewOtp(pair, limit).max_attempts = limit
BY AttemptsAssumption, TicksAssumption DEF NewOtp, Otp, InLimit

LEMMA LockTyped ==
  ASSUME NEW row \in Otp
  PROVE  /\ Lock(row) \in Otp /\ InLimit(Lock(row)) /\ Becomes(row, Lock(row))
         /\ Lock(row).verified
<1>1. Lock(row) \in Otp
  <2>1. MAX_VERIFY_ATTEMPTS \in 0..MAX_VERIFY_ATTEMPTS
    BY AttemptsAssumption
  <2> QED BY <2>1 DEF Lock, Otp
<1>2. /\ Lock(row).pair = row.pair /\ Lock(row).created_at = row.created_at
      /\ Lock(row).max_attempts = row.max_attempts
  BY DEF Lock, Otp
<1>3. Lock(row).legitimately_verified = row.legitimately_verified
  BY DEF Lock, Otp
<1>4. Lock(row).verified
  BY DEF Lock, Otp
<1> QED BY <1>1, <1>2, <1>3, <1>4, Zenon DEF InLimit, Becomes

LEMMA TriedTyped ==
  ASSUME NEW row \in Otp, InLimit(row),
         NEW req \in [op : {"verify"}, otp : Nat, attempts : Nat, correct : BOOLEAN],
         req.attempts < row.max_attempts
  PROVE  /\ Tried(row, req) \in Otp /\ InLimit(Tried(row, req)) /\ Becomes(row, Tried(row, req))
         /\ Tried(row, req).verified =>
              \/ Tried(row, req).legitimately_verified
              \/ /\ row.verified
                 /\ Tried(row, req).legitimately_verified = row.legitimately_verified
<1>1. CASE req.correct
  <2> DEFINE new == [row EXCEPT !.verified = TRUE, !.legitimately_verified = TRUE]
  <2>1. Tried(row, req) = new
    BY <1>1 DEF Tried
  <2>2. /\ new \in Otp /\ new.pair = row.pair /\ new.max_attempts = row.max_attempts
        /\ new.created_at = row.created_at
    BY DEF Otp
  <2>3. new.verified /\ new.legitimately_verified
    BY DEF Otp
  <2> QED BY <2>1, <2>2, <2>3, Zenon DEF InLimit, Becomes
<1>2. CASE ~ req.correct
  <2> DEFINE new == [row EXCEPT !.attempts = req.attempts + 1]
  <2>1. Tried(row, req) = new
    BY <1>2 DEF Tried
  <2>2. /\ new \in Otp /\ new.pair = row.pair /\ new.max_attempts = row.max_attempts
        /\ new.attempts <= new.max_attempts /\ new.created_at = row.created_at
    BY AttemptsAssumption DEF Otp
  <2>3. new.verified = row.verified
    BY DEF Otp
  <2>4. new.legitimately_verified = row.legitimately_verified
    BY DEF Otp
  <2> QED BY <2>1, <2>2, <2>3, <2>4, Zenon DEF InLimit, Becomes
<1> QED BY <1>1, <1>2

-----------------------------------------------------------------------------
(* Tables *)

LEMMA Appended ==
  ASSUME NEW S, NEW s \in Seq(S), NEW e \in S
  PROVE  /\ Append(s, e) \in Seq(S)
         /\ Len(s) \in Nat
         /\ Len(Append(s, e)) = Len(s) + 1
         /\ \A i \in 1..Len(s) : s[i] \in S /\ Append(s, e)[i] = s[i]
         /\ Append(s, e)[Len(s) + 1] = e
OBVIOUS

LEMMA InvalidatedTyped ==
  ASSUME TypeOK, NEW old
  PROVE  /\ Invalidated(old) \in Seq(Otp)
         /\ Len(Invalidated(old)) = Len(otps)
         /\ \A i \in Otps : /\ InLimit(Invalidated(old)[i])
                            /\ Becomes(otps[i], Invalidated(old)[i])
                            /\ i \notin old => Invalidated(old)[i] = otps[i]
                            /\ i \in old => Invalidated(old)[i].verified
<1> DEFINE new(i) == IF i \in old /\ ~otps[i].verified THEN Lock(otps[i]) ELSE otps[i]
<1>1. otps \in Seq(Otp) /\ Len(otps) \in Nat /\ \A i \in Otps : otps[i] \in Otp /\ InLimit(otps[i])
  <2>1. otps \in Seq(Otp) /\ \A i \in Otps : InLimit(otps[i])
    BY DEF TypeOK, InLimit
  <2>2. Len(otps) \in Nat /\ \A i \in 1..Len(otps) : otps[i] \in Otp
    BY <2>1
  <2> QED BY <2>1, <2>2 DEF Otps
<1>2. ASSUME NEW i \in Otps
      PROVE  /\ new(i) \in Otp /\ InLimit(new(i)) /\ Becomes(otps[i], new(i))
             /\ i \notin old => new(i) = otps[i]
             /\ i \in old => new(i).verified
  <2>1. Becomes(otps[i], otps[i])
    BY DEF Becomes
  <2> QED BY <1>1, <2>1, LockTyped
<1>3. Invalidated(old) = [i \in 1..Len(otps) |-> new(i)]
  BY DEF Invalidated, Otps
<1> HIDE DEF new
<1>4. Invalidated(old) \in Seq(Otp) /\ Len(Invalidated(old)) = Len(otps)
  BY <1>1, <1>2, <1>3 DEF Otps
<1>5. \A i \in Otps : Invalidated(old)[i] = new(i)
  BY <1>3 DEF Otps
<1> QED BY <1>2, <1>4, <1>5

\* A resend: the rows it saw are locked, and the new one follows.
LEMMA Sent ==
  ASSUME TypeOK, NEW old, NEW pair \in Pairs,
         NEW limit \in {MAX_VERIFY_ATTEMPTS, LEGACY_VERIFY_ATTEMPTS},
         otps' = Append(Invalidated(old), NewOtp(pair, limit))
  PROVE  /\ Grown
         /\ Len(otps) \in Nat
         /\ Len(otps') = Len(otps) + 1
         /\ \A i \in Otps : IF i \in old THEN otps'[i].verified ELSE otps'[i] = otps[i]
         /\ otps'[Len(otps) + 1].pair = pair
         /\ otps'[Len(otps) + 1].max_attempts = limit
         /\ ~ otps'[Len(otps) + 1].verified
<1> DEFINE new == NewOtp(pair, limit)
           rows == Invalidated(old)
<1>1. new \in Otp /\ InLimit(new) /\ new.pair = pair /\ ~ new.verified
      /\ new.max_attempts = limit
  BY NewTyped DEF TypeOK
<1>2. /\ rows \in Seq(Otp) /\ Len(rows) = Len(otps)
      /\ \A i \in 1..Len(otps) : /\ InLimit(rows[i])
                                 /\ Becomes(otps[i], rows[i])
                                 /\ i \notin old => rows[i] = otps[i]
                                 /\ i \in old => rows[i].verified
  BY InvalidatedTyped DEF Otps
<1>3. otps' = Append(rows, new)
  OBVIOUS
<1> HIDE DEF new, rows
<1>4. /\ otps' \in Seq(Otp) /\ Len(otps) \in Nat /\ Len(otps') = Len(otps) + 1
      /\ \A i \in 1..Len(otps) : otps'[i] = rows[i]
      /\ otps'[Len(otps) + 1] = new
  BY <1>1, <1>2, <1>3, Appended
<1>5. \A i \in Otps' : i \in 1..Len(otps) \/ i = Len(otps) + 1
  BY <1>4 DEF Otps
<1>6. \A i \in Otps' : InLimit(otps'[i])
  BY <1>1, <1>2, <1>4, <1>5
<1>7. \A i \in Otps : i \in Otps' /\ Becomes(otps[i], otps'[i])
  BY <1>2, <1>4 DEF Otps
<1> QED BY <1>1, <1>2, <1>4, <1>6, <1>7 DEF Grown, Otps

\* A send of the older service locks nothing.
LEMMA NothingLocked ==
  ASSUME TypeOK
  PROVE  Invalidated({}) = otps
<1>1. otps \in Seq(Otp)
  BY DEF TypeOK
<1>2. otps = [i \in 1..Len(otps) |-> otps[i]]
  BY <1>1
<1>3. Invalidated({}) = [i \in 1..Len(otps) |-> otps[i]]
  BY DEF Invalidated, Otps
<1> QED BY <1>2, <1>3

\* A try changes the row that was read.
LEMMA TriedRow ==
  ASSUME TypeOK, NEW t \in Threads, verify_commit(t)
  PROVE  /\ Grown
         /\ Len(otps') = Len(otps)
         /\ \A i \in Otps : otps'[i].verified =>
              \/ otps[i].verified /\ otps'[i].legitimately_verified = otps[i].legitimately_verified
              \/ otps'[i].legitimately_verified
<1> DEFINE k == request[t].otp
           req == request[t]
<1>1. otps \in Seq(Otp) /\ \A i \in Otps : InLimit(otps[i])
  BY DEF TypeOK, InLimit
<1>2. k \in Otps /\ req.attempts < otps[k].max_attempts
  BY DEF TypeOK, verify_commit
<1>3. req \in [op : {"verify"}, otp : Nat, attempts : Nat, correct : BOOLEAN]
  <2>1. req \in Request /\ req.op = "verify"
    BY DEF TypeOK, verify_commit
  <2> HIDE DEF req
  <2> QED BY <2>1 DEF Request
<1>4. otps[k] \in Otp /\ InLimit(otps[k]) /\ Len(otps) \in Nat
  BY <1>1, <1>2 DEF Otps
<1> DEFINE new == Tried(otps[k], req)
<1>5. /\ new \in Otp /\ InLimit(new) /\ Becomes(otps[k], new)
      /\ new.verified =>
           \/ new.legitimately_verified
           \/ /\ otps[k].verified
              /\ new.legitimately_verified = otps[k].legitimately_verified
  BY <1>2, <1>3, <1>4, TriedTyped
<1>6. otps' = [otps EXCEPT ![k] = new]
  BY DEF verify_commit
<1> HIDE DEF new, k, req
<1>7. otps' \in Seq(Otp) /\ Len(otps') = Len(otps)
  BY <1>1, <1>2, <1>5, <1>6 DEF Otps
<1>8. \A i \in Otps : otps'[i] = IF i = k THEN new ELSE otps[i]
  BY <1>1, <1>6 DEF Otps
<1>9. \A i \in Otps : Becomes(otps[i], otps[i])
  BY DEF Becomes
<1>10. Otps' = Otps
  BY <1>7 DEF Otps
<1> QED BY <1>1, <1>5, <1>7, <1>8, <1>9, <1>10 DEF Grown

-----------------------------------------------------------------------------
(* Types *)

\* What a request remembers stays true while the table grows.
LEMMA StillOK ==
  ASSUME Grown, NEW r, RequestOK(r, otps)
  PROVE  RequestOK(r, otps')
<1>1. \A i \in 1..Len(otps) : i \in 1..Len(otps') /\ Becomes(otps[i], otps'[i])
  BY DEF Grown, Otps
<1> QED BY <1>1 DEF RequestOK, Becomes

\* A step gives one thread its next request and lets the table grow.
LEMMA TypeStep ==
  ASSUME TypeOK, Grown, in_deal' \subseteq Phones, clock' \in Nat,
         NEW t \in Threads, NEW r \in Request, RequestOK(r, otps'),
         request' = [request EXCEPT ![t] = r]
  PROVE  TypeOK'
<1>1. ASSUME NEW u \in Threads PROVE request'[u] \in Request /\ RequestOK(request'[u], otps')
  <2>1. RequestOK(request[u], otps) /\ request[u] \in Request
    BY DEF TypeOK, RequestOK, Of, Otps
  <2>2. RequestOK(request[u], otps')
    BY <2>1, StillOK
  <2>3. request'[u] = IF u = t THEN r ELSE request[u]
    BY DEF TypeOK
  <2> QED BY <2>1, <2>2, <2>3
<1>2. request' \in [Threads -> Request]
  BY <1>1 DEF TypeOK
<1>3. \A i \in Otps' : otps'[i].attempts <= otps'[i].max_attempts \/ otps'[i].verified
  BY DEF Grown, InLimit
<1>4. ASSUME NEW u \in Threads
      PROVE  /\ request'[u].op = "resend" => request'[u].old \subseteq Of(request[u].pair)'
             /\ request'[u].op = "verify" =>
                  /\ request'[u].otp \in Otps'
                  /\ request'[u].attempts < otps'[request'[u].otp].max_attempts
  BY <1>1 DEF RequestOK, Of, Otps
<1> QED BY <1>2, <1>3, <1>4 DEF TypeOK, Grown

\* Where the table does not change, it is as it was.
LEMMA SameTable ==
  ASSUME TypeOK, otps' = otps
  PROVE  Grown
BY DEF TypeOK, Grown, InLimit, Becomes, Otps

LEMMA SameRequests ==
  ASSUME TypeOK, UNCHANGED <<otps, request>>, in_deal' \subseteq Phones, clock' \in Nat
  PROVE  TypeOK'
BY DEF TypeOK, Otps, Of

LEMMA IdleOK == Idle \in Request /\ \A table : RequestOK(Idle, table)
BY DEF Idle, Request, RequestOK

LEMMA TypeNext == TypeOK /\ [Next]_vars => TypeOK'
<1> SUFFICES ASSUME TypeOK, [Next]_vars PROVE TypeOK'
  OBVIOUS
<1>1. CASE Tick
  BY <1>1, SameRequests DEF Tick, TypeOK
<1>2. ASSUME NEW p \in Phones, TakePhone(p) \/ FreePhone(p) PROVE TypeOK'
  BY <1>2, SameRequests DEF TakePhone, FreePhone, TypeOK
<1>3. ASSUME NEW t \in Threads, send_invalidate(t) PROVE TypeOK'
  <2> DEFINE r == [op |-> "resend", pair |-> request[t].pair, old |-> Unverified(request[t].pair)]
  <2>1. request[t] \in Request /\ request[t].op = "send"
    BY <1>3 DEF send_invalidate, TypeOK
  <2>2. request[t].pair \in Pairs
    BY <2>1 DEF Request
  <2>3. Unverified(request[t].pair) \subseteq {i \in 1..Len(otps) : otps[i].pair = request[t].pair}
    BY DEF Unverified, Of, Otps
  <2>4. otps \in Seq(Otp) /\ Len(otps) \in Nat
    BY DEF TypeOK
  <2>5. r \in Request /\ RequestOK(r, otps)
    <3> HIDE DEF Unverified
    <3>1. Unverified(request[t].pair) \in SUBSET Nat
      BY <2>3, <2>4
    <3> QED BY <2>2, <2>3, <3>1 DEF Request, RequestOK
  <2>6. request' = [request EXCEPT ![t] = r] /\ UNCHANGED <<otps, in_deal, clock>>
    BY <1>3 DEF send_invalidate
  <2> HIDE DEF r
  <2> QED BY <2>5, <2>6, SameTable, TypeStep DEF TypeOK
<1>4. ASSUME NEW t \in Threads, send_commit(t) PROVE TypeOK'
  <2>1. request[t] \in Request /\ request[t].op = "resend"
    BY <1>4 DEF send_commit, TypeOK
  <2>2. request[t].pair \in Pairs
    BY <2>1 DEF Request
  <2>3. Grown
    BY <1>4, <2>2, Sent DEF send_commit
  <2>4. UNCHANGED <<in_deal, clock>> /\ request' = [request EXCEPT ![t] = Idle]
    BY <1>4 DEF send_commit
  <2> QED BY <2>3, <2>4, IdleOK, TypeStep DEF TypeOK
<1>5. ASSUME NEW t \in Threads, verify_commit(t) PROVE TypeOK'
  <2>1. Grown
    BY <1>5, TriedRow
  <2>2. UNCHANGED <<in_deal, clock>> /\ request' = [request EXCEPT ![t] = Idle]
    BY <1>5 DEF verify_commit
  <2> QED BY <2>1, <2>2, IdleOK, TypeStep DEF TypeOK
<1>6. ASSUME NEW t \in Threads, legacy_send_commit(t) PROVE TypeOK'
  <2>1. request[t] \in Request /\ request[t].op = "legacy"
    BY <1>6 DEF legacy_send_commit, TypeOK
  <2>2. request[t].pair \in Pairs
    BY <2>1 DEF Request
  <2>3. Grown
    BY <1>6, <2>2, NothingLocked, Sent DEF legacy_send_commit
  <2>4. UNCHANGED <<in_deal, clock>> /\ request' = [request EXCEPT ![t] = Idle]
    BY <1>6 DEF legacy_send_commit
  <2> QED BY <2>3, <2>4, IdleOK, TypeStep DEF TypeOK
<1>7. ASSUME NEW t \in Threads, NEW pair \in Pairs,
             send_check(t, pair) \/ legacy_send_check(t, pair)
      PROVE  TypeOK'
  <2>1. PICK op \in {"send", "legacy"} : request' = [request EXCEPT ![t] = [op |-> op, pair |-> pair]]
    BY <1>7 DEF send_check, legacy_send_check
  <2> DEFINE r == [op |-> op, pair |-> pair]
  <2>2. r \in Request /\ RequestOK(r, otps)
    BY DEF Request, RequestOK
  <2>3. UNCHANGED <<otps, in_deal, clock>>
    BY <1>7 DEF send_check, legacy_send_check
  <2> HIDE DEF r
  <2> QED BY <2>1, <2>2, <2>3, SameTable, TypeStep DEF TypeOK, r
<1>8. ASSUME NEW t \in Threads, NEW pair \in Pairs, NEW correct \in BOOLEAN,
             verify_check(t, pair, correct)
      PROVE  TypeOK'
  <2>1. PICK i \in Newest(Unverified(pair)) :
          /\ Verifiable(i)
          /\ request' = [request EXCEPT ![t] =
                 [op |-> "verify", otp |-> i, attempts |-> otps[i].attempts, correct |-> correct]]
    BY <1>8 DEF verify_check
  <2>2. i \in 1..Len(otps) /\ otps \in Seq(Otp)
    BY <2>1 DEF Newest, Unverified, Of, Otps, TypeOK
  <2>3. i \in Nat /\ otps[i] \in Otp
    BY <2>2
  <2>4. otps[i].attempts \in Nat /\ otps[i].attempts < otps[i].max_attempts
    BY <2>1, <2>3, AttemptsAssumption DEF Verifiable, Otp
  <2> DEFINE r == [op |-> "verify", otp |-> i, attempts |-> otps[i].attempts, correct |-> correct]
  <2>5. r \in Request /\ RequestOK(r, otps)
    BY <2>2, <2>3, <2>4 DEF Request, RequestOK
  <2>6. UNCHANGED <<otps, in_deal, clock>>
    BY <1>8 DEF verify_check
  <2> HIDE DEF r
  <2> QED BY <2>1, <2>5, <2>6, SameTable, TypeStep DEF TypeOK, r
<1>9. CASE UNCHANGED vars
  BY <1>9, SameRequests DEF vars, TypeOK
<1>10. ASSUME NEW t \in Threads, NEW pair \in Pairs,
              \/ legacy_verify(t)
              \/ send_refused(t, pair)
              \/ verify_refused(t, pair)
              \/ legacy_send_refused(t, pair)
       PROVE  TypeOK'
  BY <1>9, <1>10 DEF legacy_verify, send_refused, verify_refused, legacy_send_refused
<1>11. ASSUME NEW t \in Threads, legacy_verify(t) PROVE TypeOK'
  BY <1>9, <1>11 DEF legacy_verify
<1> QED
  BY <1>1, <1>2, <1>3, <1>4, <1>5, <1>6, <1>7, <1>8, <1>9, <1>10, <1>11 DEF Next

\* The types, with the attempts of every code that can still be tried within
\* the limit of the service that sent it (verify_otp_secure, steps 4 and 5).
THEOREM Typed == Spec => []TypeOK
<1>1. Init => TypeOK
  BY DEF Init, TypeOK, Otps, Idle, Request
<1> QED BY <1>1, TypeNext, PTL DEF Spec

-----------------------------------------------------------------------------
(* The newest code *)

\* Each step leaves the table alone, changes the row of one try, or appends a
\* code after locking some rows of the same pair.
LEMMA Steps ==
  ASSUME TypeOK, [Next]_vars
  PROVE  \/ otps' = otps
         \/ \E t \in Threads : verify_commit(t)
         \/ \E pair \in Pairs : \E old \in SUBSET Of(pair),
               limit \in {MAX_VERIFY_ATTEMPTS, LEGACY_VERIFY_ATTEMPTS} :
               otps' = Append(Invalidated(old), NewOtp(pair, limit))
<1>1. CASE Tick \/ \E p \in Phones : TakePhone(p) \/ FreePhone(p)
  BY <1>1 DEF Tick, TakePhone, FreePhone
<1>2. CASE \E t \in Threads : \/ send_invalidate(t)
                             \/ legacy_verify(t)
                             \/ \E pair \in Pairs :
                                  \/ send_refused(t, pair)
                                  \/ send_check(t, pair)
                                  \/ verify_refused(t, pair)
                                  \/ legacy_send_refused(t, pair)
                                  \/ legacy_send_check(t, pair)
                                  \/ \E correct \in BOOLEAN : verify_check(t, pair, correct)
  BY <1>2 DEF send_invalidate, legacy_verify, send_refused, send_check, verify_refused,
     legacy_send_refused, legacy_send_check, verify_check, vars
<1>3. ASSUME NEW t \in Threads, send_commit(t)
      PROVE  \E pair \in Pairs : \E old \in SUBSET Of(pair),
               limit \in {MAX_VERIFY_ATTEMPTS, LEGACY_VERIFY_ATTEMPTS} :
               otps' = Append(Invalidated(old), NewOtp(pair, limit))
  <2>1. request[t] \in Request /\ request[t].op = "resend"
    BY <1>3 DEF send_commit, TypeOK
  <2>2. request[t].pair \in Pairs
    BY <2>1 DEF Request
  <2>3. request[t].old \in SUBSET Of(request[t].pair)
    BY <2>1 DEF TypeOK
  <2> QED BY <1>3, <2>2, <2>3 DEF send_commit
<1>4. ASSUME NEW t \in Threads, legacy_send_commit(t)
      PROVE  \E pair \in Pairs : \E old \in SUBSET Of(pair),
               limit \in {MAX_VERIFY_ATTEMPTS, LEGACY_VERIFY_ATTEMPTS} :
               otps' = Append(Invalidated(old), NewOtp(pair, limit))
  <2>1. request[t] \in Request /\ request[t].op = "legacy"
    BY <1>4 DEF legacy_send_commit, TypeOK
  <2>2. request[t].pair \in Pairs
    BY <2>1 DEF Request
  <2>3. otps' = Append(Invalidated({}), NewOtp(request[t].pair, LEGACY_VERIFY_ATTEMPTS))
    BY <1>4, NothingLocked DEF legacy_send_commit
  <2>4. {} \in SUBSET Of(request[t].pair)
    OBVIOUS
  <2> QED BY <2>2, <2>3, <2>4
<1>5. CASE UNCHANGED vars
  BY <1>5 DEF vars
<1> QED BY <1>1, <1>2, <1>3, <1>4, <1>5 DEF Next

LEMMA GrowsOrStays ==
  ASSUME TypeOK, [Next]_vars
  PROVE  Grown
BY Steps, SameTable, TriedRow, Sent

LEMMA NewestNext == TypeOK /\ NewestOtpUsable /\ [Next]_vars => NewestOtpUsable'
<1> SUFFICES ASSUME TypeOK, NewestOtpUsable, [Next]_vars,
                    NEW pair \in Pairs, NEW last \in Of(pair)',
                    \A i \in Of(pair)' : i <= last,
                    otps'[last].verified
             PROVE  otps'[last].legitimately_verified
  BY DEF NewestOtpUsable
<1>0. Len(otps) \in Nat
  BY DEF TypeOK
<1>1. CASE otps' = otps
  BY <1>1 DEF NewestOtpUsable, Of, Otps
<1>2. ASSUME NEW t \in Threads, verify_commit(t)
      PROVE  otps'[last].legitimately_verified
  <2>1. /\ Len(otps') = Len(otps)
        /\ \A i \in Otps : otps'[i].pair = otps[i].pair
        /\ \A i \in Otps : otps[i].legitimately_verified => otps'[i].legitimately_verified
    BY <1>2, TriedRow DEF Grown, Becomes
  <2>2. last \in Of(pair) /\ \A i \in Of(pair) : i <= last
    BY <2>1 DEF Of, Otps
  <2>3. last \in Otps
    BY <2>2 DEF Of
  <2>4. CASE otps[last].verified
    BY <2>1, <2>2, <2>3, <2>4 DEF NewestOtpUsable
  <2>5. CASE ~ otps[last].verified
    BY <1>2, <2>3, <2>5, TriedRow
  <2> QED BY <2>4, <2>5
<1>3. ASSUME NEW p \in Pairs, NEW old \in SUBSET Of(p),
             NEW limit \in {MAX_VERIFY_ATTEMPTS, LEGACY_VERIFY_ATTEMPTS},
             otps' = Append(Invalidated(old), NewOtp(p, limit))
      PROVE  otps'[last].legitimately_verified
  <2> DEFINE n == Len(otps) + 1
  <2>1. /\ Len(otps') = n
        /\ \A i \in Otps : otps'[i].pair = otps[i].pair
        /\ \A i \in Otps : i \notin old => otps'[i] = otps[i]
        /\ otps'[n].pair = p
        /\ ~ otps'[n].verified
    <3>1. /\ Grown
          /\ \A i \in Otps : IF i \in old THEN otps'[i].verified ELSE otps'[i] = otps[i]
          /\ Len(otps') = n /\ otps'[n].pair = p /\ ~ otps'[n].verified
      BY <1>3, Sent
    <3> QED BY <3>1 DEF Grown, Becomes
  <2>2. last \in 1..n /\ otps'[last].pair = pair
    BY <2>1 DEF Of, Otps
  <2>3. last # n
    BY <2>1
  <2>4. last \in Otps
    BY <1>0, <2>2, <2>3 DEF Otps
  <2>5. pair # p
    <3> SUFFICES ASSUME pair = p PROVE FALSE
      OBVIOUS
    <3>1. n \in Of(pair)'
      BY <1>0, <2>1 DEF Of, Otps
    <3> QED BY <1>0, <2>2, <2>3, <3>1
  <2>6. last \notin old /\ last \in Of(pair)
    BY <2>1, <2>2, <2>4, <2>5 DEF Of
  <2>7. \A i \in Of(pair) : i <= last
    BY <1>0, <2>1 DEF Of, Otps
  <2> QED BY <2>1, <2>4, <2>6, <2>7 DEF NewestOtpUsable
<1> QED BY <1>1, <1>2, <1>3, Steps

\* However requests of both services overlap, the code a customer was sent last
\* is never one that a resend has locked (send_otp_secure, steps 4 to 6).
THEOREM NewestUsable == Spec => []NewestOtpUsable
<1>1. Init => TypeOK /\ NewestOtpUsable
  BY DEF Init, TypeOK, NewestOtpUsable, Of, Otps, Idle, Request
<1> QED BY <1>1, TypeNext, NewestNext, PTL DEF Spec

\* A verified phone stays verified and a used or locked code stays so, for any
\* number of overlapping requests: create_deal may rely on what it has read.
THEOREM Lasts == Spec => VerificationLasts
<1>1. TypeOK /\ [Next]_vars =>
        [/\ \A p \in Phones : is_phone_verified_for_deal(p) => is_phone_verified_for_deal(p)'
         /\ \A i \in Otps : otps[i].verified => otps'[i].verified]_vars
  <2> SUFFICES ASSUME TypeOK, [Next]_vars
               PROVE  /\ \A p \in Phones :
                            is_phone_verified_for_deal(p) => is_phone_verified_for_deal(p)'
                      /\ \A i \in Otps : otps[i].verified => otps'[i].verified
    OBVIOUS
  <2>1. \A i \in Otps : i \in Otps' /\ Becomes(otps[i], otps'[i])
    BY GrowsOrStays DEF Grown
  <2> QED BY <2>1 DEF Becomes, is_phone_verified_for_deal
<1>2. Spec => []TypeOK
  BY Typed
<1> QED BY <1>1, <1>2, PTL DEF Spec, VerificationLasts

-----------------------------------------------------------------------------
(* Requests that overlap: the codes of a window *)

\* The codes of the window, and the requests about to add one, that have v for
\* an email (k = 1) or a phone (k = 2).
InWindow(k, v) ==
  {i \in Otps : otps[i].pair[k] = v /\ otps[i].created_at >= clock - RATE_LIMIT_WINDOW}
Adding(k, v) == {t \in Sending : request[t].pair[k] = v}

\* A request passes the limit while a place is free, and then at most the other
\* threads are about to add a code as well.
WithinLimit(k, v) ==
  /\ IsFiniteSet(InWindow(k, v))
  /\ Cardinality(InWindow(k, v)) + Cardinality(Adding(k, v))
       <= MAX_OTP_PER_WINDOW + Cardinality(Threads) - 1

WindowInv == \A pair \in Pairs, k \in {1, 2} : WithinLimit(k, pair[k])

LEMMA OtpsFinite ==
  ASSUME TypeOK, NEW S \in SUBSET Otps
  PROVE  IsFiniteSet(S) /\ Cardinality(S) \in Nat
<1>1. Len(otps) \in Nat
  BY DEF TypeOK
<1>2. IsFiniteSet(Otps)
  BY <1>1, FS_Interval DEF Otps
<1> QED BY <1>2, FS_Subset, FS_CardinalityType

LEMMA ThreadsFinite ==
  ASSUME NEW S \in SUBSET Threads
  PROVE  /\ IsFiniteSet(S) /\ Cardinality(S) \in Nat
         /\ Cardinality(S) <= Cardinality(Threads)
         /\ Cardinality(Threads) \in Nat /\ Cardinality(Threads) >= 1
<1>1. IsFiniteSet(Threads) /\ Threads # {}
  BY ThreadsAssumption
<1>2. Cardinality(Threads) \in Nat /\ Cardinality(Threads) # 0
  BY <1>1, FS_EmptySet, FS_CardinalityType
<1> QED BY <1>1, <1>2, FS_Subset, FS_CardinalityType

\* The window moves on, the table stays or one row of it is tried, and nobody
\* starts to send.
LEMMA WindowShrinks ==
  ASSUME TypeOK, TypeOK', Grown, Len(otps') = Len(otps), clock' >= clock,
         NEW k, NEW v, WithinLimit(k, v), Adding(k, v)' \subseteq Adding(k, v)
  PROVE  WithinLimit(k, v)'
<1>1. Otps' = Otps
  BY DEF Otps
<1>2. ASSUME NEW i \in InWindow(k, v)' PROVE i \in InWindow(k, v)
  <2>1. i \in Otps /\ otps'[i].pair[k] = v /\ otps'[i].created_at >= clock' - RATE_LIMIT_WINDOW
    BY <1>1, <1>2 DEF InWindow
  <2>2. otps[i].pair = otps'[i].pair /\ otps[i].created_at = otps'[i].created_at
    BY <2>1 DEF Grown, Becomes
  <2>3. otps[i].created_at \in Nat
    <3>1. otps \in Seq(Otp) /\ i \in 1..Len(otps)
      BY <2>1 DEF TypeOK, Otps
    <3>2. otps[i] \in Otp
      BY <3>1
    <3> QED BY <3>2 DEF Otp
  <2>4. clock \in Nat /\ clock' \in Nat
    BY DEF TypeOK
  <2> QED BY <2>1, <2>2, <2>3, <2>4, LimitAssumption DEF InWindow
<1>3. InWindow(k, v) \in SUBSET Otps /\ Adding(k, v) \in SUBSET Threads
  BY DEF InWindow, Adding, Sending
<1>4. /\ IsFiniteSet(InWindow(k, v)) /\ Cardinality(InWindow(k, v)) \in Nat
      /\ IsFiniteSet(Adding(k, v)) /\ Cardinality(Adding(k, v)) \in Nat
      /\ Cardinality(Threads) \in Nat
  BY <1>3, OtpsFinite, ThreadsFinite
<1>5. /\ IsFiniteSet(InWindow(k, v)')
      /\ Cardinality(InWindow(k, v)') \in Nat
      /\ Cardinality(InWindow(k, v)') <= Cardinality(InWindow(k, v))
  BY <1>2, <1>4, FS_Subset, FS_CardinalityType
<1>6. /\ Cardinality(Adding(k, v)') \in Nat
      /\ Cardinality(Adding(k, v)') <= Cardinality(Adding(k, v))
  BY <1>4, FS_Subset, FS_CardinalityType
<1> QED BY <1>4, <1>5, <1>6, LimitAssumption DEF WithinLimit

\* Checks 1 and 2 pass: the window of this email, and of this phone, has room.
LEMMA CheckedJoins ==
  ASSUME TypeOK, NEW t \in Threads, NEW pair \in Pairs,
         send_check(t, pair) \/ legacy_send_check(t, pair),
         NEW k \in {1, 2}, NEW v, WithinLimit(k, v)
  PROVE  WithinLimit(k, v)'
<1>1. PICK op \in {"send", "legacy"} :
        /\ request' = [request EXCEPT ![t] = [op |-> op, pair |-> pair]]
        /\ otps' = otps /\ clock' = clock
        /\ _check_rate_limit(pair) /\ request[t] = Idle
  BY DEF send_check, legacy_send_check, Sendable, LegacySendable
<1>2. InWindow(k, v)' = InWindow(k, v)
  BY <1>1 DEF InWindow, Otps
<1>3. \A s \in Threads : request'[s] = IF s = t THEN [op |-> op, pair |-> pair] ELSE request[s]
  BY <1>1 DEF TypeOK
<1>4. InWindow(k, v) \in SUBSET Otps /\ Recent(pair) \in SUBSET Otps
      /\ Adding(k, v)' \in SUBSET Threads /\ Adding(k, v) \in SUBSET Threads
  BY DEF InWindow, Recent, Adding, Sending
<1>5. /\ IsFiniteSet(InWindow(k, v)) /\ Cardinality(InWindow(k, v)) \in Nat
      /\ IsFiniteSet(Recent(pair)) /\ Cardinality(Recent(pair)) \in Nat
      /\ IsFiniteSet(Adding(k, v)) /\ Cardinality(Adding(k, v)) \in Nat
      /\ Cardinality(Adding(k, v)') \in Nat /\ Cardinality(Adding(k, v)') <= Cardinality(Threads)
      /\ Cardinality(Threads) \in Nat
  BY <1>4, OtpsFinite, ThreadsFinite
<1>6. CASE pair[k] = v
  <2>1. InWindow(k, v) \in SUBSET Recent(pair)
    BY <1>6 DEF InWindow, Recent
  <2>2. Cardinality(InWindow(k, v)) <= Cardinality(Recent(pair))
    BY <1>5, <2>1, FS_Subset
  <2>3. Cardinality(Recent(pair)) < MAX_OTP_PER_WINDOW
    BY <1>1 DEF _check_rate_limit
  <2> QED BY <1>2, <1>5, <2>2, <2>3, LimitAssumption DEF WithinLimit
<1>7. CASE pair[k] # v
  <2>1. Adding(k, v)' \in SUBSET Adding(k, v)
    <3>1. ASSUME NEW s \in Adding(k, v)' PROVE s \in Adding(k, v)
      BY <1>3, <1>7, <3>1 DEF Adding, Sending
    <3> QED BY <3>1
  <2>2. Cardinality(Adding(k, v)') <= Cardinality(Adding(k, v))
    BY <1>5, <2>1, FS_Subset
  <2> QED BY <1>2, <1>5, <2>2, LimitAssumption DEF WithinLimit
<1> QED BY <1>6, <1>7

\* A code is committed: it takes the place of the request that was to add it.
LEMMA CodeAdded ==
  ASSUME TypeOK, TypeOK', NEW t \in Threads, t \in Sending, NEW old,
         NEW limit \in {MAX_VERIFY_ATTEMPTS, LEGACY_VERIFY_ATTEMPTS},
         request[t].pair \in Pairs,
         otps' = Append(Invalidated(old), NewOtp(request[t].pair, limit)),
         request' = [request EXCEPT ![t] = Idle], clock' = clock,
         NEW k \in {1, 2}, NEW v, WithinLimit(k, v)
  PROVE  WithinLimit(k, v)'
<1> DEFINE p == request[t].pair
           n == Len(otps) + 1
<1>1. /\ Grown /\ Len(otps) \in Nat /\ Len(otps') = n /\ otps'[n].pair = p
  BY Sent
<1>2. Otps' = Otps \cup {n} /\ n \notin Otps
  BY <1>1 DEF Otps
<1>3. \A i \in Otps : /\ otps'[i].pair = otps[i].pair
                      /\ otps'[i].created_at = otps[i].created_at
  BY <1>1 DEF Grown, Becomes
<1> HIDE DEF n, p
<1>4. \A i \in InWindow(k, v)' : i \in InWindow(k, v) \/ (i = n /\ p[k] = v)
  BY <1>1, <1>2, <1>3 DEF InWindow
<1>5. /\ Adding(k, v)' = Adding(k, v) \ {t}
      /\ t \in Adding(k, v) <=> p[k] = v
  <2>1. \A s \in Threads : request'[s] = IF s = t THEN Idle ELSE request[s]
    BY DEF TypeOK
  <2>2. Idle.op = "idle"
    BY DEF Idle
  <2> QED BY <2>1, <2>2 DEF Adding, Sending, p
<1>6. InWindow(k, v) \in SUBSET Otps /\ Adding(k, v) \in SUBSET Threads
  BY DEF InWindow, Adding, Sending
<1>7. /\ IsFiniteSet(InWindow(k, v)) /\ Cardinality(InWindow(k, v)) \in Nat
      /\ IsFiniteSet(Adding(k, v)) /\ Cardinality(Adding(k, v)) \in Nat
      /\ Cardinality(Threads) \in Nat
  BY <1>6, OtpsFinite, ThreadsFinite
<1>8. CASE p[k] = v
  <2>1. InWindow(k, v)' \in SUBSET (InWindow(k, v) \cup {n})
    BY <1>4
  <2>2. /\ IsFiniteSet(InWindow(k, v) \cup {n})
        /\ Cardinality(InWindow(k, v) \cup {n}) = Cardinality(InWindow(k, v)) + 1
    <3>1. n \notin InWindow(k, v)
      BY <1>2, <1>6
    <3> QED BY <1>7, <3>1, FS_AddElement
  <2>3. /\ IsFiniteSet(InWindow(k, v)')
        /\ Cardinality(InWindow(k, v)') \in Nat
        /\ Cardinality(InWindow(k, v)') <= Cardinality(InWindow(k, v)) + 1
    BY <2>1, <2>2, FS_Subset, FS_CardinalityType
  <2>4. Cardinality(Adding(k, v)') = Cardinality(Adding(k, v)) - 1
    BY <1>5, <1>7, <1>8, FS_RemoveElement
  <2> QED BY <1>7, <2>3, <2>4, LimitAssumption DEF WithinLimit
<1>9. CASE p[k] # v
  <2>1. InWindow(k, v)' \in SUBSET InWindow(k, v)
    BY <1>4, <1>9
  <2>2. /\ IsFiniteSet(InWindow(k, v)')
        /\ Cardinality(InWindow(k, v)') \in Nat
        /\ Cardinality(InWindow(k, v)') <= Cardinality(InWindow(k, v))
    BY <1>7, <2>1, FS_Subset, FS_CardinalityType
  <2>3. Adding(k, v)' = Adding(k, v)
    BY <1>5, <1>9
  <2> QED BY <1>7, <2>2, <2>3, LimitAssumption DEF WithinLimit
<1> QED BY <1>8, <1>9

\* A step of a thread other than the checks of a send and the commits of a code
\* leaves the table, but for the row of a try, and adds no sender.
LEMMA OtherThreadSteps ==
  ASSUME TypeOK, NEW t \in Threads,
         \/ send_invalidate(t) \/ verify_commit(t)
         \/ \E pair \in Pairs, correct \in BOOLEAN : verify_check(t, pair, correct),
         NEW k, NEW v
  PROVE  Adding(k, v)' \subseteq Adding(k, v) /\ clock' = clock
<1>1. ASSUME NEW r, request' = [request EXCEPT ![t] = r],
             \/ r.op = "resend" /\ r.pair = request[t].pair /\ request[t].op = "send"
             \/ r.op \in {"idle", "verify"}
      PROVE  Adding(k, v)' \subseteq Adding(k, v)
  <2>1. \A s \in Threads : request'[s] = IF s = t THEN r ELSE request[s]
    BY <1>1 DEF TypeOK
  <2> QED BY <1>1, <2>1 DEF Adding, Sending
<1>2. CASE send_invalidate(t)
  <2> DEFINE r == [op |-> "resend", pair |-> request[t].pair, old |-> Unverified(request[t].pair)]
  <2>1. request' = [request EXCEPT ![t] = r] /\ clock' = clock /\ request[t].op = "send"
    BY <1>2 DEF send_invalidate
  <2>2. r.op = "resend" /\ r.pair = request[t].pair
    OBVIOUS
  <2> HIDE DEF r
  <2> QED BY <1>1, <2>1, <2>2
<1>3. CASE verify_commit(t)
  <2>1. request' = [request EXCEPT ![t] = Idle] /\ clock' = clock /\ Idle.op = "idle"
    BY <1>3 DEF verify_commit, Idle
  <2> QED BY <1>1, <2>1
<1>4. ASSUME NEW pair \in Pairs, NEW correct \in BOOLEAN, verify_check(t, pair, correct)
      PROVE  Adding(k, v)' \subseteq Adding(k, v) /\ clock' = clock
  <2>1. PICK i \in Newest(Unverified(pair)) :
          request' = [request EXCEPT ![t] =
              [op |-> "verify", otp |-> i, attempts |-> otps[i].attempts, correct |-> correct]]
    BY <1>4 DEF verify_check
  <2> DEFINE r == [op |-> "verify", otp |-> i, attempts |-> otps[i].attempts, correct |-> correct]
  <2>2. r.op = "verify" /\ request' = [request EXCEPT ![t] = r] /\ clock' = clock
    BY <1>4, <2>1 DEF verify_check
  <2> HIDE DEF r
  <2> QED BY <1>1, <2>2
<1> QED BY <1>2, <1>3, <1>4

LEMMA WindowNext ==
  ASSUME TypeOK, TypeOK', WindowInv, [Next]_vars
  PROVE  WindowInv'
<1> SUFFICES ASSUME NEW pair \in Pairs, NEW k \in {1, 2}, NEW v, v = pair[k]
             PROVE  WithinLimit(k, v)'
  BY DEF WindowInv
<1>1. WithinLimit(k, v)
  BY DEF WindowInv
<1>2. ASSUME Len(otps') = Len(otps), clock' >= clock, Adding(k, v)' \subseteq Adding(k, v)
      PROVE  WithinLimit(k, v)'
  BY <1>1, <1>2, GrowsOrStays, WindowShrinks
<1>3. ASSUME otps' = otps, request' = request, clock' >= clock PROVE WithinLimit(k, v)'
  BY <1>2, <1>3 DEF Adding, Sending
<1>4. clock \in Nat
  BY DEF TypeOK
<1>5. CASE Tick \/ \E p \in Phones : TakePhone(p) \/ FreePhone(p)
  BY <1>3, <1>4, <1>5 DEF Tick, TakePhone, FreePhone
<1>6. ASSUME NEW t \in Threads,
             \/ send_invalidate(t) \/ verify_commit(t)
             \/ \E p \in Pairs, correct \in BOOLEAN : verify_check(t, p, correct)
      PROVE  WithinLimit(k, v)'
  <2>1. Len(otps') = Len(otps)
    BY <1>6, TriedRow DEF send_invalidate, verify_check
  <2> QED BY <1>2, <1>4, <1>6, <2>1, OtherThreadSteps
<1>7. ASSUME NEW t \in Threads, send_commit(t) PROVE WithinLimit(k, v)'
  <2>1. request[t] \in Request /\ request[t].op = "resend"
    BY <1>7 DEF send_commit, TypeOK
  <2>2. request[t].pair \in Pairs /\ t \in Sending
    BY <2>1 DEF Request, Sending
  <2> QED BY <1>1, <1>7, <2>2, CodeAdded DEF send_commit
<1>8. ASSUME NEW t \in Threads, legacy_send_commit(t) PROVE WithinLimit(k, v)'
  <2>1. request[t] \in Request /\ request[t].op = "legacy"
    BY <1>8 DEF legacy_send_commit, TypeOK
  <2>2. request[t].pair \in Pairs /\ t \in Sending
    BY <2>1 DEF Request, Sending
  <2>3. otps' = Append(Invalidated({}), NewOtp(request[t].pair, LEGACY_VERIFY_ATTEMPTS))
    BY <1>8, NothingLocked DEF legacy_send_commit
  <2> QED BY <1>1, <1>8, <2>2, <2>3, CodeAdded DEF legacy_send_commit
<1>9. ASSUME NEW t \in Threads, NEW p \in Pairs,
             send_check(t, p) \/ legacy_send_check(t, p)
      PROVE  WithinLimit(k, v)'
  BY <1>1, <1>9, CheckedJoins
<1>10. CASE UNCHANGED vars
  BY <1>3, <1>4, <1>10 DEF vars
<1>11. CASE \E t \in Threads : \/ legacy_verify(t)
                              \/ \E p \in Pairs : \/ send_refused(t, p)
                                                 \/ verify_refused(t, p)
                                                 \/ legacy_send_refused(t, p)
  BY <1>10, <1>11 DEF legacy_verify, send_refused, verify_refused, legacy_send_refused
<1> QED BY <1>5, <1>6, <1>7, <1>8, <1>9, <1>10, <1>11 DEF Next

-----------------------------------------------------------------------------
(* Requests that overlap: the usable codes of a customer *)

Usable(pair) == {i \in Unverified(pair) : Secure(i)}

\* Every usable code of the newer service can be put down to a thread of its
\* own: one that resends now has seen, and is going to lock, the code it is
\* charged with, so it never leaves a second.
Charged(pair, by) ==
  /\ by \in [Usable(pair) -> Threads]
  /\ \A i, j \in Usable(pair) : by[i] = by[j] => i = j
  /\ \A i \in Usable(pair) :
       LET r == request[by[i]]
       IN  r.op = "resend" /\ r.pair = pair => i \in r.old

UsableInv == \A pair \in Pairs : \E by : Charged(pair, by)

\* What a charging of the codes after a step comes down to.
LEMMA NewlyCharged ==
  ASSUME NEW pair, NEW left, left = Usable(pair)', NEW new \in [left -> Threads],
         \A i, j \in left : new[i] = new[j] => i = j,
         \A i \in left :
            request'[new[i]].op = "resend" /\ request'[new[i]].pair = pair =>
                i \in request'[new[i]].old
  PROVE  \E by : Charged(pair, by)'
<1>1. Charged(pair, new)'
  BY DEF Charged
<1> QED BY <1>1

\* Codes are tried or locked, and a thread that resends does so as before or
\* has just seen all of them.
LEMMA FewerUsable ==
  ASSUME NEW pair, NEW by, Charged(pair, by), Usable(pair)' \subseteq Usable(pair),
         \A t \in Threads :
            request'[t].op = "resend" /\ request'[t].pair = pair =>
                request'[t] = request[t] \/ Usable(pair)' \subseteq request'[t].old
  PROVE  \E new : Charged(pair, new)'
<1>0. PICK left : left = Usable(pair)'
  OBVIOUS
<1> DEFINE new == [i \in left |-> by[i]]
<1>1. new \in [left -> Threads]
  BY <1>0 DEF Charged
<1>2. \A i, j \in left : new[i] = new[j] => i = j
  BY <1>0 DEF Charged
<1>3. ASSUME NEW i \in left,
             request'[new[i]].op = "resend" /\ request'[new[i]].pair = pair
      PROVE  i \in request'[new[i]].old
  BY <1>0, <1>1, <1>3 DEF Charged
<1> HIDE DEF new
<1> QED BY <1>0, <1>1, <1>2, <1>3, NewlyCharged

\* The usable codes after a step of the table.
LEMMA UsableKept ==
  ASSUME TypeOK, Grown, NEW pair, NEW i \in Usable(pair)', i \in Otps
  PROVE  i \in Usable(pair)
BY DEF Usable, Unverified, Of, Secure, Grown, Becomes

\* A resend locks the codes it has seen, so that the one it adds is the only
\* one its thread is charged with.
LEMMA ResentCharged ==
  ASSUME TypeOK, NEW t \in Threads, send_commit(t), NEW pair \in Pairs,
         NEW by, Charged(pair, by)
  PROVE  \E new : Charged(pair, new)'
<1> DEFINE p == request[t].pair
           old == request[t].old
           n == Len(otps) + 1
<1>1. /\ request[t].op = "resend" /\ p \in Pairs
      /\ otps' = Append(Invalidated(old), NewOtp(p, MAX_VERIFY_ATTEMPTS))
      /\ request' = [request EXCEPT ![t] = Idle]
  <2>1. request[t] \in Request /\ request[t].op = "resend"
    BY DEF TypeOK, send_commit
  <2>2. p \in Pairs
    BY <2>1 DEF Request
  <2> QED BY <2>1, <2>2 DEF send_commit
<1>2. /\ Grown /\ Len(otps) \in Nat /\ Len(otps') = n /\ otps'[n].pair = p
      /\ \A i \in Otps : i \in old => otps'[i].verified
  BY <1>1, Sent
<1>3. \A s \in Threads : request'[s] = IF s = t THEN Idle ELSE request[s]
  BY <1>1 DEF TypeOK
<1>4. Idle.op = "idle"
  BY DEF Idle
<1>5. Otps' = Otps \cup {n} /\ n \notin Otps
  BY <1>2 DEF Otps
<1>6. \A i \in Usable(pair)' :
         \/ i \in Usable(pair) /\ i \notin old
         \/ i = n /\ pair = p
  <2> SUFFICES ASSUME NEW i \in Usable(pair)'
               PROVE  \/ i \in Usable(pair) /\ i \notin old
                      \/ i = n /\ pair = p
    OBVIOUS
  <2>1. i \in Otps' /\ otps'[i].pair = pair /\ ~ otps'[i].verified
    BY DEF Usable, Unverified, Of
  <2> QED BY <1>2, <1>5, <2>1, UsableKept
<1> HIDE DEF n, p, old
<1>7. CASE pair # p
  <2>1. Usable(pair)' \subseteq Usable(pair)
    BY <1>6, <1>7
  <2> QED BY <1>3, <1>4, <2>1, FewerUsable
<1>8. CASE pair = p
  <2>1. \A i \in Usable(pair) : i \notin old => by[i] # t
    BY <1>1, <1>8 DEF Charged, old, p
  <2>0. PICK left : left = Usable(pair)'
    OBVIOUS
  <2> DEFINE new == [i \in left |-> IF i = n THEN t ELSE by[i]]
  <2>2. new \in [left -> Threads]
    BY <1>6, <2>0 DEF Charged
  <2>3. n \notin Usable(pair)
    BY <1>5 DEF Usable, Unverified, Of
  <2>4. \A i, j \in left : new[i] = new[j] => i = j
    BY <1>6, <2>0, <2>1 DEF Charged
  <2>5. ASSUME NEW i \in left,
               request'[new[i]].op = "resend" /\ request'[new[i]].pair = pair
        PROVE  i \in request'[new[i]].old
    <3>1. CASE i = n
      BY <1>3, <1>4, <2>5, <3>1
    <3>2. CASE i # n
      <4>1. i \in Usable(pair) /\ i \notin old /\ new[i] = by[i] /\ by[i] \in Threads
        BY <1>6, <2>0, <3>2 DEF Charged
      <4>2. request'[by[i]] = request[by[i]]
        BY <1>3, <2>1, <4>1
      <4> QED BY <2>5, <4>1, <4>2 DEF Charged
    <3> QED BY <3>1, <3>2
  <2> HIDE DEF new
  <2> QED BY <2>0, <2>2, <2>4, <2>5, NewlyCharged
<1> QED BY <1>7, <1>8

LEMMA UsableNext ==
  ASSUME TypeOK, UsableInv, [Next]_vars
  PROVE  UsableInv'
<1> SUFFICES ASSUME NEW pair \in Pairs PROVE \E new : Charged(pair, new)'
  BY DEF UsableInv
<1>1. PICK by : Charged(pair, by)
  BY DEF UsableInv
<1>2. Grown
  BY GrowsOrStays
<1>3. ASSUME Len(otps') = Len(otps),
             \A t \in Threads : request'[t].op = "resend" => request'[t] = request[t]
      PROVE  \E new : Charged(pair, new)'
  <2>1. Otps' = Otps
    BY <1>3 DEF Otps
  <2>2. Usable(pair)' \subseteq Usable(pair)
    BY <1>2, <2>1, UsableKept DEF Usable, Unverified, Of
  <2> QED BY <1>1, <1>3, <2>2, FewerUsable
<1>4. ASSUME NEW t \in Threads, NEW r, r.op # "resend", request' = [request EXCEPT ![t] = r],
             Len(otps') = Len(otps)
      PROVE  \E new : Charged(pair, new)'
  <2>1. \A s \in Threads : request'[s] = IF s = t THEN r ELSE request[s]
    BY <1>4 DEF TypeOK
  <2> QED BY <1>3, <1>4, <2>1
<1>5. CASE Tick \/ \E p \in Phones : TakePhone(p) \/ FreePhone(p)
  BY <1>3, <1>5 DEF Tick, TakePhone, FreePhone
<1>6. ASSUME NEW t \in Threads, send_invalidate(t) PROVE \E new : Charged(pair, new)'
  <2> DEFINE p == request[t].pair
             r == [op |-> "resend", pair |-> p, old |-> Unverified(p)]
  <2>1. request' = [request EXCEPT ![t] = r] /\ otps' = otps
    BY <1>6 DEF send_invalidate
  <2>2. r.pair = p /\ r.old = Unverified(p)
    OBVIOUS
  <2> HIDE DEF r, p
  <2>3. \A s \in Threads : request'[s] = IF s = t THEN r ELSE request[s]
    BY <2>1 DEF TypeOK
  <2>4. Usable(pair)' = Usable(pair)
    BY <2>1 DEF Usable, Unverified, Of, Otps, Secure
  <2>5. Usable(pair) \subseteq Unverified(pair)
    BY DEF Usable
  <2> QED BY <1>1, <2>2, <2>3, <2>4, <2>5, FewerUsable
<1>7. ASSUME NEW t \in Threads, send_commit(t) PROVE \E new : Charged(pair, new)'
  BY <1>1, <1>7, ResentCharged
<1>8. ASSUME NEW t \in Threads, verify_commit(t) PROVE \E new : Charged(pair, new)'
  <2>1. Len(otps') = Len(otps) /\ request' = [request EXCEPT ![t] = Idle] /\ Idle.op = "idle"
    BY <1>8, TriedRow DEF verify_commit, Idle
  <2> QED BY <1>4, <2>1
<1>9. ASSUME NEW t \in Threads, legacy_send_commit(t) PROVE \E new : Charged(pair, new)'
  <2> DEFINE n == Len(otps) + 1
  <2>1. request[t] \in Request /\ request[t].op = "legacy"
    BY <1>9 DEF legacy_send_commit, TypeOK
  <2>2. request[t].pair \in Pairs
    BY <2>1 DEF Request
  <2>3. otps' = Append(Invalidated({}), NewOtp(request[t].pair, LEGACY_VERIFY_ATTEMPTS))
    BY <1>9, NothingLocked DEF legacy_send_commit
  <2>4. Len(otps) \in Nat /\ Len(otps') = n /\ otps'[n].max_attempts = LEGACY_VERIFY_ATTEMPTS
    BY <2>2, <2>3, Sent
  <2>5. n \notin Usable(pair)'
    BY <2>4, AttemptsAssumption DEF Usable, Secure
  <2>6. \A i \in Otps' : i \in Otps \/ i = n
    BY <2>4 DEF Otps
  <2>7. Usable(pair)' \subseteq Usable(pair)
    BY <1>2, <2>5, <2>6, UsableKept DEF Usable, Unverified, Of
  <2>8. \A s \in Threads : request'[s] = IF s = t THEN Idle ELSE request[s]
    BY <1>9 DEF legacy_send_commit, TypeOK
  <2>9. Idle.op = "idle"
    BY DEF Idle
  <2> QED BY <1>1, <2>7, <2>8, <2>9, FewerUsable
<1>10. ASSUME NEW t \in Threads, NEW p \in Pairs, send_check(t, p) \/ legacy_send_check(t, p)
       PROVE  \E new : Charged(pair, new)'
  <2>1. PICK op \in {"send", "legacy"} :
          request' = [request EXCEPT ![t] = [op |-> op, pair |-> p]] /\ otps' = otps
    BY <1>10 DEF send_check, legacy_send_check
  <2> DEFINE r == [op |-> op, pair |-> p]
  <2>2. r.op # "resend" /\ request' = [request EXCEPT ![t] = r]
    BY <2>1
  <2> HIDE DEF r
  <2> QED BY <1>4, <2>1, <2>2
<1>11. ASSUME NEW t \in Threads, NEW p \in Pairs, NEW correct \in BOOLEAN,
              verify_check(t, p, correct)
       PROVE  \E new : Charged(pair, new)'
  <2>1. PICK i \in Newest(Unverified(p)) :
          request' = [request EXCEPT ![t] =
              [op |-> "verify", otp |-> i, attempts |-> otps[i].attempts, correct |-> correct]]
    BY <1>11 DEF verify_check
  <2> DEFINE r == [op |-> "verify", otp |-> i, attempts |-> otps[i].attempts, correct |-> correct]
  <2>2. r.op # "resend" /\ request' = [request EXCEPT ![t] = r] /\ otps' = otps
    BY <1>11, <2>1 DEF verify_check
  <2> HIDE DEF r
  <2> QED BY <1>4, <2>2
<1>12. CASE UNCHANGED vars
  BY <1>3, <1>12 DEF vars
<1>13. CASE \E t \in Threads : \/ legacy_verify(t)
                              \/ \E p \in Pairs : \/ send_refused(t, p)
                                                 \/ verify_refused(t, p)
                                                 \/ legacy_send_refused(t, p)
  BY <1>12, <1>13 DEF legacy_verify, send_refused, verify_refused, legacy_send_refused
<1> QED BY <1>5, <1>6, <1>7, <1>8, <1>9, <1>10, <1>11, <1>12, <1>13 DEF Next

\* The locks of a resend and the checks of the limits come before the commit
\* they are for: requests that overlap go beyond them by what is in flight and
\* no more, for any number of threads, limits and customers (OverlapBounded).
THEOREM OverlapsBounded == Spec => []OverlapBounded
<1>1. Init => TypeOK /\ WindowInv /\ UsableInv
  <2> SUFFICES ASSUME Init PROVE TypeOK /\ WindowInv /\ UsableInv
    OBVIOUS
  <2>1. TypeOK
    BY DEF Init, TypeOK, Otps, Idle, Request
  <2>2. Otps = {} /\ Sending = {}
    BY DEF Init, Otps, Sending, Idle
  <2>3. \A k, v : InWindow(k, v) = {} /\ Adding(k, v) = {}
    BY <2>2 DEF InWindow, Adding
  <2>4. Cardinality(Threads) \in Nat /\ Cardinality(Threads) >= 1
    BY ThreadsFinite
  <2>5. \A k, v : WithinLimit(k, v)
    BY <2>3, <2>4, FS_EmptySet, LimitAssumption DEF WithinLimit
  <2>6. ASSUME NEW pair PROVE \E by : Charged(pair, by)
    <3>1. Usable(pair) = {}
      BY <2>2 DEF Usable, Unverified, Of
    <3> DEFINE by == [i \in {} |-> i]
    <3>2. by \in [{} -> Threads]
      OBVIOUS
    <3> HIDE DEF by
    <3>3. Charged(pair, by)
      BY <3>1, <3>2 DEF Charged
    <3> QED BY <3>3
  <2> QED BY <2>1, <2>5, <2>6 DEF WindowInv, UsableInv
<1>2. TypeOK /\ WindowInv /\ UsableInv /\ [Next]_vars => (TypeOK /\ WindowInv /\ UsableInv)'
  BY TypeNext, WindowNext, UsableNext
<1>3. TypeOK /\ WindowInv /\ UsableInv => OverlapBounded
  <2> SUFFICES ASSUME TypeOK, WindowInv, UsableInv, NEW pair \in Pairs
               PROVE  /\ Cardinality(Usable(pair)) <= 1 + (Cardinality(Threads) - 1)
                      /\ \A k \in {1, 2} : Cardinality(InWindow(k, pair[k]))
                            <= MAX_OTP_PER_WINDOW + (Cardinality(Threads) - 1)
    BY DEF OverlapBounded, Usable, InWindow
  <2>1. Cardinality(Threads) \in Nat /\ IsFiniteSet(Threads)
    BY ThreadsFinite, ThreadsAssumption
  <2>2. Cardinality(Usable(pair)) <= Cardinality(Threads) /\ Cardinality(Usable(pair)) \in Nat
    <3>1. PICK by : Charged(pair, by)
      BY DEF UsableInv
    <3>2. by \in Injection(Usable(pair), Threads)
      BY <3>1 DEF Charged, Injection, IsInjective
    <3> QED BY <2>1, <3>2, FS_Injection, FS_CardinalityType
  <2>3. ASSUME NEW k \in {1, 2}
        PROVE  Cardinality(InWindow(k, pair[k])) <= MAX_OTP_PER_WINDOW + (Cardinality(Threads) - 1)
    <3>1. WithinLimit(k, pair[k])
      BY DEF WindowInv
    <3>2. InWindow(k, pair[k]) \in SUBSET Otps /\ Adding(k, pair[k]) \in SUBSET Threads
      BY DEF InWindow, Adding, Sending
    <3>3. /\ Cardinality(InWindow(k, pair[k])) \in Nat
          /\ Cardinality(Adding(k, pair[k])) \in Nat
      BY <3>2, OtpsFinite, ThreadsFinite
    <3> QED BY <2>1, <3>1, <3>3, LimitAssumption DEF WithinLimit
  <2> QED BY <2>1, <2>2, <2>3
<1> QED BY <1>1, <1>2, <1>3, PTL DEF Spec
=============================================================================
