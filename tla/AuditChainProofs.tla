-------------------------- MODULE AuditChainProofs --------------------------
(***************************************************************************)
(* Theorems about AuditChain, for any deals and organizations and any       *)
(* number of rows: the shape of the chain, and what the log tells.          *)
(***************************************************************************)
EXTENDS AuditChain, WellFoundedInduction, TLAPS

-----------------------------------------------------------------------------
(* The newest row *)

\* A set of natural numbers has a least one.
LEMMA LeastOf ==
  ASSUME NEW ns, ns \subseteq Nat, ns # {}
  PROVE  \E n \in ns : \A m \in ns : n <= m
<1>1. \A m, n \in Nat : m < n => <<m, n>> \in OpToRel(<, Nat)
  BY Z3 DEF OpToRel
<1>2. PICK less : /\ IsWellFoundedOn(less, Nat)
                  /\ \A m, n \in Nat : m < n => <<m, n>> \in less
  BY <1>1, NatLessThanWellFounded, Zenon
<1>3. PICK n \in ns : \A m \in ns : ~ (<<m, n>> \in less)
  BY <1>2, WFMin, Zenon
<1>4. ASSUME NEW m \in ns
      PROVE  n <= m
  <2>1. m \in Nat /\ n \in Nat
    OBVIOUS
  <2>2. ~ (m < n)
    BY <1>2, <1>3, <2>1, Zenon
  <2> QED BY <2>1, <2>2
<1> QED BY <1>4

\* A set of rows that is not empty has a newest one.
LEMMA NewestLast ==
  ASSUME NEW k \in Nat, NEW ns, ns \subseteq 1 .. k, ns # {}
  PROVE  Newest(ns) \in ns /\ \A m \in ns : m <= Newest(ns)
<1> DEFINE ages == {k - n : n \in ns}
<1>1. ages \subseteq Nat /\ ages # {}
  <2>1. \A n \in ns : n \in 1 .. k /\ k - n \in Nat
    OBVIOUS
  <2> QED BY <2>1
<1>2. PICK a \in ages : \A b \in ages : a <= b
  <2> HIDE DEF ages
  <2> QED BY <1>1, LeastOf
<1>3. PICK n \in ns : a = k - n
  BY <1>2
<1>4. ASSUME NEW m \in ns
      PROVE  m <= n
  <2>1. m \in 1 .. k /\ n \in 1 .. k /\ k - n <= k - m
    BY <1>2, <1>3
  <2> QED BY <2>1
<1> QED BY <1>4 DEF Newest

-----------------------------------------------------------------------------
(* The invariant *)

Row == [deal : Deals, action : {"DELETE", "RESTORE"}, prev : Nat,
        state : {"unhashed", "committed", "gone"}]
Request == [at : {"link", "flush", "commit"}, action : {"DELETE", "RESTORE"},
            deal : Deals, prev : Nat]

Typed ==
  /\ is_deleted \in [Deals -> BOOLEAN]
  /\ hardened \in BOOLEAN
  /\ rows \in Seq(Row)
  /\ \A n \in DOMAIN rows : rows[n].prev < n
  /\ request = Idle \/ request \in Request
  /\ request.prev <= Len(rows)

\* Only the newest row waits for its hash, while its transaction is about to
\* commit.
Waiting ==
  \A n \in DOMAIN rows : rows[n].state = "unhashed" <=> request.at = "commit" /\ n = Len(rows)

Latest(d) == _get_latest_hash(OrgOf[d])

\* What the transaction has read still holds: nothing commits beside it.
Fresh ==
  /\ request.at # "idle" => is_deleted[request.deal] = (request.action = "RESTORE")
  /\ request.at = "flush" => request.prev = Latest(request.deal)
  /\ request.at = "commit" =>
       /\ rows # <<>>
       /\ rows[Len(rows)].deal = request.deal
       /\ rows[Len(rows)].action = request.action
       /\ rows[Len(rows)].prev = Latest(request.deal)

AuditInv == Typed /\ Waiting /\ Fresh /\ OneChain /\ LogTellsState

-----------------------------------------------------------------------------
(* A step that commits nothing *)

\* Rows may be added and marked, but none becomes committed.
NothingCommitted ==
  /\ \A n \in DOMAIN rows :
       /\ n \in DOMAIN rows'
       /\ rows'[n].deal = rows[n].deal
       /\ rows'[n].action = rows[n].action
       /\ rows'[n].prev = rows[n].prev
       /\ rows'[n].state = "committed" <=> rows[n].state = "committed"
  /\ \A n \in DOMAIN rows' : n \in DOMAIN rows \/ rows'[n].state # "committed"

LEMMA SameLog ==
  ASSUME Typed, OneChain, LogTellsState, NothingCommitted, is_deleted' = is_deleted
  PROVE  /\ OneChain' /\ LogTellsState'
         /\ \A o : Committed(o)' = Committed(o)
<1>1. ASSUME NEW o
      PROVE  Committed(o)' = Committed(o)
  <2>1. \A n : n \in Committed(o)' <=> n \in Committed(o)
    BY DEF NothingCommitted, Committed
  <2> QED BY <2>1
<1>2. ASSUME NEW d
      PROVE  Entries(d)' = Entries(d)
  <2>1. \A n : n \in Entries(d)' <=> n \in Entries(d)
    BY DEF NothingCommitted, Entries
  <2> QED BY <2>1
<1>3. ASSUME NEW o \in Orgs, NEW n \in Committed(o)'
      PROVE  rows'[n].prev = ExpectedPrev(o, n)'
  <2>1. n \in Committed(o) /\ n \in DOMAIN rows
    BY <1>1, <1>3 DEF Committed
  <2>2. rows[n].prev = ExpectedPrev(o, n)
    BY <2>1 DEF OneChain
  <2>3. ExpectedPrev(o, n)' = ExpectedPrev(o, n)
    BY <1>1 DEF ExpectedPrev
  <2> QED BY <2>1, <2>2, <2>3 DEF NothingCommitted
<1>4. ASSUME NEW d \in Deals
      PROVE  is_deleted'[d] = (Entries(d)' # {} /\ rows'[Newest(Entries(d)')].action = "DELETE")
  <2>1. is_deleted[d] = (Entries(d) # {} /\ rows[Newest(Entries(d))].action = "DELETE")
    BY DEF LogTellsState
  <2>2. CASE Entries(d) = {}
    BY <1>2, <2>1, <2>2
  <2>3. CASE Entries(d) # {}
    <3>1. Entries(d) \subseteq 1 .. Len(rows) /\ Len(rows) \in Nat
      BY DEF Entries, Typed
    <3>2. Newest(Entries(d)) \in DOMAIN rows
      BY <2>3, <3>1, NewestLast DEF Entries
    <3>3. rows'[Newest(Entries(d))].action = rows[Newest(Entries(d))].action
      BY <3>2 DEF NothingCommitted
    <3> QED BY <1>2, <2>1, <3>3
  <2> QED BY <2>2, <2>3
<1> QED BY <1>1, <1>3, <1>4 DEF OneChain, LogTellsState

\* A step that leaves the log alone.
LEMMA SameRows ==
  ASSUME AuditInv, UNCHANGED <<is_deleted, rows>>
  PROVE  OneChain' /\ LogTellsState' /\ \A o : Committed(o)' = Committed(o)
<1>1. NothingCommitted
  BY DEF NothingCommitted
<1> QED BY <1>1, SameLog DEF AuditInv

-----------------------------------------------------------------------------
(* The steps *)

LEMMA ChangeInv ==
  ASSUME AuditInv, NEW d \in Deals, NEW action \in {"DELETE", "RESTORE"}, change_deal(d, action)
  PROVE  AuditInv'
<1>1. /\ request = Idle /\ UNCHANGED <<is_deleted, rows, hardened>>
      /\ request' = [at |-> "link", action |-> action, deal |-> d, prev |-> Genesis]
      /\ is_deleted[d] = (action = "RESTORE")
  BY DEF change_deal, Idle
<1>2. Len(rows) \in Nat /\ Genesis = 0
  BY DEF AuditInv, Typed, Genesis
<1>3. Typed'
  BY <1>1, <1>2 DEF AuditInv, Typed, Request
<1>4. Waiting'
  BY <1>1 DEF AuditInv, Waiting, Idle
<1>5. Fresh'
  BY <1>1 DEF Fresh
<1> QED BY <1>1, <1>3, <1>4, <1>5, SameRows DEF AuditInv

\* The newest row of an organization, if any, is one of the rows.
LEMMA LatestRow ==
  ASSUME Typed, NEW o
  PROVE  Newest(Committed(o)) \in 0 .. Len(rows) /\ Len(rows) \in Nat
<1>1. Committed(o) \subseteq 1 .. Len(rows) /\ Len(rows) \in Nat
  BY DEF Committed, Typed
<1>2. CASE Committed(o) = {}
  BY <1>1, <1>2 DEF Newest, Genesis
<1>3. CASE Committed(o) # {}
  BY <1>1, <1>3, NewestLast
<1> QED BY <1>2, <1>3

LEMMA LinkInv ==
  ASSUME AuditInv, LinkRow
  PROVE  AuditInv'
<1>1. /\ request.at = "link" /\ UNCHANGED <<is_deleted, rows, hardened>>
      /\ request' = [request EXCEPT !.at = "flush", !.prev = Latest(request.deal)]
  BY DEF LinkRow, Latest
<1>2. request \in Request
  BY <1>1 DEF AuditInv, Typed, Idle
<1>3. Latest(request.deal) \in 0 .. Len(rows) /\ Len(rows) \in Nat
  BY LatestRow DEF AuditInv, Latest, _get_latest_hash
<1>4. /\ request' \in Request /\ request'.at = "flush" /\ request'.prev = Latest(request.deal)
      /\ request'.deal = request.deal /\ request'.action = request.action
  <2>1. \A x \in Request, p \in Nat :
          LET y == [x EXCEPT !.at = "flush", !.prev = p]
          IN  y \in Request /\ y.at = "flush" /\ y.prev = p /\ y.deal = x.deal /\ y.action = x.action
    BY DEF Request
  <2>2. Latest(request.deal) \in Nat
    BY <1>3
  <2> QED BY <1>1, <1>2, <2>1, <2>2
<1>5. Typed'
  BY <1>1, <1>3, <1>4 DEF AuditInv, Typed
<1>6. Waiting'
  BY <1>1, <1>4 DEF AuditInv, Waiting
<1>7. Latest(request.deal)' = Latest(request.deal)
  BY <1>1, <1>4, SameRows DEF Latest, _get_latest_hash
<1>8. Fresh'
  <2>1. is_deleted'[request'.deal] = (request'.action = "RESTORE")
    BY <1>1, <1>4 DEF AuditInv, Fresh
  <2>2. request'.prev = Latest(request.deal)'
    BY <1>4, <1>7
  <2> QED BY <1>4, <2>1, <2>2 DEF Fresh
<1> QED BY <1>1, <1>5, <1>6, <1>8, SameRows DEF AuditInv

LEMMA FlushInv ==
  ASSUME AuditInv, Flush
  PROVE  AuditInv'
<1>1. /\ request.at = "flush" /\ UNCHANGED <<is_deleted, hardened>>
      /\ rows' = Append(rows, NewRow)
      /\ request' = [request EXCEPT !.at = "commit", !.prev = Genesis]
  BY DEF Flush
<1>2. request \in Request
  BY <1>1 DEF AuditInv, Typed, Idle
<1>3. /\ request' \in Request /\ request'.at = "commit" /\ request'.prev = 0
      /\ request'.deal = request.deal /\ request'.action = request.action
  BY <1>1, <1>2 DEF Request, Genesis
<1>4. /\ NewRow \in Row /\ NewRow.deal = request.deal /\ NewRow.action = request.action
      /\ NewRow.prev = request.prev /\ NewRow.state = "unhashed"
  BY <1>2 DEF NewRow, Row, Request
<1>5. rows \in Seq(Row) /\ Len(rows) \in Nat /\ request.prev <= Len(rows) /\ request.prev \in Nat
  BY <1>2 DEF AuditInv, Typed, Request
<1>6. /\ rows' \in Seq(Row) /\ Len(rows') = Len(rows) + 1
      /\ DOMAIN rows' = 1 .. Len(rows) + 1 /\ DOMAIN rows = 1 .. Len(rows)
      /\ \A n \in 1 .. Len(rows) : rows'[n] = rows[n]
      /\ rows'[Len(rows) + 1] = NewRow
  <2> HIDE DEF Row, NewRow
  <2> QED BY <1>1, <1>4, <1>5
<1>7. Typed'
  <2>1. \A n \in DOMAIN rows' : rows'[n].prev < n
    BY <1>4, <1>5, <1>6 DEF AuditInv, Typed
  <2> QED BY <1>1, <1>3, <1>5, <1>6, <2>1 DEF AuditInv, Typed
<1>8. Waiting'
  <2>1. \A n \in 1 .. Len(rows) : rows[n].state # "unhashed"
    BY <1>1, <1>6 DEF AuditInv, Waiting
  <2> QED BY <1>3, <1>4, <1>5, <1>6, <2>1 DEF Waiting
<1>9. NothingCommitted
  BY <1>4, <1>5, <1>6 DEF NothingCommitted
<1>10. OneChain' /\ LogTellsState' /\ \A o : Committed(o)' = Committed(o)
  BY <1>1, <1>9, SameLog DEF AuditInv
<1>11. Fresh'
  <2>1. is_deleted'[request'.deal] = (request'.action = "RESTORE")
    BY <1>1, <1>3 DEF AuditInv, Fresh
  <2>2. request.prev = Latest(request.deal)
    BY <1>1 DEF AuditInv, Fresh
  <2>3. Latest(request.deal)' = Latest(request.deal)
    BY <1>3, <1>10 DEF Latest, _get_latest_hash
  <2>4. rows' # <<>>
    BY <1>5, <1>6
  <2>5. rows'[Len(rows')] = NewRow
    BY <1>6
  <2> QED BY <1>3, <1>4, <2>1, <2>2, <2>3, <2>4, <2>5 DEF Fresh
<1> QED BY <1>7, <1>8, <1>10, <1>11 DEF AuditInv

LEMMA HardenInv ==
  ASSUME AuditInv, Harden
  PROVE  AuditInv'
<1>1. UNCHANGED <<is_deleted, rows, request>> /\ hardened' = TRUE
  BY DEF Harden
<1>2. Typed' /\ Waiting'
  BY <1>1 DEF AuditInv, Typed, Waiting
<1>3. Fresh'
  <2>1. Latest(request.deal)' = Latest(request.deal)
    BY <1>1, SameRows DEF Latest, _get_latest_hash
  <2> QED BY <1>1, <2>1 DEF AuditInv, Fresh
<1> QED BY <1>1, <1>2, <1>3, SameRows DEF AuditInv

-----------------------------------------------------------------------------
(* The end of a transaction *)

\* What both ends do to the rows.
LEMMA Marked ==
  ASSUME AuditInv, NEW state \in {"committed", "gone"}, rows' = SetState(state)
  PROVE  /\ rows' \in Seq(Row) /\ DOMAIN rows' = DOMAIN rows /\ Len(rows') = Len(rows)
         /\ \A n \in DOMAIN rows :
              /\ rows'[n].deal = rows[n].deal
              /\ rows'[n].action = rows[n].action
              /\ rows'[n].prev = rows[n].prev
              /\ rows'[n].state = IF rows[n].state = "unhashed" THEN state ELSE rows[n].state
<1>1. rows \in Seq(Row) /\ Len(rows) \in Nat /\ DOMAIN rows = 1 .. Len(rows)
  <2>1. rows \in Seq(Row)
    BY DEF AuditInv, Typed
  <2> HIDE DEF Row
  <2> QED BY <2>1
<1>2. \A n \in 1 .. Len(rows) : rows[n] \in Row
  <2> HIDE DEF Row
  <2> QED BY <1>1
<1>3. \A x \in Row : LET y == [x EXCEPT !.state = state]
                     IN  /\ y \in Row /\ y.deal = x.deal /\ y.action = x.action
                         /\ y.prev = x.prev /\ y.state = state
  BY DEF Row
<1>4. \A n \in 1 .. Len(rows) :
        SetState(state)[n] = IF rows[n].state = "unhashed" THEN [rows[n] EXCEPT !.state = state]
                                                           ELSE rows[n]
  BY <1>1 DEF SetState
<1>5. SetState(state) \in [1 .. Len(rows) -> Row]
  <2> HIDE DEF Row
  <2>1. \A n \in 1 .. Len(rows) : SetState(state)[n] \in Row
    BY <1>2, <1>3, <1>4
  <2> QED BY <1>1, <2>1 DEF SetState
<1>6. rows' \in Seq(Row) /\ DOMAIN rows' = DOMAIN rows /\ Len(rows') = Len(rows)
  <2> HIDE DEF Row
  <2> QED BY <1>1, <1>5
<1>7. ASSUME NEW n \in DOMAIN rows
      PROVE  /\ rows'[n].deal = rows[n].deal
             /\ rows'[n].action = rows[n].action
             /\ rows'[n].prev = rows[n].prev
             /\ rows'[n].state = IF rows[n].state = "unhashed" THEN state ELSE rows[n].state
  <2>1. CASE rows[n].state = "unhashed"
    <3>1. rows'[n] = [rows[n] EXCEPT !.state = state] /\ rows[n] \in Row
      BY <1>1, <1>2, <1>4, <1>7, <2>1
    <3> QED BY <1>3, <2>1, <3>1
  <2>2. CASE rows[n].state # "unhashed"
    BY <1>1, <1>4, <1>7, <2>2
  <2> QED BY <2>1, <2>2
<1> QED BY <1>6, <1>7

\* The request is over, and no row waits.
LEMMA OverInv ==
  ASSUME AuditInv, NEW state \in {"committed", "gone"}, rows' = SetState(state), request' = Idle,
         is_deleted' \in [Deals -> BOOLEAN], hardened' = hardened
  PROVE  Typed' /\ Waiting' /\ Fresh'
<1>1. Len(rows) \in Nat /\ Genesis = 0
  BY DEF AuditInv, Typed, Genesis
<1>2. request'.at = "idle" /\ request'.prev = 0
  BY <1>1 DEF Idle
<1>3. \A n \in DOMAIN rows' : rows'[n].prev < n
  BY Marked DEF AuditInv, Typed
<1>4. \A n \in DOMAIN rows' : rows'[n].state # "unhashed"
  BY Marked
<1>5. Len(rows') = Len(rows) /\ rows' \in Seq(Row) /\ hardened' \in BOOLEAN
  BY Marked DEF AuditInv, Typed
<1>6. Typed'
  BY <1>1, <1>2, <1>3, <1>5 DEF Typed
<1>7. Waiting'
  BY <1>2, <1>4 DEF Waiting
<1>8. Fresh'
  BY <1>2 DEF Fresh
<1> QED BY <1>6, <1>7, <1>8

LEMMA RollbackInv ==
  ASSUME AuditInv, Rollback
  PROVE  AuditInv'
<1>1. rows' = SetState("gone") /\ request' = Idle /\ UNCHANGED <<is_deleted, hardened>>
  BY DEF Rollback
<1>2. is_deleted' \in [Deals -> BOOLEAN]
  BY <1>1 DEF AuditInv, Typed
<1>3. NothingCommitted
  BY <1>1, Marked DEF NothingCommitted
<1> QED BY <1>1, <1>2, <1>3, OverInv, SameLog DEF AuditInv

\* What a commit makes of the log: one entry more, at its end.
LEMMA OneMore ==
  ASSUME AuditInv, Commit
  PROVE  LET k == Len(rows)
         IN  /\ k \in Nat /\ k \in DOMAIN rows /\ DOMAIN rows = 1 .. k
             /\ request \in Request /\ rows[k].state = "unhashed"
             /\ \A n \in DOMAIN rows' : n \in DOMAIN rows
             /\ \A n \in DOMAIN rows :
                  rows'[n].state = "committed" <=> rows[n].state = "committed" \/ n = k
<1>1. request.at = "commit" /\ rows' = SetState("committed")
  BY DEF Commit
<1>2. request \in Request
  BY <1>1 DEF AuditInv, Typed, Idle
<1>3. Len(rows) \in Nat /\ DOMAIN rows = 1 .. Len(rows) /\ rows # <<>>
  BY <1>1 DEF AuditInv, Typed, Fresh
<1>4. Len(rows) \in DOMAIN rows
  BY <1>3
<1>5. \A n \in DOMAIN rows : rows[n].state = "unhashed" <=> n = Len(rows)
  BY <1>1 DEF AuditInv, Waiting
<1>6. \A n \in DOMAIN rows :
        rows'[n].state = "committed" <=> rows[n].state = "committed" \/ n = Len(rows)
  BY <1>1, <1>5, Marked
<1> QED BY <1>1, <1>2, <1>3, <1>4, <1>5, <1>6, Marked

LEMMA CommitChain ==
  ASSUME AuditInv, Commit
  PROVE  OneChain'
<1> DEFINE k == Len(rows)
           org == OrgOf[request.deal]
<1>1. rows' = SetState("committed")
  BY DEF Commit
<1>2. /\ k \in Nat /\ k \in DOMAIN rows /\ DOMAIN rows = 1 .. k /\ DOMAIN rows' = DOMAIN rows
      /\ rows[k].deal = request.deal /\ rows[k].prev = Newest(Committed(org))
      /\ rows[k].state = "unhashed"
      /\ \A n \in DOMAIN rows :
           /\ rows'[n].deal = rows[n].deal /\ rows'[n].prev = rows[n].prev
           /\ rows'[n].state = "committed" <=> rows[n].state = "committed" \/ n = k
  BY <1>1, OneMore, Marked DEF AuditInv, Fresh, Latest, _get_latest_hash, Commit
<1> HIDE DEF k
<1>3. \A o, n : n \in Committed(o)' <=> n \in Committed(o) \/ (n = k /\ o = org)
  BY <1>2 DEF Committed
<1>4. \A o : Committed(o) \subseteq 1 .. k /\ k \notin Committed(o)
  BY <1>2 DEF Committed
<1>5. SUFFICES ASSUME NEW o \in Orgs, NEW n \in Committed(o)'
               PROVE  rows'[n].prev = ExpectedPrev(o, n)'
  BY DEF OneChain
<1>6. n \in 1 .. k
  BY <1>2, <1>3, <1>4, <1>5
<1>7. {m \in Committed(o)' : m < n} = {m \in Committed(o) : m < n}
  BY <1>2, <1>3, <1>6
<1>8. ExpectedPrev(o, n)' = ExpectedPrev(o, n)
  BY <1>7 DEF ExpectedPrev
<1>9. CASE n \in Committed(o)
  BY <1>2, <1>6, <1>8, <1>9 DEF AuditInv, OneChain
<1>10. CASE n = k /\ o = org
  <2>1. {m \in Committed(o) : m < n} = Committed(o)
    BY <1>2, <1>4, <1>10
  <2> QED BY <1>2, <1>8, <1>10, <2>1 DEF ExpectedPrev
<1> QED BY <1>3, <1>5, <1>9, <1>10

LEMMA CommitTells ==
  ASSUME AuditInv, Commit
  PROVE  LogTellsState'
<1> DEFINE k == Len(rows)
<1>1. rows' = SetState("committed") /\ request.at = "commit"
      /\ is_deleted' = [is_deleted EXCEPT ![request.deal] = (request.action = "DELETE")]
  BY DEF Commit
<1>2. /\ k \in Nat /\ k \in DOMAIN rows /\ DOMAIN rows = 1 .. k /\ DOMAIN rows' = DOMAIN rows
      /\ rows[k].deal = request.deal /\ rows[k].action = request.action
      /\ rows[k].state = "unhashed"
      /\ \A n \in DOMAIN rows :
           /\ rows'[n].deal = rows[n].deal /\ rows'[n].action = rows[n].action
           /\ rows'[n].state = "committed" <=> rows[n].state = "committed" \/ n = k
  BY <1>1, OneMore, Marked DEF AuditInv, Fresh
<1>3. is_deleted \in [Deals -> BOOLEAN] /\ request.deal \in Deals
  BY OneMore DEF AuditInv, Typed, Request
<1> HIDE DEF k
<1>4. \A d, n : n \in Entries(d)' <=> n \in Entries(d) \/ (n = k /\ d = request.deal)
  BY <1>2 DEF Entries
<1>5. SUFFICES ASSUME NEW d \in Deals
               PROVE  is_deleted'[d] =
                        (Entries(d)' # {} /\ rows'[Newest(Entries(d)')].action = "DELETE")
  BY DEF LogTellsState
<1>6. CASE d = request.deal
  <2>1. k \in Entries(d)' /\ Entries(d)' \subseteq 1 .. k
    BY <1>2, <1>4, <1>6 DEF Entries
  <2>2. Newest(Entries(d)') = k
    <3> DEFINE ns == Entries(d)'
    <3>1. k \in ns /\ ns \subseteq 1 .. k
      BY <2>1
    <3> HIDE DEF ns
    <3>2. Newest(ns) \in ns /\ \A m \in ns : m <= Newest(ns)
      BY <1>2, <3>1, NewestLast
    <3>3. Newest(ns) \in 1 .. k /\ k <= Newest(ns)
      BY <3>1, <3>2
    <3>4. Newest(ns) = k
      BY <1>2, <3>3
    <3> QED BY <3>4 DEF ns
  <2>3. is_deleted'[d] = (request.action = "DELETE")
    BY <1>1, <1>3, <1>6
  <2> QED BY <1>2, <2>1, <2>2, <2>3
<1>7. CASE d # request.deal
  <2>1. Entries(d)' = Entries(d)
    <3>1. \A n : n \in Entries(d)' <=> n \in Entries(d)
      BY <1>4, <1>7
    <3> QED BY <3>1
  <2>2. is_deleted'[d] = is_deleted[d]
    BY <1>1, <1>3, <1>7
  <2>3. is_deleted[d] = (Entries(d) # {} /\ rows[Newest(Entries(d))].action = "DELETE")
    BY DEF AuditInv, LogTellsState
  <2>4. Entries(d) # {} => rows'[Newest(Entries(d))].action = rows[Newest(Entries(d))].action
    <3>1. Entries(d) \subseteq 1 .. k
      BY <1>2 DEF Entries
    <3>2. Entries(d) # {} => Newest(Entries(d)) \in DOMAIN rows
      BY <1>2, <3>1, NewestLast
    <3> QED BY <1>2, <3>2
  <2> QED BY <2>1, <2>2, <2>3, <2>4
<1> QED BY <1>6, <1>7

LEMMA CommitInv ==
  ASSUME AuditInv, Commit
  PROVE  AuditInv'
<1>1. /\ rows' = SetState("committed") /\ request' = Idle /\ hardened' = hardened
      /\ is_deleted' = [is_deleted EXCEPT ![request.deal] = (request.action = "DELETE")]
  BY DEF Commit
<1>2. is_deleted' \in [Deals -> BOOLEAN]
  BY <1>1 DEF AuditInv, Typed
<1> QED BY <1>1, <1>2, OverInv, CommitChain, CommitTells DEF AuditInv

-----------------------------------------------------------------------------
(* The theorems *)

LEMMA InvInit == Init => AuditInv
<1> SUFFICES ASSUME Init PROVE AuditInv
  OBVIOUS
<1>1. /\ is_deleted = [d \in Deals |-> FALSE] /\ rows = <<>> /\ request = Idle /\ hardened = FALSE
      /\ request.at = "idle" /\ request.prev = 0
  BY DEF Init, Idle, Genesis
<1>2. Typed
  <2>1. is_deleted \in [Deals -> BOOLEAN] /\ hardened \in BOOLEAN
    BY <1>1
  <2>2. rows \in Seq(Row) /\ DOMAIN rows = {} /\ Len(rows) = 0
    BY <1>1
  <2> QED BY <1>1, <2>1, <2>2 DEF Typed
<1>3. Waiting /\ Fresh
  BY <1>1 DEF Waiting, Fresh
<1>4. OneChain /\ LogTellsState
  <2>1. DOMAIN rows = {}
    BY <1>1
  <2>2. OneChain
    BY <2>1 DEF OneChain, Committed
  <2>3. \A d \in Deals : Entries(d) = {} /\ is_deleted[d] = FALSE
    BY <1>1, <2>1 DEF Entries
  <2> QED BY <2>2, <2>3 DEF LogTellsState
<1> QED BY <1>2, <1>3, <1>4 DEF AuditInv

LEMMA InvNext == AuditInv /\ [Next]_vars => AuditInv'
<1> SUFFICES ASSUME AuditInv, [Next]_vars PROVE AuditInv'
  OBVIOUS
<1>1. CASE \E d \in Deals : soft_delete_deal(d) \/ restore_deal(d)
  BY <1>1, ChangeInv DEF soft_delete_deal, restore_deal
<1>2. CASE LinkRow
  BY <1>2, LinkInv
<1>3. CASE Flush
  BY <1>3, FlushInv
<1>4. CASE Commit
  BY <1>4, CommitInv
<1>5. CASE Rollback
  BY <1>5, RollbackInv
<1>6. CASE Harden
  BY <1>6, HardenInv
<1>7. CASE UNCHANGED vars
  <2>1. UNCHANGED <<is_deleted, rows, request, hardened>>
    BY <1>7 DEF vars
  <2>2. Typed' /\ Waiting'
    BY <2>1 DEF AuditInv, Typed, Waiting
  <2>3. Latest(request.deal)' = Latest(request.deal)
    BY <2>1, SameRows DEF Latest, _get_latest_hash
  <2>4. Fresh'
    BY <2>1, <2>3 DEF AuditInv, Fresh
  <2> QED BY <2>1, <2>2, <2>4, SameRows DEF AuditInv
<1> QED BY <1>1, <1>2, <1>3, <1>4, <1>5, <1>6, <1>7 DEF Next

\* For any deals, organizations and failures the entries of an organization
\* form one chain (audit_service.py:94): what _get_latest_hash read is still
\* the newest hash when its transaction commits.
THEOREM ChainUnbroken == Spec => []OneChain
<1>1. AuditInv => OneChain
  BY DEF AuditInv
<1> QED BY <1>1, InvInit, InvNext, PTL DEF Spec

\* For any history of deletions, restorations, failures and crashes, the newest
\* entry of a deal tells whether it is in the trash (deal_service.py:656, 706).
THEOREM LogTells == Spec => []LogTellsState
<1>1. AuditInv => LogTellsState
  BY DEF AuditInv
<1> QED BY <1>1, InvInit, InvNext, PTL DEF Spec

\* The types of the module.
THEOREM AuditTypes == Spec => []TypeOK
<1>1. AuditInv => TypeOK
  <2> SUFFICES ASSUME AuditInv PROVE TypeOK
    OBVIOUS
  <2>1. is_deleted \in [Deals -> BOOLEAN] /\ hardened \in BOOLEAN
    BY DEF AuditInv, Typed
  <2>2. Len(rows) \in Nat /\ DOMAIN rows = 1 .. Len(rows)
    BY DEF AuditInv, Typed
  <2>3. ASSUME NEW n \in DOMAIN rows
        PROVE  /\ rows[n] \in [deal : Deals, action : {"DELETE", "RESTORE"}, prev : 0 .. n - 1,
                               state : {"unhashed", "committed", "gone"}]
               /\ rows[n].state = "unhashed" <=> request.at = "commit" /\ n = Len(rows)
    <3>1. rows[n] \in Row /\ rows[n].prev < n /\ n \in Nat
      <4>1. rows \in Seq(Row) /\ rows[n].prev < n
        BY DEF AuditInv, Typed
      <4> HIDE DEF Row
      <4> QED BY <2>2, <4>1
    <3>2. \A x \in Row : x.prev < n =>
            x \in [deal : Deals, action : {"DELETE", "RESTORE"}, prev : 0 .. n - 1,
                   state : {"unhashed", "committed", "gone"}]
      BY <3>1 DEF Row
    <3>3. rows[n].state = "unhashed" <=> request.at = "commit" /\ n = Len(rows)
      BY DEF AuditInv, Waiting
    <3> QED BY <3>1, <3>2, <3>3
  <2>4. \/ request = Idle
        \/ request \in [at : {"link", "flush", "commit"}, action : {"DELETE", "RESTORE"},
                        deal : Deals, prev : 0 .. Len(rows)]
    <3>1. request = Idle \/ (request \in Request /\ request.prev <= Len(rows))
      BY DEF AuditInv, Typed
    <3>2. \A r \in Request : r.prev <= Len(rows) =>
            r \in [at : {"link", "flush", "commit"}, action : {"DELETE", "RESTORE"},
                   deal : Deals, prev : 0 .. Len(rows)]
      BY <2>2 DEF Request
    <3> QED BY <3>1, <3>2
  <2> QED BY <2>1, <2>3, <2>4 DEF TypeOK
<1> QED BY <1>1, InvInit, InvNext, PTL DEF Spec

\* audit_service.py:126: an entry and the change it records are committed by
\* the same step, or neither is, for any deals and any failures.
THEOREM EntryAndChange == Spec => AtomicPair
<1> DEFINE Pair ==
      /\ \A d \in Deals : is_deleted'[d] # is_deleted[d] =>
           \E n \in DOMAIN rows' :
             /\ rows'[n].state = "committed" /\ rows[n].state # "committed"
             /\ rows'[n].deal = d
             /\ rows'[n].action = IF is_deleted'[d] THEN "DELETE" ELSE "RESTORE"
      /\ \A n \in DOMAIN rows :
           rows[n].state # "committed" /\ rows'[n].state = "committed" =>
             is_deleted'[rows[n].deal] = (rows[n].action = "DELETE")
<1>1. ASSUME AuditInv, NothingCommitted, is_deleted' = is_deleted
      PROVE  Pair
  BY <1>1 DEF NothingCommitted
<1>2. ASSUME AuditInv, [Next]_vars
      PROVE  [Pair]_vars
  <2> SUFFICES Pair
    OBVIOUS
  <2>1. CASE UNCHANGED <<is_deleted, rows>>
    <3>1. NothingCommitted
      BY <2>1 DEF NothingCommitted
    <3> QED BY <1>1, <1>2, <2>1, <3>1
  <2>2. CASE Flush
    <3>1. rows \in Seq(Row) /\ rows' = Append(rows, NewRow) /\ is_deleted' = is_deleted
      BY <1>2, <2>2 DEF AuditInv, Typed, Flush
    <3>2. NewRow.state = "unhashed"
      BY DEF NewRow
    <3>3. NothingCommitted
      <4> HIDE DEF Row, NewRow
      <4>1. /\ Len(rows) \in Nat /\ DOMAIN rows = 1 .. Len(rows)
            /\ DOMAIN rows' = 1 .. Len(rows) + 1
            /\ \A n \in 1 .. Len(rows) : rows'[n] = rows[n]
            /\ rows'[Len(rows) + 1] = NewRow
        BY <3>1
      <4>2. \A n \in DOMAIN rows' : n \in DOMAIN rows \/ n = Len(rows) + 1
        BY <4>1
      <4>3. \A n \in DOMAIN rows : n \in DOMAIN rows' /\ rows'[n] = rows[n]
        BY <4>1
      <4>4. \A n \in DOMAIN rows' : n \in DOMAIN rows \/ rows'[n].state # "committed"
        BY <3>2, <4>1, <4>2
      <4> QED BY <4>3, <4>4, Zenon DEF NothingCommitted
    <3> QED BY <1>1, <1>2, <3>1, <3>3
  <2>3. CASE Rollback
    <3>1. rows' = SetState("gone") /\ is_deleted' = is_deleted
      BY <2>3 DEF Rollback
    <3>2. NothingCommitted
      BY <1>2, <3>1, Marked DEF NothingCommitted
    <3> QED BY <1>1, <1>2, <3>1, <3>2
  <2>4. CASE Commit
    <3> DEFINE k == Len(rows)
    <3>1. /\ rows' = SetState("committed") /\ request.at = "commit"
          /\ is_deleted' = [is_deleted EXCEPT ![request.deal] = (request.action = "DELETE")]
      BY <2>4 DEF Commit
    <3>2. /\ k \in DOMAIN rows /\ k \in DOMAIN rows' /\ request \in Request
          /\ rows[k].deal = request.deal /\ rows[k].action = request.action
          /\ rows'[k].deal = request.deal /\ rows'[k].action = request.action
          /\ rows[k].state = "unhashed" /\ rows'[k].state = "committed"
          /\ \A n \in DOMAIN rows :
               rows'[n].state = "committed" <=> rows[n].state = "committed" \/ n = k
      BY <1>2, <2>4, <3>1, OneMore, Marked DEF AuditInv, Fresh
    <3>3. /\ is_deleted \in [Deals -> BOOLEAN] /\ request.deal \in Deals
          /\ request.action \in {"DELETE", "RESTORE"}
      BY <1>2, <3>2 DEF AuditInv, Typed, Request
    <3> HIDE DEF k
    <3>4. ASSUME NEW d \in Deals, is_deleted'[d] # is_deleted[d]
          PROVE  \E n \in DOMAIN rows' :
                   /\ rows'[n].state = "committed" /\ rows[n].state # "committed"
                   /\ rows'[n].deal = d
                   /\ rows'[n].action = IF is_deleted'[d] THEN "DELETE" ELSE "RESTORE"
      <4>1. d = request.deal /\ is_deleted'[d] = (request.action = "DELETE")
        BY <3>1, <3>3, <3>4
      <4>2. request.action = IF is_deleted'[d] THEN "DELETE" ELSE "RESTORE"
        BY <3>3, <4>1
      <4> QED BY <3>2, <4>1, <4>2
    <3>5. ASSUME NEW n \in DOMAIN rows, rows[n].state # "committed", rows'[n].state = "committed"
          PROVE  is_deleted'[rows[n].deal] = (rows[n].action = "DELETE")
      <4>1. n = k
        BY <3>2, <3>5
      <4> QED BY <3>1, <3>2, <3>3, <4>1
    <3> QED BY <3>4, <3>5
  <2> QED BY <1>2, <2>1, <2>2, <2>3, <2>4
        DEF Next, vars, soft_delete_deal, restore_deal, change_deal, LinkRow, Harden
<1> QED BY <1>2, InvInit, InvNext, PTL DEF Spec, AtomicPair

=============================================================================
