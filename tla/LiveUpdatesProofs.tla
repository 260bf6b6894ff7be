-------------------------- MODULE LiveUpdatesProofs --------------------------
(***************************************************************************)
(* The heartbeat of LiveUpdates, the storage of its table and the iterator   *)
(* of its broadcasts, for any number of clients and requests, any timing    *)
(* and any sizes of the storage.                                            *)
(***************************************************************************)
EXTENDS LiveUpdates, FiniteSetTheorems, WellFoundedInduction, TLAPS

-----------------------------------------------------------------------------
(* The heartbeat *)

\* What the task may be doing; a connect starts it only where it has ended.
HeartbeatInv ==
  /\ heartbeat.at \in {"never", "sleep", "ping", "done"}
  /\ HeartbeatRuns

\* A round goes on, or ends in sleep exactly when someone is left.
LEMMA RoundGoesOn ==
  ASSUME NEW conns, NEW pos, NEW dead, PingRest(conns, pos, dead)
  PROVE  HeartbeatInv'
<1>1. CASE heartbeat'.at = "ping"
  BY <1>1 DEF HeartbeatInv, HeartbeatRuns
<1>2. CASE \E gone : EndRound(gone)
  BY <1>2 DEF EndRound, HeartbeatInv, HeartbeatRuns, Asleep, Done
<1> QED BY <1>1, <1>2 DEF PingRest

\* Removing connections while the heartbeat is left alone disturbs nothing.
LEMMA RemovalHarmless ==
  ASSUME HeartbeatInv, NEW cs, Remove(cs), UNCHANGED heartbeat
  PROVE  HeartbeatInv'
BY DEF Remove, NoTable, registered, HeartbeatInv, HeartbeatRuns

LEMMA HeartbeatStep ==
  ASSUME HeartbeatInv, [Next]_vars
  PROVE  HeartbeatInv'
<1>1. ASSUME NEW c \in Clients, Connect(c)
      PROVE  HeartbeatInv'
  <2>1. CASE Stopped
    BY <1>1, <2>1 DEF Connect, HeartbeatInv, HeartbeatRuns, Asleep
  <2>2. CASE ~ Stopped
    BY <1>1, <2>2 DEF Connect, Stopped, HeartbeatInv, HeartbeatRuns
  <2> QED BY <2>1, <2>2
<1>2. ASSUME NEW c \in Clients, Vanish(c) \/ Pong(c)
      PROVE  HeartbeatInv'
  BY <1>2 DEF Vanish, Pong, registered, HeartbeatInv, HeartbeatRuns
<1>3. ASSUME NEW c \in Clients, Disconnect(c)
      PROVE  HeartbeatInv'
  BY <1>3, RemovalHarmless DEF Disconnect
<1>4. CASE Wake
  BY <1>4, RoundGoesOn DEF Wake
<1>5. CASE PingSent
  BY <1>5, RoundGoesOn DEF PingSent
<1>6. ASSUME NEW h \in Handlers, NEW job \in Jobs, Start(h, job)
      PROVE  HeartbeatInv'
  BY <1>6 DEF Start, registered, HeartbeatInv, HeartbeatRuns
<1>7. ASSUME NEW h \in Handlers, Abort(h)
      PROVE  HeartbeatInv'
  BY <1>7 DEF Abort, registered, HeartbeatInv, HeartbeatRuns
<1>8. ASSUME NEW h \in Handlers, Sent(h)
      PROVE  HeartbeatInv'
  <2>1. UNCHANGED heartbeat
    BY <1>8 DEF Sent
  <2>2. UNCHANGED table \/ \E cs : Remove(cs)
    BY <1>8 DEF Sent
  <2>3. CASE UNCHANGED table
    BY <2>1, <2>3 DEF registered, HeartbeatInv, HeartbeatRuns
  <2> QED BY <2>1, <2>2, <2>3, RemovalHarmless
<1>9. CASE UNCHANGED vars
  BY <1>9 DEF vars, registered, HeartbeatInv, HeartbeatRuns
<1> QED BY <1>1, <1>2, <1>3, <1>4, <1>5, <1>6, <1>7, <1>8, <1>9 DEF Next

\* While a connection is registered, the heartbeat that can drop it runs,
\* however connects, disconnects and the end of the loop interleave.
THEOREM HeartbeatAlways == Spec => []HeartbeatRuns
<1>1. Init => HeartbeatInv
  BY DEF Init, NoTable, registered, HeartbeatInv, HeartbeatRuns
<1>2. HeartbeatInv => HeartbeatRuns
  BY DEF HeartbeatInv
<1> QED BY <1>1, <1>2, HeartbeatStep, PTL DEF Spec
-----------------------------------------------------------------------------
(* Slots *)

\* A set of natural numbers has a least one.
LEMMA LeastOf ==
  ASSUME NEW slots, slots \subseteq Nat, slots # {}
  PROVE  \E i \in slots : \A j \in slots : i <= j
<1>1. \A m, n \in Nat : m < n => <<m, n>> \in OpToRel(<, Nat)
  BY Z3 DEF OpToRel
<1>2. PICK less : /\ IsWellFoundedOn(less, Nat)
                  /\ \A m, n \in Nat : m < n => <<m, n>> \in less
  BY <1>1, NatLessThanWellFounded, Zenon
<1>3. PICK i \in slots : \A j \in slots : ~ (<<j, i>> \in less)
  BY <1>2, WFMin, Zenon
<1>4. ASSUME NEW j \in slots
      PROVE  i <= j
  <2>1. i \in Nat /\ j \in Nat
    OBVIOUS
  <2>2. ~ (j < i)
    BY <1>2, <1>3, <2>1, Zenon
  <2> QED BY <2>1, <2>2
<1> QED BY <1>4

\* A set of keys whose slots are numbers has a first one.
LEMMA FirstOf ==
  ASSUME NEW slot, NEW keys, keys # {}, \A c \in keys : slot[c] \in Nat
  PROVE  First(slot, keys) \in keys /\ \A d \in keys : slot[First(slot, keys)] <= slot[d]
<1> DEFINE slots == {slot[c] : c \in keys}
<1>1. slots \subseteq Nat /\ slots # {}
  OBVIOUS
<1>2. PICK i \in slots : \A j \in slots : i <= j
  <2> HIDE DEF slots
  <2> QED BY <1>1, LeastOf
<1>3. PICK c \in keys : i = slot[c]
  BY <1>2
<1>4. \A d \in keys : slot[c] <= slot[d]
  BY <1>2, <1>3
<1> QED BY <1>4 DEF First

\* What an insertion and an iterator rely on: numbers of their own for the keys.
Slots(slot) ==
  /\ IsFiniteSet(DOMAIN slot)
  /\ slot = [c \in DOMAIN slot |-> slot[c]]
  /\ \A c \in DOMAIN slot : slot[c] \in Nat \ {0}
  /\ \A c, d \in DOMAIN slot : c # d => slot[c] # slot[d]

\* Keys that are laid out anew keep their order, and none of them moves up.
LEMMA LaidOutSlots ==
  ASSUME NEW slot, Slots(slot)
  PROVE  /\ Slots(LaidOut(slot)) /\ DOMAIN LaidOut(slot) = DOMAIN slot
         /\ \A c \in DOMAIN slot : /\ LaidOut(slot)[c] <= slot[c]
                                   /\ LaidOut(slot)[c] <= Cardinality(DOMAIN slot)
         /\ Cardinality(DOMAIN slot) \in Nat
<1> DEFINE S == DOMAIN slot
           upTo(c) == {d \in S : slot[d] <= slot[c]}
<1>1. IsFiniteSet(S) /\ Cardinality(S) \in Nat
  BY FS_CardinalityType DEF Slots
<1>2. ASSUME NEW c \in S
      PROVE  /\ IsFiniteSet(upTo(c)) /\ Cardinality(upTo(c)) \in Nat \ {0}
             /\ Cardinality(upTo(c)) <= Cardinality(S)
             /\ Cardinality(upTo(c)) <= slot[c]
  <2>1. upTo(c) \in SUBSET S /\ c \in upTo(c) /\ slot[c] \in Nat \ {0}
    BY DEF Slots
  <2>2. IsFiniteSet(upTo(c)) /\ Cardinality(upTo(c)) <= Cardinality(S)
    <3> HIDE DEF upTo, S
    <3> QED BY <1>1, <2>1, FS_Subset
  <2>3. Cardinality(upTo(c)) \in Nat \ {0}
    <3> HIDE DEF upTo
    <3> QED BY <2>1, <2>2, FS_CardinalityType, FS_EmptySet
  <2>4. IsFiniteSet(1 .. slot[c]) /\ Cardinality(1 .. slot[c]) = slot[c]
    <3>1. 1 \in Int /\ slot[c] \in Int /\ ~ (1 > slot[c])
      BY <2>1
    <3>2. PICK k \in Int : k = slot[c]
      BY <3>1
    <3>3. IsFiniteSet(1 .. k) /\ Cardinality(1 .. k) = k - 1 + 1
      BY <3>1, <3>2, FS_Interval
    <3> QED BY <3>2, <3>3
  <2>5. [d \in upTo(c) |-> slot[d]] \in Injection(upTo(c), 1 .. slot[c])
    BY <2>1 DEF Injection, IsInjective, Slots
  <2>6. Cardinality(upTo(c)) <= slot[c]
    <3> HIDE DEF upTo
    <3> QED BY <2>4, <2>5, FS_Injection
  <2> QED BY <2>2, <2>3, <2>6
<1>3. ASSUME NEW c \in S, NEW d \in S, c # d
      PROVE  Cardinality(upTo(c)) # Cardinality(upTo(d))
  <2>1. ASSUME NEW a \in S, NEW b \in S, slot[a] < slot[b]
        PROVE  Cardinality(upTo(a)) # Cardinality(upTo(b))
    <3>1. upTo(a) \in SUBSET upTo(b) /\ b \in upTo(b) /\ b \notin upTo(a)
      BY <2>1 DEF Slots
    <3>2. IsFiniteSet(upTo(b))
      BY <1>2
    <3> HIDE DEF upTo
    <3> QED BY <3>1, <3>2, FS_Subset
  <2>2. slot[c] < slot[d] \/ slot[d] < slot[c]
    BY <1>3 DEF Slots
  <2> HIDE DEF upTo
  <2> QED BY <2>1, <2>2
<1>4. LaidOut(slot) = [c \in S |-> Cardinality(upTo(c))]
  BY DEF LaidOut
<1> HIDE DEF upTo
<1> QED BY <1>1, <1>2, <1>3, <1>4 DEF Slots

-----------------------------------------------------------------------------
(* The table *)

Accepted == {c \in Clients : link[c] # "new"}

\* A table keeps its fields, its keys in slots it has filled, and the names of
\* sockets that were accepted.
TableInv ==
  /\ link \in [Clients -> {"new", "open", "lost", "gone"}]
  /\ table = [slot |-> table.slot, filled |-> table.filled, usable |-> table.usable,
              born |-> table.born, laid |-> table.laid]
  /\ Slots(table.slot)
  /\ table.filled \in Nat /\ \A c \in registered : table.slot[c] <= table.filled
  /\ registered \subseteq Accepted
  /\ table = NoTable \/ (registered # {} /\ {table.born, table.laid} \subseteq Accepted)

LEMMA NoTableSlots == Slots(NoTable.slot) /\ DOMAIN NoTable.slot = {}
BY FS_EmptySet DEF Slots, NoTable

\* Nobody becomes new, and sockets that were accepted stay so.
LEMMA AcceptedStays ==
  ASSUME TableInv, UNCHANGED table, link' \in [Clients -> {"new", "open", "lost", "gone"}],
         \A c \in Clients : link[c] # "new" => link'[c] # "new"
  PROVE  TableInv' /\ Accepted \subseteq Accepted'
BY DEF TableInv, Accepted, registered

\* What a removal leaves: the other keys in their slots, or no table.
LEMMA Removal ==
  ASSUME TableInv, NEW cs, Remove(cs), link' \in [Clients -> {"new", "open", "lost", "gone"}],
         \A c \in Clients : link[c] # "new" => link'[c] # "new"
  PROVE  /\ TableInv'
         /\ registered' \subseteq registered
         /\ \A c \in registered' : table'.slot[c] = table.slot[c]
         /\ registered' = {} \/ table'.laid = table.laid
<1>1. CASE registered \subseteq cs
  <2>1. table' = NoTable /\ registered' = {}
    BY <1>1 DEF Remove, NoTable, registered
  <2>2. TableInv'
    BY <2>1, NoTableSlots DEF TableInv, NoTable, registered
  <2> QED BY <2>1, <2>2
<1>2. CASE ~ (registered \subseteq cs)
  <2> DEFINE left == Without(table.slot, cs)
  <2>1. /\ table'.slot = left /\ table'.filled = table.filled /\ table'.usable = table.usable
        /\ table'.born = table.born /\ table'.laid = table.laid
        /\ table' = [slot |-> table'.slot, filled |-> table'.filled, usable |-> table'.usable,
                     born |-> table'.born, laid |-> table'.laid]
    BY <1>2 DEF Remove, TableInv
  <2>2. /\ DOMAIN left = registered \ cs /\ left = [c \in DOMAIN left |-> left[c]]
        /\ \A c \in DOMAIN left : left[c] = table.slot[c]
    BY DEF Without, registered
  <2>3. IsFiniteSet(DOMAIN left)
    <3>1. registered \ cs \in SUBSET registered /\ IsFiniteSet(registered)
      BY DEF TableInv, Slots, registered
    <3> QED BY <2>2, <3>1, FS_Subset
  <2> HIDE DEF left
  <2>4. registered' = registered \ cs /\ registered' # {}
    BY <1>2, <2>1, <2>2 DEF registered
  <2>5. Slots(left)
    BY <2>2, <2>3 DEF TableInv, Slots, registered
  <2>6. Accepted \subseteq Accepted'
    BY DEF Accepted
  <2>7. registered # {}
    BY <1>2
  <2>8. table # NoTable
    BY <2>7 DEF NoTable, registered
  <2> QED BY <2>1, <2>2, <2>4, <2>5, <2>6, <2>8 DEF TableInv, registered
<1> QED BY <1>1, <1>2

\* What an insertion leaves: the other keys in their slots, or in a new storage
\* no further up.
LEMMA Insertion ==
  ASSUME TableInv, NEW c \in Clients, link[c] = "new", Insert(c), link' = [link EXCEPT ![c] = "open"]
  PROVE  /\ TableInv'
         /\ registered' = registered \cup {c}
         /\ \A d \in registered : table'.slot[d] <= table.slot[d]
         /\ \/ table'.laid = c
            \/ table'.laid = table.laid /\ \A d \in registered : table'.slot[d] = table.slot[d]
<1> DEFINE full == table.filled = table.usable
           size == Cardinality(registered)
           old == IF full THEN LaidOut(table.slot) ELSE table.slot
           base == IF full THEN size ELSE table.filled
           slot == [d \in registered \cup {c} |-> IF d = c THEN base + 1 ELSE old[d]]
<1>1. /\ table'.slot = slot /\ table'.filled = base + 1
      /\ table'.born = (IF registered = {} THEN c ELSE table.born)
      /\ table'.laid = (IF full THEN c ELSE table.laid)
      /\ table' = [slot |-> table'.slot, filled |-> table'.filled, usable |-> table'.usable,
                   born |-> table'.born, laid |-> table'.laid]
  BY DEF Insert
<1>2. c \notin Accepted /\ c \in Accepted' /\ Accepted \subseteq Accepted'
  BY DEF Accepted, TableInv
<1>3. /\ Slots(old) /\ DOMAIN old = registered /\ base \in Nat
      /\ \A d \in registered : old[d] <= table.slot[d] /\ old[d] <= base
  <2>1. CASE full
    BY <2>1, LaidOutSlots DEF TableInv, registered
  <2>2. CASE ~ full
    BY <2>2 DEF TableInv, Slots, registered
  <2> QED BY <2>1, <2>2
<1>4. \A d \in registered : d # c
  BY <1>2 DEF TableInv
<1> HIDE DEF base, old, full
<1>5. /\ DOMAIN slot = registered \cup {c} /\ slot = [d \in DOMAIN slot |-> slot[d]]
      /\ slot[c] = base + 1 /\ \A d \in registered : slot[d] = old[d]
  BY <1>4
<1>6. IsFiniteSet(registered \cup {c})
  BY <1>3, FS_AddElement DEF Slots
<1> HIDE DEF slot
<1>7. Slots(slot)
  <2>1. \A d \in registered : slot[d] \in Nat \ {0} /\ slot[d] < base + 1
    BY <1>3, <1>5 DEF Slots
  <2>2. \A d, e \in registered : d # e => slot[d] # slot[e]
    BY <1>3, <1>5 DEF Slots
  <2> QED BY <1>3, <1>5, <1>6, <2>1, <2>2 DEF Slots
<1>8. registered' = registered \cup {c}
  BY <1>1, <1>5 DEF registered
<1>9. {table'.born, table'.laid} \subseteq Accepted'
  <2>1. CASE registered = {}
    <3>1. table = NoTable
      BY <2>1 DEF TableInv
    <3>2. full
      BY <3>1 DEF full, NoTable
    <3> QED BY <1>1, <1>2, <2>1, <3>2
  <2>2. CASE registered # {}
    <3>1. table # NoTable
      BY <2>2 DEF NoTable, registered
    <3> QED BY <1>1, <1>2, <3>1 DEF TableInv
  <2> QED BY <2>1, <2>2
<1>10. \A d \in registered' : table'.slot[d] <= table'.filled
  <2>1. \A d \in registered : slot[d] <= base + 1
    BY <1>3, <1>5 DEF Slots
  <2> QED BY <1>1, <1>3, <1>5, <1>8, <2>1
<1>11. TableInv'
  BY <1>1, <1>2, <1>3, <1>7, <1>8, <1>9, <1>10 DEF TableInv
<1>12. full => table'.laid = c
  BY <1>1
<1>13. ~ full => table'.laid = table.laid /\ \A d \in registered : table'.slot[d] = table.slot[d]
  BY <1>1, <1>5 DEF old
<1>14. \A d \in registered : table'.slot[d] <= table.slot[d]
  BY <1>1, <1>3, <1>5
<1> QED BY <1>8, <1>11, <1>12, <1>13, <1>14

-----------------------------------------------------------------------------
(* The iterator *)

\* Whom a broadcast has served is behind the iterator; as long as the storage
\* is the one it began with, whom it still owes the event to is ahead of it.
OnCourse(t, slot, laid) ==
  /\ t.pos \in Nat
  /\ t.to \notin t.served
  /\ \A c \in DOMAIN slot : c \in t.served \cup {t.to} => slot[c] <= t.pos
  /\ t.laid = laid =>
       \A c \in DOMAIN slot : c \in t.began /\ c \notin t.served \cup {t.to} => slot[c] > t.pos

\* A broadcast knows only sockets that were accepted.
Knows(t) == t.began \cup t.served \cup {t.to, t.laid}

TailInv ==
  /\ DOMAIN tail = Handlers
  /\ \A h \in Handlers : tail[h].at = "sending" =>
       /\ Knows(tail[h]) \subseteq Accepted
       /\ OnCourse(tail[h], table.slot, table.laid)

IteratorInv == TableInv /\ TailInv

\* A broadcast starts at the first of the keys and owes the event to all.
LEMMA AnnounceOnCourse ==
  ASSUME NEW due, NEW slot, Slots(slot), NEW born, NEW laid,
         Announce(due, slot, born, laid).at = "sending"
  PROVE  /\ Knows(Announce(due, slot, born, laid)) \subseteq DOMAIN slot \cup {laid}
         /\ DOMAIN slot # {}
         /\ OnCourse(Announce(due, slot, born, laid), slot, laid)
<1> DEFINE a == Announce(due, slot, born, laid)
           c == First(slot, DOMAIN slot)
<1>1. ~ (due = <<>> \/ DOMAIN slot = {})
  BY DEF Announce, Done
<1>2. /\ a.began = DOMAIN slot /\ a.served = {} /\ a.to = c /\ a.laid = laid
      /\ a.pos = slot[c]
  BY <1>1 DEF Announce, Sending
<1>3. \A d \in DOMAIN slot : slot[d] \in Nat \ {0}
  BY DEF Slots
<1>4. c \in DOMAIN slot /\ \A d \in DOMAIN slot : slot[c] <= slot[d]
  BY <1>1, <1>3, FirstOf
<1>5. \A d \in DOMAIN slot : d # c => slot[d] > slot[c]
  BY <1>3, <1>4 DEF Slots
<1> HIDE DEF a, c
<1> QED BY <1>1, <1>2, <1>3, <1>4, <1>5 DEF OnCourse, Knows, a

\* Keys that are removed take nobody off course.
LEMMA ShrunkOnCourse ==
  ASSUME NEW t, NEW slot, NEW laid, NEW slot2, NEW laid2, OnCourse(t, slot, laid),
         DOMAIN slot2 \subseteq DOMAIN slot, \A c \in DOMAIN slot2 : slot2[c] = slot[c],
         DOMAIN slot2 = {} \/ laid2 = laid
  PROVE  OnCourse(t, slot2, laid2)
BY DEF OnCourse

\* Nor does a key the broadcast has not heard of, unless it comes with a new
\* storage: then those behind the iterator stay there.
LEMMA GrownOnCourse ==
  ASSUME TableInv, NEW c \in Clients, link[c] = "new", Insert(c), link' = [link EXCEPT ![c] = "open"],
         NEW t, OnCourse(t, table.slot, table.laid), Knows(t) \subseteq Accepted
  PROVE  OnCourse(t, table'.slot, table'.laid)
<1> DEFINE slot == table.slot
           laid == table.laid
           slot2 == table'.slot
           laid2 == table'.laid
<1>1. /\ DOMAIN slot2 = DOMAIN slot \cup {c}
      /\ \A d \in DOMAIN slot : slot2[d] <= slot[d]
      /\ laid2 = c \/ (laid2 = laid /\ \A d \in DOMAIN slot : slot2[d] = slot[d])
  BY Insertion DEF registered
<1>2. c \notin t.began \cup t.served \cup {t.to, t.laid}
  BY DEF Accepted, Knows
<1>3. \A d \in DOMAIN slot : slot[d] \in Nat /\ slot2[d] \in Nat
  <2>1. TableInv'
    BY Insertion
  <2> QED BY <1>1, <2>1 DEF TableInv, Slots
<1> HIDE DEF slot, laid, slot2, laid2
<1>4. OnCourse(t, slot, laid)
  BY DEF slot, laid
<1>5. \A d \in DOMAIN slot2 : d \in t.served \cup {t.to} => slot2[d] <= t.pos
  BY <1>1, <1>2, <1>3, <1>4 DEF OnCourse
<1>6. OnCourse(t, slot2, laid2)
  BY <1>1, <1>2, <1>4, <1>5 DEF OnCourse
<1> QED BY <1>6 DEF slot2, laid2

\* The iterator goes on to the next key: whom it served is behind that one, and
\* it was not among them.
LEMMA NextOnCourse ==
  ASSUME NEW slot, Slots(slot), NEW laid, NEW t, OnCourse(t, slot, laid),
         Ahead(slot, t.pos) # {},
         NEW u, u.to = First(slot, Ahead(slot, t.pos)), u.pos = slot[u.to], u.laid = t.laid,
         u.began = t.began, u.served = t.served \cup {t.to}
  PROVE  OnCourse(u, slot, laid) /\ u.to \in DOMAIN slot
<1> DEFINE ahead == Ahead(slot, t.pos)
<1>1. /\ \A c \in DOMAIN slot : slot[c] \in Nat
      /\ \A c, d \in DOMAIN slot : c # d => slot[c] # slot[d]
      /\ t.pos \in Nat
  BY DEF Slots, OnCourse
<1>2. \A c : c \in ahead <=> c \in DOMAIN slot /\ slot[c] > t.pos
  BY DEF Ahead
<1> HIDE DEF ahead
<1>3. u.to \in ahead /\ \A d \in ahead : slot[u.to] <= slot[d]
  BY <1>1, <1>2, FirstOf DEF ahead
<1>4. u.to \notin u.served
  BY <1>1, <1>2, <1>3 DEF OnCourse
<1>5. \A c \in DOMAIN slot : c \in u.served \cup {u.to} => slot[c] <= u.pos
  BY <1>1, <1>2, <1>3 DEF OnCourse
<1>6. ASSUME u.laid = laid, NEW c \in DOMAIN slot, c \in u.began, c \notin u.served \cup {u.to}
      PROVE  slot[c] > u.pos
  <2>1. c \in ahead /\ c # u.to
    BY <1>2, <1>6 DEF OnCourse
  <2> QED BY <1>1, <1>2, <1>3, <2>1
<1> QED BY <1>1, <1>2, <1>3, <1>4, <1>5, <1>6 DEF OnCourse

-----------------------------------------------------------------------------
\* The table changes under broadcasts that stay where they are.
LEMMA SameBroadcasts ==
  ASSUME TailInv, UNCHANGED tail, Accepted \subseteq Accepted',
         \A t : OnCourse(t, table.slot, table.laid) /\ Knows(t) \subseteq Accepted =>
                  OnCourse(t, table'.slot, table'.laid)
  PROVE  TailInv'
BY DEF TailInv, Knows

\* One request goes on to a broadcast that is on course, or to none.
LEMMA OneBroadcast ==
  ASSUME TailInv, NEW h \in Handlers, NEW t, tail' = [tail EXCEPT ![h] = t],
         Accepted \subseteq Accepted',
         \A u : OnCourse(u, table.slot, table.laid) => OnCourse(u, table'.slot, table'.laid),
         t.at = "sending" => Knows(t) \subseteq Accepted' /\ OnCourse(t, table'.slot, table'.laid)
  PROVE  TailInv'
<1>1. DOMAIN tail' = Handlers /\ \A g \in Handlers : tail'[g] = IF g = h THEN t ELSE tail[g]
  BY DEF TailInv
<1>2. ASSUME NEW g \in Handlers, tail'[g].at = "sending"
      PROVE  Knows(tail'[g]) \subseteq Accepted' /\ OnCourse(tail'[g], table'.slot, table'.laid)
  BY <1>1, <1>2 DEF TailInv
<1> QED BY <1>1, <1>2 DEF TailInv, Knows

LEMMA RemovalStep ==
  ASSUME IteratorInv, NEW cs, Remove(cs), UNCHANGED tail,
         link' \in [Clients -> {"new", "open", "lost", "gone"}],
         \A c \in Clients : link[c] # "new" => link'[c] # "new"
  PROVE  IteratorInv'
<1>1. TableInv'
  BY Removal DEF IteratorInv
<1>2. \A t : OnCourse(t, table.slot, table.laid) => OnCourse(t, table'.slot, table'.laid)
  BY Removal, ShrunkOnCourse DEF IteratorInv, registered
<1>3. Accepted \subseteq Accepted'
  BY DEF Accepted
<1> QED BY <1>1, <1>2, <1>3, SameBroadcasts DEF IteratorInv

LEMMA ConnectStep ==
  ASSUME IteratorInv, NEW c \in Clients, Connect(c)
  PROVE  IteratorInv'
<1>1. /\ link[c] = "new" /\ link' = [link EXCEPT ![c] = "open"] /\ Insert(c) /\ tail' = tail
  BY DEF Connect
<1>2. TableInv'
  BY <1>1, Insertion DEF IteratorInv
<1>3. \A t : OnCourse(t, table.slot, table.laid) /\ Knows(t) \subseteq Accepted =>
               OnCourse(t, table'.slot, table'.laid)
  BY <1>1, GrownOnCourse DEF IteratorInv
<1>4. Accepted \subseteq Accepted'
  BY <1>1 DEF IteratorInv, TableInv, Accepted
<1> QED BY <1>1, <1>2, <1>3, <1>4, SameBroadcasts DEF IteratorInv

LEMMA SentStep ==
  ASSUME IteratorInv, NEW h \in Handlers, Sent(h)
  PROVE  IteratorInv'
<1> DEFINE t == tail[h]
           ahead == Ahead(table.slot, t.pos)
           next == First(table.slot, ahead)
<1>1. /\ TableInv /\ TailInv /\ UNCHANGED link
      /\ Knows(t) \subseteq Accepted /\ OnCourse(t, table.slot, table.laid)
  BY DEF Sent, IteratorInv, TailInv
<1>2. CASE ahead # {}
  <2>1. PICK dead :
          /\ tail' = [tail EXCEPT ![h] =
                Sending(t.due, table.slot[next], next, t.seen + 1, t.born, t.laid,
                        dead, t.began, t.served \cup {t.to})]
          /\ UNCHANGED table
    BY <1>2 DEF Sent
  <2> DEFINE u == Sending(t.due, table.slot[next], next, t.seen + 1, t.born, t.laid,
                          dead, t.began, t.served \cup {t.to})
  <2>2. /\ u.to = next /\ u.pos = table.slot[next] /\ u.laid = t.laid
        /\ u.began = t.began /\ u.served = t.served \cup {t.to}
    BY DEF Sending
  <2>3. tail' = [tail EXCEPT ![h] = u]
    BY <2>1
  <2> HIDE DEF u
  <2>4. OnCourse(u, table.slot, table.laid) /\ u.to \in registered
    <3>1. Slots(table.slot) /\ Ahead(table.slot, t.pos) # {}
      BY <1>1, <1>2 DEF TableInv
    <3> QED BY <1>1, <2>2, <3>1, NextOnCourse DEF registered
  <2>5. Knows(u) \subseteq Accepted
    BY <1>1, <2>2, <2>4 DEF Knows, TableInv
  <2>6. TableInv' /\ Accepted' = Accepted
    BY <1>1, <2>1 DEF TableInv, Accepted, registered
  <2>7. TailInv'
    <3> HIDE DEF t, ahead, next
    <3> QED BY <1>1, <2>1, <2>3, <2>4, <2>5, <2>6, OneBroadcast
  <2> QED BY <2>6, <2>7 DEF IteratorInv
<1>3. CASE ahead = {}
  <2> DEFINE u == Announce(t.due, table'.slot, table'.born, table'.laid)
  <2>1. PICK dead : Remove(dead) /\ tail' = [tail EXCEPT ![h] = u]
    BY <1>3 DEF Sent
  <2>2. /\ link' \in [Clients -> {"new", "open", "lost", "gone"}]
        /\ \A c \in Clients : link[c] # "new" => link'[c] # "new"
    BY <1>1 DEF TableInv
  <2>3. TableInv' /\ Accepted \subseteq Accepted'
    BY <1>1, <2>1, <2>2, Removal DEF Accepted
  <2>4. \A v : OnCourse(v, table.slot, table.laid) => OnCourse(v, table'.slot, table'.laid)
    BY <1>1, <2>1, <2>2, Removal, ShrunkOnCourse DEF registered
  <2>5. ASSUME u.at = "sending"
        PROVE  Knows(u) \subseteq Accepted' /\ OnCourse(u, table'.slot, table'.laid)
    <3>1. Slots(table'.slot)
      BY <2>3 DEF TableInv
    <3>2. /\ Knows(u) \subseteq registered' \cup {table'.laid} /\ registered' # {}
          /\ OnCourse(u, table'.slot, table'.laid)
      BY <2>5, <3>1, AnnounceOnCourse DEF registered
    <3>3. table' # NoTable
      BY <3>2 DEF NoTable, registered
    <3> QED BY <2>3, <3>2, <3>3 DEF TableInv, NoTable
  <2> HIDE DEF u
  <2>6. TailInv'
    <3> HIDE DEF t, ahead, next
    <3> QED BY <1>1, <2>1, <2>3, <2>4, <2>5, OneBroadcast
  <2> QED BY <2>3, <2>6 DEF IteratorInv
<1> QED BY <1>2, <1>3

LEMMA IteratorStep ==
  ASSUME IteratorInv, [Next]_vars
  PROVE  IteratorInv'
<1> USE DEF IteratorInv
<1>1. ASSUME UNCHANGED <<table, tail>>, link' \in [Clients -> {"new", "open", "lost", "gone"}],
             \A c \in Clients : link[c] # "new" => link'[c] # "new"
      PROVE  IteratorInv'
  BY <1>1, AcceptedStays, SameBroadcasts
<1>2. ASSUME NEW h \in Handlers, NEW u, tail' = [tail EXCEPT ![h] = u], UNCHANGED <<table, link>>,
             u.at = "sending" => /\ Knows(u) \subseteq Accepted
                                 /\ OnCourse(u, table.slot, table.laid)
      PROVE  IteratorInv'
  <2>1. TableInv' /\ Accepted' = Accepted
    BY <1>2 DEF TableInv, Accepted, registered
  <2>2. \A v : OnCourse(v, table.slot, table.laid) => OnCourse(v, table'.slot, table'.laid)
    BY <1>2
  <2>3. u.at = "sending" => Knows(u) \subseteq Accepted' /\ OnCourse(u, table'.slot, table'.laid)
    BY <1>2, <2>1
  <2>4. TailInv'
    BY <1>2, <2>1, <2>2, <2>3, OneBroadcast
  <2> QED BY <2>1, <2>4
<1>3. ASSUME NEW c \in Clients, Connect(c) PROVE IteratorInv'
  BY <1>3, ConnectStep
<1>4. ASSUME NEW c \in Clients, Vanish(c) \/ Pong(c) PROVE IteratorInv'
  BY <1>1, <1>4 DEF Vanish, Pong, TableInv
<1>5. ASSUME NEW c \in Clients, Disconnect(c) PROVE IteratorInv'
  BY <1>5, RemovalStep DEF Disconnect, TableInv
<1>6. ASSUME NEW conns, NEW pos, NEW dead, PingRest(conns, pos, dead), UNCHANGED <<link, tail>>
      PROVE  IteratorInv'
  <2>1. link' \in [Clients -> {"new", "open", "lost", "gone"}]
    BY <1>6 DEF TableInv
  <2>2. CASE UNCHANGED table
    BY <1>1, <1>6, <2>1, <2>2
  <2>3. CASE \E gone : EndRound(gone)
    BY <1>6, <2>1, <2>3, RemovalStep DEF EndRound
  <2> QED BY <1>6, <2>2, <2>3 DEF PingRest
<1>7. CASE Wake
  BY <1>6, <1>7 DEF Wake
<1>8. CASE PingSent
  BY <1>6, <1>8 DEF PingSent
<1>9. ASSUME NEW h \in Handlers, NEW job \in Jobs, Start(h, job) PROVE IteratorInv'
  <2> DEFINE u == Announce(Announced[job], table.slot, table.born, table.laid)
  <2>1. ASSUME u.at = "sending"
        PROVE  Knows(u) \subseteq Accepted /\ OnCourse(u, table.slot, table.laid)
    <3>1. /\ Knows(u) \subseteq registered \cup {table.laid} /\ registered # {}
          /\ OnCourse(u, table.slot, table.laid)
      BY <2>1, AnnounceOnCourse DEF TableInv, registered
    <3>2. table # NoTable
      BY <3>1 DEF NoTable, registered
    <3> QED BY <3>1, <3>2 DEF TableInv
  <2>2. tail' = [tail EXCEPT ![h] = u] /\ UNCHANGED <<table, link>>
    BY <1>9 DEF Start
  <2> HIDE DEF u
  <2> QED BY <1>2, <2>1, <2>2
<1>10. ASSUME NEW h \in Handlers, Abort(h) PROVE IteratorInv'
  <2> DEFINE u == Failed(tail[h].due)
  <2>1. u.at # "sending"
    BY DEF Failed
  <2>2. tail' = [tail EXCEPT ![h] = u] /\ UNCHANGED <<table, link>>
    BY <1>10 DEF Abort
  <2> HIDE DEF u
  <2> QED BY <1>2, <2>1, <2>2
<1>11. ASSUME NEW h \in Handlers, Sent(h) PROVE IteratorInv'
  BY <1>11, SentStep
<1>12. CASE UNCHANGED vars
  BY <1>1, <1>12 DEF vars, TableInv
<1> QED BY <1>3, <1>4, <1>5, <1>7, <1>8, <1>9, <1>10, <1>11, <1>12 DEF Next

LEMMA IteratorInit == Init => IteratorInv
<1> SUFFICES ASSUME Init PROVE IteratorInv
  OBVIOUS
<1>1. \A h \in Handlers : tail[h].at # "sending"
  BY DEF Init, Idle
<1>2. TableInv
  BY NoTableSlots DEF Init, TableInv, NoTable, registered
<1> QED BY <1>1, <1>2 DEF Init, IteratorInv, TailInv

\* However often the table gets a new storage under a broadcast, and whoever
\* connects, leaves or is weeded out at its awaits, nobody gets an event twice.
THEOREM NobodyServedTwice == Spec => []NobodyTwice
<1>1. IteratorInv => NobodyTwice
  BY DEF IteratorInv, TailInv, OnCourse, NobodyTwice
<1> QED BY <1>1, IteratorInit, IteratorStep, PTL DEF Spec

\* Connects and disconnects take nobody out of a broadcast's way who was there
\* at its start and still is, except by a new storage, of whatever size.
THEOREM SkipsNeedNewStorage == Spec => []OnlyNewStorageSkips
<1>1. IteratorInv => OnlyNewStorageSkips
  BY DEF IteratorInv, TailInv, OnCourse, OnlyNewStorageSkips, Owed, Ahead, registered
<1> QED BY <1>1, IteratorInit, IteratorStep, PTL DEF Spec

-----------------------------------------------------------------------------
(* Types *)

\* What a round holds of the table it goes through.
HeartbeatTyped ==
  \/ heartbeat \in [at : {"never", "sleep", "done"}]
  \/ /\ heartbeat.at = "ping"
     /\ heartbeat.to \in DOMAIN heartbeat.conns
     /\ DOMAIN heartbeat.conns \cup heartbeat.dead \subseteq Clients

\* A broadcast sends to a client, so only clients can fail.
Typed(t) ==
  \/ t \in {Idle, Done}
  \/ t.at = "failed"
  \/ t.at = "sending" /\ t.dead \subseteq Clients

TypeInv ==
  /\ IteratorInv
  /\ silent \in [Clients -> 0 .. RoundsCap]
  /\ HeartbeatTyped
  /\ \A h \in Handlers : Typed(tail[h])

LEMMA RoundsCapPositive == RoundsCap \in Nat \ {0}
<1>1. \A a \in Nat, b \in Nat \ {0} : a \div b \in Nat
  BY Z3
<1>2. PONG_TIMEOUT + HEARTBEAT_INTERVAL - 1 \in Nat
  BY TimesAssumption
<1>3. (PONG_TIMEOUT + HEARTBEAT_INTERVAL - 1) \div HEARTBEAT_INTERVAL \in Nat
  BY <1>1, <1>2, TimesAssumption
<1> QED BY <1>3 DEF RoundsCap

\* Pings go to keys of the snapshot, and so do drops.
LEMMA RoundTyped ==
  ASSUME NEW conns, NEW pos, NEW dead, DOMAIN conns \cup dead \subseteq Clients,
         PingRest(conns, pos, dead)
  PROVE  HeartbeatTyped'
<1> DEFINE ahead == Ahead(conns, pos)
           before(c) == {d \in ahead : conns[d] < conns[c]}
<1>1. ahead \subseteq DOMAIN conns
  BY DEF Ahead
<1>2. CASE \E c \in ahead :
             heartbeat' = [at |-> "ping", conns |-> conns, to |-> c, dead |-> dead \cup before(c)]
  <2>1. PICK c \in ahead :
          heartbeat' = [at |-> "ping", conns |-> conns, to |-> c, dead |-> dead \cup before(c)]
    BY <1>2
  <2>2. before(c) \subseteq Clients
    BY <1>1
  <2> HIDE DEF ahead, before
  <2> QED BY <1>1, <2>1, <2>2 DEF HeartbeatTyped
<1>3. CASE \E gone : EndRound(gone)
  BY <1>3 DEF EndRound, HeartbeatTyped, Asleep, Done
<1> QED BY <1>2, <1>3 DEF PingRest

\* Rounds are counted up to the cap; a pong starts the count anew.
LEMMA SilentTyped ==
  ASSUME TypeInv, [Next]_vars
  PROVE  silent' \in [Clients -> 0 .. RoundsCap]
<1>1. 0 \in 0 .. RoundsCap /\ \A n \in 0 .. RoundsCap : n < RoundsCap => n + 1 \in 0 .. RoundsCap
  BY RoundsCapPositive
<1>2. RoundsCap \in 0 .. RoundsCap
  BY RoundsCapPositive
<1>3. CASE Wake
  BY <1>1, <1>2, <1>3 DEF Wake, Counted, TypeInv
<1>4. ASSUME NEW c \in Clients, Pong(c)
      PROVE  silent' \in [Clients -> 0 .. RoundsCap]
  BY <1>1, <1>4 DEF Pong, TypeInv
<1>5. CASE UNCHANGED silent
  BY <1>5 DEF TypeInv
<1>6. [Next]_vars => Wake \/ (\E c \in Clients : Pong(c)) \/ UNCHANGED silent
  BY DEF Next, Connect, Vanish, Disconnect, PingSent, Start, Abort, Sent, vars
<1> QED BY <1>3, <1>4, <1>5, <1>6

LEMMA HeartbeatStaysTyped ==
  ASSUME TypeInv, [Next]_vars
  PROVE  HeartbeatTyped'
<1>1. CASE Wake
  <2>1. DOMAIN table.slot \cup {} \subseteq Clients
    BY DEF TypeInv, IteratorInv, TableInv, registered, Accepted
  <2> QED BY <1>1, <2>1, RoundTyped DEF Wake
<1>2. CASE PingSent
  <2> DEFINE c == heartbeat.to
  <2>1. DOMAIN heartbeat.conns \cup heartbeat.dead \subseteq Clients /\ c \in Clients
    BY <1>2 DEF PingSent, TypeInv, HeartbeatTyped
  <2>2. PICK dead \in {heartbeat.dead, heartbeat.dead \cup {c}} :
          PingRest(heartbeat.conns, heartbeat.conns[c], dead)
    BY <1>2 DEF PingSent
  <2> HIDE DEF c
  <2> QED BY <2>1, <2>2, RoundTyped
<1>3. ASSUME NEW c \in Clients, Connect(c)
      PROVE  HeartbeatTyped'
  BY <1>3 DEF Connect, TypeInv, HeartbeatTyped, Asleep
<1>4. CASE UNCHANGED heartbeat
  BY <1>4 DEF TypeInv, HeartbeatTyped
<1>5. Next => Wake \/ PingSent \/ (\E c \in Clients : Connect(c)) \/ UNCHANGED heartbeat
  BY DEF Next, Vanish, Disconnect, Pong, Start, Abort, Sent
<1> QED BY <1>1, <1>2, <1>3, <1>4, <1>5 DEF vars

LEMMA AnnounceTyped ==
  ASSUME NEW due, NEW slot, NEW born, NEW laid
  PROVE  Typed(Announce(due, slot, born, laid))
BY DEF Announce, Sending, Typed

LEMMA BroadcastsTyped ==
  ASSUME TypeInv, [Next]_vars
  PROVE  \A h \in Handlers : Typed(tail'[h])
<1>1. ASSUME NEW h \in Handlers, NEW t, tail' = [tail EXCEPT ![h] = t], Typed(t)
      PROVE  \A g \in Handlers : Typed(tail'[g])
  <2>1. \A g \in Handlers : tail'[g] = IF g = h THEN t ELSE tail[g]
    BY <1>1 DEF TypeInv, IteratorInv, TailInv
  <2> QED BY <1>1, <2>1 DEF TypeInv
<1>2. ASSUME NEW h \in Handlers, NEW job \in Jobs, Start(h, job)
      PROVE  \A g \in Handlers : Typed(tail'[g])
  BY <1>1, <1>2, AnnounceTyped DEF Start
<1>3. ASSUME NEW h \in Handlers, Abort(h)
      PROVE  \A g \in Handlers : Typed(tail'[g])
  <2>1. Typed(Failed(tail[h].due))
    BY DEF Failed, Typed
  <2> QED BY <1>1, <1>3, <2>1 DEF Abort
<1>4. ASSUME NEW h \in Handlers, Sent(h)
      PROVE  \A g \in Handlers : Typed(tail'[g])
  <2> DEFINE t == tail[h]
             ahead == Ahead(table.slot, t.pos)
             next == First(table.slot, ahead)
  <2>1. t.dead \subseteq Clients /\ t.to \in Clients
    <3>1. Typed(t) /\ t.at = "sending" /\ Knows(t) \subseteq Accepted
      BY <1>4 DEF Sent, TypeInv, IteratorInv, TailInv
    <3> QED BY <3>1 DEF Typed, Idle, Done, Knows, Accepted
  <2>2. PICK dead \in {t.dead, t.dead \cup {t.to}} :
          \/ tail' = [tail EXCEPT ![h] =
               Sending(t.due, table.slot[next], next, t.seen + 1, t.born, t.laid,
                       dead, t.began, t.served \cup {t.to})]
          \/ tail' = [tail EXCEPT ![h] = Announce(t.due, table'.slot, table'.born, table'.laid)]
    BY <1>4 DEF Sent
  <2>3. Typed(Sending(t.due, table.slot[next], next, t.seen + 1, t.born, t.laid,
                      dead, t.began, t.served \cup {t.to}))
    BY <2>1, <2>2 DEF Sending, Typed
  <2> HIDE DEF t, ahead, next
  <2> QED BY <1>1, <2>2, <2>3, AnnounceTyped
<1>5. CASE UNCHANGED tail
  BY <1>5 DEF TypeInv
<1>6. Next \/ UNCHANGED vars =>
        \/ \E h \in Handlers : (\E job \in Jobs : Start(h, job)) \/ Abort(h) \/ Sent(h)
        \/ UNCHANGED tail
  BY DEF Next, Connect, Vanish, Disconnect, Pong, Wake, PingSent, vars
<1> QED BY <1>2, <1>3, <1>4, <1>5, <1>6

\* Every variable keeps its type, keys keep slots of their own through every new
\* storage, and an organization has a table exactly when one of its sockets is
\* registered.
THEOREM LiveTypes == Spec => []TypeOK
<1>1. Init => TypeInv
  <2> SUFFICES ASSUME Init PROVE TypeInv
    OBVIOUS
  <2>1. silent \in [Clients -> 0 .. RoundsCap]
    BY RoundsCapPositive DEF Init
  <2>2. HeartbeatTyped /\ \A h \in Handlers : Typed(tail[h])
    BY DEF Init, HeartbeatTyped, Typed
  <2> QED BY <2>1, <2>2, IteratorInit DEF TypeInv
<1>2. TypeInv /\ [Next]_vars => TypeInv'
  <2> SUFFICES ASSUME TypeInv, [Next]_vars PROVE TypeInv'
    OBVIOUS
  <2>1. IteratorInv'
    BY IteratorStep DEF TypeInv
  <2> QED BY <2>1, BroadcastsTyped, SilentTyped, HeartbeatStaysTyped DEF TypeInv, Typed
<1>3. TypeInv => TypeOK
  <2> SUFFICES ASSUME TypeInv PROVE TypeOK
    OBVIOUS
  <2>1. table.slot \in [registered -> 1 .. table.filled]
    BY DEF TypeInv, IteratorInv, TableInv, Slots, registered
  <2>2. \A c, d \in registered : c # d => table.slot[c] # table.slot[d]
    BY DEF TypeInv, IteratorInv, TableInv, Slots, registered
  <2>3. \/ table = NoTable
        \/ registered # {} /\ registered \cup {table.born, table.laid} \subseteq Clients
    BY DEF TypeInv, IteratorInv, TableInv, Accepted
  <2>4. ASSUME NEW h \in Handlers
        PROVE  \/ tail[h] \in {Idle, Done}
               \/ tail[h].at = "failed"
               \/ /\ tail[h].at = "sending"
                  /\ tail[h].dead \cup tail[h].served \cup tail[h].began \cup {tail[h].to}
                       \subseteq Clients
    BY <2>4 DEF TypeInv, IteratorInv, TailInv, Typed, Knows, Accepted
  <2> QED BY <2>1, <2>2, <2>3, <2>4 DEF TypeInv, IteratorInv, TableInv, HeartbeatTyped, TypeOK
<1> QED BY <1>1, <1>2, <1>3, PTL DEF Spec

=============================================================================
