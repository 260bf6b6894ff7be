---------------------------- MODULE LiveUpdates ----------------------------
(***************************************************************************)
(* The WebSocket connections of one organization, the broadcasts that the   *)
(* requests send over them and the heartbeat that weeds them out            *)
(* (websocket_manager.py, notification_service.py, routes/websocket.py).    *)
(*                                                                          *)
(* Everything here runs on one event loop: a step goes from one "await      *)
(* ws.send_text" to the next, and another task may run only there.  The     *)
(* broadcast iterates the live dictionary of connections across its awaits, *)
(* while connects, disconnects and the heartbeat change it.  The dictionary *)
(* is modelled as CPython keeps it: keys in numbered slots of a storage, a  *)
(* removal that leaves a hole, an insertion that lays the keys out anew     *)
(* when the storage has no slot left, and an iterator that remembers a slot *)
(* number and the size it started from.                                     *)
(***************************************************************************)
EXTENDS Integers, Sequences, FiniteSets

CONSTANTS Clients,             \* WebSocket objects, each accepted at most once
          Handlers,            \* requests whose tail announces events
          Jobs,                \* what those requests did
          HEARTBEAT_INTERVAL,
          PONG_TIMEOUT,
          Capacity             \* how CPython sizes the storage of a dictionary

ASSUME JobsAssumption ==
         Jobs \subseteq {"auto", "pending", "escalate", "approve", "reject", "upload"}
ASSUME TimesAssumption == /\ HEARTBEAT_INTERVAL \in Nat \ {0}
                          /\ PONG_TIMEOUT \in Nat

\* Slots of a storage that was allocated when the dictionary had n keys.
ASSUME CapacityAssumption ==
         \A n \in 0 .. Cardinality(Clients) : Capacity[n] \in Nat /\ Capacity[n] > n

VARIABLES table,       \* the organization's dictionary of connections
          link,        \* what became of each socket
          silent,      \* heartbeat rounds begun since the last pong
          heartbeat,   \* the heartbeat task
          tail         \* the announcing end of each request

vars == <<table, link, silent, heartbeat, tail>>

-----------------------------------------------------------------------------
(* The events a request announces, in order, once its transaction is in. *)

Announced ==
  [auto     |-> <<"DEAL_CREATED", "DEAL_AUTO_APPROVED">>,
   pending  |-> <<"DEAL_CREATED", "TASK_CREATED">>,
   escalate |-> <<"GM_ESCALATED", "TASK_COMPLETED", "TASK_CREATED">>,
   approve  |-> <<"GM_APPROVED", "TASK_COMPLETED">>,
   reject   |-> <<"DEAL_REJECTED">>,
   upload   |-> <<"PRICING_UPLOADED">>]

Asleep  == [at |-> "sleep"]
Idle    == [at |-> "idle"]
Done    == [at |-> "done"]
Failed(due) == [at |-> "failed", due |-> due]

\* Rounds after which a silent client has certainly outlasted PONG_TIMEOUT.
RoundsCap == (PONG_TIMEOUT + HEARTBEAT_INTERVAL - 1) \div HEARTBEAT_INTERVAL + 1

-----------------------------------------------------------------------------
(* The dictionary *)

\* No entry in self._connections.  A table is known by the socket it was
\* created for, and its storage by the one whose insertion allocated it.
Nobody == "nobody"
NoTable == [slot |-> [c \in {} |-> 0], filled |-> 0, usable |-> 0, born |-> Nobody, laid |-> Nobody]

registered == DOMAIN table.slot

\* A table that is no longer in self._connections is empty.
Size(born) == IF table.born = born THEN Cardinality(registered) ELSE 0

\* Keys an iterator that has come to pos still finds, and the next of them.
Ahead(slot, pos) == {c \in DOMAIN slot : slot[c] > pos}
First(slot, keys) == CHOOSE c \in keys : \A d \in keys : slot[c] <= slot[d]

\* The keys in the first slots, in their order and without holes.
LaidOut(slot) ==
  [c \in DOMAIN slot |-> Cardinality({d \in DOMAIN slot : slot[d] <= slot[c]})]

\* A key is inserted into the slot after the last that was ever filled; where
\* there is none, the keys move to a new storage first.
Insert(c) ==
  LET full == table.filled = table.usable
      size == Cardinality(registered)
      old  == IF full THEN LaidOut(table.slot) ELSE table.slot
      last == (IF full THEN size ELSE table.filled) + 1
  IN  table' = [slot   |-> [d \in registered \cup {c} |-> IF d = c THEN last ELSE old[d]],
                filled |-> last,
                usable |-> IF full THEN Capacity[size] ELSE table.usable,
                born   |-> IF registered = {} THEN c ELSE table.born,
                laid   |-> IF full THEN c ELSE table.laid]

Without(slot, cs) == [c \in DOMAIN slot \ cs |-> slot[c]]

\* Slip: an empty table stays in self._connections.
RemoveOnly(cs) == table' = [table EXCEPT !.slot = Without(@, cs)]

\* Slip: a list of connections, where removal moves up what comes after.
RemoveFromList(cs) ==
  table' = IF registered \subseteq cs THEN NoTable
           ELSE [table EXCEPT !.slot = LaidOut(Without(@, cs)),
                              !.filled = Cardinality(registered \ cs)]

\* pop each of cs; a table that becomes empty is deleted.
Remove(cs) ==
  table' = IF registered \subseteq cs THEN NoTable
           ELSE [table EXCEPT !.slot = Without(@, cs)]

-----------------------------------------------------------------------------
(* One connection *)

\* Slip: the task is started once and never again.
NeverStarted == heartbeat.at = "never"

Stopped == heartbeat.at \in {"never", "done"}

Connect(c) ==
  /\ link[c] = "new"
  /\ link' = [link EXCEPT ![c] = "open"]
  /\ Insert(c)
  /\ heartbeat' = IF Stopped THEN Asleep ELSE heartbeat
  /\ UNCHANGED <<silent, tail>>

\* The peer is gone and the endpoint does not know yet.
Vanish(c) ==
  /\ link[c] = "open"
  /\ link' = [link EXCEPT ![c] = "lost"]
  /\ UNCHANGED <<table, silent, heartbeat, tail>>

\* receive_text raises: WebSocketDisconnect, or anything else.
Disconnect(c) ==
  /\ link[c] \in {"open", "lost"}
  /\ link' = [link EXCEPT ![c] = "gone"]
  /\ Remove({c})
  /\ UNCHANGED <<silent, heartbeat, tail>>

\* Nothing comes of any other text, nor of a pong once the heartbeat has
\* dropped the client: it stays connected and is never registered again.
Pong(c) ==
  /\ link[c] = "open"
  /\ c \in registered
  /\ silent' = [silent EXCEPT ![c] = 0]
  /\ UNCHANGED <<table, link, heartbeat, tail>>

\* The results an awaited send may have.
Outcomes(c) == IF link[c] = "open" THEN {TRUE} ELSE BOOLEAN

-----------------------------------------------------------------------------
(* Heartbeat *)

\* Slip: only a failing send counts.
NeverLate(rounds) == FALSE

\* A round takes less than an interval, so n rounds after a pong between
\* n - 1 and n intervals have gone by.
MustBeLate(rounds) == (rounds - 1) * HEARTBEAT_INTERVAL >= PONG_TIMEOUT
MayBeLate(rounds) == rounds * HEARTBEAT_INTERVAL >= PONG_TIMEOUT

Counted ==
  [c \in Clients |-> IF c \notin registered THEN 0
                    ELSE IF silent[c] < RoundsCap THEN silent[c] + 1 ELSE RoundsCap]

\* End of a round: drop the dead, then sleep again if anyone is left.
EndRound(dead) ==
  /\ Remove(dead)
  /\ heartbeat' = IF registered' = {} THEN Done ELSE Asleep

\* Go on through the snapshot list(conns.items()), which has the keys of the
\* table when the round began: whoever is late is dead without a ping, up to the
\* first that is not.  last_pong is read here, so a pong that arrives while the
\* round awaits another send still counts.
PingRest(conns, pos, dead) ==
  LET ahead     == Ahead(conns, pos)
      before(c) == {d \in ahead : conns[d] < conns[c]}
  IN  \/ \E c \in ahead :
           /\ \A d \in before(c) : MayBeLate(silent'[d])
           /\ ~ MustBeLate(silent'[c])
           /\ heartbeat' = [at |-> "ping", conns |-> conns, to |-> c, dead |-> dead \cup before(c)]
           /\ UNCHANGED table
      \/ /\ \A c \in ahead : MayBeLate(silent'[c])
         /\ EndRound(dead \cup ahead)

Wake ==
  /\ heartbeat.at = "sleep"
  /\ silent' = Counted
  /\ PingRest(table.slot, 0, {})
  /\ UNCHANGED <<link, tail>>

PingSent ==
  LET c == heartbeat.to
  IN  /\ heartbeat.at = "ping"
      /\ UNCHANGED <<link, silent, tail>>
      /\ \E sent \in Outcomes(c) :
           PingRest(heartbeat.conns, heartbeat.conns[c],
                    IF sent THEN heartbeat.dead ELSE heartbeat.dead \cup {c})

-----------------------------------------------------------------------------
(* Broadcasts *)

\* began: the keys when it began, whose number the iterator keeps;
\* born, laid: the table, and the storage it then had;
\* pos, seen: where the iterator is, and how many keys it has yielded;
\* to, served: the key sent to, and those sent to before.
Sending(due, pos, to, seen, born, laid, dead, began, served) ==
  [at |-> "sending", due |-> due, pos |-> pos, to |-> to, seen |-> seen, born |-> born,
   laid |-> laid, dead |-> dead, began |-> began, served |-> served]

\* Persist the events of due one after the other and start to broadcast the
\* first that finds a table: with none, every one of them is only persisted.
Announce(due, slot, born, laid) ==
  IF due = <<>> \/ DOMAIN slot = {} THEN Done
  ELSE LET c == First(slot, DOMAIN slot)
       IN  Sending(Tail(due), slot[c], c, 1, born, laid, {}, DOMAIN slot, {})

Start(h, job) ==
  /\ tail[h] = Idle
  /\ tail' = [tail EXCEPT ![h] = Announce(Announced[job], table.slot, table.born, table.laid)]
  /\ UNCHANGED <<table, link, silent, heartbeat>>

\* The iterator finds the dictionary changed: the next step of "for ws, info
\* in ....items()" raises RuntimeError, outside the try, out of the request.
Changed(t) ==
  \/ Size(t.born) # Cardinality(t.began)
  \/ Ahead(table.slot, t.pos) # {} /\ t.seen = Cardinality(t.began)

\* Slip: an interrupted broadcast begins again.
BeginAgain(h) ==
  LET t == tail[h]
      c == First(table.slot, registered)
  IN  /\ t.at = "sending"
      /\ Changed(t)
      /\ registered # {}
      /\ tail' = [tail EXCEPT ![h] = Sending(t.due, table.slot[c], c, 1, table.born, table.laid,
                                            t.dead, registered, t.served \cup {t.to})]
      /\ UNCHANGED <<table, link, silent, heartbeat>>

Abort(h) ==
  /\ tail[h].at = "sending"
  /\ Changed(tail[h])
  /\ tail' = [tail EXCEPT ![h] = Failed(tail[h].due)]
  /\ UNCHANGED <<table, link, silent, heartbeat>>

\* send_text returned or raised; go on to the next key, or to the cleanup and
\* the next event.
Sent(h) ==
  LET t     == tail[h]
      ahead == Ahead(table.slot, t.pos)
      next  == First(table.slot, ahead)
  IN  /\ t.at = "sending"
      /\ ~ Changed(t)
      /\ \E sent \in Outcomes(t.to) :
           LET dead == IF sent THEN t.dead ELSE t.dead \cup {t.to}
           IN  IF ahead # {}
               THEN /\ tail' = [tail EXCEPT ![h] =
                          Sending(t.due, table.slot[next], next, t.seen + 1, t.born, t.laid,
                                  dead, t.began, t.served \cup {t.to})]
                    /\ UNCHANGED table
               ELSE /\ Remove(dead)
                    /\ tail' = [tail EXCEPT ![h] =
                          Announce(t.due, table'.slot, table'.born, table'.laid)]
      /\ UNCHANGED <<link, silent, heartbeat>>

-----------------------------------------------------------------------------
Init ==
  /\ table = NoTable
  /\ link = [c \in Clients |-> "new"]
  /\ silent = [c \in Clients |-> 0]
  /\ heartbeat = [at |-> "never"]
  /\ tail = [h \in Handlers |-> Idle]

Next ==
  \/ \E c \in Clients : \/ Connect(c)
                        \/ Vanish(c)
                        \/ Disconnect(c)
                        \/ Pong(c)
  \/ Wake
  \/ PingSent
  \/ \E h \in Handlers : \/ \E job \in Jobs : Start(h, job)
                         \/ Abort(h)
                         \/ Sent(h)

\* The event loop runs every task that is ready, timers fire, and no send
\* blocks for ever.  Nothing is assumed of the clients, nor that the server
\* ever learns of a lost one.
Fairness ==
  /\ WF_vars(Wake)
  /\ WF_vars(PingSent)
  /\ \A h \in Handlers : WF_vars(Abort(h) \/ Sent(h))

Spec == Init /\ [][Next]_vars /\ Fairness

-----------------------------------------------------------------------------
(* Properties *)

\* Every variable has its type, no two keys share a slot, and there is a table
\* exactly when somebody is registered in it.
TypeOK ==
  /\ table.slot \in [registered -> 1 .. table.filled]
  /\ \A c, d \in registered : c # d => table.slot[c] # table.slot[d]
  /\ \/ table = NoTable
     \/ registered # {} /\ registered \cup {table.born, table.laid} \subseteq Clients
  /\ link \in [Clients -> {"new", "open", "lost", "gone"}]
  /\ silent \in [Clients -> 0 .. RoundsCap]
  /\ \/ heartbeat \in [at : {"never", "sleep", "done"}]
     \/ /\ heartbeat.at = "ping"
        /\ heartbeat.to \in DOMAIN heartbeat.conns
        /\ DOMAIN heartbeat.conns \cup heartbeat.dead \subseteq Clients
  /\ \A h \in Handlers :
       \/ tail[h] \in {Idle, Done}
       \/ tail[h].at = "failed"
       \/ /\ tail[h].at = "sending"
          /\ tail[h].dead \cup tail[h].served \cup tail[h].began \cup {tail[h].to} \subseteq Clients

\* As long as a connection is registered a heartbeat task is running, however
\* the last disconnect, the end of the loop and the next connect interleave:
\* otherwise dead connections would never be cleaned up again.
HeartbeatRuns == registered # {} => heartbeat.at \in {"sleep", "ping"}

\* A broadcast sends its event to no client twice, although the keys of the
\* dictionary may move while it stands in the middle of them.
NobodyTwice == \A h \in Handlers : tail[h].at = "sending" => tail[h].to \notin tail[h].served

\* Those who were connected when a broadcast began, still are, and have not
\* been sent to.
Owed(t) == {c \in (t.began \cap registered) \ (t.served \cup {t.to}) : link[c] = "open"}

\* As long as the dictionary keeps its storage a broadcast passes over nobody:
\* whoever it owes the event to is ahead of the iterator, whatever was added to
\* or removed from the dictionary meanwhile.
OnlyNewStorageSkips ==
  \A h \in Handlers :
    tail[h].at = "sending" /\ tail[h].laid = table.laid =>
      Owed(tail[h]) \subseteq Ahead(table.slot, tail[h].pos)

\* The iterator is at its end and raises nothing.
AtEnd(t) == t.at = "sending" /\ ~ Changed(t) /\ Ahead(table.slot, t.pos) = {}

\* websocket_manager.py:114: "Push an event to all connected clients for a given
\* org."  Where keys have moved to a new storage, over the holes of those who
\* left, the iterator is further on than the keys it has yielded.
AllConnectedServed == \A h \in Handlers : AtEnd(tail[h]) => Owed(tail[h]) = {}

\* A client that is gone without a word is dropped in the end, by the heartbeat
\* alone: no close frame and no failing send is needed.  A socket is lost at
\* most once: time and again nobody registered is lost.
LostRemoved == []<>(\A c \in registered : link[c] # "lost")

\* deal_service.py:342 (step 8 of create_deal) and notification_service.py:6:
\* an event is persisted to the notifications table.  A request that announces
\* several of them loses the later ones when a broadcast raises.
EveryEventStored == \A h \in Handlers : tail[h].at = "failed" => tail[h].due = <<>>

=============================================================================
