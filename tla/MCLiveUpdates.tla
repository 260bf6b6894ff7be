--------------------------- MODULE MCLiveUpdates ---------------------------
(***************************************************************************)
(* Sockets and an announcing request.  A pong is late after one interval of   *)
(* the heartbeat instead of three: there is still a round in which it may   *)
(* be late and one in which it must be.                                     *)
(***************************************************************************)
EXTENDS LiveUpdates, TLC

CONSTANTS w1, w2, w3, w4, w5, w6, h1

MCClients == {w1, w2, w3}
TwoClients == {w1, w2}
SixClients == {w1, w2, w3, w4, w5, w6}
OneHandler == {h1}
Symmetry6 == Permutations(SixClients)

\* CPython 3.11 fills two thirds of a storage, whose index has 8 places for the
\* first key and later 16 or, from six keys on, 32.
CPython == [n \in 0 .. 6 |-> IF n = 0 THEN 5 ELSE IF n <= 5 THEN 10 ELSE 21]

\* A smaller storage, so that three sockets are enough to need a new one.
SmallStorage == [n \in 0 .. 3 |-> IF n <= 1 THEN 2 ELSE 5]
=============================================================================
