------------------------ MODULE ConnectionLifecycle ------------------------
(***************************************************************************)
(* What the connection pool promises its callers, whatever it does inside: *)
(* the life of every NodeConnection object.                                *)
(*                                                                         *)
(*   fresh ---> in use by one thread <---> idle ---> evicted ---> closed   *)
(*                      |                                           ^      *)
(*                      +-------------------------------------------+      *)
(*                                                                         *)
(* A connection has one owner at any time, it is handed out only when it   *)
(* is idle, and nothing happens to it once it is closed.                   *)
(***************************************************************************)
CONSTANTS Thread,       \* the threads that use the pool
          Connection    \* the NodeConnection objects

VARIABLE life           \* life[c]: the phase of connection c

Fresh   == [phase |-> "fresh"]
Idle    == [phase |-> "idle"]
Evicted == [phase |-> "evicted"]
Closed  == [phase |-> "closed"]
InUse(t) == [phase |-> "inUse", by |-> t]

(* The connections of S leave phase p for phase q. *)
Moves(S, p, q) ==
  /\ \A c \in S : life[c] = p
  /\ life' = [c \in Connection |-> IF c \in S THEN q ELSE life[c]]

Init == life = [c \in Connection |-> Fresh]

Open(t, c)    == Moves({c}, Fresh, InUse(t))
OpenFails(c)  == Moves({c}, Fresh, Closed)
Give(t, c)    == Moves({c}, InUse(t), Idle)
Take(t, c)    == Moves({c}, Idle, InUse(t))
Discard(t, c) == Moves({c}, InUse(t), Closed)
Evict(S)      == Moves(S, Idle, Evicted)
Close(c)      == Moves({c}, Evicted, Closed)

Next ==
  \/ \E c \in Connection :
       \/ OpenFails(c) \/ Close(c)
       \/ \E t \in Thread : Open(t, c) \/ Give(t, c) \/ Take(t, c) \/ Discard(t, c)
  \/ \E S \in SUBSET Connection : Evict(S)

Spec == Init /\ [][Next]_life
=============================================================================
