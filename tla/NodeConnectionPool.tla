------------------------- MODULE NodeConnectionPool -------------------------
(***************************************************************************)
(* NodeConnectionPool (client.cpp): the pool of open connections that all  *)
(* the GSGridStore instances of a factory share.  Any number of threads    *)
(* call resolve, add, setMaxSize and clear.  A step is what a thread does  *)
(* inside one critical section of mutex_, or between two of them; the loop *)
(* of adjustSize takes one step per round, with the mutex held.            *)
(***************************************************************************)
EXTENDS Naturals, FiniteSets, SequencesExt

CONSTANTS Thread,           \* the calling threads
          Address,          \* the node addresses
          Connection,       \* the NodeConnection objects that may be created
          RemoteAddress,    \* the remote address each of them is made for
          DefaultMaxSize,   \* DEFAULT_MAX_SIZE
          MaxSizes,         \* the sizes setMaxSize is called with
          NULL              \* no thread, no connection, no address

ASSUME PoolAssumption ==
  /\ RemoteAddress \in [Connection -> Address]
  /\ DefaultMaxSize \in Nat
  /\ MaxSizes \subseteq Nat
  /\ NULL \notin Thread \cup Connection \cup Address

VARIABLES
  connectionMap,            \* address -> idle connections, the last one on top
  addressQueue,             \* the address of every idle connection, oldest first
  exceededConnectionList,   \* evicted connections that nobody collected yet
  maxSize,                  \* maxSize_
  mutex,                    \* the thread inside mutex_, or NULL
  pc,                       \* where each thread is
  newSize,                  \* the argument of the adjustSize call in progress
  destination,              \* the address a resolve call is connecting to
  current,                  \* the connection a resolve call is logging in on
  held,                     \* the connections each thread owns
  connectionList,           \* the local variable of closeExceededConnections
  created, deleted          \* the connections that exist, or existed

shared == <<connectionMap, addressQueue, exceededConnectionList, maxSize>>
objects == <<created, deleted>>
vars == <<shared, mutex, pc, newSize, destination, current, held,
          connectionList, objects>>

Goto(t, label) == pc' = [pc EXCEPT ![t] = label]

Init ==
  /\ connectionMap = [a \in Address |-> <<>>]
  /\ addressQueue = <<>>
  /\ exceededConnectionList = {}
  /\ maxSize = DefaultMaxSize
  /\ mutex = NULL
  /\ pc = [t \in Thread |-> "idle"]
  /\ newSize = [t \in Thread |-> 0]
  /\ destination = [t \in Thread |-> NULL]
  /\ current = [t \in Thread |-> NULL]
  /\ held = [t \in Thread |-> {}]
  /\ connectionList = [t \in Thread |-> {}]
  /\ created = {}
  /\ deleted = {}

-----------------------------------------------------------------------------
(* resolve: take an idle connection to the address or make a new one, then *)
(* log in on it.  A failure deletes the connection.                        *)

(* pull finds no idle connection to a: resolve makes a new one. *)
PullNothing(t, a) ==
  /\ ~ Contains(addressQueue, a)
  /\ destination' = [destination EXCEPT ![t] = a]
  /\ Goto(t, "connect")
  /\ UNCHANGED <<shared, current, held>>

(* Mutant: pull leaves the queue entry behind. *)
PullKeepsEntry(t, a) ==
  /\ Contains(addressQueue, a)
  /\ connectionMap[a] # <<>>
  /\ connectionMap' = [connectionMap EXCEPT ![a] = Front(@)]
  /\ current' = [current EXCEPT ![t] = Last(connectionMap[a])]
  /\ held' = [held EXCEPT ![t] = @ \cup {Last(connectionMap[a])}]
  /\ Goto(t, "login")
  /\ UNCHANGED <<addressQueue, exceededConnectionList, maxSize, destination>>

(* pull removes the oldest queue entry of a and the newest connection. *)
PullConnection(t, a) ==
  /\ \E i \in DOMAIN addressQueue :
       /\ addressQueue[i] = a
       /\ \A j \in 1..(i - 1) : addressQueue[j] # a
       /\ addressQueue' = RemoveAt(addressQueue, i)
  /\ connectionMap[a] # <<>>
  /\ connectionMap' = [connectionMap EXCEPT ![a] = Front(@)]
  /\ current' = [current EXCEPT ![t] = Last(connectionMap[a])]
  /\ held' = [held EXCEPT ![t] = @ \cup {Last(connectionMap[a])}]
  /\ Goto(t, "login")
  /\ UNCHANGED <<exceededConnectionList, maxSize, destination>>

(* pull with the cache preferred. *)
Pull(t, a) ==
  /\ pc[t] = "idle"
  /\ mutex = NULL
  /\ PullNothing(t, a) \/ PullConnection(t, a)
  /\ UNCHANGED <<mutex, newSize, connectionList, objects>>

(* resolve without the cache, as after a first failure of a statement. *)
SkipPool(t, a) ==
  /\ pc[t] = "idle"
  /\ destination' = [destination EXCEPT ![t] = a]
  /\ Goto(t, "connect")
  /\ UNCHANGED <<shared, mutex, newSize, current, held, connectionList, objects>>

(* new NodeConnection(address) and connect(): a failure deletes it. *)
Connect(t) ==
  /\ pc[t] = "connect"
  /\ \E c \in Connection \ created :
       /\ RemoteAddress[c] = destination[t]
       /\ created' = created \cup {c}
       /\ \/ /\ current' = [current EXCEPT ![t] = c]
             /\ held' = [held EXCEPT ![t] = @ \cup {c}]
             /\ Goto(t, "login")
             /\ UNCHANGED deleted
          \/ /\ deleted' = deleted \cup {c}
             /\ Goto(t, "idle")
             /\ UNCHANGED <<current, held>>
  /\ destination' = [destination EXCEPT ![t] = NULL]
  /\ UNCHANGED <<shared, mutex, newSize, connectionList>>

(* The constructor cannot open the socket: there is no connection. *)
CannotConnect(t) ==
  /\ pc[t] = "connect"
  /\ destination' = [destination EXCEPT ![t] = NULL]
  /\ Goto(t, "idle")
  /\ UNCHANGED <<shared, mutex, newSize, current, held, connectionList, objects>>

(* login succeeds and the caller keeps the connection, or it fails. *)
Login(t) ==
  /\ pc[t] = "login"
  /\ \/ UNCHANGED <<held, deleted>>
     \/ /\ held' = [held EXCEPT ![t] = @ \ {current[t]}]
        /\ deleted' = deleted \cup {current[t]}
  /\ current' = [current EXCEPT ![t] = NULL]
  /\ Goto(t, "idle")
  /\ UNCHANGED <<shared, mutex, newSize, destination, connectionList, created>>

(* The owner finds its connection broken and deletes it. *)
Discard(t, c) ==
  /\ pc[t] = "idle"
  /\ c \in held[t]
  /\ held' = [held EXCEPT ![t] = @ \ {c}]
  /\ deleted' = deleted \cup {c}
  /\ UNCHANGED <<shared, mutex, pc, newSize, destination, current,
                 connectionList, created>>

-----------------------------------------------------------------------------
(* add, setMaxSize and clear: change the pool under the mutex, then call   *)
(* closeExceededConnections without it.                                    *)

Add(t, c) ==
  /\ pc[t] = "idle"
  /\ mutex = NULL
  /\ c \in held[t]
  /\ held' = [held EXCEPT ![t] = @ \ {c}]
  /\ addressQueue' = Append(addressQueue, RemoteAddress[c])
  /\ connectionMap' = [connectionMap EXCEPT ![RemoteAddress[c]] = Append(@, c)]
  /\ newSize' = [newSize EXCEPT ![t] = maxSize]
  /\ mutex' = t
  /\ Goto(t, "adjust")
  /\ UNCHANGED <<exceededConnectionList, maxSize, destination, current,
                 connectionList, objects>>

SetMaxSize(t, n) ==
  /\ pc[t] = "idle"
  /\ mutex = NULL
  /\ newSize' = [newSize EXCEPT ![t] = n]
  /\ mutex' = t
  /\ Goto(t, "adjust")
  /\ UNCHANGED <<shared, destination, current, held, connectionList, objects>>

(* One round of adjustSize: the oldest queue entry goes, and with it the   *)
(* newest connection to that address.                                      *)
AdjustSize(t) ==
  /\ pc[t] = "adjust"
  /\ Len(addressQueue) > newSize[t]
  /\ addressQueue' = Tail(addressQueue)
  /\ LET list == connectionMap[Head(addressQueue)] IN
       IF list = <<>>
       THEN UNCHANGED <<connectionMap, exceededConnectionList>>
       ELSE /\ connectionMap' =
                 [connectionMap EXCEPT ![Head(addressQueue)] = Front(list)]
            /\ exceededConnectionList' =
                 exceededConnectionList \cup {Last(list)}
  /\ UNCHANGED <<maxSize, mutex, pc, newSize, destination, current, held,
                 connectionList, objects>>

(* Mutant: adjustSize stops one round too early. *)
AdjustedEarly(t) ==
  /\ pc[t] = "adjust"
  /\ Len(addressQueue) <= newSize[t] + 1
  /\ maxSize' = newSize[t]
  /\ mutex' = NULL
  /\ Goto(t, "collect")
  /\ UNCHANGED <<connectionMap, addressQueue, exceededConnectionList, newSize,
                 destination, current, held, connectionList, objects>>

(* The end of the critical section of add and of setMaxSize. *)
Adjusted(t) ==
  /\ pc[t] = "adjust"
  /\ Len(addressQueue) <= newSize[t]
  /\ maxSize' = newSize[t]
  /\ mutex' = NULL
  /\ Goto(t, "collect")
  /\ UNCHANGED <<connectionMap, addressQueue, exceededConnectionList, newSize,
                 destination, current, held, connectionList, objects>>

Idlers == UNION {ToSet(connectionMap[a]) : a \in Address}

(* Common to clear and its mutants: the pool is emptied into evicted, the  *)
(* connections of gone are deleted on the spot, and the thread goes to     *)
(* label.                                                                  *)
EmptyPool(t, evicted, gone, label) ==
  /\ pc[t] = "idle"
  /\ mutex = NULL
  /\ exceededConnectionList' = exceededConnectionList \cup evicted
  /\ connectionMap' = [a \in Address |-> <<>>]
  /\ addressQueue' = <<>>
  /\ deleted' = deleted \cup gone
  /\ Goto(t, label)
  /\ UNCHANGED <<maxSize, mutex, newSize, destination, current, held,
                 connectionList, created>>

(* Mutants: clear forgets the connections, forgets to close them, deletes  *)
(* them without evicting them first.                                       *)
ClearForgets(t) == EmptyPool(t, {}, {}, "collect")
ClearLeavesOpen(t) == EmptyPool(t, Idlers, {}, "idle")
ClearDeletes(t) == EmptyPool(t, {}, Idlers, "collect")

Clear(t) == EmptyPool(t, Idlers, {}, "collect")

-----------------------------------------------------------------------------
(* closeExceededConnections *)

(* Mutant: the member list is copied, not swapped. *)
CollectCopies(t) ==
  /\ pc[t] = "collect"
  /\ mutex = NULL
  /\ connectionList' = [connectionList EXCEPT ![t] = exceededConnectionList]
  /\ Goto(t, IF exceededConnectionList = {} THEN "idle" ELSE "delete")
  /\ UNCHANGED <<shared, mutex, newSize, destination, current, held, objects>>

(* The first swap: the evicted connections become this thread's own. *)
Collect(t) ==
  /\ pc[t] = "collect"
  /\ mutex = NULL
  /\ connectionList' = [connectionList EXCEPT ![t] = exceededConnectionList]
  /\ exceededConnectionList' = {}
  /\ Goto(t, IF exceededConnectionList = {} THEN "idle" ELSE "delete")
  /\ UNCHANGED <<connectionMap, addressQueue, maxSize, mutex, newSize,
                 destination, current, held, objects>>

(* One delete, outside the mutex: the destructor sends DISCONNECT. *)
Delete(t) ==
  /\ pc[t] = "delete"
  /\ \E c \in connectionList[t] :
       /\ connectionList' = [connectionList EXCEPT ![t] = @ \ {c}]
       /\ deleted' = deleted \cup {c}
       /\ Goto(t, IF connectionList[t] = {c} THEN "swapBack" ELSE "delete")
  /\ UNCHANGED <<shared, mutex, newSize, destination, current, held, created>>

(* The second swap: the member list takes over the emptied local one, and  *)
(* the local one is destroyed with whatever pointers the member list had.  *)
SwapBack(t) ==
  /\ pc[t] = "swapBack"
  /\ mutex = NULL
  /\ exceededConnectionList' = connectionList[t]
  /\ connectionList' = [connectionList EXCEPT ![t] = {}]
  /\ Goto(t, "idle")
  /\ UNCHANGED <<connectionMap, addressQueue, maxSize, mutex, newSize,
                 destination, current, held, objects>>

-----------------------------------------------------------------------------
(* The steps inside a call, which a thread does not stop before. *)
Continue(t) ==
  \/ Connect(t) \/ CannotConnect(t) \/ Login(t)
  \/ AdjustSize(t) \/ Adjusted(t) \/ Collect(t) \/ Delete(t) \/ SwapBack(t)

Call(t) ==
  \/ \E a \in Address : Pull(t, a) \/ SkipPool(t, a)
  \/ \E c \in Connection : Add(t, c) \/ Discard(t, c)
  \/ \E n \in MaxSizes : SetMaxSize(t, n)
  \/ Clear(t)

Next == \E t \in Thread : Call(t) \/ Continue(t)

Spec == Init /\ [][Next]_vars

(* A thread inside a call goes on: no step of a call waits for anything    *)
(* but the mutex, and socket operations have timeouts.                     *)
FairSpec == Spec /\ \A t \in Thread : WF_vars(Continue(t))

-----------------------------------------------------------------------------
TypeOK ==
  /\ connectionMap \in [Address -> Seq(Connection)]
  /\ addressQueue \in Seq(Address)
  /\ exceededConnectionList \in SUBSET Connection
  /\ maxSize \in Nat
  /\ mutex \in Thread \cup {NULL}
  /\ pc \in [Thread -> {"idle", "connect", "login", "adjust", "collect",
                        "delete", "swapBack"}]
  /\ newSize \in [Thread -> Nat]
  /\ destination \in [Thread -> Address \cup {NULL}]
  /\ current \in [Thread -> Connection \cup {NULL}]
  /\ \A t \in Thread : pc[t] = "login" => current[t] \in Connection
  /\ held \in [Thread -> SUBSET Connection]
  /\ connectionList \in [Thread -> SUBSET Connection]
  /\ created \in SUBSET Connection
  /\ deleted \in SUBSET Connection

(* The queue holds one entry per idle connection of each address, so that  *)
(* pull and adjustSize never find one of the two structures without its    *)
(* counterpart in the other (the branches on an empty list are dead); and  *)
(* every variable has its type.                                            *)
QueueMatchesMap ==
  /\ TypeOK
  /\ \A a \in Address :
       /\ Cardinality({i \in DOMAIN addressQueue : addressQueue[i] = a})
            = Len(connectionMap[a])
       /\ \A c \in ToSet(connectionMap[a]) : RemoteAddress[c] = a

(* Ownership: a connection is in one place only (once in one idle list,    *)
(* evicted, in the hands of one thread, in the list one thread deletes, or *)
(* deleted): no connection is used by two threads, handed out after its    *)
(* deletion or deleted twice.                                              *)
IdleOnce ==
  \A a, b \in Address :
    \A i \in DOMAIN connectionMap[a], j \in DOMAIN connectionMap[b] :
      connectionMap[a][i] = connectionMap[b][j] => a = b /\ i = j

HeldByOne ==
  \A s, t \in Thread :
    s # t => /\ held[s] \cap held[t] = {}
             /\ connectionList[s] \cap connectionList[t] = {}

PlacesDisjoint ==
  /\ \A a \in Address : \A i \in DOMAIN connectionMap[a] :
       /\ connectionMap[a][i] \in created
       /\ connectionMap[a][i] \notin exceededConnectionList \cup deleted
       /\ \A t \in Thread :
            connectionMap[a][i] \notin held[t] \cup connectionList[t]
  /\ exceededConnectionList \subseteq created \ deleted
  /\ \A t \in Thread :
       /\ held[t] \subseteq created \ (deleted \cup exceededConnectionList)
       /\ connectionList[t] \subseteq
            created \ (deleted \cup exceededConnectionList)
       /\ \A s \in Thread : held[s] \cap connectionList[t] = {}
  /\ deleted \subseteq created

SingleOwner == IdleOnce /\ HeldByOne /\ PlacesDisjoint

(* Outside the critical sections of add and setMaxSize the pool never      *)
(* holds more connections than its maximum size.                           *)
SizeBounded == mutex = NULL => Len(addressQueue) <= maxSize

(* Evicted connections do not wait for a later call: while there are any,  *)
(* a thread is on its way to the first swap of closeExceededConnections.   *)
EvictedHasCollector ==
  exceededConnectionList # {} => \E t \in Thread : pc[t] \in {"adjust", "collect"}

(* A connection that exists and that nothing can reach any more. *)
Orphans ==
  created \ (deleted \cup Idlers \cup exceededConnectionList
             \cup UNION {held[t] \cup connectionList[t] : t \in Thread})

(* A connection becomes unreachable only when one thread evicted it while  *)
(* another one was between the two swaps of closeExceededConnections.      *)
OrphanedOnlyBySwapBack ==
  [][\A c \in Orphans' \ Orphans :
       c \in exceededConnectionList /\ \E t \in Thread : pc[t] = "swapBack"]_vars

(* An evicted connection is closed in the end, or lost as above. *)
EvictedIsClosed ==
  \A c \in Connection :
    c \in exceededConnectionList ~> c \in deleted \cup Orphans

-----------------------------------------------------------------------------
(* The life of each connection as the callers see it.  An orphan stays     *)
(* evicted for ever.                                                       *)
Life(c) ==
  CASE c \notin created -> [phase |-> "fresh"]
    [] c \in deleted -> [phase |-> "closed"]
    [] c \in created \ deleted ->
         IF \E t \in Thread : c \in held[t]
         THEN [phase |-> "inUse", by |-> CHOOSE t \in Thread : c \in held[t]]
         ELSE IF c \in Idlers THEN [phase |-> "idle"] ELSE [phase |-> "evicted"]

Lifecycle == INSTANCE ConnectionLifecycle
               WITH life <- [c \in Connection |-> Life(c)]

(* The pool implements the life cycle of connections. *)
ImplementsLifecycle == Lifecycle!Spec
=============================================================================
