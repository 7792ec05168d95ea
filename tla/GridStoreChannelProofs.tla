------------------------ MODULE GridStoreChannelProofs ------------------------
(***************************************************************************)
(* The safety properties of GridStoreChannel for any addresses,            *)
(* partitions, connections and limits.  The connections of the context and *)
(* those of the pool are told apart by the address that a connection has   *)
(* been made to; and a row set that is partly fetched is told apart from   *)
(* what came after it by the id of its connection, which no other          *)
(* connection of the context is given while the row set lasts.             *)
(***************************************************************************)
EXTENDS GridStoreChannel, StoreContainers, FiniteSetTheorems, WellFoundedInduction, TLAPS

At(a) == activeConnections[a]

(* A connection of the context is entered under its own address. *)
ActiveInv ==
  \A a \in Address : Active(a) =>
    At(a).address = a /\ remoteAddress[At(a).connection] = a

(* A connection in the pool is alive, and the context does not have it. *)
PoolInv ==
  \A c \in pool : /\ remoteAddress[c] # NULL
                  /\ \A a \in Address : Active(a) => At(a).connection # c

(* A connection that is alive is somewhere. *)
NoneLost ==
  \A c \in Connection : remoteAddress[c] # NULL =>
    \/ c \in pool
    \/ Active(remoteAddress[c]) /\ At(remoteAddress[c]).connection = c

LastActive ==
  lastConnection # NULL => At(lastConnection.address) = lastConnection

(* The ids of the connections of the context. *)
IdsDiffer ==
  \A a, b \in Address : Active(a) /\ Active(b) /\ At(a).id = At(b).id => a = b

(* The connection of the row set is alive, or no other has its id. *)
RowSetInv ==
  rowSet # NULL =>
    IF broken THEN \A a \in Address : Active(a) => At(a).id # rowSet.entry.id
    ELSE At(rowSet.entry.address) = rowSet.entry

(* As long as the context stays with the partition and the connection       *)
(* lives, it is the last one.                                               *)
SamePartition ==
  rowSet # NULL /\ ~ switched /\ ~ broken =>
    partitionId = rowSet.partition /\ lastConnection = rowSet.entry

(* Where the statement is. *)
StatementInv ==
  /\ kind = "none" <=> pc = "idle"
  /\ kind \in {"statement", "fetch"} => partitionId \in Partition
  /\ pc = "sent" /\ kind # "resolver" => lastConnection # NULL
  /\ kind = "fetch" => rowSet # NULL /\ ~ broken

IInv ==
  /\ TypeOK /\ ActiveInv /\ PoolInv /\ NoneLost /\ LastActive
  /\ IdsDiffer /\ RowSetInv /\ SamePartition /\ StatementInv

-----------------------------------------------------------------------------
(* The operators of the model. *)

(* There is always an id that no connection of the context has, nor the row *)
(* set: there are as many connections as addresses at most.                 *)
LEMMA FreshId ==
  ASSUME TypeOK
  PROVE  /\ NewId \in Id
         /\ \A a \in Address : Active(a) => At(a).id # NewId
         /\ rowSet # NULL => rowSet.entry.id # NewId
  <1> DEFINE ids == {At(a).id : a \in Address}
             taken == ids \cup {rowSet.entry.id}
  <1>1. IsFiniteSet(ids) /\ Cardinality(ids) <= Cardinality(Address)
    <2> DEFINE f == [a \in Address |-> At(a).id]
    <2>1. f \in Surjection(Address, ids)
      BY DEF Surjection
    <2> QED BY <2>1, FS_Surjection, ChannelAssumption
  <1>2. Cardinality(Address) \in Nat /\ Cardinality(ids) \in Nat
    BY <1>1, FS_CardinalityType, ChannelAssumption
  <1>3. IsFiniteSet(taken) /\ Cardinality(taken) <= Cardinality(Address) + 1
    BY <1>1, <1>2, FS_AddElement
  <1>4. Cardinality(Id) = Cardinality(Address) + 2
    BY <1>2, FS_Interval DEF Id
  <1>5. ~ (Id \subseteq taken)
    <2> HIDE DEF taken
    <2> SUFFICES ASSUME Id \subseteq taken PROVE FALSE
      OBVIOUS
    <2>1. Cardinality(Id) <= Cardinality(taken)
      BY <1>3, FS_Subset
    <2> QED BY <1>2, <1>3, <1>4, <2>1, FS_CardinalityType
  <1>6. PICK i \in Id : i \notin taken
    BY <1>5
  <1>7. /\ \A a \in Address : Active(a) => At(a).id # i
        /\ rowSet # NULL => rowSet.entry.id # i
    BY <1>6
  <1> QED BY <1>6, <1>7 DEF NewId, At

(* The entry that Connect makes. *)
NewEntry(a, c) == [id |-> NewId, address |-> a, connection |-> c]

LEMMA NewEntryTyped ==
  ASSUME TypeOK, NEW a \in Address, NEW c \in Connection
  PROVE  /\ NewEntry(a, c) \in Entry /\ NewEntry(a, c) # NULL
         /\ NewEntry(a, c).address = a /\ NewEntry(a, c).connection = c
         /\ NewEntry(a, c).id = NewId
  BY FreshId, ChannelAssumption DEF NewEntry, Entry

(* What Connect does, with a pooled connection and with a new one. *)
LEMMA ConnectSplit ==
  ASSUME TypeOK, NEW a \in Address, NEW c \in Connection, Connect(a, c)
  PROVE  /\ activeConnections' = [activeConnections EXCEPT ![a] = NewEntry(a, c)]
         /\ lastConnection' = NewEntry(a, c)
         /\ lastHeartbeatCount' = heartbeatReceiveCount'[c]
         /\ pool' = pool \ {c}
         /\ \/ /\ c \in pool /\ remoteAddress[c] = a
               /\ UNCHANGED <<remoteAddress, heartbeatReceiveCount>>
            \/ /\ remoteAddress[c] = NULL
               /\ remoteAddress' = [remoteAddress EXCEPT ![c] = a]
               /\ heartbeatReceiveCount' = [heartbeatReceiveCount EXCEPT ![c] = 0]
  BY DEF Connect, Supply, Pooled, NewEntry

-----------------------------------------------------------------------------
(* The steps, by what they do to the connections. *)

ConnectionsKept ==
  /\ UNCHANGED <<activeConnections, remoteAddress, pool>>
  /\ \/ lastConnection' \in {NULL, lastConnection}
     \/ \E a \in Address : Active(a) /\ lastConnection' = At(a)

Connected ==
  /\ lastConnection = NULL
  /\ \E a \in Address, c \in Connection : ~ Active(a) /\ Connect(a, c)

Deleted == lastConnection # NULL /\ DeleteConnection

PooledDeleted ==
  /\ UNCHANGED <<activeConnections, lastConnection>>
  /\ \E c \in pool : /\ pool' = pool \ {c}
                     /\ remoteAddress' = [remoteAddress EXCEPT ![c] = NULL]

LEMMA ConnectionSteps ==
  ASSUME TypeOK, [Next]_vars
  PROVE  ConnectionsKept \/ Connected \/ Deleted \/ PooledDeleted \/ Close \/ OtherContextCloses
  <1>1. ASSUME NEW p \in Partition, Execute(p) PROVE ConnectionsKept
    BY <1>1 DEF Execute, ApplyPartitionId, objects, ConnectionsKept
  <1>2. ASSUME Fetch PROVE ConnectionsKept
    BY <1>2 DEF Fetch, ApplyPartitionId, objects, ConnectionsKept
  <1>3. ASSUME CannotFetch \/ ExecuteResolver \/ UNCHANGED vars PROVE ConnectionsKept
    BY <1>3 DEF CannotFetch, ExecuteResolver, vars, objects, connections, ConnectionsKept
  <1>4. ASSUME Send PROVE ConnectionsKept \/ Connected
    <2>1. CASE lastConnection # NULL /\ UNCHANGED <<connections, objects, cached>>
      BY <2>1 DEF objects, connections, ConnectionsKept
    <2>2. CASE /\ lastConnection = NULL
               /\ \E a \in Address :
                    /\ Active(a)
                    /\ lastConnection' = activeConnections[a]
                    /\ UNCHANGED <<activeConnections, lastHeartbeatCount, objects>>
      BY <2>2 DEF objects, ConnectionsKept, At
    <2>3. CASE /\ lastConnection = NULL
               /\ \E a \in Address : ~ Active(a) /\ \E c \in Connection : Connect(a, c)
      BY <2>3 DEF Connected
    <2> QED BY <1>4, <2>1, <2>2, <2>3 DEF Send, UpdateConnection
  <1>5. ASSUME CannotConnect \/ CannotLogin PROVE ConnectionsKept \/ PooledDeleted
    <2>1. UNCHANGED <<activeConnections, lastConnection>>
      BY <1>5 DEF CannotConnect, CannotLogin, connections
    <2>2. UNCHANGED objects \/ \E a \in Address : LoginFails(a)
      BY <1>5 DEF CannotConnect, CannotLogin, objects
    <2>3. ASSUME NEW a \in Address, LoginFails(a)
          PROVE  \/ UNCHANGED objects
                 \/ \E c \in pool : /\ pool' = pool \ {c}
                                    /\ remoteAddress' = [remoteAddress EXCEPT ![c] = NULL]
      BY <2>3 DEF LoginFails, Pooled
    <2> QED BY <2>1, <2>2, <2>3 DEF ConnectionsKept, PooledDeleted, objects
  <1>6. ASSUME Succeed \/ Refused PROVE ConnectionsKept
    BY <1>6 DEF Succeed, Refused, connections, ConnectionsKept
  <1>7. ASSUME Break PROVE ConnectionsKept \/ Deleted
    BY <1>7 DEF Break, connections, objects, ConnectionsKept, Deleted
  <1> QED BY <1>1, <1>2, <1>3, <1>4, <1>5, <1>6, <1>7 DEF Next, Progress

(* What the entries and the objects are. *)
LEMMA EntriesTyped ==
  ASSUME TypeOK
  PROVE  /\ \A a \in Address : Active(a) =>
              At(a) \in Entry /\ At(a).connection \in Connection
         /\ lastConnection # NULL =>
              /\ lastConnection \in Entry
              /\ lastConnection.address \in Address
              /\ lastConnection.connection \in Connection
         /\ rowSet # NULL =>
              /\ rowSet.entry \in Entry /\ rowSet.entry # NULL
              /\ rowSet.entry.address \in Address
              /\ rowSet.partition \in Partition
  BY ChannelAssumption DEF TypeOK, Active, At, Entry, RowSet

(* The connection deleted is entered where it is looked for. *)
LEMMA DeletedSplit ==
  ASSUME TypeOK, ActiveInv, LastActive, Deleted,
         NEW a, a = lastConnection.address, NEW c, c = lastConnection.connection
  PROVE  /\ a \in Address /\ c \in Connection
         /\ Active(a) /\ At(a) = lastConnection /\ remoteAddress[c] = a
         /\ activeConnections' = [activeConnections EXCEPT ![a] = NULL]
         /\ remoteAddress' = [remoteAddress EXCEPT ![c] = NULL]
         /\ lastConnection' = NULL /\ pool' = pool
  <1>1. /\ a \in Address /\ c \in Connection
        /\ Active(a) /\ At(a) = lastConnection
    BY EntriesTyped DEF Deleted, LastActive, Active, At
  <1>2. remoteAddress[c] = a
    BY <1>1 DEF ActiveInv
  <1> QED BY <1>1, <1>2 DEF Deleted, DeleteConnection

-----------------------------------------------------------------------------
(* The connections: each is kept by what a step does to them. *)

Owned == ActiveInv /\ PoolInv /\ NoneLost /\ LastActive

LEMMA OwnedConnected ==
  ASSUME TypeOK, Owned, Connected
  PROVE  Owned'
  <1>1. PICK a \in Address, c \in Connection : ~ Active(a) /\ Connect(a, c)
    BY DEF Connected
  <1> DEFINE entry == NewEntry(a, c)
  <1>2. /\ entry # NULL /\ entry.address = a /\ entry.connection = c
    BY NewEntryTyped
  <1>3. /\ activeConnections' = [activeConnections EXCEPT ![a] = entry]
        /\ lastConnection' = entry /\ pool' = pool \ {c}
    BY <1>1, ConnectSplit
  <1>4. \/ c \in pool /\ remoteAddress[c] = a /\ remoteAddress' = remoteAddress
        \/ remoteAddress[c] = NULL /\ remoteAddress' = [remoteAddress EXCEPT ![c] = a]
    BY <1>1, ConnectSplit
  <1> HIDE DEF entry
  <1>5. /\ At(a)' = entry /\ Active(a)'
        /\ \A b \in Address \ {a} : At(b)' = At(b) /\ (Active(b)' <=> Active(b))
    BY <1>2, <1>3 DEF At, Active, TypeOK
  <1>6. /\ remoteAddress'[c] = a
        /\ \A d \in Connection \ {c} : remoteAddress'[d] = remoteAddress[d]
    BY <1>4 DEF TypeOK
  <1>7. \A b \in Address : Active(b) => At(b).connection # c
    BY <1>4, ChannelAssumption DEF Owned, PoolInv, ActiveInv
  <1>8. ActiveInv'
    BY <1>2, <1>5, <1>6, <1>7, EntriesTyped DEF Owned, ActiveInv
  <1>9. PoolInv'
    BY <1>2, <1>3, <1>5, <1>6, <1>7 DEF Owned, PoolInv, TypeOK
  <1>10. NoneLost'
    <2> SUFFICES ASSUME NEW d \in Connection, NEW b, b = remoteAddress'[d], b # NULL
                 PROVE  d \in pool' \/ (Active(b)' /\ At(b)'.connection = d)
      BY DEF NoneLost
    <2>1. CASE d = c
      BY <1>2, <1>5, <1>6, <2>1
    <2>2. CASE d # c
      <3>1. b \in Address /\ b = remoteAddress[d]
        BY <1>6, <2>2 DEF TypeOK
      <3>2. d \in pool \/ (Active(b) /\ At(b).connection = d)
        BY <3>1 DEF Owned, NoneLost
      <3> QED BY <1>1, <1>3, <1>5, <2>2, <3>1, <3>2
    <2> QED BY <2>1, <2>2
  <1>11. LastActive'
    BY <1>2, <1>3, <1>5 DEF LastActive, At
  <1> QED BY <1>8, <1>9, <1>10, <1>11 DEF Owned

LEMMA OwnedDeleted ==
  ASSUME TypeOK, Owned, Deleted
  PROVE  Owned'
  <1>1. PICK a, c : a = lastConnection.address /\ c = lastConnection.connection
    OBVIOUS
  <1>2. /\ a \in Address /\ c \in Connection
        /\ Active(a) /\ At(a) = lastConnection /\ remoteAddress[c] = a
        /\ activeConnections' = [activeConnections EXCEPT ![a] = NULL]
        /\ remoteAddress' = [remoteAddress EXCEPT ![c] = NULL]
        /\ lastConnection' = NULL /\ pool' = pool
    BY <1>1, DeletedSplit DEF Owned
  <1>3. /\ ~ Active(a)'
        /\ \A b \in Address \ {a} : At(b)' = At(b) /\ (Active(b)' <=> Active(b))
    BY <1>2 DEF At, Active, TypeOK
  <1>4. /\ remoteAddress'[c] = NULL
        /\ \A d \in Connection \ {c} : remoteAddress'[d] = remoteAddress[d]
    BY <1>2 DEF TypeOK
  <1>5. \A b \in Address \ {a} : Active(b) => At(b).connection # c
    BY <1>2 DEF Owned, ActiveInv
  <1>6. ActiveInv'
    BY <1>3, <1>4, <1>5, EntriesTyped DEF Owned, ActiveInv
  <1>7. PoolInv'
    BY <1>1, <1>2, <1>3, <1>4 DEF Owned, PoolInv, TypeOK
  <1>8. NoneLost'
    <2> SUFFICES ASSUME NEW d \in Connection, NEW b, b = remoteAddress'[d], b # NULL
                 PROVE  d \in pool' \/ (Active(b)' /\ At(b)'.connection = d)
      BY DEF NoneLost
    <2>1. d # c /\ b = remoteAddress[d] /\ b \in Address
      BY <1>4 DEF TypeOK
    <2>2. d \in pool \/ (Active(b) /\ At(b).connection = d)
      BY <2>1 DEF Owned, NoneLost
    <2> QED BY <1>1, <1>2, <1>3, <2>1, <2>2
  <1>9. LastActive'
    BY <1>2 DEF LastActive
  <1> QED BY <1>6, <1>7, <1>8, <1>9 DEF Owned

LEMMA OwnedPooledDeleted ==
  ASSUME TypeOK, Owned, PooledDeleted
  PROVE  Owned'
  <1>1. PICK c \in pool : /\ pool' = pool \ {c}
                          /\ remoteAddress' = [remoteAddress EXCEPT ![c] = NULL]
    BY DEF PooledDeleted
  <1>2. UNCHANGED <<activeConnections, lastConnection>>
    BY DEF PooledDeleted
  <1>3. /\ c \in Connection /\ remoteAddress'[c] = NULL
        /\ \A d \in Connection \ {c} : remoteAddress'[d] = remoteAddress[d]
    BY <1>1 DEF TypeOK
  <1>4. \A a \in Address : At(a)' = At(a) /\ (Active(a)' <=> Active(a))
    BY <1>2 DEF At, Active
  <1>5. \A a \in Address : Active(a) => At(a).connection # c
    BY DEF Owned, PoolInv
  <1>6. ActiveInv'
    BY <1>3, <1>4, <1>5, EntriesTyped DEF Owned, ActiveInv
  <1>7. PoolInv'
    BY <1>1, <1>3, <1>4 DEF Owned, PoolInv, TypeOK
  <1>8. NoneLost'
    <2> SUFFICES ASSUME NEW d \in Connection, NEW b, b = remoteAddress'[d], b # NULL
                 PROVE  d \in pool' \/ (Active(b)' /\ At(b)'.connection = d)
      BY DEF NoneLost
    <2>1. d # c /\ b = remoteAddress[d] /\ b \in Address
      BY <1>3 DEF TypeOK
    <2> QED BY <1>1, <1>4, <2>1 DEF Owned, NoneLost
  <1>9. LastActive'
    BY <1>2 DEF Owned, LastActive, At
  <1> QED BY <1>6, <1>7, <1>8, <1>9 DEF Owned

LEMMA OwnedClose ==
  ASSUME TypeOK, Owned, Close
  PROVE  Owned'
  <1>1. /\ pool' = pool \cup {At(a).connection : a \in {b \in Address : Active(b)}}
        /\ activeConnections' = [a \in Address |-> NULL]
        /\ lastConnection' = NULL /\ remoteAddress' = remoteAddress
    BY DEF Close, At
  <1>2. \A a \in Address : ~ Active(a)'
    BY <1>1 DEF Active
  <1>3. ActiveInv' /\ LastActive'
    BY <1>1, <1>2 DEF ActiveInv, LastActive
  <1>4. PoolInv'
    <2> SUFFICES ASSUME NEW c \in pool' PROVE remoteAddress[c] # NULL
      BY <1>1, <1>2 DEF PoolInv
    <2>1. CASE c \in pool
      BY <2>1 DEF Owned, PoolInv
    <2>2. ASSUME NEW a \in Address, Active(a), c = At(a).connection
          PROVE  remoteAddress[c] # NULL
      BY <2>2, ChannelAssumption DEF Owned, ActiveInv
    <2> QED BY <1>1, <2>1, <2>2
  <1>5. NoneLost'
    <2> SUFFICES ASSUME NEW c \in Connection, remoteAddress[c] # NULL PROVE c \in pool'
      BY <1>1 DEF NoneLost
    <2>1. remoteAddress[c] \in Address
      BY DEF TypeOK
    <2> QED BY <1>1, <2>1 DEF Owned, NoneLost
  <1> QED BY <1>3, <1>4, <1>5 DEF Owned

LEMMA OwnedOther ==
  ASSUME TypeOK, Owned, OtherContextCloses
  PROVE  Owned'
  <1>1. PICK c \in Connection, a \in Address :
           /\ remoteAddress[c] = NULL
           /\ remoteAddress' = [remoteAddress EXCEPT ![c] = a]
           /\ pool' = pool \cup {c}
    BY DEF OtherContextCloses
  <1>2. UNCHANGED <<activeConnections, lastConnection>>
    BY DEF OtherContextCloses, connections
  <1>3. /\ remoteAddress'[c] = a
        /\ \A d \in Connection \ {c} : remoteAddress'[d] = remoteAddress[d]
    BY <1>1 DEF TypeOK
  <1>4. \A b \in Address : At(b)' = At(b) /\ (Active(b)' <=> Active(b))
    BY <1>2 DEF At, Active
  <1>5. \A b \in Address : Active(b) => At(b).connection # c
    BY <1>1, ChannelAssumption DEF Owned, ActiveInv
  <1>6. ActiveInv'
    BY <1>3, <1>4, <1>5, EntriesTyped DEF Owned, ActiveInv
  <1>7. PoolInv'
    BY <1>1, <1>3, <1>4, <1>5, ChannelAssumption DEF Owned, PoolInv, TypeOK
  <1>8. NoneLost'
    <2> SUFFICES ASSUME NEW d \in Connection, NEW b, b = remoteAddress'[d], b # NULL, d # c
                 PROVE  d \in pool' \/ (Active(b)' /\ At(b)'.connection = d)
      BY <1>1 DEF NoneLost
    <2>1. b = remoteAddress[d] /\ b \in Address
      BY <1>3 DEF TypeOK
    <2> QED BY <1>1, <1>4, <2>1 DEF Owned, NoneLost
  <1>9. LastActive'
    BY <1>2 DEF Owned, LastActive, At
  <1> QED BY <1>6, <1>7, <1>8, <1>9 DEF Owned

LEMMA OwnedStep ==
  ASSUME TypeOK, Owned, [Next]_vars
  PROVE  Owned'
  <1>1. CASE ConnectionsKept
    <2>1. /\ \A a \in Address : At(a)' = At(a) /\ (Active(a)' <=> Active(a))
          /\ UNCHANGED <<activeConnections, remoteAddress, pool>>
      BY <1>1 DEF ConnectionsKept, At, Active
    <2>2. ActiveInv' /\ PoolInv'
      BY <2>1 DEF Owned, ActiveInv, PoolInv
    <2>3. NoneLost'
      BY <2>1 DEF Owned, NoneLost, At, Active
    <2>4. LastActive'
      <3>1. CASE lastConnection' \in {NULL, lastConnection}
        BY <2>1, <3>1 DEF Owned, LastActive, At
      <3>2. ASSUME NEW a \in Address, Active(a), lastConnection' = At(a)
            PROVE  LastActive'
        BY <2>1, <3>2 DEF Owned, LastActive, ActiveInv, At
      <3> QED BY <1>1, <3>1, <3>2 DEF ConnectionsKept
    <2> QED BY <2>2, <2>3, <2>4 DEF Owned
  <1> QED BY <1>1, ConnectionSteps, OwnedConnected, OwnedDeleted, OwnedPooledDeleted,
             OwnedClose, OwnedOther

-----------------------------------------------------------------------------
(* Types. *)

LEMMA ConnectionTypes ==
  ASSUME TypeOK, ActiveInv, LastActive, [Next]_vars
  PROVE  /\ activeConnections' \in [Address -> Entry \cup {NULL}]
         /\ lastConnection' \in Entry \cup {NULL}
         /\ remoteAddress' \in [Connection -> Address \cup {NULL}]
         /\ pool' \subseteq Connection
  <1>1. CASE ConnectionsKept
    <2>1. \A a \in Address : Active(a) => At(a) \in Entry
      BY EntriesTyped
    <2> QED BY <1>1, <2>1 DEF ConnectionsKept, TypeOK
  <1>2. CASE Connected
    <2>1. PICK a \in Address, c \in Connection : Connect(a, c)
      BY <1>2 DEF Connected
    <2> QED BY <2>1, ConnectSplit, NewEntryTyped DEF TypeOK
  <1>3. CASE Deleted
    BY <1>3, DeletedSplit DEF TypeOK
  <1>4. CASE PooledDeleted
    BY <1>4 DEF PooledDeleted, TypeOK
  <1>5. CASE Close
    <2>1. /\ pool' = pool \cup {At(a).connection : a \in {b \in Address : Active(b)}}
          /\ activeConnections' = [a \in Address |-> NULL]
          /\ lastConnection' = NULL /\ remoteAddress' = remoteAddress
      BY <1>5 DEF Close, At
    <2> QED BY <2>1, EntriesTyped DEF TypeOK
  <1>6. CASE OtherContextCloses
    BY <1>6 DEF OtherContextCloses, connections, TypeOK
  <1> QED BY <1>1, <1>2, <1>3, <1>4, <1>5, <1>6, ConnectionSteps

(* What a failure leaves of the statement. *)
LEMMA FailTyped ==
  ASSUME TypeOK, NEW wrongNode, NEW beats, Fail(wrongNode, beats)
  PROVE  /\ pc' \in {"idle", "trial", "sent"}
         /\ kind' \in {"none", "statement", "fetch", "resolver"}
         /\ firstTrial' \in BOOLEAN
         /\ failing' \in (0 .. FailoverTimeout) \cup {NULL}
         /\ rowSet' \in RowSet \cup {NULL} /\ switched' \in BOOLEAN
  <1>1. CASE FetchFailed
    BY <1>1 DEF FetchFailed, Finish
  <1>2. ASSUME NEW clock \in {NULL, failing}, StatementFailed(wrongNode, clock)
        PROVE  /\ pc' \in {"idle", "trial", "sent"}
               /\ kind' \in {"none", "statement", "fetch", "resolver"}
               /\ firstTrial' \in BOOLEAN
               /\ failing' \in (0 .. FailoverTimeout) \cup {NULL}
               /\ rowSet' \in RowSet \cup {NULL} /\ switched' \in BOOLEAN
    <2> DEFINE time == IF clock = NULL THEN 0 ELSE clock
    <2>1. clock \in (0 .. FailoverTimeout) \cup {NULL} /\ time \in 0 .. FailoverTimeout
      BY ChannelAssumption DEF TypeOK
    <2>2. \/ TryAgain(clock)
          \/ time < FailoverTimeout /\ TryAgain(time + 1)
          \/ Finish /\ UNCHANGED <<rowSet, switched>>
      BY <1>2 DEF StatementFailed
    <2> HIDE DEF time
    <2>3. time < FailoverTimeout => time + 1 \in 0 .. FailoverTimeout
      BY <2>1, ChannelAssumption
    <2> QED BY <2>1, <2>2, <2>3 DEF TryAgain, Finish, TypeOK
  <1> QED BY <1>1, <1>2 DEF Fail

LEMMA CachedTyped ==
  ASSUME TypeOK, NEW wrongNode, NEW addresses \in [Partition -> Address \cup {NULL}],
         Invalidate(wrongNode, addresses)
  PROVE  cached' \in [Partition -> Address \cup {NULL}]
  BY DEF Invalidate

LEMMA LearntTyped ==
  ASSUME TypeOK, NEW a \in Address
  PROVE  Learnt(a) \in [Partition -> Address \cup {NULL}]
  BY DEF TypeOK, Learnt

(* The heartbeats that are answered. *)
LEMMA AnsweredTyped ==
  ASSUME TypeOK, NEW beats \in 0 .. MaxHeartbeats, Answered(beats)
  PROVE  /\ heartbeats' \in 0 .. MaxHeartbeats
         /\ CountHeartbeats(beats) => heartbeatReceiveCount' \in [Connection -> Nat]
  <1>1. heartbeats' \in 0 .. MaxHeartbeats
    BY ChannelAssumption DEF Answered, TypeOK
  <1>2. ASSUME CountHeartbeats(beats), lastConnection # NULL
        PROVE  heartbeatReceiveCount' \in [Connection -> Nat]
    <2>1. PICK c : c = lastConnection.connection
      OBVIOUS
    <2>2. c \in Connection
      BY <1>2, <2>1, EntriesTyped
    <2>3. /\ heartbeatReceiveCount' = [heartbeatReceiveCount EXCEPT ![c] = @ + beats]
          /\ heartbeatReceiveCount[c] + beats \in Nat
      BY <1>2, <2>1, <2>2, ChannelAssumption DEF CountHeartbeats, TypeOK
    <2> QED BY <2>2, <2>3 DEF TypeOK
  <1> QED BY <1>1, <1>2 DEF CountHeartbeats, TypeOK

(* The types of what is not about the connections. *)
LoginTyped == statementRetryMode' \in {0, 1, 2} /\ ownerMode' \in BOOLEAN

ContextTyped ==
  /\ partitionId' \in Partition \cup {NULL}
  /\ lastHeartbeatCount' \in Nat /\ closed' \in BOOLEAN
  /\ heartbeatReceiveCount' \in [Connection -> Nat]
  /\ cached' \in [Partition -> Address \cup {NULL}]

CallTyped ==
  /\ pc' \in {"idle", "trial", "sent"}
  /\ kind' \in {"none", "statement", "fetch", "resolver"}
  /\ firstTrial' \in BOOLEAN
  /\ failing' \in (0 .. FailoverTimeout) \cup {NULL}
  /\ rowSet' \in RowSet \cup {NULL}
  /\ switched' \in BOOLEAN /\ broken' \in BOOLEAN
  /\ statements' \in 0 .. MaxStatements /\ heartbeats' \in 0 .. MaxHeartbeats

LEMMA LoginStep ==
  ASSUME TypeOK, [Next]_vars
  PROVE  LoginTyped
  <1>1. UNCHANGED settings
    BY DEF Next, Progress, vars, Execute, Fetch, CannotFetch, ExecuteResolver, Close,
           OtherContextCloses, Send, CannotConnect, CannotLogin, Succeed, Refused, Break
  <1> QED BY <1>1 DEF settings, LoginTyped, TypeOK

LEMMA ContextStep ==
  ASSUME TypeOK, [Next]_vars
  PROVE  ContextTyped
  <1>1. ASSUME NEW p \in Partition, Execute(p) PROVE ContextTyped
    BY <1>1 DEF Execute, ApplyPartitionId, objects, TypeOK, ContextTyped
  <1>2. ASSUME Fetch PROVE ContextTyped
    BY <1>2, EntriesTyped DEF Fetch, ApplyPartitionId, objects, TypeOK, ContextTyped
  <1>3. ASSUME CannotFetch \/ ExecuteResolver \/ UNCHANGED vars PROVE ContextTyped
    BY <1>3 DEF CannotFetch, ExecuteResolver, vars, objects, connections, TypeOK, ContextTyped
  <1>4. ASSUME Close PROVE ContextTyped
    BY <1>4 DEF Close, TypeOK, ContextTyped
  <1>5. ASSUME OtherContextCloses PROVE ContextTyped
    <2>1. PICK c \in Connection, n \in 0 .. 1 :
             heartbeatReceiveCount' = [heartbeatReceiveCount EXCEPT ![c] = n]
      BY <1>5 DEF OtherContextCloses
    <2> QED BY <1>5, <2>1 DEF OtherContextCloses, connections, TypeOK, ContextTyped
  <1>6. ASSUME Send PROVE ContextTyped
    <2>1. UNCHANGED <<partitionId, closed>>
      BY <1>6 DEF Send
    <2>2. CASE UNCHANGED <<lastHeartbeatCount, heartbeatReceiveCount>>
      BY <1>6, <2>1, <2>2, LearntTyped DEF Send, UpdateConnection, TypeOK, ContextTyped
    <2>3. CASE \E a \in Address, c \in Connection : Connect(a, c) /\ cached' = Learnt(a)
      <3>1. PICK a \in Address, c \in Connection : Connect(a, c) /\ cached' = Learnt(a)
        BY <2>3
      <3>2. heartbeatReceiveCount' \in [Connection -> Nat]
        BY <3>1, ConnectSplit DEF TypeOK
      <3>3. lastHeartbeatCount' \in Nat
        BY <3>1, <3>2, ConnectSplit
      <3> QED BY <2>1, <3>1, <3>2, <3>3, LearntTyped DEF TypeOK, ContextTyped
    <2> QED BY <1>6, <2>2, <2>3 DEF Send, UpdateConnection, connections, objects
  <1>7. ASSUME CannotConnect \/ CannotLogin PROVE ContextTyped
    <2>1. UNCHANGED <<partitionId, lastHeartbeatCount, closed>>
      BY <1>7 DEF CannotConnect, CannotLogin, connections
    <2>2. heartbeatReceiveCount' \in [Connection -> Nat]
      BY <1>7 DEF CannotConnect, CannotLogin, LoginFails, objects, TypeOK
    <2>3. cached' \in [Partition -> Address \cup {NULL}]
      <3>1. cached \in [Partition -> Address \cup {NULL}]
        BY DEF TypeOK
      <3> QED BY <1>7, <3>1, CachedTyped, LearntTyped DEF CannotConnect, CannotLogin
    <2> QED BY <2>1, <2>2, <2>3 DEF ContextTyped, TypeOK
  <1>8. ASSUME Succeed \/ Refused PROVE ContextTyped
    <2>1. PICK beats \in 0 .. MaxHeartbeats : Answered(beats) /\ CountHeartbeats(beats)
      BY <1>8 DEF Succeed, Refused
    <2>2. UNCHANGED <<partitionId, lastHeartbeatCount, closed, cached>>
      BY <1>8 DEF Succeed, Refused, connections
    <2> QED BY <2>1, <2>2, AnsweredTyped DEF TypeOK, ContextTyped
  <1>9. ASSUME Break PROVE ContextTyped
    <2>1. UNCHANGED <<partitionId, lastHeartbeatCount, closed>>
      BY <1>9 DEF Break, DeleteConnection, connections
    <2>2. heartbeatReceiveCount' \in [Connection -> Nat]
      BY <1>9 DEF Break, DeleteConnection, objects, TypeOK
    <2>3. cached' \in [Partition -> Address \cup {NULL}]
      <3>1. cached \in [Partition -> Address \cup {NULL}]
        BY DEF TypeOK
      <3> QED BY <1>9, <3>1, CachedTyped DEF Break
    <2> QED BY <2>1, <2>2, <2>3 DEF ContextTyped, TypeOK
  <1> QED BY <1>1, <1>2, <1>3, <1>4, <1>5, <1>6, <1>7, <1>8, <1>9 DEF Next, Progress

(* A statement that was sent has a connection, unless it is the resolver's. *)
LEMMA CallStep ==
  ASSUME TypeOK, StatementInv, [Next]_vars
  PROVE  CallTyped
  <1>0. MaxStatements \in Nat /\ MaxHeartbeats \in Nat
    BY ChannelAssumption
  <1>1. ASSUME NEW p \in Partition, Execute(p) PROVE CallTyped
    <2>1. (switched \/ (rowSet # NULL /\ p # partitionId)) \in BOOLEAN
      OBVIOUS
    <2>2. switched' \in BOOLEAN
      BY <1>1, <2>1 DEF Execute
    <2> QED BY <1>0, <1>1, <2>2 DEF Execute, Start, TypeOK, CallTyped
  <1>2. ASSUME Fetch \/ ExecuteResolver PROVE CallTyped
    <2>1. Start("fetch", "trial") \/ Start("resolver", "sent")
      BY <1>2 DEF Fetch, ExecuteResolver
    <2>2. statements' \in 0 .. MaxStatements
      BY <1>0, <2>1 DEF Start, TypeOK
    <2>3. UNCHANGED <<rowSet, switched, broken, heartbeats>>
      BY <1>2 DEF Fetch, ExecuteResolver, query
    <2> QED BY <2>1, <2>2, <2>3 DEF Start, TypeOK, CallTyped
  <1>3. ASSUME CannotFetch \/ Close PROVE CallTyped
    BY <1>3 DEF CannotFetch, Close, LoseRowSet, trial, counters, TypeOK, CallTyped
  <1>4. ASSUME OtherContextCloses \/ Send \/ UNCHANGED vars PROVE CallTyped
    BY <1>4 DEF OtherContextCloses, Send, vars, trial, query, counters, TypeOK, CallTyped
  <1>5. ASSUME CannotConnect PROVE CallTyped
    <2>1. PICK wrongNode \in BOOLEAN : Fail(wrongNode, 0)
      BY <1>5 DEF CannotConnect
    <2>2. (broken /\ rowSet' # NULL) \in BOOLEAN
      OBVIOUS
    <2>3. broken' \in BOOLEAN
      BY <1>5, <2>2 DEF CannotConnect
    <2> QED BY <1>5, <2>1, <2>3, FailTyped DEF CannotConnect, counters, TypeOK, CallTyped
  <1>6. ASSUME CannotLogin PROVE CallTyped
    BY <1>6 DEF CannotLogin, Finish, query, counters, TypeOK, CallTyped
  <1>7. ASSUME Succeed \/ Refused PROVE CallTyped
    <2>1. heartbeats' \in 0 .. MaxHeartbeats /\ statements' = statements
      BY <1>7, AnsweredTyped DEF Succeed, Refused
    <2>2. Finish
      BY <1>7 DEF Succeed, Refused
    <2>3. CASE LoseRowSet \/ UNCHANGED query
      BY <2>1, <2>2, <2>3 DEF Finish, LoseRowSet, query, TypeOK, CallTyped
    <2>4. CASE /\ kind = "statement" /\ pc = "sent"
               /\ rowSet' = [partition |-> partitionId, entry |-> lastConnection]
               /\ switched' = FALSE /\ broken' = FALSE
      <3>1. partitionId \in Partition /\ lastConnection \in Entry
        BY <2>4 DEF StatementInv, TypeOK
      <3>2. rowSet' \in RowSet
        BY <2>4, <3>1 DEF RowSet
      <3> QED BY <2>1, <2>2, <2>4, <3>2 DEF Finish, TypeOK, CallTyped
    <2> QED BY <1>7, <2>3, <2>4 DEF Succeed, Refused
  <1>8. ASSUME Break PROVE CallTyped
    <2>1. PICK beats \in 0 .. MaxHeartbeats, wrongNode \in BOOLEAN :
             Answered(beats) /\ Fail(wrongNode, beats)
      BY <1>8 DEF Break
    <2>2. broken' \in BOOLEAN
      <3>1. /\ (rowSet' # NULL /\ (broken \/ lastConnection = rowSet.entry)) \in BOOLEAN
            /\ (broken /\ rowSet' # NULL) \in BOOLEAN
        OBVIOUS
      <3> QED BY <1>8, <3>1 DEF Break
    <2> QED BY <1>8, <2>1, <2>2, FailTyped, AnsweredTyped DEF Break, TypeOK, CallTyped
  <1> QED BY <1>1, <1>2, <1>3, <1>4, <1>5, <1>6, <1>7, <1>8 DEF Next, Progress

LEMMA TypeStep ==
  ASSUME TypeOK, ActiveInv, LastActive, StatementInv, [Next]_vars
  PROVE  TypeOK'
  BY ConnectionTypes, LoginStep, ContextStep, CallStep
     DEF TypeOK, LoginTyped, ContextTyped, CallTyped

-----------------------------------------------------------------------------
(* The ids of the connections, and the connection of the row set. *)

LEMMA IdsStep ==
  ASSUME TypeOK, ActiveInv, LastActive, IdsDiffer, [Next]_vars
  PROVE  IdsDiffer'
  <1>1. CASE UNCHANGED activeConnections
    BY <1>1 DEF IdsDiffer, At, Active
  <1>2. CASE Connected
    <2>1. PICK a \in Address, c \in Connection : Connect(a, c)
      BY <1>2 DEF Connected
    <2>2. /\ At(a)'.id = NewId
          /\ \A b \in Address \ {a} : At(b)' = At(b) /\ (Active(b)' <=> Active(b))
      BY <2>1, ConnectSplit, NewEntryTyped DEF At, Active, TypeOK
    <2> QED BY <2>2, FreshId DEF IdsDiffer
  <1>3. CASE Deleted
    <2>1. PICK a : a = lastConnection.address
      OBVIOUS
    <2>2. /\ ~ Active(a)'
          /\ \A b \in Address \ {a} : At(b)' = At(b) /\ (Active(b)' <=> Active(b))
      BY <1>3, <2>1, DeletedSplit DEF At, Active, TypeOK
    <2> QED BY <2>2 DEF IdsDiffer
  <1>4. CASE Close
    BY <1>4 DEF Close, IdsDiffer, Active
  <1>5. CASE ConnectionsKept \/ PooledDeleted \/ OtherContextCloses
    BY <1>1, <1>5 DEF ConnectionsKept, PooledDeleted, OtherContextCloses, connections
  <1> QED BY <1>2, <1>3, <1>4, <1>5, ConnectionSteps

(* A failure leaves the row set as it is, or loses it. *)
LEMMA FailRowSet ==
  ASSUME NEW wrongNode, NEW beats, Fail(wrongNode, beats)
  PROVE  \/ kind = "fetch" /\ Finish /\ rowSet' = NULL /\ switched' = FALSE
         \/ kind # "fetch" /\ Finish /\ UNCHANGED <<rowSet, switched>>
         \/ /\ kind # "fetch" /\ UNCHANGED <<kind, rowSet, switched>>
            /\ pc' = IF kind = "resolver" THEN "sent" ELSE "trial"
  BY DEF Fail, FetchFailed, StatementFailed, TryAgain

(* The steps, by what they do to the row set that is being fetched. *)
Opened ==
  /\ pc = "sent" /\ kind = "statement"
  /\ rowSet' = [partition |-> partitionId, entry |-> lastConnection]
  /\ switched' = FALSE /\ broken' = FALSE
  /\ UNCHANGED <<partitionId, activeConnections, lastConnection>>

RowSetKept ==
  /\ UNCHANGED <<rowSet, switched, activeConnections>>
  /\ broken' = broken
  /\ \/ UNCHANGED <<partitionId, lastConnection>>
     \/ pc = "trial" /\ lastConnection = NULL /\ UNCHANGED partitionId

Switched ==
  /\ UNCHANGED <<rowSet, activeConnections>> /\ broken' = broken
  /\ \E p \in Partition :
       /\ ApplyPartitionId(p)
       /\ \/ switched' = (switched \/ p # partitionId)
          \/ switched' = switched /\ p = rowSet.partition

ConnectionMade ==
  /\ UNCHANGED <<rowSet, switched, partitionId>> /\ broken' = broken
  /\ Connected

ConnectionBroken ==
  /\ UNCHANGED <<rowSet, switched, partitionId>>
  /\ broken' = (broken \/ lastConnection = rowSet.entry)
  /\ Deleted

LEMMA RowSetSteps ==
  ASSUME TypeOK, [Next]_vars, rowSet' # NULL
  PROVE  \/ Opened
         \/ rowSet # NULL /\ (RowSetKept \/ Switched \/ ConnectionMade \/ ConnectionBroken)
  <1> USE DEF ConnectionMade
  <1>1. ASSUME NEW p \in Partition, Execute(p) PROVE rowSet # NULL /\ Switched
    <2>1. UNCHANGED <<rowSet, activeConnections>> /\ broken' = broken
      BY <1>1 DEF Execute
    <2>2. switched' = (switched \/ p # partitionId)
      BY <1>1, <2>1 DEF Execute
    <2> QED BY <1>1, <2>1, <2>2 DEF Execute, Switched
  <1>2. ASSUME Fetch PROVE rowSet # NULL /\ Switched
    <2>1. rowSet.partition \in Partition
      BY <1>2, EntriesTyped DEF Fetch
    <2> QED BY <1>2, <2>1 DEF Fetch, query, Switched
  <1>3. ASSUME ExecuteResolver \/ OtherContextCloses \/ UNCHANGED vars
        PROVE  rowSet # NULL /\ RowSetKept
    BY <1>3 DEF ExecuteResolver, OtherContextCloses, vars, connections, query, RowSetKept
  <1>4. ~ CannotFetch /\ ~ Close
    BY DEF CannotFetch, Close, LoseRowSet
  <1>5. ASSUME Send PROVE rowSet # NULL /\ (RowSetKept \/ ConnectionMade)
    <2>1. UNCHANGED <<partitionId, rowSet, switched>> /\ broken' = broken /\ pc = "trial"
      BY <1>5 DEF Send, query
    <2>2. CASE UNCHANGED activeConnections
      BY <1>5, <2>1, <2>2 DEF Send, UpdateConnection, connections, RowSetKept
    <2>3. CASE Connected
      BY <2>1, <2>3
    <2> QED BY <1>5, <2>1, <2>2, <2>3 DEF Send, UpdateConnection, connections, Connected
  <1>6. ASSUME CannotConnect PROVE rowSet # NULL /\ RowSetKept
    <2>1. UNCHANGED <<rowSet, switched>>
      BY <1>6, FailRowSet DEF CannotConnect
    <2>2. broken' = broken
      BY <1>6, <2>1 DEF CannotConnect, TypeOK
    <2> QED BY <1>6, <2>1, <2>2 DEF CannotConnect, connections, RowSetKept
  <1>7. ASSUME CannotLogin PROVE rowSet # NULL /\ RowSetKept
    BY <1>7 DEF CannotLogin, connections, query, RowSetKept
  <1>8. ASSUME Succeed \/ Refused PROVE Opened \/ (rowSet # NULL /\ RowSetKept)
    BY <1>8 DEF Succeed, Refused, connections, query, LoseRowSet, Opened, RowSetKept
  <1>9. ASSUME Break PROVE rowSet # NULL /\ (RowSetKept \/ ConnectionBroken)
    <2>1. UNCHANGED <<rowSet, switched>> /\ UNCHANGED partitionId
      BY <1>9, FailRowSet DEF Break
    <2>2. CASE Deleted
      <3>1. broken' = (broken \/ lastConnection = rowSet.entry)
        BY <1>9, <2>1, <2>2 DEF Break, Deleted
      <3> QED BY <2>1, <2>2, <3>1 DEF ConnectionBroken
    <2>3. CASE lastConnection = NULL /\ UNCHANGED <<connections, objects>>
      <3>1. broken' = broken
        BY <1>9, <2>1, <2>3 DEF Break, TypeOK
      <3> QED BY <2>1, <2>3, <3>1 DEF connections, RowSetKept
    <2> QED BY <1>9, <2>2, <2>3 DEF Break, Deleted
  <1> QED BY <1>1, <1>2, <1>3, <1>4, <1>5, <1>6, <1>7, <1>8, <1>9 DEF Next, Progress

LEMMA RowSetStep ==
  ASSUME TypeOK, ActiveInv, LastActive, IdsDiffer, RowSetInv, StatementInv, [Next]_vars
  PROVE  RowSetInv'
  <1> SUFFICES ASSUME rowSet' # NULL PROVE RowSetInv'
    BY DEF RowSetInv
  <1>1. CASE Opened
    BY <1>1 DEF Opened, StatementInv, LastActive, RowSetInv, At
  <1>2. CASE rowSet # NULL /\ (RowSetKept \/ Switched)
    BY <1>2 DEF RowSetKept, Switched, RowSetInv, At, Active
  <1>3. CASE rowSet # NULL /\ ConnectionMade
    <2>1. UNCHANGED <<rowSet, broken>>
      BY <1>3 DEF ConnectionMade
    <2>2. PICK a \in Address, c \in Connection : ~ Active(a) /\ Connect(a, c)
      BY <1>3 DEF ConnectionMade, Connected
    <2>3. /\ At(a)'.id = NewId
          /\ \A b \in Address \ {a} : At(b)' = At(b) /\ (Active(b)' <=> Active(b))
      BY <2>2, ConnectSplit, NewEntryTyped DEF At, Active, TypeOK
    <2>4. rowSet.entry.address \in Address /\ rowSet.entry # NULL /\ rowSet.entry.id # NewId
      BY <1>3, EntriesTyped, FreshId
    <2>5. CASE broken
      BY <1>3, <2>1, <2>3, <2>4, <2>5 DEF RowSetInv
    <2>6. CASE ~ broken
      <3>1. At(rowSet.entry.address) = rowSet.entry /\ rowSet.entry.address # a
        BY <1>3, <2>2, <2>4, <2>6 DEF RowSetInv, Active, At
      <3>2. \A b \in Address : b = rowSet.entry.address => At(b)' = At(b)
        BY <2>3, <3>1
      <3> QED BY <1>3, <2>1, <2>4, <2>6, <3>1, <3>2 DEF RowSetInv, At
    <2> QED BY <2>5, <2>6
  <1>4. CASE rowSet # NULL /\ ConnectionBroken
    <2>1. PICK a : a = lastConnection.address
      OBVIOUS
    <2>2. /\ rowSet' = rowSet
          /\ broken' = (broken \/ lastConnection = rowSet.entry)
      BY <1>4 DEF ConnectionBroken
    <2>3. /\ a \in Address /\ Active(a) /\ At(a) = lastConnection /\ ~ Active(a)'
          /\ \A b \in Address \ {a} : At(b)' = At(b) /\ (Active(b)' <=> Active(b))
      BY <1>4, <2>1, DeletedSplit DEF ConnectionBroken, At, Active, TypeOK
    <2>4. rowSet.entry.address \in Address /\ rowSet.entry # NULL
      BY <1>4, EntriesTyped
    <2>5. CASE broken
      BY <1>4, <2>2, <2>3, <2>5 DEF RowSetInv
    <2>6. CASE ~ broken /\ lastConnection = rowSet.entry
      <3>1. \A b \in Address \ {a} : Active(b) => At(b).id # rowSet.entry.id
        BY <2>3, <2>6 DEF IdsDiffer
      <3> QED BY <2>2, <2>3, <2>6, <3>1 DEF RowSetInv
    <2>7. CASE ~ broken /\ lastConnection # rowSet.entry
      <3>1. At(rowSet.entry.address) = rowSet.entry /\ rowSet.entry.address # a
        BY <1>4, <2>3, <2>7 DEF RowSetInv
      <3>2. \A b \in Address : b = rowSet.entry.address => At(b)' = At(b)
        BY <2>3, <3>1
      <3> QED BY <1>4, <2>2, <2>4, <2>7, <3>1, <3>2 DEF RowSetInv, At
    <2> QED BY <2>5, <2>6, <2>7 DEF TypeOK
  <1> QED BY <1>1, <1>2, <1>3, <1>4, RowSetSteps

LEMMA SamePartitionStep ==
  ASSUME TypeOK, SamePartition, [Next]_vars
  PROVE  SamePartition'
  <1> SUFFICES ASSUME rowSet' # NULL, ~ switched', ~ broken'
               PROVE  partitionId' = rowSet'.partition /\ lastConnection' = rowSet'.entry
    BY DEF SamePartition
  <1>1. CASE Opened
    BY <1>1 DEF Opened
  <1>2. CASE rowSet # NULL /\ RowSetKept
    BY <1>2, EntriesTyped DEF RowSetKept, SamePartition
  <1>3. CASE rowSet # NULL /\ Switched
    <2>1. PICK p \in Partition :
             /\ ApplyPartitionId(p)
             /\ \/ switched' = (switched \/ p # partitionId)
                \/ switched' = switched /\ p = rowSet.partition
      BY <1>3 DEF Switched
    <2>2. ~ switched /\ (p = partitionId \/ p = rowSet.partition)
      <3>1. CASE switched' = (switched \/ p # partitionId)
        <4>1. ~ (switched \/ p # partitionId)
          BY <3>1
        <4> QED BY <4>1
      <3>2. CASE switched' = switched /\ p = rowSet.partition
        BY <3>2
      <3> QED BY <2>1, <3>1, <3>2
    <2>3. rowSet' = rowSet /\ ~ broken
      BY <1>3 DEF Switched
    <2>4. partitionId = rowSet.partition /\ lastConnection = rowSet.entry
      BY <1>3, <2>2, <2>3 DEF SamePartition
    <2> QED BY <2>1, <2>2, <2>3, <2>4 DEF ApplyPartitionId
  <1>4. CASE rowSet # NULL /\ ConnectionMade
    BY <1>4, EntriesTyped DEF ConnectionMade, Connected, SamePartition
  <1>5. CASE rowSet # NULL /\ ConnectionBroken
    BY <1>5 DEF ConnectionBroken, SamePartition
  <1> QED BY <1>1, <1>2, <1>3, <1>4, <1>5, RowSetSteps

LEMMA StatementStep ==
  ASSUME TypeOK, ActiveInv, LastActive, RowSetInv, StatementInv, [Next]_vars
  PROVE  StatementInv'
  <1>1. ASSUME NEW p \in Partition, Execute(p) PROVE StatementInv'
    BY <1>1 DEF Execute, Start, ApplyPartitionId, StatementInv
  <1>2. ASSUME Fetch PROVE StatementInv'
    <2>1. rowSet # NULL /\ rowSet.partition \in Partition
      BY <1>2, EntriesTyped DEF Fetch
    <2>2. ~ broken
      <3>1. PICK e : e = rowSet.entry
        OBVIOUS
      <3>2. e.address \in Address /\ Active(e.address) /\ At(e.address).id = e.id
        BY <1>2, <2>1, <3>1, EntriesTyped DEF Fetch, ActiveConnection, At
      <3> QED BY <2>1, <3>1, <3>2 DEF RowSetInv
    <2>3. UNCHANGED <<rowSet, broken>>
      BY <1>2 DEF Fetch, query
    <2> QED BY <1>2, <2>1, <2>2, <2>3 DEF Fetch, Start, ApplyPartitionId, StatementInv
  <1>3. ASSUME CannotFetch \/ Close PROVE StatementInv'
    BY <1>3 DEF CannotFetch, Close, LoseRowSet, connections, StatementInv
  <1>4. ASSUME ExecuteResolver PROVE StatementInv'
    BY <1>4 DEF ExecuteResolver, Start, StatementInv
  <1>5. ASSUME OtherContextCloses \/ UNCHANGED vars PROVE StatementInv'
    BY <1>5 DEF OtherContextCloses, vars, connections, query, StatementInv
  <1>6. ASSUME Send PROVE StatementInv'
    <2>1. lastConnection' # NULL
      <3>1. ASSUME NEW a \in Address, NEW c \in Connection, Connect(a, c)
            PROVE  lastConnection' # NULL
        BY <3>1, ConnectSplit, NewEntryTyped
      <3> QED BY <1>6, <3>1 DEF Send, UpdateConnection, connections, Active
    <2> QED BY <1>6, <2>1 DEF Send, query, StatementInv
  <1>7. ASSUME CannotConnect PROVE StatementInv'
    <2>1. PICK wrongNode \in BOOLEAN : Fail(wrongNode, 0)
      BY <1>7 DEF CannotConnect
    <2> QED BY <1>7, <2>1, FailRowSet
            DEF CannotConnect, Finish, connections, StatementInv
  <1>8. ASSUME CannotLogin \/ Succeed \/ Refused PROVE StatementInv'
    BY <1>8 DEF CannotLogin, Succeed, Refused, Finish, StatementInv
  <1>9. ASSUME Break PROVE StatementInv'
    <2>1. PICK beats, wrongNode : Fail(wrongNode, beats)
      BY <1>9 DEF Break
    <2>2. partitionId' = partitionId /\ pc = "sent"
      BY <1>9 DEF Break
    <2> QED BY <2>1, <2>2, FailRowSet DEF Finish, StatementInv
  <1> QED BY <1>1, <1>2, <1>3, <1>4, <1>5, <1>6, <1>7, <1>8, <1>9 DEF Next, Progress

-----------------------------------------------------------------------------
LEMMA InitIInv == Init => IInv
  <1> SUFFICES ASSUME Init PROVE IInv
    OBVIOUS
  <1>1. TypeOK
    <2>1. /\ activeConnections \in [Address -> Entry \cup {NULL}]
          /\ remoteAddress \in [Connection -> Address \cup {NULL}]
          /\ heartbeatReceiveCount \in [Connection -> Nat]
          /\ cached \in [Partition -> Address \cup {NULL}]
      BY DEF Init
    <2>2. 0 \in 0 .. MaxStatements /\ 0 \in 0 .. MaxHeartbeats
      BY ChannelAssumption
    <2>3. /\ closed \in BOOLEAN /\ switched \in BOOLEAN /\ broken \in BOOLEAN
          /\ firstTrial \in BOOLEAN /\ ownerMode \in BOOLEAN
      BY DEF Init
    <2> QED BY <2>1, <2>2, <2>3 DEF Init, TypeOK
  <1>2. \A a \in Address : ~ Active(a)
    BY DEF Init, Active
  <1> QED BY <1>1, <1>2 DEF Init, IInv, ActiveInv, PoolInv, NoneLost, LastActive,
             IdsDiffer, RowSetInv, SamePartition, StatementInv

LEMMA Inductive == Spec => []IInv
  <1>1. IInv /\ [Next]_vars => IInv'
    BY TypeStep, OwnedStep, IdsStep, RowSetStep, SamePartitionStep, StatementStep
       DEF IInv, Owned
  <1> QED BY <1>1, InitIInv, PTL DEF Spec

-----------------------------------------------------------------------------
(* Every connection of the channel is either in the pool or with the        *)
(* context, once and under its own address, so that no failure deletes it   *)
(* twice or loses it; and every variable has its type.                      *)
THEOREM ChannelConnectionsOwned == Spec => []ConnectionsOwned
  <1>1. IInv => ConnectionsOwned
    <2> SUFFICES ASSUME IInv PROVE ConnectionsOwned
      OBVIOUS
    <2> USE DEF IInv
    <2> DEFINE active(c) == {a \in Address : Active(a) /\ At(a).connection = c}
    <2>1. \A c \in Connection : \A a \in active(c) : a = remoteAddress[c]
      BY DEF ActiveInv
    <2>2. ASSUME NEW c \in Connection, remoteAddress[c] = NULL
          PROVE  active(c) = {} /\ c \notin pool
      BY <2>1, <2>2, ChannelAssumption DEF PoolInv
    <2>3. ASSUME NEW c \in Connection, remoteAddress[c] # NULL
          PROVE  \/ active(c) = {remoteAddress[c]} /\ c \notin pool
                 \/ active(c) = {} /\ c \in pool
      <3>1. remoteAddress[c] \in Address
        BY <2>3 DEF TypeOK
      <3>2. CASE c \in pool
        BY <3>2 DEF PoolInv
      <3>3. CASE c \notin pool
        BY <2>1, <2>3, <3>1, <3>3 DEF NoneLost
      <3> QED BY <3>2, <3>3
    <2> QED BY <2>2, <2>3 DEF ConnectionsOwned, LastActive, At, TypeOK
  <1> QED BY <1>1, Inductive, PTL

(* A fetch goes out only while the connection that opened the row set is    *)
(* alive, and on that connection unless the context has been to another     *)
(* partition: the ids tell it from every later one, even where the object   *)
(* of a deleted connection is used again.                                   *)
THEOREM ChannelFetchOnQueryConnection == Spec => []FetchOnQueryConnection
  <1>1. IInv => FetchOnQueryConnection
    BY DEF IInv, StatementInv, SamePartition, FetchOnQueryConnection
  <1> QED BY <1>1, Inductive, PTL

-----------------------------------------------------------------------------
(* The containers of a store (StoreContainers) and their cache, which the   *)
(* context of the channel has (GridStoreChannel::Context::containerCache_): *)
(* for any sizes of the cache and any number of handles.  The two maps that *)
(* the cache keeps for its schemas are inverse to each other, so that the   *)
(* one whose size is looked at has the size of the other; of the sessions,  *)
(* whose numbers are not their own, the list of ages has some only.        *)
LEMMA StoreConstants ==
  /\ CacheSize \in Nat \ {0}
  /\ MAX_SESSION_REPAIR_COUNT \in Nat
  /\ ConnectionsFail \in BOOLEAN
  /\ MaxSchemaId \in Nat /\ MaxVersion \in Nat
  /\ MaxSessionId \in Nat /\ MaxStatement \in Nat
  BY StoreAssumption, CacheAssumption

(* Maps from some of S to T. *)
Map(S, T) == UNION {[D -> T] : D \in SUBSET S}

LEMMA WithoutIs ==
  /\ \A f, x : DOMAIN Without(f, x) = DOMAIN f \ {x}
  /\ \A f, x, z : z \in DOMAIN f /\ z # x => Without(f, x)[z] = f[z]
  BY DEF Without, Restrict

LEMMA MapWith ==
  ASSUME NEW S, NEW T, NEW f \in Map(S, T), NEW x \in S, NEW y \in T
  PROVE  With(f, x, y) \in Map(S, T)
  <1>1. PICK D \in SUBSET S : f \in [D -> T]
    BY DEF Map
  <1>2. With(f, x, y) \in [D \cup {x} -> T]
    BY <1>1 DEF With
  <1>3. D \cup {x} \in SUBSET S
    OBVIOUS
  <1> QED BY <1>2, <1>3 DEF Map

LEMMA MapRestrict ==
  ASSUME NEW S, NEW T, NEW f \in Map(S, T), NEW D \in SUBSET DOMAIN f
  PROVE  Restrict(f, D) \in Map(S, T)
  <1>1. PICK E \in SUBSET S : f \in [E -> T]
    BY DEF Map
  <1>2. Restrict(f, D) \in [D -> T]
    BY <1>1 DEF Restrict
  <1> QED BY <1>1, <1>2 DEF Map

LEMMA MapWithout ==
  ASSUME NEW S, NEW T, NEW f \in Map(S, T), NEW x
  PROVE  Without(f, x) \in Map(S, T)
  BY MapRestrict DEF Without

LEMMA MapValue ==
  ASSUME NEW S, NEW T, NEW f \in Map(S, T)
  PROVE  DOMAIN f \subseteq S /\ \A x \in DOMAIN f : f[x] \in T
  BY DEF Map

LEMMA EmptyMap ==
  ASSUME NEW S, NEW T
  PROVE  <<>> \in Map(S, T) /\ DOMAIN <<>> = {}
  <1>1. <<>> \in [{} -> T]
    OBVIOUS
  <1> QED BY <1>1 DEF Map

-----------------------------------------------------------------------------
(* The cache. *)

Schema == [id : Nat, container : Container, version : 0 .. MaxVersion]
Info == [id : Nat, container : Container, session : 1 .. MaxSessionId,
         statement : 0 .. MaxStatement]
Cache == [schemaCache : Map(Key, Schema), schemaNameMap : Map(Nat, Key),
          lastSchemaCacheId : Nat,
          sessionCache : Map(Container, Info), sessionKeyMap : Map(Nat, Container)]

(* The schemas are listed by their ids, and no other ids are; of the        *)
(* sessions, some are.                                                      *)
SchemasListed(c) ==
  /\ \A k \in DOMAIN c.schemaCache :
       LET id == c.schemaCache[k].id IN
       id \in DOMAIN c.schemaNameMap /\ c.schemaNameMap[id] = k
  /\ \A id \in DOMAIN c.schemaNameMap :
       /\ c.schemaNameMap[id] \in DOMAIN c.schemaCache
       /\ c.schemaCache[c.schemaNameMap[id]].id = id
       /\ id <= c.lastSchemaCacheId
SessionsListed(c) ==
  \A id \in DOMAIN c.sessionKeyMap :
    /\ c.sessionKeyMap[id] \in DOMAIN c.sessionCache
    /\ c.sessionCache[c.sessionKeyMap[id]].id = id

Few(S, n) == IsFiniteSet(S) /\ Cardinality(S) <= n

CacheOK(c) ==
  /\ c \in Cache /\ SchemasListed(c) /\ SessionsListed(c)
  /\ Few(DOMAIN c.schemaCache, CacheSize)

(* The schemas are removed, and the sessions are left alone. *)
LEMMA RemoveSchemaListed ==
  ASSUME NEW c \in Cache, SchemasListed(c), NEW k, NEW d, d = RemoveSchema(c, k)
  PROVE  /\ d \in Cache /\ SchemasListed(d)
         /\ DOMAIN d.schemaCache = DOMAIN c.schemaCache \ {k}
         /\ d.sessionCache = c.sessionCache /\ d.sessionKeyMap = c.sessionKeyMap
         /\ d.lastSchemaCacheId = c.lastSchemaCacheId
         /\ DOMAIN d.schemaNameMap \subseteq DOMAIN c.schemaNameMap
  <1>1. CASE k \notin DOMAIN c.schemaCache
    <2>1. d = c
      BY <1>1 DEF RemoveSchema
    <2> QED BY <1>1, <2>1
  <1>2. CASE k \in DOMAIN c.schemaCache
    <2> DEFINE id == c.schemaCache[k].id
               names == Without(c.schemaNameMap, id)
               schemas == Without(c.schemaCache, k)
    <2>1. c.schemaCache \in Map(Key, Schema) /\ c.schemaNameMap \in Map(Nat, Key)
      BY DEF Cache
    <2>2. /\ schemas \in Map(Key, Schema) /\ DOMAIN schemas = DOMAIN c.schemaCache \ {k}
          /\ \A z \in DOMAIN c.schemaCache \ {k} : schemas[z] = c.schemaCache[z]
      BY <2>1, MapWithout, WithoutIs
    <2>3. /\ names \in Map(Nat, Key) /\ DOMAIN names = DOMAIN c.schemaNameMap \ {id}
          /\ \A z \in DOMAIN c.schemaNameMap \ {id} : names[z] = c.schemaNameMap[z]
      BY <2>1, MapWithout, WithoutIs
    <2>4. d = [c EXCEPT !.schemaNameMap = names, !.schemaCache = schemas]
      BY <1>2 DEF RemoveSchema
    <2> HIDE DEF names, schemas
    <2>5. d \in Cache
      BY <2>2, <2>3, <2>4 DEF Cache
    <2>6. /\ d.schemaCache = schemas /\ d.schemaNameMap = names
          /\ d.sessionCache = c.sessionCache /\ d.sessionKeyMap = c.sessionKeyMap
          /\ d.lastSchemaCacheId = c.lastSchemaCacheId
      BY <2>4 DEF Cache
    <2>7. SchemasListed(d)
      BY <1>2, <2>2, <2>3, <2>6 DEF SchemasListed
    <2> QED BY <2>2, <2>3, <2>5, <2>6, <2>7
  <1> QED BY <1>1, <1>2

LEMMA InsertSchemaListed ==
  ASSUME NEW c \in Cache, SchemasListed(c), NEW k \in Key, NEW x \in Container,
         NEW v \in 0 .. MaxVersion, NEW d, d = InsertSchema(c, k, x, v)
  PROVE  /\ d \in Cache /\ SchemasListed(d)
         /\ DOMAIN d.schemaCache = DOMAIN c.schemaCache \cup {k}
         /\ d.sessionCache = c.sessionCache /\ d.sessionKeyMap = c.sessionKeyMap
  <1> DEFINE id == c.lastSchemaCacheId + 1
             schema == [id |-> id, container |-> x, version |-> v]
             r == RemoveSchema(c, k)
             names == With(r.schemaNameMap, id, k)
             schemas == With(r.schemaCache, k, schema)
  <1>1. id \in Nat /\ schema \in Schema /\ schema.id = id
    BY DEF Cache, Schema
  <1>2. /\ r \in Cache /\ SchemasListed(r)
        /\ DOMAIN r.schemaCache = DOMAIN c.schemaCache \ {k}
        /\ r.sessionCache = c.sessionCache /\ r.sessionKeyMap = c.sessionKeyMap
        /\ r.lastSchemaCacheId = c.lastSchemaCacheId
    BY RemoveSchemaListed
  <1>3. d = [r EXCEPT !.lastSchemaCacheId = id, !.schemaCache = schemas,
                      !.schemaNameMap = names]
    BY DEF InsertSchema
  <1>4. r.schemaCache \in Map(Key, Schema) /\ r.schemaNameMap \in Map(Nat, Key)
    BY <1>2 DEF Cache
  <1>5. id \notin DOMAIN r.schemaNameMap
    BY <1>2 DEF SchemasListed, Cache
  <1> HIDE DEF id, schema, r
  <1>6. /\ schemas \in Map(Key, Schema) /\ DOMAIN schemas = DOMAIN r.schemaCache \cup {k}
        /\ schemas[k] = schema
        /\ \A z \in DOMAIN r.schemaCache \ {k} : schemas[z] = r.schemaCache[z]
    <2>1. schemas \in Map(Key, Schema)
      BY <1>1, <1>4, MapWith
    <2> QED BY <2>1 DEF With
  <1>7. /\ names \in Map(Nat, Key) /\ DOMAIN names = DOMAIN r.schemaNameMap \cup {id}
        /\ names[id] = k
        /\ \A z \in DOMAIN r.schemaNameMap \ {id} : names[z] = r.schemaNameMap[z]
    <2>1. names \in Map(Nat, Key)
      BY <1>1, <1>4, MapWith
    <2> QED BY <2>1 DEF With
  <1> HIDE DEF names, schemas
  <1>8. d \in Cache
    BY <1>1, <1>2, <1>3, <1>6, <1>7 DEF Cache
  <1>9. /\ d.schemaCache = schemas /\ d.schemaNameMap = names /\ d.lastSchemaCacheId = id
        /\ d.sessionCache = r.sessionCache /\ d.sessionKeyMap = r.sessionKeyMap
    BY <1>2, <1>3 DEF Cache
  <1>10. \A i \in DOMAIN r.schemaNameMap : i <= id
    <2>1. DOMAIN r.schemaNameMap \subseteq Nat /\ c.lastSchemaCacheId \in Nat
      BY <1>4, MapValue DEF Cache
    <2> QED BY <1>2, <2>1 DEF SchemasListed, id
  <1>11. SchemasListed(d)
    BY <1>1, <1>2, <1>5, <1>6, <1>7, <1>9, <1>10 DEF SchemasListed
  <1> QED BY <1>2, <1>6, <1>8, <1>9, <1>11

LEMMA StoreMin ==
  ASSUME NEW S \in SUBSET Nat, S # {}
  PROVE  Min(S) \in S
  <1> DEFINE UpTo(k) == S \cap 0 .. k
             T == {UpTo(k) : k \in S}
  <1>1. \A k \in S : UpTo(k) \in FiniteSubsetsOf(Nat)
    BY FS_BoundedSetOfNaturals DEF FiniteSubsetsOf
  <1>2. T \subseteq FiniteSubsetsOf(Nat) /\ T # {}
    BY <1>1
  <1>3. PICK U \in T : \A V \in T : <<V, U>> \notin StrictSubsetOrdering(Nat)
    <2> HIDE DEF T
    <2> QED BY <1>2, FS_StrictSubsetOrderingWellFounded, WFMin
  <1>4. PICK k \in S : U = UpTo(k)
    OBVIOUS
  <1>5. ASSUME NEW y \in S, y < k
        PROVE  FALSE
    <2>1. UpTo(y) \in SUBSET Nat /\ U \in SUBSET Nat /\ UpTo(y) \subseteq U
      BY <1>4, <1>5
    <2>2. k \notin UpTo(y) /\ k \in U
      BY <1>4, <1>5
    <2> HIDE DEF UpTo
    <2>3. <<UpTo(y), U>> \in StrictSubsetOrdering(Nat)
      BY <2>1, <2>2 DEF StrictSubsetOrdering
    <2> QED BY <1>3, <2>3
  <1>6. \A y \in S : k =< y
    BY <1>5
  <1> QED BY <1>6 DEF Min

(* The list has as many entries as there are schemas: its keys are those    *)
(* of the schemas.                                                          *)
LEMMA FewNamesFewSchemas ==
  ASSUME NEW c \in Cache, SchemasListed(c), IsFiniteSet(DOMAIN c.schemaCache)
  PROVE  /\ IsFiniteSet(DOMAIN c.schemaNameMap)
         /\ Cardinality(DOMAIN c.schemaNameMap) = Cardinality(DOMAIN c.schemaCache)
  <1> DEFINE N == DOMAIN c.schemaNameMap
             K == DOMAIN c.schemaCache
             g == [k \in K |-> c.schemaCache[k].id]
  <1>1. g \in Bijection(K, N)
    <2>1. \A k \in K : c.schemaCache[k].id \in N /\ c.schemaNameMap[c.schemaCache[k].id] = k
      BY DEF SchemasListed
    <2>2. \A id \in N : c.schemaNameMap[id] \in K /\ c.schemaCache[c.schemaNameMap[id]].id = id
      BY DEF SchemasListed
    <2>3. g \in [K -> N]
      BY <2>1
    <2>4. \A a, b \in K : g[a] = g[b] => a = b
      BY <2>1
    <2>5. \A id \in N : \E k \in K : g[k] = id
      BY <2>2
    <2> HIDE DEF g, N, K
    <2> QED BY <2>3, <2>4, <2>5 DEF Bijection, Injection, Surjection, IsInjective
  <1>2. ExistsBijection(K, N)
    BY <1>1 DEF ExistsBijection
  <1> HIDE DEF g, N, K
  <1> QED BY <1>2, FS_Bijection DEF N, K

LEMMA OneMore ==
  ASSUME NEW S, NEW n \in Nat, Few(S, n), NEW x
  PROVE  Few(S \cup {x}, n + 1)
  <1>1. IsFiniteSet(S) /\ Cardinality(S) \in Nat /\ Cardinality(S) <= n
    BY FS_CardinalityType DEF Few
  <1>2. /\ IsFiniteSet(S \cup {x})
        /\ Cardinality(S \cup {x}) = Cardinality(S) \/ Cardinality(S \cup {x}) = Cardinality(S) + 1
    BY <1>1, FS_AddElement
  <1> QED BY <1>1, <1>2 DEF Few

LEMMA OneLess ==
  ASSUME NEW S, NEW n \in Nat, Few(S, n + 1), NEW x \in S
  PROVE  Few(S \ {x}, n)
  <1>1. IsFiniteSet(S) /\ Cardinality(S) \in Nat /\ Cardinality(S) <= n + 1
    BY FS_CardinalityType DEF Few
  <1>2. IsFiniteSet(S \ {x}) /\ Cardinality(S \ {x}) = Cardinality(S) - 1
    BY <1>1, FS_RemoveElement
  <1> QED BY <1>1, <1>2 DEF Few

LEMMA CacheSchemaOK ==
  ASSUME CacheOK(cache), NEW k \in Key, NEW x \in Container,
         NEW v \in 0 .. MaxVersion
  PROVE  LET d == CacheSchema(cache, k, x, v) IN
         CacheOK(d) /\ d.sessionCache = cache.sessionCache
  <1> DEFINE e == InsertSchema(cache, k, x, v)
             names == DOMAIN e.schemaNameMap
             d == CacheSchema(cache, k, x, v)
  <1>1. /\ e \in Cache /\ SchemasListed(e)
        /\ DOMAIN e.schemaCache = DOMAIN cache.schemaCache \cup {k}
        /\ e.sessionCache = cache.sessionCache /\ e.sessionKeyMap = cache.sessionKeyMap
    BY InsertSchemaListed DEF CacheOK
  <1>2. SessionsListed(e)
    BY <1>1 DEF CacheOK, SessionsListed
  <1>3. Few(DOMAIN e.schemaCache, CacheSize + 1)
    <2>1. Few(DOMAIN cache.schemaCache, CacheSize) /\ CacheSize \in Nat
      BY StoreConstants DEF CacheOK
    <2>2. Few(DOMAIN cache.schemaCache \cup {k}, CacheSize + 1)
      BY <2>1, OneMore
    <2> QED BY <1>1, <2>2
  <1>4. IsFiniteSet(names) /\ Cardinality(names) = Cardinality(DOMAIN e.schemaCache)
    BY <1>1, <1>3, FewNamesFewSchemas DEF Few
  <1>5. d = IF Cardinality(names) > CacheSize
            THEN RemoveSchema(e, e.schemaNameMap[Min(names)]) ELSE e
    BY DEF CacheSchema
  <1>6. CASE ~ Cardinality(names) > CacheSize
    <2>1. d = e
      BY <1>5, <1>6
    <2>2. Few(DOMAIN e.schemaCache, CacheSize)
      BY <1>3, <1>4, <1>6, FS_CardinalityType, StoreConstants DEF Few
    <2> QED BY <1>1, <1>2, <2>1, <2>2 DEF CacheOK
  <1>7. CASE Cardinality(names) > CacheSize
    <2> DEFINE old == e.schemaNameMap[Min(names)]
    <2>1. names # {} /\ names \in SUBSET Nat
      <3>1. names # {}
        BY <1>7, FS_EmptySet, StoreConstants
      <3> QED BY <1>1, <3>1, MapValue DEF Cache
    <2>2. old \in DOMAIN e.schemaCache
      BY <1>1, <2>1, StoreMin DEF SchemasListed
    <2>3. d = RemoveSchema(e, old)
      BY <1>5, <1>7
    <2>4. /\ d \in Cache /\ SchemasListed(d)
          /\ DOMAIN d.schemaCache = DOMAIN e.schemaCache \ {old}
          /\ d.sessionCache = e.sessionCache /\ d.sessionKeyMap = e.sessionKeyMap
      BY <1>1, <2>3, RemoveSchemaListed
    <2>5. Few(DOMAIN d.schemaCache, CacheSize)
      BY <1>3, <2>2, <2>4, OneLess, StoreConstants
    <2>6. SessionsListed(d)
      BY <1>2, <2>4 DEF SessionsListed
    <2> QED BY <1>1, <2>4, <2>5, <2>6 DEF CacheOK
  <1> QED BY <1>6, <1>7

LEMMA RemoveSchemaOK ==
  ASSUME CacheOK(cache), NEW k
  PROVE  LET d == RemoveSchema(cache, k) IN
         CacheOK(d) /\ d.sessionCache = cache.sessionCache
  <1> DEFINE d == RemoveSchema(cache, k)
  <1>1. /\ d \in Cache /\ SchemasListed(d)
        /\ DOMAIN d.schemaCache = DOMAIN cache.schemaCache \ {k}
        /\ d.sessionCache = cache.sessionCache /\ d.sessionKeyMap = cache.sessionKeyMap
    BY RemoveSchemaListed DEF CacheOK
  <1>2. Few(DOMAIN d.schemaCache, CacheSize)
    BY <1>1, FS_Subset, FS_CardinalityType, StoreConstants DEF CacheOK, Few
  <1>3. SessionsListed(d)
    BY <1>1 DEF CacheOK, SessionsListed
  <1> QED BY <1>1, <1>2, <1>3 DEF CacheOK

(* Sessions leave the cache and come into it; whatever else is in it stays *)
(* the same.                                                               *)
LEMMA TakeSessionListed ==
  ASSUME NEW c \in Cache, SessionsListed(c), NEW x, NEW d, d = TakeSession(c, x)
  PROVE  /\ d \in Cache /\ SessionsListed(d)
         /\ d.schemaCache = c.schemaCache /\ d.schemaNameMap = c.schemaNameMap
         /\ d.lastSchemaCacheId = c.lastSchemaCacheId
         /\ DOMAIN d.sessionCache = DOMAIN c.sessionCache \ {x}
         /\ \A y \in DOMAIN d.sessionCache : d.sessionCache[y] = c.sessionCache[y]
  <1>1. CASE x \notin DOMAIN c.sessionCache
    <2>1. d = c
      BY <1>1 DEF TakeSession
    <2> QED BY <1>1, <2>1
  <1>2. CASE x \in DOMAIN c.sessionCache
    <2> DEFINE id == c.sessionCache[x].id
               ages == Without(c.sessionKeyMap, id)
               infos == Without(c.sessionCache, x)
    <2>1. c.sessionCache \in Map(Container, Info) /\ c.sessionKeyMap \in Map(Nat, Container)
      BY DEF Cache
    <2>2. /\ infos \in Map(Container, Info) /\ DOMAIN infos = DOMAIN c.sessionCache \ {x}
          /\ \A z \in DOMAIN c.sessionCache \ {x} : infos[z] = c.sessionCache[z]
      BY <2>1, MapWithout, WithoutIs
    <2>3. /\ ages \in Map(Nat, Container) /\ DOMAIN ages = DOMAIN c.sessionKeyMap \ {id}
          /\ \A z \in DOMAIN c.sessionKeyMap \ {id} : ages[z] = c.sessionKeyMap[z]
      BY <2>1, MapWithout, WithoutIs
    <2>4. d = [c EXCEPT !.sessionKeyMap = ages, !.sessionCache = infos]
      BY <1>2 DEF TakeSession
    <2> HIDE DEF ages, infos
    <2>5. d \in Cache
      BY <2>2, <2>3, <2>4 DEF Cache
    <2>6. /\ d.sessionCache = infos /\ d.sessionKeyMap = ages
          /\ d.schemaCache = c.schemaCache /\ d.schemaNameMap = c.schemaNameMap
          /\ d.lastSchemaCacheId = c.lastSchemaCacheId
      BY <2>4 DEF Cache
    <2>7. SessionsListed(d)
      BY <1>2, <2>2, <2>3, <2>6 DEF SessionsListed
    <2> QED BY <2>2, <2>5, <2>6, <2>7
  <1> QED BY <1>1, <1>2

LEMMA InsertSessionListed ==
  ASSUME NEW c \in Cache, SessionsListed(c), NEW x \in Container,
         NEW n \in 1 .. MaxSessionId, NEW m \in 0 .. MaxStatement,
         NEW d, d = InsertSession(c, x, n, m)
  PROVE  /\ d \in Cache /\ SessionsListed(d)
         /\ d.schemaCache = c.schemaCache /\ d.schemaNameMap = c.schemaNameMap
         /\ d.lastSchemaCacheId = c.lastSchemaCacheId
         /\ DOMAIN d.sessionCache = DOMAIN c.sessionCache \cup {x}
         /\ d.sessionCache[x].session = n /\ d.sessionCache[x].statement = m
         /\ \A y \in DOMAIN d.sessionCache \ {x} : d.sessionCache[y] = c.sessionCache[y]
  <1> DEFINE id == c.lastSchemaCacheId
             info == [id |-> id, container |-> x, session |-> n, statement |-> m]
             r == TakeSession(c, x)
             ages == With(r.sessionKeyMap, id, x)
             infos == With(r.sessionCache, x, info)
  <1>1. id \in Nat /\ info \in Info /\ info.id = id /\ info.session = n /\ info.statement = m
    BY DEF Cache, Info
  <1>2. /\ r \in Cache /\ SessionsListed(r)
        /\ r.schemaCache = c.schemaCache /\ r.schemaNameMap = c.schemaNameMap
        /\ r.lastSchemaCacheId = c.lastSchemaCacheId
        /\ DOMAIN r.sessionCache = DOMAIN c.sessionCache \ {x}
        /\ \A y \in DOMAIN r.sessionCache : r.sessionCache[y] = c.sessionCache[y]
    BY TakeSessionListed
  <1>3. d = [r EXCEPT !.sessionCache = infos, !.sessionKeyMap = ages]
    BY DEF InsertSession
  <1>4. r.sessionCache \in Map(Container, Info) /\ r.sessionKeyMap \in Map(Nat, Container)
    BY <1>2 DEF Cache
  <1> HIDE DEF id, info, r
  <1>5. /\ infos \in Map(Container, Info) /\ DOMAIN infos = DOMAIN r.sessionCache \cup {x}
        /\ infos[x] = info
        /\ \A z \in DOMAIN r.sessionCache \ {x} : infos[z] = r.sessionCache[z]
    <2>1. infos \in Map(Container, Info)
      BY <1>1, <1>4, MapWith
    <2> QED BY <2>1 DEF With
  <1>6. /\ ages \in Map(Nat, Container) /\ DOMAIN ages = DOMAIN r.sessionKeyMap \cup {id}
        /\ ages[id] = x
        /\ \A z \in DOMAIN r.sessionKeyMap \ {id} : ages[z] = r.sessionKeyMap[z]
    <2>1. ages \in Map(Nat, Container)
      BY <1>1, <1>4, MapWith
    <2> QED BY <2>1 DEF With
  <1> HIDE DEF ages, infos
  <1>7. d \in Cache
    BY <1>2, <1>3, <1>5, <1>6 DEF Cache
  <1>8. /\ d.sessionCache = infos /\ d.sessionKeyMap = ages
        /\ d.schemaCache = r.schemaCache /\ d.schemaNameMap = r.schemaNameMap
        /\ d.lastSchemaCacheId = r.lastSchemaCacheId
    BY <1>2, <1>3 DEF Cache
  <1>9. SessionsListed(d)
    BY <1>1, <1>2, <1>5, <1>6, <1>8 DEF SessionsListed
  <1> QED BY <1>1, <1>2, <1>5, <1>7, <1>8, <1>9

(* What a cache d has of the sessions of the cache c, and of that of x.    *)
SessionsFrom(d, c, x, n, m) ==
  \A y \in DOMAIN d.sessionCache :
    \/ y = x /\ d.sessionCache[y].session = n /\ d.sessionCache[y].statement = m
    \/ y # x /\ y \in DOMAIN c.sessionCache /\ d.sessionCache[y] = c.sessionCache[y]

LEMMA TakeSessionOK ==
  ASSUME CacheOK(cache), NEW x
  PROVE  LET d == TakeSession(cache, x) IN
         /\ CacheOK(d) /\ DOMAIN d.sessionCache = DOMAIN cache.sessionCache \ {x}
         /\ \A y \in DOMAIN d.sessionCache : d.sessionCache[y] = cache.sessionCache[y]
  <1> DEFINE d == TakeSession(cache, x)
  <1>1. /\ d \in Cache /\ SessionsListed(d)
        /\ d.schemaCache = cache.schemaCache /\ d.schemaNameMap = cache.schemaNameMap
        /\ d.lastSchemaCacheId = cache.lastSchemaCacheId
        /\ DOMAIN d.sessionCache = DOMAIN cache.sessionCache \ {x}
        /\ \A y \in DOMAIN d.sessionCache : d.sessionCache[y] = cache.sessionCache[y]
    BY TakeSessionListed DEF CacheOK
  <1> QED BY <1>1 DEF CacheOK, SchemasListed

LEMMA CacheSessionOK ==
  ASSUME CacheOK(cache), NEW x \in Container,
         NEW n \in 1 .. MaxSessionId, NEW m \in 0 .. MaxStatement
  PROVE  LET d == CacheSession(cache, x, n, m).cache IN
         CacheOK(d) /\ SessionsFrom(d, cache, x, n, m)
  <1> DEFINE e == InsertSession(cache, x, n, m)
             evictee == Evictee(cache, x, e)
             d == CacheSession(cache, x, n, m).cache
  <1>1. /\ e \in Cache /\ SessionsListed(e)
        /\ e.schemaCache = cache.schemaCache /\ e.schemaNameMap = cache.schemaNameMap
        /\ e.lastSchemaCacheId = cache.lastSchemaCacheId
        /\ DOMAIN e.sessionCache = DOMAIN cache.sessionCache \cup {x}
        /\ e.sessionCache[x].session = n /\ e.sessionCache[x].statement = m
        /\ \A y \in DOMAIN e.sessionCache \ {x} : e.sessionCache[y] = cache.sessionCache[y]
    BY InsertSessionListed DEF CacheOK
  <1>2. SchemasListed(e) /\ Few(DOMAIN e.schemaCache, CacheSize)
    BY <1>1 DEF CacheOK, SchemasListed
  <1>3. SessionsFrom(e, cache, x, n, m)
    BY <1>1 DEF SessionsFrom
  <1>4. d = e \/ \E v : d = TakeSession(e, v)
    BY DEF CacheSession
  <1>5. CASE d = e
    BY <1>1, <1>2, <1>3, <1>5 DEF CacheOK
  <1>6. CASE \E v : d = TakeSession(e, v)
    <2>1. /\ d \in Cache /\ SessionsListed(d)
          /\ d.schemaCache = e.schemaCache /\ d.schemaNameMap = e.schemaNameMap
          /\ d.lastSchemaCacheId = e.lastSchemaCacheId
          /\ DOMAIN d.sessionCache \subseteq DOMAIN e.sessionCache
          /\ \A y \in DOMAIN d.sessionCache : d.sessionCache[y] = e.sessionCache[y]
      <3> PICK v : d = TakeSession(e, v)
        BY <1>6
      <3> HIDE DEF d, e
      <3> QED BY <1>1, TakeSessionListed
    <2> HIDE DEF d, e
    <2>2. SessionsFrom(d, cache, x, n, m)
      BY <1>3, <2>1 DEF SessionsFrom
    <2>3. SchemasListed(d) /\ Few(DOMAIN d.schemaCache, CacheSize)
      BY <1>2, <2>1 DEF SchemasListed
    <2>4. CacheOK(d) /\ SessionsFrom(d, cache, x, n, m)
      BY <2>1, <2>2, <2>3 DEF CacheOK
    <2> QED BY <2>4 DEF d
  <1> QED BY <1>4, <1>5, <1>6

LEMMA ForgetSessionsOK ==
  ASSUME CacheOK(cache)
  PROVE  LET d == ForgetSessions(cache) IN
         CacheOK(d) /\ DOMAIN d.sessionCache = {}
  <1> DEFINE d == ForgetSessions(cache)
  <1>1. d = [cache EXCEPT !.sessionCache = <<>>, !.sessionKeyMap = <<>>]
    BY DEF ForgetSessions
  <1>2. <<>> \in Map(Container, Info) /\ <<>> \in Map(Nat, Container) /\ DOMAIN <<>> = {}
    BY EmptyMap
  <1>3. d \in Cache
    BY <1>1, <1>2 DEF CacheOK, Cache
  <1>4. /\ d.sessionCache = <<>> /\ d.sessionKeyMap = <<>>
        /\ d.schemaCache = cache.schemaCache /\ d.schemaNameMap = cache.schemaNameMap
        /\ d.lastSchemaCacheId = cache.lastSchemaCacheId
    BY <1>1 DEF CacheOK, Cache
  <1>5. SchemasListed(d) /\ SessionsListed(d)
    BY <1>2, <1>4 DEF CacheOK, SchemasListed, SessionsListed
  <1> QED BY <1>2, <1>3, <1>4, <1>5 DEF CacheOK

LEMMA EmptyCacheOK == CacheOK(EmptyCache) /\ DOMAIN EmptyCache.sessionCache = {}
  <1> DEFINE d == EmptyCache
  <1>1. /\ <<>> \in Map(Container, Info) /\ <<>> \in Map(Nat, Container)
        /\ <<>> \in Map(Key, Schema) /\ <<>> \in Map(Nat, Key) /\ DOMAIN <<>> = {}
    BY EmptyMap
  <1>2. d \in Cache
    BY <1>1 DEF Cache, EmptyCache
  <1>3. SchemasListed(d) /\ SessionsListed(d)
    BY <1>1 DEF SchemasListed, SessionsListed, EmptyCache
  <1>4. Few(DOMAIN d.schemaCache, CacheSize)
    BY <1>1, FS_EmptySet, StoreConstants DEF Few, EmptyCache
  <1> QED BY <1>1, <1>2, <1>3, <1>4 DEF CacheOK, EmptyCache

-----------------------------------------------------------------------------
(* The store. *)

HandleRecord ==
  [key : Key, container : Container, version : 0 .. MaxVersion,
   session : 0 .. MaxSessionId, statement : 0 .. MaxStatement, prepared : BOOLEAN,
   started : BOOLEAN, auto : BOOLEAN, cacheDisabled : BOOLEAN]
CallRecord ==
  [op : Op, handle : Handle, trial : Nat, next : {"create", "execute"},
   version : 0 .. MaxVersion]
RemoteRecord == [container : Container, version : 0 .. MaxVersion]
SessionRecord == [container : Container, statement : Nat]

StoreTyped ==
  /\ handle \in Map(Handle, HandleRecord)
  /\ lastSessionId \in 0 .. MaxSessionId
  /\ remote \in Map(Key, RemoteRecord)
  /\ used \subseteq Container
  /\ sessions \in Map(1 .. MaxSessionId, SessionRecord)

(* A statement belongs to an open handle, and is executed in a session if   *)
(* it needs one.                                                            *)
StatementOK ==
  /\ \A h \in DOMAIN handle : handle[h].prepared => handle[h].session # 0
  /\ call # NoCall =>
       /\ call \in CallRecord /\ call.handle \in DOMAIN handle
       /\ call.next = "execute" /\ SessionRequired(call.handle, call.op) =>
            handle[call.handle].session # 0

(* The next session is a new one. *)
NumbersKnown ==
  /\ \A h \in DOMAIN handle : handle[h].session <= lastSessionId
  /\ \A c \in DOMAIN cache.sessionCache : cache.sessionCache[c].session <= lastSessionId
  /\ \A s \in DOMAIN sessions : s <= lastSessionId

StoreInv ==
  /\ CacheOK(cache) /\ StoreTyped /\ StatementOK /\ NumbersKnown
  /\ SessionUsedOnce /\ StatementsNew

LEMMA StoreInitially ==
  ASSUME StoreInit
  PROVE  StoreInv
  <1>1. CacheOK(cache) /\ DOMAIN cache.sessionCache = {}
    BY EmptyCacheOK DEF StoreInit
  <1>2. DOMAIN <<>> = {}
    BY EmptyMap
  <1>3. DOMAIN handle = {} /\ DOMAIN sessions = {}
    BY <1>2 DEF StoreInit
  <1>4. StoreTyped
    <2>1. handle \in Map(Handle, HandleRecord)
      BY EmptyMap DEF StoreInit
    <2>2. remote \in Map(Key, RemoteRecord)
      BY EmptyMap DEF StoreInit
    <2>3. sessions \in Map(1 .. MaxSessionId, SessionRecord)
      BY EmptyMap DEF StoreInit
    <2> QED BY <2>1, <2>2, <2>3, StoreConstants DEF StoreInit, StoreTyped
  <1>5. StatementOK
    BY <1>3 DEF StoreInit, StatementOK
  <1>6. NumbersKnown /\ SessionUsedOnce /\ StatementsNew
    BY <1>1, <1>3 DEF NumbersKnown, SessionUsedOnce, StatementsNew
  <1> QED BY <1>1, <1>4, <1>5, <1>6 DEF StoreInv

(* What the steps have in common.  Nobody gets a session; sessions are left *)
(* or closed.                                                               *)
NoneTaken ==
  /\ lastSessionId' = lastSessionId
  /\ \A h \in DOMAIN handle' :
       \/ handle'[h].session = 0
       \/ /\ h \in DOMAIN handle /\ handle'[h].session = handle[h].session
          /\ handle'[h].statement = handle[h].statement
          /\ handle'[h].container = handle[h].container
  /\ \A c \in DOMAIN cache'.sessionCache :
       c \in DOMAIN cache.sessionCache /\ cache'.sessionCache[c] = cache.sessionCache[c]
  /\ \A s \in DOMAIN sessions' : s \in DOMAIN sessions /\ sessions'[s] = sessions[s]

LEMMA StoreTypes ==
  ASSUME StoreInv
  PROVE  /\ lastSessionId \in Nat /\ DOMAIN handle \subseteq Handle
         /\ \A h \in DOMAIN handle : handle[h] \in HandleRecord
         /\ \A h \in DOMAIN handle :
              handle[h].session \in Nat /\ handle[h].statement \in Nat
         /\ DOMAIN cache.sessionCache \subseteq Container
         /\ \A c \in DOMAIN cache.sessionCache : cache.sessionCache[c] \in Info
         /\ \A c \in DOMAIN cache.sessionCache :
              /\ cache.sessionCache[c].session \in Nat \ {0}
              /\ cache.sessionCache[c].statement \in Nat
         /\ \A s \in DOMAIN sessions : s \in Nat \ {0} /\ sessions[s].statement \in Nat
  <1>1. /\ handle \in Map(Handle, HandleRecord) /\ lastSessionId \in Nat
        /\ sessions \in Map(1 .. MaxSessionId, SessionRecord)
    BY DEF StoreInv, StoreTyped
  <1>2. cache.sessionCache \in Map(Container, Info)
    BY DEF StoreInv, CacheOK, Cache
  <1>3. DOMAIN handle \subseteq Handle /\ \A h \in DOMAIN handle : handle[h] \in HandleRecord
    BY <1>1, MapValue
  <1>4. \A c \in DOMAIN cache.sessionCache : cache.sessionCache[c] \in Info
    BY <1>2, MapValue
  <1>5. DOMAIN cache.sessionCache \subseteq Container
    BY <1>2, MapValue
  <1>6. \A s \in DOMAIN sessions :
          s \in 1 .. MaxSessionId /\ sessions[s] \in SessionRecord
    BY <1>1, MapValue
  <1>7. \A h \in DOMAIN handle : handle[h].session \in Nat /\ handle[h].statement \in Nat
    BY <1>3 DEF HandleRecord
  <1>8. \A c \in DOMAIN cache.sessionCache :
          /\ cache.sessionCache[c].session \in Nat \ {0}
          /\ cache.sessionCache[c].statement \in Nat
    BY <1>4 DEF Info
  <1>9. \A s \in DOMAIN sessions : s \in Nat \ {0} /\ sessions[s].statement \in Nat
    BY <1>6 DEF SessionRecord
  <1> QED BY <1>1, <1>3, <1>4, <1>5, <1>7, <1>8, <1>9

LEMMA NoneTakenKept ==
  ASSUME StoreInv, NoneTaken
  PROVE  NumbersKnown' /\ SessionUsedOnce' /\ StatementsNew'
  <1>1. NumbersKnown'
    BY StoreTypes DEF NoneTaken, NumbersKnown, StoreInv
  <1>2. SessionUsedOnce'
    <2>1. ASSUME NEW g \in DOMAIN handle', NEW h \in DOMAIN handle', g # h,
                 handle'[g].session # 0
          PROVE  handle'[g].session # handle'[h].session
      BY <2>1, StoreTypes DEF NoneTaken, StoreInv, SessionUsedOnce
    <2>2. ASSUME NEW c \in DOMAIN cache'.sessionCache, NEW d \in DOMAIN cache'.sessionCache,
                 c # d
          PROVE  cache'.sessionCache[c].session # cache'.sessionCache[d].session
      BY <2>2, StoreTypes DEF NoneTaken, StoreInv, SessionUsedOnce
    <2>3. ASSUME NEW h \in DOMAIN handle', NEW c \in DOMAIN cache'.sessionCache
          PROVE  handle'[h].session # cache'.sessionCache[c].session
      BY <2>3, StoreTypes DEF NoneTaken, StoreInv, SessionUsedOnce
    <2> QED BY <2>1, <2>2, <2>3 DEF SessionUsedOnce
  <1>3. StatementsNew'
    BY StoreTypes DEF NoneTaken, StoreInv, StatementsNew
  <1> QED BY <1>1, <1>2, <1>3

(* A handle of any kind that is opened. *)
LEMMA NewHandleTyped ==
  ASSUME StoreInv, NEW h \in Handle \ DOMAIN handle, NEW k \in Key,
         NEW x \in Container, NEW v \in 0 .. MaxVersion,
         handle' = With(handle, h, NewHandle(k, x, v))
  PROVE  /\ handle' \in Map(Handle, HandleRecord)
         /\ DOMAIN handle' = DOMAIN handle \cup {h}
         /\ handle'[h].session = 0 /\ ~ handle'[h].prepared
         /\ \A g \in DOMAIN handle : handle'[g] = handle[g]
  <1> DEFINE n == NewHandle(k, x, v)
  <1>1. n \in HandleRecord
    BY StoreConstants DEF NewHandle, HandleRecord
  <1>2. n.session = 0 /\ ~ n.prepared
    BY DEF NewHandle
  <1>3. handle \in Map(Handle, HandleRecord)
    BY DEF StoreInv, StoreTyped
  <1> HIDE DEF n
  <1>4. handle' \in Map(Handle, HandleRecord)
    BY <1>1, <1>3, MapWith DEF n
  <1>5. /\ DOMAIN handle' = DOMAIN handle \cup {h} /\ handle'[h] = n
        /\ \A g \in DOMAIN handle : handle'[g] = handle[g]
    BY DEF With, n
  <1> QED BY <1>2, <1>4, <1>5

LEMMA OpenKept ==
  ASSUME StoreInv, NEW h \in Handle \ DOMAIN handle, NEW k \in Key,
         NEW x \in Container, NEW v \in 0 .. MaxVersion,
         handle' = With(handle, h, NewHandle(k, x, v)),
         call = NoCall, UNCHANGED <<lastSessionId, call, sessions>>,
         CacheOK(cache'), cache'.sessionCache = cache.sessionCache,
         remote' \in Map(Key, RemoteRecord),
         used' \subseteq Container
  PROVE  StoreInv' /\ NoneTaken
  <1>1. /\ handle' \in Map(Handle, HandleRecord)
        /\ DOMAIN handle' = DOMAIN handle \cup {h}
        /\ handle'[h].session = 0 /\ ~ handle'[h].prepared
        /\ \A g \in DOMAIN handle : handle'[g] = handle[g]
    BY NewHandleTyped
  <1>2. NoneTaken
    BY <1>1 DEF NoneTaken
  <1>3. StoreTyped'
    BY <1>1 DEF StoreInv, StoreTyped
  <1>4. StatementOK'
    BY <1>1 DEF StoreInv, StatementOK
  <1> QED BY <1>2, <1>3, <1>4, NoneTakenKept DEF StoreInv

LEMMA RemoteTyped ==
  ASSUME StoreInv, NEW k \in DOMAIN remote
  PROVE  k \in Key /\ remote[k].container \in Container /\ remote[k].version \in 0 .. MaxVersion
  <1>1. remote \in Map(Key, RemoteRecord)
    BY DEF StoreInv, StoreTyped
  <1>2. k \in Key /\ remote[k] \in RemoteRecord
    BY <1>1, MapValue
  <1> QED BY <1>2 DEF RemoteRecord

LEMMA RemoteAltered ==
  ASSUME StoreInv, NEW k \in DOMAIN remote, remote[k].version < MaxVersion,
         remote' = [remote EXCEPT ![k].version = @ + 1]
  PROVE  remote' \in Map(Key, RemoteRecord) /\ k \in DOMAIN remote'
  <1>1. remote \in Map(Key, RemoteRecord)
    BY DEF StoreInv, StoreTyped
  <1>2. remote[k] \in RemoteRecord
    BY <1>1, MapValue
  <1>3. [remote[k] EXCEPT !.version = @ + 1] \in RemoteRecord
    BY <1>2, StoreConstants DEF RemoteRecord
  <1>4. PICK D \in SUBSET Key : remote \in [D -> RemoteRecord]
    BY <1>1 DEF Map
  <1>5. remote' \in [D -> RemoteRecord]
    BY <1>3, <1>4
  <1> QED BY <1>4, <1>5 DEF Map

LEMMA StoreOpens ==
  ASSUME StoreInv, NEW h \in Handle, NEW k \in Key,
         OpenCached(h, k) \/ OpenRemote(h, k) \/ PutContainer(h, k)
  PROVE  StoreInv' /\ NoneTaken
  <1> USE DEF server
  <1>1. CASE OpenCached(h, k)
    <2> DEFINE schema == cache.schemaCache[k]
    <2>1. schema \in Schema
      <3>1. cache.schemaCache \in Map(Key, Schema)
        BY DEF StoreInv, CacheOK, Cache
      <3> QED BY <1>1, <3>1, MapValue DEF OpenCached
    <2>2. schema.container \in Container /\ schema.version \in 0 .. MaxVersion
      BY <2>1 DEF Schema
    <2>3. /\ h \in Handle \ DOMAIN handle /\ call = NoCall
          /\ handle' = With(handle, h, NewHandle(k, schema.container, schema.version))
          /\ UNCHANGED <<cache, lastSessionId, call, remote, used, sessions>>
      BY <1>1 DEF OpenCached, Idle
    <2>4. CacheOK(cache') /\ StoreTyped
      BY <2>3 DEF StoreInv
    <2> QED BY <2>2, <2>3, <2>4, OpenKept DEF StoreTyped
  <1>2. CASE OpenRemote(h, k)
    <2> DEFINE x == remote[k].container
               v == remote[k].version
    <2>1. /\ h \in Handle \ DOMAIN handle /\ call = NoCall /\ k \in DOMAIN remote
          /\ handle' = With(handle, h, NewHandle(k, x, v))
          /\ cache' = CacheSchema(cache, k, x, v)
          /\ UNCHANGED <<lastSessionId, call, remote, used, sessions>>
      BY <1>2 DEF OpenRemote, Idle
    <2>2. x \in Container /\ v \in 0 .. MaxVersion
      BY <2>1, RemoteTyped
    <2>3. CacheOK(cache') /\ cache'.sessionCache = cache.sessionCache
      BY <2>1, <2>2, CacheSchemaOK DEF StoreInv
    <2>4. StoreTyped
      BY DEF StoreInv
    <2> QED BY <2>1, <2>2, <2>3, <2>4, OpenKept DEF StoreTyped
  <1>3. CASE PutContainer(h, k)
    <2> DEFINE x == remote'[k].container
               v == remote'[k].version
    <2>1. /\ h \in Handle \ DOMAIN handle /\ call = NoCall
          /\ handle' = With(handle, h, NewHandle(k, x, v))
          /\ cache' = CacheSchema(cache, k, x, v)
          /\ UNCHANGED <<lastSessionId, call, sessions>>
      BY <1>3 DEF PutContainer, Idle
    <2>2. remote \in Map(Key, RemoteRecord) /\ used \subseteq Container
      BY DEF StoreInv, StoreTyped
    <2>3. /\ remote' \in Map(Key, RemoteRecord) /\ used' \subseteq Container
          /\ k \in DOMAIN remote'
      <3>1. CASE /\ k \notin DOMAIN remote
                 /\ \E c \in Container \ used :
                      /\ remote' = With(remote, k, [container |-> c, version |-> 0])
                      /\ used' = used \cup {c}
        <4> PICK c \in Container \ used :
                   /\ remote' = With(remote, k, [container |-> c, version |-> 0])
                   /\ used' = used \cup {c}
          BY <3>1
        <4>1. [container |-> c, version |-> 0] \in RemoteRecord
          BY StoreConstants DEF RemoteRecord
        <4>2. remote' \in Map(Key, RemoteRecord)
          BY <2>2, <4>1, MapWith
        <4>3. k \in DOMAIN remote'
          BY DEF With
        <4> QED BY <2>2, <4>2, <4>3
      <3>2. CASE /\ k \in DOMAIN remote /\ remote[k].version < MaxVersion
                 /\ remote' = [remote EXCEPT ![k].version = @ + 1]
                 /\ UNCHANGED used
        <4>1. remote' \in Map(Key, RemoteRecord) /\ k \in DOMAIN remote'
          BY <3>2, RemoteAltered
        <4> QED BY <2>2, <3>2, <4>1
      <3> QED BY <1>3, <3>1, <3>2 DEF PutContainer
    <2>4. x \in Container /\ v \in 0 .. MaxVersion
      <3>1. remote'[k] \in RemoteRecord
        BY <2>3, MapValue
      <3> QED BY <3>1 DEF RemoteRecord
    <2>5. CacheOK(cache') /\ cache'.sessionCache = cache.sessionCache
      BY <2>1, <2>4, CacheSchemaOK DEF StoreInv
    <2> QED BY <2>1, <2>3, <2>4, <2>5, OpenKept
  <1> QED BY <1>1, <1>2, <1>3

LEMMA SessionDropped ==
  ASSUME StoreInv, NEW s, sessions' = Without(sessions, s)
  PROVE  /\ sessions' \in Map(1 .. MaxSessionId, SessionRecord)
         /\ \A t \in DOMAIN sessions' : t \in DOMAIN sessions /\ sessions'[t] = sessions[t]
  <1>1. sessions' \in Map(1 .. MaxSessionId, SessionRecord)
    BY MapWithout DEF StoreInv, StoreTyped
  <1> QED BY <1>1 DEF Without, Restrict

(* A session is closed, or nothing happens. *)
LEMMA FewerSessions ==
  ASSUME StoreInv, NEW named, CloseOnServer(named)
  PROVE  /\ sessions' \in Map(1 .. MaxSessionId, SessionRecord)
         /\ \A s \in DOMAIN sessions' : s \in DOMAIN sessions /\ sessions'[s] = sessions[s]
  <1>1. sessions \in Map(1 .. MaxSessionId, SessionRecord)
    BY DEF StoreInv, StoreTyped
  <1>2. sessions' = sessions \/ sessions' = Without(sessions, named.session)
    BY DEF CloseOnServer, SessionsWithout
  <1>3. CASE sessions' = Without(sessions, named.session)
    BY <1>3, SessionDropped
  <1> QED BY <1>1, <1>2, <1>3

(* A field of a handle is set. *)
LEMMA HandleSet ==
  ASSUME StoreInv, NEW h \in DOMAIN handle, NEW r \in HandleRecord,
         handle' = [handle EXCEPT ![h] = r]
  PROVE  /\ handle' \in Map(Handle, HandleRecord)
         /\ DOMAIN handle' = DOMAIN handle /\ handle'[h] = r
         /\ \A g \in DOMAIN handle \ {h} : handle'[g] = handle[g]
  <1>1. PICK D \in SUBSET Handle : handle \in [D -> HandleRecord]
    BY DEF StoreInv, StoreTyped, Map
  <1>2. handle' \in [D -> HandleRecord]
    BY <1>1
  <1>3. handle' \in Map(Handle, HandleRecord)
    BY <1>1, <1>2 DEF Map
  <1> QED BY <1>1, <1>3

LEMMA StoreOthers ==
  ASSUME StoreInv,
         \/ \E k \in Key : DropContainer(k) \/ AlterByOther(k) \/ DropByOther(k)
         \/ LoseSession \/ CloseStore \/ StoreClosed \/ UNCHANGED storeVars
  PROVE  StoreInv' /\ NoneTaken
  <1> USE DEF server, client
  <1>1. /\ UNCHANGED <<handle, lastSessionId, call, used>>
        /\ \A c \in DOMAIN cache'.sessionCache :
             c \in DOMAIN cache.sessionCache /\ cache'.sessionCache[c] = cache.sessionCache[c]
        /\ CacheOK(cache')
    <2>1. CASE cache' = cache /\ UNCHANGED <<handle, lastSessionId, call, used>>
      BY <2>1 DEF StoreInv
    <2>2. CASE \E k \in Key : DropContainer(k)
      BY <2>2, RemoveSchemaOK DEF DropContainer, StoreInv
    <2>3. CASE CloseStore
      BY <2>3, ForgetSessionsOK DEF CloseStore, StoreInv
    <2> QED BY <2>1, <2>2, <2>3 DEF AlterByOther, DropByOther,
          LoseSession, StoreClosed, storeVars
  <1>2. /\ sessions' \in Map(1 .. MaxSessionId, SessionRecord)
        /\ \A s \in DOMAIN sessions' : s \in DOMAIN sessions /\ sessions'[s] = sessions[s]
    <2>1. sessions \in Map(1 .. MaxSessionId, SessionRecord)
      BY DEF StoreInv, StoreTyped
    <2>2. CASE UNCHANGED sessions
      BY <2>1, <2>2
    <2>3. CASE \E s \in DOMAIN sessions : sessions' = Without(sessions, s)
      BY <2>3, SessionDropped
    <2>4. CASE \E D \in SUBSET DOMAIN sessions : sessions' = Restrict(sessions, D)
      <3> PICK D \in SUBSET DOMAIN sessions : sessions' = Restrict(sessions, D)
        BY <2>4
      <3>1. sessions' \in Map(1 .. MaxSessionId, SessionRecord)
        BY <2>1, MapRestrict
      <3> QED BY <3>1 DEF Restrict
    <2> QED BY <2>2, <2>3, <2>4 DEF DropContainer, AlterByOther, DropByOther,
          LoseSession, CloseStore, StoreClosed, storeVars
  <1>3. remote' \in Map(Key, RemoteRecord)
    <2>1. remote \in Map(Key, RemoteRecord)
      BY DEF StoreInv, StoreTyped
    <2>2. CASE UNCHANGED remote
      BY <2>1, <2>2
    <2>3. CASE \E k \in Key : remote' = Without(remote, k)
      BY <2>1, <2>3, MapWithout
    <2>4. CASE \E k \in Key : AlterByOther(k)
      <3> PICK k \in Key : AlterByOther(k)
        BY <2>4
      <3>1. /\ k \in DOMAIN remote /\ remote[k].version < MaxVersion
            /\ remote' = [remote EXCEPT ![k].version = @ + 1]
        BY DEF AlterByOther
      <3> QED BY <3>1, RemoteAltered
    <2> QED BY <2>2, <2>3, <2>4 DEF DropContainer, DropByOther,
          LoseSession, CloseStore, StoreClosed, storeVars
  <1>4. NoneTaken
    BY <1>1, <1>2 DEF NoneTaken
  <1>5. StoreTyped'
    BY <1>1, <1>2, <1>3 DEF StoreInv, StoreTyped
  <1>6. StatementOK'
    BY <1>1 DEF StoreInv, StatementOK, SessionRequired
  <1> QED BY <1>1, <1>4, <1>5, <1>6, NoneTakenKept DEF StoreInv

LEMMA StoreAutoCommit ==
  ASSUME StoreInv, NEW h, SetAutoCommit(h)
  PROVE  StoreInv' /\ NoneTaken
  <1> DEFINE r == [handle[h] EXCEPT !.auto = ~ @, !.started = FALSE]
  <1>1. /\ h \in DOMAIN handle /\ call = NoCall
        /\ UNCHANGED <<cache, lastSessionId, call, remote, used, sessions>>
    BY DEF SetAutoCommit, Idle, server
  <1>2. handle' = [handle EXCEPT ![h] = r]
    BY DEF SetAutoCommit
  <1>3. handle[h] \in HandleRecord
    BY <1>1, StoreTypes
  <1>4. r \in HandleRecord
    BY <1>3 DEF HandleRecord
  <1>5. r.session = handle[h].session /\ r.statement = handle[h].statement
        /\ r.prepared = handle[h].prepared /\ r.container = handle[h].container
    BY <1>3 DEF HandleRecord
  <1> HIDE DEF r
  <1>6. /\ handle' \in Map(Handle, HandleRecord)
        /\ DOMAIN handle' = DOMAIN handle /\ handle'[h] = r
        /\ \A g \in DOMAIN handle \ {h} : handle'[g] = handle[g]
    BY <1>1, <1>2, <1>4, HandleSet
  <1>7. NoneTaken
    BY <1>1, <1>5, <1>6 DEF NoneTaken
  <1>8. StoreTyped'
    BY <1>1, <1>6 DEF StoreInv, StoreTyped
  <1>9. StatementOK'
    BY <1>1, <1>5, <1>6 DEF StoreInv, StatementOK
  <1> QED BY <1>1, <1>7, <1>8, <1>9, NoneTakenKept DEF StoreInv

(* The next statement of a handle.  A session that is new has no number of  *)
(* another; the handle may forget the one it had.                          *)
NewSession(h) ==
  /\ h \in DOMAIN handle /\ lastSessionId' = lastSessionId + 1
  /\ lastSessionId' \in 0 .. MaxSessionId
  /\ cache'.sessionCache = cache.sessionCache
  /\ DOMAIN handle' = DOMAIN handle
  /\ \A g \in DOMAIN handle :
       /\ handle'[g].container = handle[g].container
       /\ \/ g = h /\ handle'[g].session = 0
          \/ /\ handle'[g].session = handle[g].session
                \/ (g = h /\ handle'[g].session = lastSessionId')
             /\ handle'[g].statement = handle[g].statement
  /\ \A s \in DOMAIN sessions' :
       \/ s \in DOMAIN sessions /\ sessions'[s] = sessions[s]
       \/ s = lastSessionId' /\ sessions'[s].statement = 0

LEMMA NewSessionKept ==
  ASSUME StoreInv, NEW h, NewSession(h)
  PROVE  NumbersKnown' /\ SessionUsedOnce' /\ StatementsNew'
  <1>0. NumbersKnown /\ SessionUsedOnce /\ StatementsNew
    BY DEF StoreInv
  <1>1. lastSessionId' > lastSessionId /\ lastSessionId' \in Nat \ {0}
    BY StoreTypes DEF NewSession
  <1>2. NumbersKnown'
    <2>1. \A g \in DOMAIN handle' : handle'[g].session <= lastSessionId'
      BY <1>0, <1>1, StoreTypes DEF NewSession, NumbersKnown
    <2>2. \A c \in DOMAIN cache'.sessionCache : cache'.sessionCache[c].session <= lastSessionId'
      BY <1>0, <1>1, StoreTypes DEF NewSession, NumbersKnown
    <2>3. \A s \in DOMAIN sessions' : s <= lastSessionId'
      BY <1>0, <1>1, StoreTypes DEF NewSession, NumbersKnown
    <2> QED BY <2>1, <2>2, <2>3 DEF NumbersKnown
  <1>3. SessionUsedOnce'
    <2>1. ASSUME NEW f \in DOMAIN handle', NEW g \in DOMAIN handle', f # g,
                 handle'[f].session # 0
          PROVE  handle'[f].session # handle'[g].session
      <3>1. handle[f].session < lastSessionId' /\ handle[g].session < lastSessionId'
        BY <1>0, <1>1, StoreTypes DEF NewSession, NumbersKnown
      <3> QED BY <1>0, <2>1, <3>1, StoreTypes DEF NewSession, SessionUsedOnce
    <2>2. ASSUME NEW g \in DOMAIN handle', NEW c \in DOMAIN cache'.sessionCache
          PROVE  handle'[g].session # cache'.sessionCache[c].session
      <3>1. cache.sessionCache[c].session < lastSessionId'
        BY <1>0, <1>1, StoreTypes DEF NewSession, NumbersKnown
      <3> QED BY <1>0, <3>1, StoreTypes DEF NewSession, SessionUsedOnce
    <2>3. ASSUME NEW c \in DOMAIN cache'.sessionCache, NEW d \in DOMAIN cache'.sessionCache,
                 c # d
          PROVE  cache'.sessionCache[c].session # cache'.sessionCache[d].session
      BY <1>0, <2>3 DEF NewSession, SessionUsedOnce
    <2> QED BY <2>1, <2>2, <2>3 DEF SessionUsedOnce
  <1>4. StatementsNew'
    <2>1. ASSUME NEW g \in DOMAIN handle', handle'[g].session \in DOMAIN sessions'
          PROVE  sessions'[handle'[g].session].statement <= handle'[g].statement
      <3> DEFINE s == handle'[g].session
      <3>0. s # 0
        BY <1>1, <2>1, StoreTypes DEF NewSession
      <3>1. CASE s = lastSessionId'
        <4>1. s \notin DOMAIN sessions
          BY <1>0, <1>1, <3>1, StoreTypes DEF NumbersKnown
        <4>2. sessions'[s].statement = 0
          BY <2>1, <4>1 DEF NewSession
        <4> QED BY <3>0, <4>2, StoreTypes DEF NewSession
      <3>2. CASE s # lastSessionId'
        <4>1. s = handle[g].session /\ s \in DOMAIN sessions /\ sessions'[s] = sessions[s]
          BY <2>1, <3>0, <3>2 DEF NewSession
        <4> QED BY <1>0, <3>0, <4>1 DEF NewSession, StatementsNew
      <3> QED BY <3>1, <3>2
    <2>2. ASSUME NEW c \in DOMAIN cache'.sessionCache,
                 cache'.sessionCache[c].session \in DOMAIN sessions'
          PROVE  sessions'[cache'.sessionCache[c].session].statement
                   <= cache'.sessionCache[c].statement
      <3>1. cache.sessionCache[c].session < lastSessionId'
        BY <1>0, <1>1, StoreTypes DEF NewSession, NumbersKnown
      <3>2. /\ cache.sessionCache[c].session \in DOMAIN sessions
            /\ sessions'[cache.sessionCache[c].session] = sessions[cache.sessionCache[c].session]
        BY <2>2, <3>1, <1>1, StoreTypes DEF NewSession
      <3> QED BY <1>0, <3>2 DEF NewSession, StatementsNew
    <2> QED BY <2>1, <2>2 DEF StatementsNew
  <1> QED BY <1>2, <1>3, <1>4

LEMMA StoreStart ==
  ASSUME StoreInv, NEW h \in Handle, NEW op \in Op, StartStatement(h, op)
  PROVE  StoreInv' /\ (NoneTaken \/ NewSession(h))
  <1>1. /\ h \in DOMAIN handle /\ UNCHANGED <<cache, remote, used, sessions>>
    BY DEF StartStatement, server
  <1>2. handle[h] \in HandleRecord
    BY <1>1, StoreTypes
  <1>3. /\ Call(h, op, "create") \in CallRecord
        /\ Call(h, op, "execute") \in CallRecord
    BY <1>2 DEF Call, CallRecord, HandleRecord
  <1>4. CASE /\ call' \in {Call(h, op, "create"), Call(h, op, "execute")}
             /\ call'.next = "execute" /\ SessionRequired(h, op) => handle[h].prepared
             /\ UNCHANGED <<handle, lastSessionId>>
    <2>1. NoneTaken
      BY <1>1, <1>4 DEF NoneTaken
    <2>2. StoreTyped'
      BY <1>1, <1>4 DEF StoreInv, StoreTyped
    <2>3. call'.op = op /\ call'.handle = h
      BY <1>4 DEF Call
    <2>4. StatementOK'
      <3>1. call' \in CallRecord /\ call'.handle \in DOMAIN handle'
        BY <1>1, <1>3, <1>4, <2>3
      <3>2. call'.next = "execute" /\ SessionRequired(h, op)' => handle[h].session # 0
        BY <1>1, <1>4 DEF StoreInv, StatementOK, SessionRequired
      <3> QED BY <1>4, <2>3, <3>1, <3>2 DEF StoreInv, StatementOK, SessionRequired
    <2> QED BY <1>1, <2>1, <2>2, <2>4, NoneTakenKept DEF StoreInv
  <1>5. CASE /\ lastSessionId < MaxSessionId /\ lastSessionId' = lastSessionId + 1
             /\ handle' = [handle EXCEPT ![h].session = lastSessionId']
             /\ call' = Call(h, op, "execute")
    <2> DEFINE r == [handle[h] EXCEPT !.session = lastSessionId']
    <2>1. lastSessionId' \in 0 .. MaxSessionId /\ lastSessionId' # 0
      BY <1>5, StoreTypes, StoreConstants
    <2>2. /\ r \in HandleRecord /\ r.session = lastSessionId' /\ r.statement = handle[h].statement
          /\ r.container = handle[h].container
      BY <1>2, <2>1 DEF HandleRecord
    <2>3. handle' = [handle EXCEPT ![h] = r]
      BY <1>5
    <2> HIDE DEF r
    <2>4. /\ handle' \in Map(Handle, HandleRecord)
          /\ DOMAIN handle' = DOMAIN handle /\ handle'[h] = r
          /\ \A g \in DOMAIN handle \ {h} : handle'[g] = handle[g]
      BY <1>1, <2>2, <2>3, HandleSet
    <2>5. NewSession(h)
      BY <1>1, <1>5, <2>1, <2>2, <2>4 DEF NewSession
    <2>6. StoreTyped'
      BY <1>1, <2>1, <2>4 DEF StoreInv, StoreTyped
    <2>7. call'.op = op /\ call'.handle = h /\ call' \in CallRecord
      BY <1>3, <1>5 DEF Call
    <2>8. StatementOK'
      BY <1>1, <2>1, <2>2, <2>4, <2>7 DEF StoreInv, StatementOK
    <2> QED BY <1>1, <2>5, <2>6, <2>8, NewSessionKept DEF StoreInv
  <1>6. Call(h, op, "create").next = "create"
    BY DEF Call
  <1> QED BY <1>4, <1>5, <1>6 DEF StartStatement

(* A handle gets the cached session of its container. *)
SessionTaken(h) ==
  LET x == handle[h].container  info == cache.sessionCache[x] IN
  /\ h \in DOMAIN handle /\ DOMAIN handle' = DOMAIN handle
  /\ \A g \in DOMAIN handle \ {h} : handle'[g] = handle[g]
  /\ handle'[h].session = info.session /\ handle'[h].statement = info.statement
  /\ handle'[h].container = x
  /\ x \in DOMAIN cache.sessionCache /\ lastSessionId' = lastSessionId
  /\ DOMAIN cache'.sessionCache = DOMAIN cache.sessionCache \ {x}
  /\ \A y \in DOMAIN cache'.sessionCache : cache'.sessionCache[y] = cache.sessionCache[y]

LEMMA StoreTakes ==
  ASSUME StoreInv, TakeCachedSession
  PROVE  StoreInv' /\ SessionTaken(call.handle)
  <1> DEFINE h == call.handle
             x == handle[h].container
             info == cache.sessionCache[x]
             r == [handle[h] EXCEPT !.session = info.session, !.statement = info.statement,
                                    !.prepared = TRUE]
  <1>1. /\ call # NoCall /\ call.next = "create"
        /\ CachedSession(cache, x) # NoSession
        /\ cache' = TakeSession(cache, x)
        /\ handle' = [handle EXCEPT ![h].session = CachedSession(cache, x).session,
                                    ![h].statement = CachedSession(cache, x).statement,
                                    ![h].prepared = TRUE]
        /\ call' = [call EXCEPT !.next = "execute"]
        /\ UNCHANGED <<lastSessionId, remote, used, sessions>>
    BY DEF TakeCachedSession, server
  <1>2. x \in DOMAIN cache.sessionCache /\ CachedSession(cache, x) = info
    BY <1>1 DEF CachedSession
  <1>3. handle' = [handle EXCEPT ![h].session = info.session, ![h].statement = info.statement,
                                 ![h].prepared = TRUE]
    BY <1>1, <1>2
  <1>4. handle' = [handle EXCEPT ![h] = r]
    BY <1>3
  <1>5. h \in DOMAIN handle /\ call \in CallRecord
    BY <1>1 DEF StoreInv, StatementOK
  <1>6. handle[h] \in HandleRecord /\ info \in Info /\ info.session \in Nat \ {0}
    BY <1>2, <1>5, StoreTypes
  <1>7. /\ r \in HandleRecord /\ r.session = info.session /\ r.statement = info.statement
        /\ r.container = x
    <2>1. info.session \in 0 .. MaxSessionId /\ info.statement \in 0 .. MaxStatement
      BY <1>6 DEF Info
    <2> HIDE DEF info
    <2>2. r \in HandleRecord
      BY <1>6, <2>1, Zenon DEF HandleRecord
    <2> QED BY <1>6, <2>2 DEF HandleRecord
  <1> HIDE DEF r
  <1>8. /\ handle' \in Map(Handle, HandleRecord)
        /\ DOMAIN handle' = DOMAIN handle /\ handle'[h] = r
        /\ \A g \in DOMAIN handle \ {h} : handle'[g] = handle[g]
    BY <1>4, <1>5, <1>7, HandleSet
  <1>9. /\ CacheOK(cache') /\ DOMAIN cache'.sessionCache = DOMAIN cache.sessionCache \ {x}
        /\ \A y \in DOMAIN cache'.sessionCache : cache'.sessionCache[y] = cache.sessionCache[y]
    BY <1>1, TakeSessionOK DEF StoreInv
  <1>10. NumbersKnown /\ SessionUsedOnce /\ StatementsNew
    BY DEF StoreInv
  <1>16. SessionTaken(h)
    BY <1>1, <1>2, <1>5, <1>7, <1>8, <1>9 DEF SessionTaken
  <1> HIDE DEF x, info, h
  <1>11. NumbersKnown'
    BY <1>1, <1>2, <1>7, <1>8, <1>9, <1>10 DEF NumbersKnown, info
  <1>12. SessionUsedOnce'
    BY <1>1, <1>2, <1>5, <1>6, <1>7, <1>8, <1>9, <1>10 DEF SessionUsedOnce, info
  <1>13. StatementsNew'
    BY <1>1, <1>2, <1>7, <1>8, <1>9, <1>10 DEF StatementsNew, info
  <1>14. StoreTyped'
    BY <1>1, <1>8 DEF StoreInv, StoreTyped
  <1>15. StatementOK'
    <2>1. call' \in CallRecord /\ call'.handle = h
      BY <1>1, <1>5 DEF CallRecord, h
    <2> QED BY <1>5, <1>6, <1>7, <1>8, <2>1 DEF StoreInv, StatementOK
  <1> QED BY <1>9, <1>11, <1>12, <1>13, <1>14, <1>15, <1>16 DEF StoreInv, h

LEMMA DisableCacheOK ==
  ASSUME StoreInv, NEW h, DisableCache(h)
  PROVE  CacheOK(cache') /\ cache'.sessionCache = cache.sessionCache
  BY RemoveSchemaOK DEF DisableCache, StoreInv

LEMMA StoreCreates ==
  ASSUME StoreInv, CreateSession
  PROVE  StoreInv' /\ NewSession(call.handle)
  <1> DEFINE h == call.handle
             x == handle[h].container
             new == [container |-> x, statement |-> 0]
             opened == With(sessions, lastSessionId', new)
  <1>1. /\ call # NoCall /\ lastSessionId < MaxSessionId
        /\ lastSessionId' = lastSessionId + 1 /\ UNCHANGED <<remote, used>>
    BY DEF CreateSession
  <1>2. h \in DOMAIN handle /\ call \in CallRecord
    BY <1>1 DEF StoreInv, StatementOK
  <1>3. handle[h] \in HandleRecord /\ x \in Container
    BY <1>2, StoreTypes DEF HandleRecord
  <1>4. lastSessionId' \in 1 .. MaxSessionId
    BY <1>1, StoreTypes, StoreConstants
  <1>5. /\ opened \in Map(1 .. MaxSessionId, SessionRecord)
        /\ \A s \in DOMAIN opened :
             \/ s \in DOMAIN sessions /\ opened[s] = sessions[s]
             \/ s = lastSessionId' /\ opened[s].statement = 0
    <2>1. new \in SessionRecord
      BY <1>3 DEF SessionRecord
    <2>2. opened \in Map(1 .. MaxSessionId, SessionRecord)
      BY <1>4, <2>1, MapWith DEF StoreInv, StoreTyped
    <2>3. new.statement = 0
      OBVIOUS
    <2> HIDE DEF new
    <2> QED BY <2>2, <2>3 DEF With
  <1> HIDE DEF opened
  <1>6. sessions' \in {sessions, opened} \/ InvalidateSession(h)
    BY DEF CreateSession, opened
  <1>7. /\ sessions' \in Map(1 .. MaxSessionId, SessionRecord)
        /\ \A s \in DOMAIN sessions' :
             \/ s \in DOMAIN sessions /\ sessions'[s] = sessions[s]
             \/ s = lastSessionId' /\ sessions'[s].statement = 0
    <2>1. CASE sessions' \in {sessions, opened}
      BY <1>5, <2>1 DEF StoreInv, StoreTyped
    <2>2. CASE InvalidateSession(h)
      BY <2>2, FewerSessions DEF InvalidateSession, StoreInv, StoreTyped
    <2> QED BY <1>6, <2>1, <2>2
  <1>8. CASE /\ handle' = [handle EXCEPT ![h].session = lastSessionId', ![h].prepared = TRUE]
             /\ call' = [call EXCEPT !.next = "execute"] /\ UNCHANGED cache
    <2> DEFINE r == [handle[h] EXCEPT !.session = lastSessionId', !.prepared = TRUE]
    <2>1. /\ r \in HandleRecord /\ r.session = lastSessionId' /\ r.statement = handle[h].statement
          /\ r.container = handle[h].container
      <3>1. lastSessionId' \in 0 .. MaxSessionId
        BY <1>4
      <3>2. r \in HandleRecord
        BY <1>3, <3>1, Zenon DEF HandleRecord
      <3> QED BY <1>3, <3>2 DEF HandleRecord
    <2>2. handle' = [handle EXCEPT ![h] = r]
      BY <1>8
    <2> HIDE DEF r
    <2>3. /\ handle' \in Map(Handle, HandleRecord)
          /\ DOMAIN handle' = DOMAIN handle /\ handle'[h] = r
          /\ \A g \in DOMAIN handle \ {h} : handle'[g] = handle[g]
      BY <1>2, <2>1, <2>2, HandleSet
    <2>4. NewSession(h)
      BY <1>1, <1>2, <1>4, <1>7, <1>8, <2>1, <2>3 DEF NewSession
    <2>5. StoreTyped'
      BY <1>1, <1>4, <1>7, <2>3 DEF StoreInv, StoreTyped
    <2>6. StatementOK'
      <3>1. call' \in CallRecord /\ call'.handle = h
        BY <1>2, <1>8 DEF CallRecord
      <3> QED BY <1>2, <1>4, <2>1, <2>3, <3>1 DEF StoreInv, StatementOK
    <2> QED BY <1>8, <2>4, <2>5, <2>6, NewSessionKept DEF StoreInv
  <1>9. CASE handle' = Forgotten(h, TRUE) /\ DisableCache(h) /\ call' = NoCall
    <2> DEFINE off == handle[h].cacheDisabled \/ TRUE
               r == [handle[h] EXCEPT !.session = 0, !.statement = 0, !.prepared = FALSE,
                                      !.started = FALSE, !.cacheDisabled = off]
    <2>1. /\ r \in HandleRecord /\ r.session = 0 /\ r.prepared = FALSE
          /\ r.container = handle[h].container
      <3>1. 0 \in 0 .. MaxSessionId /\ 0 \in 0 .. MaxStatement
        BY StoreConstants
      <3>2. off \in BOOLEAN
        OBVIOUS
      <3> HIDE DEF off
      <3> QED BY <1>3, <3>1, <3>2, Zenon DEF HandleRecord
    <2>2. handle' = [handle EXCEPT ![h] = r]
      BY <1>9 DEF Forgotten
    <2> HIDE DEF r
    <2>3. /\ handle' \in Map(Handle, HandleRecord)
          /\ DOMAIN handle' = DOMAIN handle /\ handle'[h] = r
          /\ \A g \in DOMAIN handle \ {h} : handle'[g] = handle[g]
      BY <1>2, <2>1, <2>2, HandleSet
    <2>4. CacheOK(cache') /\ cache'.sessionCache = cache.sessionCache
      BY <1>9, DisableCacheOK
    <2>5. NewSession(h)
      BY <1>1, <1>2, <1>4, <1>7, <2>1, <2>3, <2>4 DEF NewSession
    <2>6. StoreTyped'
      BY <1>1, <1>4, <1>7, <2>3 DEF StoreInv, StoreTyped
    <2>7. StatementOK'
      BY <1>9, <2>1, <2>3 DEF StoreInv, StatementOK
    <2> QED BY <2>4, <2>5, <2>6, <2>7, NewSessionKept DEF StoreInv
  <1>10. CASE call' = NoCall /\ UNCHANGED <<cache, handle>>
    <2>1. NewSession(h)
      BY <1>1, <1>2, <1>4, <1>7, <1>10 DEF NewSession
    <2>2. StoreTyped'
      BY <1>1, <1>4, <1>7, <1>10 DEF StoreInv, StoreTyped
    <2>3. StatementOK'
      BY <1>10 DEF StoreInv, StatementOK
    <2> QED BY <1>10, <2>1, <2>2, <2>3, NewSessionKept DEF StoreInv
  <1> QED BY <1>8, <1>9, <1>10 DEF CreateSession

(* The statement of the call may be executed in the session of its handle,  *)
(* with the next number of it.                                             *)
NumberedNext(h) ==
  /\ h \in DOMAIN handle /\ DOMAIN handle' = DOMAIN handle
  /\ \A g \in DOMAIN handle \ {h} : handle'[g] = handle[g]
  /\ handle'[h].session = handle[h].session /\ handle'[h].container = handle[h].container
  /\ handle'[h].statement \in {handle[h].statement, handle[h].statement + 1}
  /\ handle'[h].statement \in Nat /\ handle[h].statement <= handle'[h].statement
  /\ UNCHANGED <<cache, lastSessionId>>
  /\ \A s \in DOMAIN sessions' :
       \/ s \in DOMAIN sessions /\ sessions'[s] = sessions[s]
       \/ s = handle[h].session /\ s # 0 /\ sessions'[s].statement = handle'[h].statement

LEMMA NumberedNextKept ==
  ASSUME StoreInv, NEW h, NumberedNext(h)
  PROVE  NumbersKnown' /\ SessionUsedOnce' /\ StatementsNew'
  <1>0. NumbersKnown /\ SessionUsedOnce /\ StatementsNew
    BY DEF StoreInv
  <1>1. NumbersKnown'
    BY <1>0 DEF NumberedNext, NumbersKnown
  <1>2. \A g \in DOMAIN handle : handle'[g].session = handle[g].session
    BY DEF NumberedNext
  <1>3. SessionUsedOnce'
    BY <1>0, <1>2 DEF NumberedNext, SessionUsedOnce
  <1>4. StatementsNew'
    <2>1. ASSUME NEW g \in DOMAIN handle', handle'[g].session \in DOMAIN sessions'
          PROVE  sessions'[handle'[g].session].statement <= handle'[g].statement
      <3> DEFINE s == handle'[g].session
      <3>1. CASE g = h
        BY <1>0, <2>1, <3>1, StoreTypes DEF NumberedNext, StatementsNew
      <3>2. CASE g # h
        <4>1. s = handle[g].session /\ s \in DOMAIN sessions /\ sessions'[s] = sessions[s]
          BY <1>0, <2>1, <3>2 DEF NumberedNext, SessionUsedOnce
        <4> QED BY <1>0, <3>2, <4>1 DEF NumberedNext, StatementsNew
      <3> QED BY <3>1, <3>2
    <2>2. ASSUME NEW c \in DOMAIN cache'.sessionCache,
                 cache'.sessionCache[c].session \in DOMAIN sessions'
          PROVE  sessions'[cache'.sessionCache[c].session].statement
                   <= cache'.sessionCache[c].statement
      BY <1>0, <2>2 DEF NumberedNext, SessionUsedOnce, StatementsNew
    <2> QED BY <2>1, <2>2 DEF StatementsNew
  <1> QED BY <1>1, <1>3, <1>4

LEMMA StoreExecutes ==
  ASSUME StoreInv, StatementDone \/ GiveUp
  PROVE  StoreInv' /\ NumberedNext(call.handle)
  <1> DEFINE h == call.handle
             n == NextStatement
             s == handle[h].session
             required == SessionRequired(h, call.op)
             new == [container |-> handle[h].container, statement |-> n]
  <1>1. /\ Sent /\ call' = NoCall /\ UNCHANGED <<cache, lastSessionId, remote, used>>
        /\ sessions' \in {sessions, Executed}
    BY DEF StatementDone, GiveUp
  <1>2. /\ h \in DOMAIN handle /\ call \in CallRecord
        /\ required => s # 0
    BY <1>1 DEF Sent, StoreInv, StatementOK
  <1>3. handle[h] \in HandleRecord
    BY <1>2, StoreTypes
  <1>4. n \in 0 .. MaxStatement /\ handle[h].statement <= n /\ n \in Nat
        /\ n \in {handle[h].statement, handle[h].statement + 1}
    <2>1. handle[h].statement \in 0 .. MaxStatement
      BY <1>3 DEF HandleRecord
    <2> QED BY <1>1, <2>1, StoreConstants DEF Sent, NextStatement
  <1>5. \E r \in HandleRecord :
          /\ handle' = [handle EXCEPT ![h] = r]
          /\ r.session = s /\ r.statement = n /\ r.container = handle[h].container
          /\ r.prepared => handle[h].prepared \/ required
    <2>1. CASE StatementDone
      <3> DEFINE prepared == handle[h].prepared \/ required
                 started == IF Commits THEN FALSE
                            ELSE handle[h].started \/ (required /\ ~ handle[h].auto)
                 auto == handle[h].auto \/ call.op = "setAutoCommit"
                 r == [handle[h] EXCEPT !.statement = n, !.prepared = prepared,
                                        !.started = started, !.auto = auto]
      <3>1. prepared \in BOOLEAN /\ started \in BOOLEAN /\ auto \in BOOLEAN
        OBVIOUS
      <3>2. handle' = [handle EXCEPT ![h] = r]
        BY <2>1 DEF StatementDone
      <3>3. r.session = s /\ r.statement = n /\ r.container = handle[h].container
            /\ (r.prepared <=> prepared)
        BY <1>3, Zenon DEF HandleRecord
      <3> HIDE DEF prepared, started, auto, n
      <3>4. r \in HandleRecord
        BY <1>3, <1>4, <3>1, Zenon DEF HandleRecord
      <3> QED BY <3>2, <3>3, <3>4 DEF prepared
    <2>2. CASE GiveUp
      <3> DEFINE started == handle[h].started /\ ~ Commits
                 r == [handle[h] EXCEPT !.statement = n, !.started = started]
      <3>1. started \in BOOLEAN
        OBVIOUS
      <3>2. handle' = [handle EXCEPT ![h] = r]
        BY <2>2 DEF GiveUp
      <3>3. r.session = s /\ r.statement = n /\ r.container = handle[h].container
            /\ r.prepared = handle[h].prepared
        BY <1>3, Zenon DEF HandleRecord
      <3> HIDE DEF started, n
      <3>4. r \in HandleRecord
        BY <1>3, <1>4, <3>1, Zenon DEF HandleRecord
      <3> QED BY <3>2, <3>3, <3>4
    <2> QED BY <2>1, <2>2
  <1>6. PICK r \in HandleRecord :
          /\ handle' = [handle EXCEPT ![h] = r]
          /\ r.session = s /\ r.statement = n /\ r.container = handle[h].container
          /\ r.prepared => handle[h].prepared \/ required
    BY <1>5
  <1>7. /\ handle' \in Map(Handle, HandleRecord)
        /\ DOMAIN handle' = DOMAIN handle /\ handle'[h] = r
        /\ \A g \in DOMAIN handle \ {h} : handle'[g] = handle[g]
    BY <1>2, <1>6, HandleSet
  <1>8. /\ sessions' \in Map(1 .. MaxSessionId, SessionRecord)
        /\ \A t \in DOMAIN sessions' :
             \/ t \in DOMAIN sessions /\ sessions'[t] = sessions[t]
             \/ t = s /\ t # 0 /\ sessions'[t].statement = n
    <2>1. CASE sessions' = sessions
      BY <2>1 DEF StoreInv, StoreTyped
    <2>2. CASE required /\ sessions' = With(sessions, s, new)
      <3>1. s \in 1 .. MaxSessionId /\ s # 0
        BY <1>2, <1>3, <2>2 DEF HandleRecord
      <3>2. new \in SessionRecord
        BY <1>3, <1>4 DEF HandleRecord, SessionRecord
      <3>3. new.statement = n
        OBVIOUS
      <3> HIDE DEF new, n, s
      <3>4. sessions' \in Map(1 .. MaxSessionId, SessionRecord)
        BY <2>2, <3>1, <3>2, MapWith DEF StoreInv, StoreTyped
      <3> QED BY <2>2, <3>1, <3>3, <3>4 DEF With
    <2> QED BY <1>1, <2>1, <2>2 DEF Executed
  <1>9. NumberedNext(h)
    BY <1>1, <1>2, <1>4, <1>6, <1>7, <1>8 DEF NumberedNext
  <1>10. StoreTyped'
    BY <1>1, <1>7, <1>8 DEF StoreInv, StoreTyped
  <1>11. StatementOK'
    BY <1>1, <1>2, <1>6, <1>7 DEF StoreInv, StatementOK
  <1>12. CacheOK(cache')
    BY <1>1 DEF StoreInv
  <1> QED BY <1>9, <1>10, <1>11, <1>12, NumberedNextKept DEF StoreInv

(* The server misses what the statement refers to. *)
LEMMA StoreRefuses ==
  ASSUME StoreInv, NEW missing, Refuse(missing)
  PROVE  StoreInv' /\ NoneTaken
  <1> DEFINE h == call.handle
  <1>1. /\ Sent /\ InvalidateSession(h) /\ UNCHANGED <<lastSessionId, remote, used>>
        /\ \E disabled \in BOOLEAN :
             /\ IF disabled THEN DisableCache(h) ELSE UNCHANGED cache
             /\ handle' = Forgotten(h, disabled)
        /\ call' = NoCall \/ call' = [call EXCEPT !.trial = @ + 1, !.next = "create",
                                                        !.version = 0]
    BY Zenon DEF Refuse, CloseMayBeRefused
  <1>2. call # NoCall /\ h \in DOMAIN handle /\ call \in CallRecord
    BY <1>1 DEF Sent, StoreInv, StatementOK
  <1>3. handle[h] \in HandleRecord
    BY <1>2, StoreTypes
  <1>4. PICK disabled \in BOOLEAN :
          /\ IF disabled THEN DisableCache(h) ELSE UNCHANGED cache
          /\ handle' = Forgotten(h, disabled)
    BY <1>1
  <1> DEFINE off == handle[h].cacheDisabled \/ disabled
             r == [handle[h] EXCEPT !.session = 0, !.statement = 0, !.prepared = FALSE,
                                    !.started = FALSE, !.cacheDisabled = off]
  <1>5. r \in HandleRecord /\ r.session = 0 /\ r.prepared = FALSE
    <2>1. 0 \in 0 .. MaxSessionId /\ 0 \in 0 .. MaxStatement
      BY StoreConstants
    <2>2. off \in BOOLEAN
      OBVIOUS
    <2> HIDE DEF off
    <2> QED BY <1>3, <2>1, <2>2, Zenon DEF HandleRecord
  <1>6. handle' = [handle EXCEPT ![h] = r]
    BY <1>4 DEF Forgotten
  <1> HIDE DEF r
  <1>7. /\ handle' \in Map(Handle, HandleRecord)
        /\ DOMAIN handle' = DOMAIN handle /\ handle'[h] = r
        /\ \A g \in DOMAIN handle \ {h} : handle'[g] = handle[g]
    BY <1>2, <1>5, <1>6, HandleSet
  <1>8. CacheOK(cache') /\ cache'.sessionCache = cache.sessionCache
    BY <1>4, DisableCacheOK DEF StoreInv
  <1>9. /\ sessions' \in Map(1 .. MaxSessionId, SessionRecord)
        /\ \A s \in DOMAIN sessions' : s \in DOMAIN sessions /\ sessions'[s] = sessions[s]
    BY <1>1, FewerSessions DEF InvalidateSession, StoreInv, StoreTyped
  <1>10. NoneTaken
    BY <1>1, <1>5, <1>7, <1>8, <1>9 DEF NoneTaken
  <1>11. StoreTyped'
    BY <1>1, <1>7, <1>9 DEF StoreInv, StoreTyped
  <1>12. StatementOK'
    <2>1. \A g \in DOMAIN handle' : handle'[g].prepared => handle'[g].session # 0
      BY <1>5, <1>7 DEF StoreInv, StatementOK
    <2>2. CASE call' = NoCall
      BY <2>1, <2>2 DEF StatementOK
    <2>3. CASE call' = [call EXCEPT !.trial = @ + 1, !.next = "create", !.version = 0]
      <3>1. call' \in CallRecord /\ call'.handle = h /\ call'.next = "create"
        <4>1. 0 \in 0 .. MaxVersion /\ call.trial + 1 \in Nat
          BY <1>2, StoreConstants DEF CallRecord
        <4> QED BY <1>2, <2>3, <4>1, Zenon DEF CallRecord
      <3> QED BY <1>2, <1>7, <2>1, <3>1 DEF StatementOK
    <2> QED BY <1>1, <2>2, <2>3
  <1> QED BY <1>8, <1>10, <1>11, <1>12, NoneTakenKept DEF StoreInv

(* A handle is closed, and the cache may have its session. *)
SessionKept(h) ==
  /\ h \in DOMAIN handle /\ handle[h].session # 0 /\ lastSessionId' = lastSessionId
  /\ DOMAIN handle' = DOMAIN handle \ {h}
  /\ \A g \in DOMAIN handle' : handle'[g] = handle[g]
  /\ SessionsFrom(cache', cache, handle[h].container, handle[h].session, handle[h].statement)

(* The session of a handle goes into the cache, where it is the only one of *)
(* its number, as it was among the handles.                                *)
LEMMA StoreCloses ==
  ASSUME StoreInv, NEW h \in Handle, CloseContainer(h)
  PROVE  StoreInv' /\ (NoneTaken \/ SessionKept(h))
  <1> DEFINE x == handle[h].container
             n == handle[h].session
             m == handle[h].statement
             result == CacheSession(cache, x, n, m)
  <1>1. /\ h \in DOMAIN handle /\ call = NoCall
        /\ handle' = Without(handle, h)
        /\ UNCHANGED <<lastSessionId, call, remote, used>>
    BY DEF CloseContainer
  <1>2. /\ handle' \in Map(Handle, HandleRecord)
        /\ DOMAIN handle' = DOMAIN handle \ {h}
        /\ \A g \in DOMAIN handle' : handle'[g] = handle[g]
    <2>1. handle' \in Map(Handle, HandleRecord)
      BY <1>1, MapWithout DEF StoreInv, StoreTyped
    <2> QED BY <1>1, <2>1 DEF Without, Restrict
  <1>3. /\ sessions' \in Map(1 .. MaxSessionId, SessionRecord)
        /\ \A s \in DOMAIN sessions' : s \in DOMAIN sessions /\ sessions'[s] = sessions[s]
    <2>1. UNCHANGED sessions \/ \E named : CloseOnServer(named)
      BY DEF CloseContainer
    <2> QED BY <2>1, FewerSessions DEF StoreInv, StoreTyped
  <1>4. StatementOK'
    BY <1>1, <1>2 DEF StoreInv, StatementOK
  <1>5. StoreTyped'
    BY <1>1, <1>2, <1>3 DEF StoreInv, StoreTyped
  <1>6. CASE CacheOK(cache') /\ cache'.sessionCache = cache.sessionCache
    <2>1. NoneTaken
      BY <1>1, <1>2, <1>3, <1>6 DEF NoneTaken
    <2> QED BY <1>4, <1>5, <1>6, <2>1, NoneTakenKept DEF StoreInv
  <1>7. CASE n # 0 /\ cache' = result.cache
    <2>1. handle[h] \in HandleRecord
      BY <1>1, StoreTypes
    <2>2. x \in Container /\ n \in 1 .. MaxSessionId /\ m \in 0 .. MaxStatement /\ n \in Nat
      BY <1>7, <2>1 DEF HandleRecord
    <2>3. CacheOK(cache') /\ SessionsFrom(cache', cache, x, n, m)
      BY <1>7, <2>2, CacheSessionOK DEF StoreInv
    <2>9. SessionKept(h)
      BY <1>1, <1>2, <1>7, <2>3 DEF SessionKept
    <2>4. NumbersKnown /\ SessionUsedOnce /\ StatementsNew
      BY DEF StoreInv
    <2>5. \A y \in DOMAIN cache'.sessionCache :
            \/ /\ cache'.sessionCache[y].session = handle[h].session
               /\ cache'.sessionCache[y].statement = handle[h].statement
               /\ y = x
            \/ /\ cache'.sessionCache[y] = cache.sessionCache[y]
               /\ y \in DOMAIN cache.sessionCache
      BY <2>3 DEF SessionsFrom
    <2> HIDE DEF x, n, m
    <2>6. NumbersKnown'
      BY <1>1, <1>2, <1>3, <2>4, <2>5 DEF NumbersKnown
    <2>7. SessionUsedOnce'
      <3>1. \A c, d \in DOMAIN cache'.sessionCache :
              c # d => cache'.sessionCache[c].session # cache'.sessionCache[d].session
        BY <1>1, <2>4, <2>5 DEF SessionUsedOnce
      <3>2. \A g \in DOMAIN handle', c \in DOMAIN cache'.sessionCache :
              handle'[g].session # cache'.sessionCache[c].session
        BY <1>1, <1>2, <1>7, <2>4, <2>5 DEF SessionUsedOnce, n
      <3>3. \A f, g \in DOMAIN handle' :
              f # g /\ handle'[f].session # 0 => handle'[f].session # handle'[g].session
        BY <1>2, <2>4 DEF SessionUsedOnce
      <3> QED BY <3>1, <3>2, <3>3 DEF SessionUsedOnce
    <2>8. StatementsNew'
      BY <1>1, <1>2, <1>3, <2>4, <2>5 DEF StatementsNew
    <2> QED BY <1>4, <1>5, <2>3, <2>6, <2>7, <2>8, <2>9 DEF StoreInv
  <1>8. \/ UNCHANGED cache \/ DisableCache(h)
        \/ n # 0 /\ cache' = result.cache
    BY DEF CloseContainer
  <1> QED BY <1>6, <1>7, <1>8, DisableCacheOK DEF StoreInv

(* What a step does to the sessions. *)
StoreMoves ==
  \/ NoneTaken
  \/ \E h : NewSession(h) \/ NumberedNext(h) \/ SessionTaken(h) \/ SessionKept(h)

LEMMA StoreStep ==
  ASSUME StoreInv, [StoreNext]_(storeVars)
  PROVE  StoreInv' /\ StoreMoves
  <1> USE DEF StoreMoves
  <1>1. ASSUME NEW h \in Handle,
               \E k \in Key : OpenCached(h, k) \/ OpenRemote(h, k)
                                \/ PutContainer(h, k)
        PROVE  StoreInv' /\ StoreMoves
    BY <1>1, StoreOpens
  <1>2. ASSUME NEW h \in Handle, \E op \in Op : StartStatement(h, op)
        PROVE  StoreInv' /\ StoreMoves
    BY <1>2, StoreStart
  <1>3. ASSUME NEW h \in Handle, SetAutoCommit(h)
        PROVE  StoreInv' /\ StoreMoves
    BY <1>3, StoreAutoCommit
  <1>4. ASSUME NEW h \in Handle, CloseContainer(h)
        PROVE  StoreInv' /\ StoreMoves
    BY <1>4, StoreCloses
  <1>5. CASE TakeCachedSession
    BY <1>5, StoreTakes
  <1>6. CASE CreateSession
    BY <1>6, StoreCreates
  <1>7. CASE StatementDone \/ GiveUp
    BY <1>7, StoreExecutes
  <1>8. CASE Refuse("schema") \/ Refuse("session")
    BY <1>8, StoreRefuses
  <1>9. CASE \/ \E k \in Key :
                  DropContainer(k) \/ AlterByOther(k) \/ DropByOther(k)
             \/ LoseSession \/ CloseStore \/ StoreClosed
             \/ UNCHANGED storeVars
    BY <1>9, StoreOthers
  <1> QED BY <1>1, <1>2, <1>3, <1>4, <1>5, <1>6, <1>7, <1>8, <1>9 DEF StoreNext

LEMMA StoreConsistent ==
  ASSUME StoreInv
  PROVE  CacheConsistent
  <1>1. /\ cache.schemaCache \in Map(Key, Schema) /\ cache.sessionCache \in Map(Container, Info)
        /\ SchemasListed(cache) /\ SessionsListed(cache)
        /\ Few(DOMAIN cache.schemaCache, CacheSize)
    BY DEF StoreInv, CacheOK, Cache
  <1>2. /\ handle \in Map(Handle, HandleRecord) /\ remote \in Map(Key, RemoteRecord)
        /\ sessions \in Map(1 .. MaxSessionId, SessionRecord)
    BY DEF StoreInv, StoreTyped
  <1>3. /\ DOMAIN cache.schemaCache \subseteq Key /\ DOMAIN cache.sessionCache \subseteq Container
        /\ DOMAIN handle \subseteq Handle /\ DOMAIN remote \subseteq Key
        /\ DOMAIN sessions \subseteq 1 .. MaxSessionId
        /\ \A h \in DOMAIN handle : handle[h] \in HandleRecord
    <2>1. DOMAIN cache.schemaCache \subseteq Key /\ DOMAIN cache.sessionCache \subseteq Container
      BY <1>1, MapValue
    <2>2. /\ DOMAIN handle \subseteq Handle /\ DOMAIN remote \subseteq Key
          /\ DOMAIN sessions \subseteq 1 .. MaxSessionId
      BY <1>2, MapValue
    <2> QED BY <2>1, <2>2, StoreTypes
  <1>4. {0} \cup SessionId = 0 .. MaxSessionId
    BY StoreConstants DEF SessionId
  <1>5. StoreTypeOK
    <2>1. \A h \in DOMAIN handle :
            handle[h] \in [key : Key, container : Container, version : 0 .. MaxVersion,
                           session : {0} \cup SessionId,
                           statement : 0 .. MaxStatement, prepared : BOOLEAN,
                           started : BOOLEAN, auto : BOOLEAN, cacheDisabled : BOOLEAN]
      BY <1>3, <1>4 DEF HandleRecord
    <2>2. call # NoCall =>
            /\ call.op \in Op /\ call.handle \in DOMAIN handle
            /\ call.next = "execute" /\ SessionRequired(call.handle, call.op) =>
                 handle[call.handle].session # 0
      BY DEF StoreInv, StatementOK, CallRecord
    <2> QED BY <1>3, <2>1, <2>2 DEF StoreInv, StoreTyped, StoreTypeOK, SessionId
  <1>6. Cardinality(DOMAIN cache.schemaCache) <= CacheSize
    BY <1>1 DEF Few
  <1> QED BY <1>1, <1>5, <1>6 DEF SchemasListed, SessionsListed, CacheConsistent

(* No two handles of a store work in one session, and none in a session     *)
(* that the cache may give to another (GSContainerTag::createSession,       *)
(* closeSession): the ids are generated by the context and never given      *)
(* twice, and a session is in one of the two places at a time.              *)
THEOREM StoreSessionUsedOnce == StoreSpec => []SessionUsedOnce
  <1>1. StoreInv => SessionUsedOnce
    BY DEF StoreInv
  <1> QED BY StoreInitially, StoreStep, <1>1, PTL DEF StoreSpec

(* A statement is never numbered like one that its session has executed,    *)
(* through the cache (ContainerCache::cacheSession, takeSession) and        *)
(* through the repair of a statement (GSContainerTag::executeStatement).    *)
THEOREM StoreStatementsNew == StoreSpec => []StatementsNew
  <1>1. StoreInv => StatementsNew
    BY DEF StoreInv
  <1> QED BY StoreInitially, StoreStep, <1>1, PTL DEF StoreSpec

(* The cache keeps to its size, and the maps that it keeps for one entry    *)
(* agree (ContainerCache::cacheSchema, removeSchema, cacheSession,          *)
(* takeSession).                                                            *)
THEOREM StoreCacheConsistent == StoreSpec => []CacheConsistent
  <1> QED BY StoreInitially, StoreStep, StoreConsistent, PTL DEF StoreSpec

-----------------------------------------------------------------------------
(* The store as a SessionLedger: where each number is before and after a    *)
(* step.                                                                    *)
Held(h) ==
  [stage |-> "held", container |-> handle[h].container, statement |-> handle[h].statement]
Kept(c) ==
  [stage |-> "kept", container |-> c, statement |-> cache.sessionCache[c].statement]

PlacesKnown ==
  \A s \in SessionId :
    /\ s > lastSessionId => Whereabouts(s) = Ledger!New
    /\ \A h \in DOMAIN handle : handle[h].session = s =>
         s <= lastSessionId /\ Whereabouts(s) = Held(h)
    /\ \A c \in DOMAIN cache.sessionCache : cache.sessionCache[c].session = s =>
         s <= lastSessionId /\ Whereabouts(s) = Kept(c)
    /\ \/ s > lastSessionId \/ Whereabouts(s) = Ledger!Gone
       \/ \E h \in DOMAIN handle : handle[h].session = s
       \/ \E c \in DOMAIN cache.sessionCache : cache.sessionCache[c].session = s
    /\ Whereabouts(s) \in Ledger!Uses \cup {Ledger!New, Ledger!Gone}

LEMMA StorePlaces == StoreInv => PlacesKnown
  <1> SUFFICES ASSUME StoreInv PROVE PlacesKnown
    OBVIOUS
  <1> SUFFICES ASSUME NEW s \in SessionId
               PROVE  /\ s > lastSessionId => Whereabouts(s) = Ledger!New
                      /\ \A h \in DOMAIN handle : handle[h].session = s =>
                           s <= lastSessionId /\ Whereabouts(s) = Held(h)
                      /\ \A c \in DOMAIN cache.sessionCache :
                           cache.sessionCache[c].session = s =>
                             s <= lastSessionId /\ Whereabouts(s) = Kept(c)
                      /\ \/ s > lastSessionId \/ Whereabouts(s) = Ledger!Gone
                         \/ \E h \in DOMAIN handle : handle[h].session = s
                         \/ \E c \in DOMAIN cache.sessionCache :
                              cache.sessionCache[c].session = s
                      /\ Whereabouts(s) \in Ledger!Uses \cup {Ledger!New, Ledger!Gone}
    BY DEF PlacesKnown
  <1> DEFINE holders == {h \in DOMAIN handle : handle[h].session = s}
             kept == {c \in DOMAIN cache.sessionCache : cache.sessionCache[c].session = s}
  <1>1. s \in Nat \ {0} /\ lastSessionId \in Nat
    BY StoreTypes, StoreConstants DEF SessionId
  <1>2. /\ \A h \in holders : s <= lastSessionId
        /\ \A c \in kept : s <= lastSessionId
        /\ \A g, h \in holders : g = h
        /\ \A c, d \in kept : c = d
        /\ \A h \in holders, c \in kept : FALSE
    BY <1>1 DEF StoreInv, NumbersKnown, SessionUsedOnce
  <1>3. /\ \A h \in holders : Held(h) \in Ledger!Uses
        /\ \A c \in kept : Kept(c) \in Ledger!Uses
    <2>1. ASSUME NEW h \in holders PROVE Held(h) \in Ledger!Uses
      <3>1. handle[h].container \in Container /\ handle[h].statement \in Nat
        BY StoreTypes DEF HandleRecord
      <3> QED BY <3>1 DEF Held, Ledger!Uses
    <2>2. ASSUME NEW c \in kept PROVE Kept(c) \in Ledger!Uses
      <3>1. c \in Container /\ cache.sessionCache[c].statement \in Nat
        BY StoreTypes
      <3> QED BY <3>1 DEF Kept, Ledger!Uses
    <2> QED BY <2>1, <2>2
  <1>4. CASE s > lastSessionId
    <2>1. Whereabouts(s) = Ledger!New
      BY <1>4 DEF Whereabouts, Ledger!New
    <2>2. holders = {} /\ kept = {}
      BY <1>1, <1>2, <1>4
    <2> QED BY <1>4, <2>1, <2>2
  <1>5. CASE ~ (s > lastSessionId) /\ holders # {}
    <2> PICK h \in holders : TRUE
      BY <1>5
    <2>1. holders = {h} /\ (CHOOSE x \in holders : TRUE) = h /\ kept = {}
      BY <1>2
    <2>2. Whereabouts(s) = Held(h)
      <3>1. Whereabouts(s) = LET x == CHOOSE y \in holders : TRUE IN Held(x)
        BY <1>5 DEF Whereabouts, Held
      <3> QED BY <2>1, <3>1
    <2> QED BY <1>1, <1>2, <1>3, <1>5, <2>1, <2>2
  <1>6. CASE ~ (s > lastSessionId) /\ holders = {} /\ kept # {}
    <2> PICK c \in kept : TRUE
      BY <1>6
    <2>1. kept = {c} /\ (CHOOSE x \in kept : TRUE) = c
      BY <1>2
    <2>2. Whereabouts(s) = Kept(c)
      <3>1. Whereabouts(s) = LET x == CHOOSE y \in kept : TRUE IN Kept(x)
        BY <1>6 DEF Whereabouts, Kept
      <3> QED BY <2>1, <3>1
    <2> QED BY <1>1, <1>2, <1>3, <1>6, <2>1, <2>2
  <1>7. CASE ~ (s > lastSessionId) /\ holders = {} /\ kept = {}
    <2>1. Whereabouts(s) = Ledger!Gone
      BY <1>7 DEF Whereabouts, Ledger!Gone
    <2> QED BY <1>7, <2>1
  <1> QED BY <1>4, <1>5, <1>6, <1>7

(* The number s stays where it is, or is given up. *)
Left(s) ==
  \/ Whereabouts(s)' = Whereabouts(s)
  \/ Whereabouts(s) # Ledger!New /\ Whereabouts(s)' = Ledger!Gone

LEMMA PlaceLeft ==
  ASSUME StoreInv, PlacesKnown, PlacesKnown', NEW s \in SessionId,
         \/ lastSessionId' = lastSessionId
         \/ lastSessionId' = lastSessionId + 1 /\ s # lastSessionId',
         \A h \in DOMAIN handle' : handle'[h].session = s =>
           /\ h \in DOMAIN handle /\ handle[h].session = s
           /\ handle'[h].container = handle[h].container
           /\ handle'[h].statement = handle[h].statement,
         \A c \in DOMAIN cache'.sessionCache : cache'.sessionCache[c].session = s =>
           c \in DOMAIN cache.sessionCache /\ cache'.sessionCache[c] = cache.sessionCache[c]
  PROVE  Left(s)
  <1>1. s \in Nat \ {0} /\ lastSessionId \in Nat /\ (s > lastSessionId => s > lastSessionId')
    BY StoreTypes, StoreConstants DEF SessionId
  <1>2. CASE s > lastSessionId
    BY <1>1, <1>2 DEF PlacesKnown, Left
  <1>3. CASE \E h \in DOMAIN handle' : handle'[h].session = s
    <2> PICK h \in DOMAIN handle' : handle'[h].session = s
      BY <1>3
    <2>1. Held(h)' = Held(h)
      BY DEF Held
    <2> QED BY <2>1 DEF PlacesKnown, Left
  <1>4. CASE \E c \in DOMAIN cache'.sessionCache : cache'.sessionCache[c].session = s
    <2> PICK c \in DOMAIN cache'.sessionCache : cache'.sessionCache[c].session = s
      BY <1>4
    <2>1. Kept(c)' = Kept(c)
      BY DEF Kept
    <2> QED BY <2>1 DEF PlacesKnown, Left
  <1>5. CASE /\ ~ (s > lastSessionId)
             /\ ~ \E h \in DOMAIN handle' : handle'[h].session = s
             /\ ~ \E c \in DOMAIN cache'.sessionCache : cache'.sessionCache[c].session = s
    <2>1. Whereabouts(s)' = Ledger!Gone
      BY <1>1, <1>5 DEF PlacesKnown
    <2>2. Whereabouts(s) # Ledger!New
      <3>1. \/ Whereabouts(s) = Ledger!Gone
            \/ \E x : Whereabouts(s) = Held(x) \/ Whereabouts(s) = Kept(x)
        BY <1>5 DEF PlacesKnown
      <3> QED BY <3>1 DEF Held, Kept, Ledger!Gone, Ledger!New
    <2> QED BY <2>1, <2>2 DEF Left
  <1> QED BY <1>2, <1>3, <1>4, <1>5

(* The number s is begun, counted, kept or taken. *)
Moved(s) ==
  \/ /\ Whereabouts(s) = Ledger!New /\ Whereabouts(s)'.stage \in {"held", "gone"}
     /\ \A r \in SessionId : r < s => Whereabouts(r) # Ledger!New
  \/ /\ Whereabouts(s).stage = "held"
     /\ Whereabouts(s)' = [Whereabouts(s) EXCEPT !.statement = @ + 1]
  \/ /\ Whereabouts(s).stage = "held"
     /\ Whereabouts(s)' = [Whereabouts(s) EXCEPT !.stage = "kept"]
  \/ /\ Whereabouts(s).stage = "kept"
     /\ Whereabouts(s)' = [Whereabouts(s) EXCEPT !.stage = "held"]

LEMMA LedgerStep ==
  ASSUME PlacesKnown',
         \/ \A s \in SessionId : Left(s)
         \/ \E s \in SessionId : Moved(s) /\ \A r \in SessionId \ {s} : Left(r)
  PROVE  Ledger!Next \/ \A s \in SessionId : Whereabouts(s)' = Whereabouts(s)
  <1> DEFINE before == [s \in SessionId |-> Whereabouts(s)]
             after == [s \in SessionId |-> Whereabouts(s)']
  <1>1. after \in [SessionId -> Ledger!Uses \cup {Ledger!New, Ledger!Gone}]
    BY DEF PlacesKnown
  <1>2. /\ \A s \in SessionId : Left(s) =>
             \/ after[s] = before[s]
             \/ before[s] # Ledger!New /\ after[s] = Ledger!Gone
        /\ \A s \in SessionId : before[s] = Whereabouts(s) /\ after[s] = Whereabouts(s)'
    BY DEF Left
  <1>3. CASE \E s \in SessionId : Moved(s) /\ \A r \in SessionId \ {s} : Left(r)
    <2> PICK s \in SessionId : Moved(s) /\ \A r \in SessionId \ {s} : Left(r)
      BY <1>3
    <2>1. Ledger!Begin(s) \/ Ledger!Count(s) \/ Ledger!Keep(s) \/ Ledger!Take(s)
      BY DEF Moved, Ledger!Begin, Ledger!Count, Ledger!Keep, Ledger!Take
    <2>2. \A r \in SessionId \ {s} : Ledger!GiveUp(r) \/ after[r] = before[r]
      BY <1>2 DEF Ledger!GiveUp
    <2> QED BY <1>1, <2>1, <2>2 DEF Ledger!Next
  <1>4. CASE \A s \in SessionId : Left(s)
    <2>1. CASE \A s \in SessionId : after[s] = before[s]
      BY <1>2, <2>1
    <2>2. CASE \E s \in SessionId : after[s] # before[s]
      <3> PICK s \in SessionId : after[s] # before[s]
        BY <2>2
      <3>1. \A r \in SessionId : Ledger!GiveUp(r) \/ after[r] = before[r]
        BY <1>2, <1>4 DEF Ledger!GiveUp
      <3>2. Ledger!GiveUp(s)
        BY <3>1
      <3> QED BY <1>1, <3>1, <3>2 DEF Ledger!Next
    <2> QED BY <2>1, <2>2
  <1> QED BY <1>3, <1>4

LEMMA UsedNotNew ==
  ASSUME PlacesKnown, NEW s \in SessionId, ~ (s > lastSessionId)
  PROVE  Whereabouts(s) # Ledger!New
  <1>1. Whereabouts(s) = Ledger!Gone \/ \E x : Whereabouts(s) = Held(x) \/ Whereabouts(s) = Kept(x)
    BY DEF PlacesKnown
  <1> QED BY <1>1 DEF Held, Kept, Ledger!Gone, Ledger!New

LEMMA NoneTakenLeft ==
  ASSUME StoreInv, PlacesKnown, PlacesKnown', NoneTaken
  PROVE  \A s \in SessionId : Left(s)
  <1> TAKE s \in SessionId
  <1>1. s # 0
    BY StoreConstants DEF SessionId
  <1> QED BY <1>1, PlaceLeft DEF NoneTaken

(* What PlacesKnown says of the next state, of one handle or cache entry.   *)
LEMMA PlaceHeld ==
  ASSUME PlacesKnown', NEW s \in SessionId, NEW h \in DOMAIN handle', handle'[h].session = s
  PROVE  Whereabouts(s)' = [stage |-> "held", container |-> handle'[h].container,
                            statement |-> handle'[h].statement]
  <1>1. Whereabouts(s)' = Held(h)'
    BY DEF PlacesKnown
  <1> QED BY <1>1 DEF Held

LEMMA PlaceKept ==
  ASSUME PlacesKnown', NEW s \in SessionId, NEW c \in DOMAIN cache'.sessionCache,
         cache'.sessionCache[c].session = s
  PROVE  Whereabouts(s)' = [stage |-> "kept", container |-> c,
                            statement |-> cache'.sessionCache[c].statement]
  <1>1. Whereabouts(s)' = Kept(c)'
    BY DEF PlacesKnown
  <1> QED BY <1>1 DEF Kept

LEMMA NewSessionMoved ==
  ASSUME StoreInv, PlacesKnown, PlacesKnown', NEW h, NewSession(h)
  PROVE  \E s \in SessionId : Moved(s) /\ \A r \in SessionId \ {s} : Left(r)
  <1>1. lastSessionId + 1 \in SessionId
    BY StoreTypes, StoreConstants DEF NewSession, SessionId
  <1> PICK s \in SessionId : s = lastSessionId + 1
    BY <1>1
  <1>2. s = lastSessionId' /\ s > lastSessionId /\ ~ (s > lastSessionId')
    BY StoreTypes DEF NewSession
  <1>3. \A r \in SessionId : r < s => ~ (r > lastSessionId)
    BY StoreTypes, StoreConstants DEF SessionId
  <1>4. \A c \in DOMAIN cache'.sessionCache : cache'.sessionCache[c].session # s
    BY <1>2, StoreTypes DEF NewSession, StoreInv, NumbersKnown
  <1>5. Moved(s)
    <2>1. Whereabouts(s) = Ledger!New
      BY <1>2 DEF PlacesKnown
    <2>2. \A r \in SessionId : r < s => Whereabouts(r) # Ledger!New
      BY <1>3, UsedNotNew
    <2>3. Whereabouts(s)' = Ledger!Gone \/ \E g \in DOMAIN handle' : handle'[g].session = s
      BY <1>2, <1>4 DEF PlacesKnown
    <2>4. Whereabouts(s)'.stage \in {"held", "gone"}
      BY <2>3, PlaceHeld DEF Ledger!Gone
    <2> QED BY <2>1, <2>2, <2>4 DEF Moved
  <1>6. ASSUME NEW r \in SessionId \ {s}
        PROVE  Left(r)
    BY <1>2, <1>6, StoreConstants, PlaceLeft DEF NewSession, SessionId
  <1> QED BY <1>5, <1>6

LEMMA NumberedMoved ==
  ASSUME StoreInv, PlacesKnown, PlacesKnown', NEW h, NumberedNext(h)
  PROVE  \/ \A s \in SessionId : Left(s)
         \/ \E s \in SessionId : Moved(s) /\ \A r \in SessionId \ {s} : Left(r)
  <1> DEFINE s == handle[h].session
  <1>1. ASSUME NEW r \in SessionId, r # s \/ handle'[h].statement = handle[h].statement
        PROVE  Left(r)
    BY <1>1, PlaceLeft DEF NumberedNext
  <1>2. CASE s \notin SessionId \/ handle'[h].statement = handle[h].statement
    BY <1>1, <1>2
  <1>3. CASE s \in SessionId /\ handle'[h].statement = handle[h].statement + 1
    <2>1. Whereabouts(s) = Held(h) /\ Whereabouts(s)' = Held(h)'
      BY <1>3 DEF NumberedNext, PlacesKnown
    <2>2. Held(h)' = [Held(h) EXCEPT !.statement = @ + 1] /\ Held(h).stage = "held"
      BY <1>3 DEF NumberedNext, Held
    <2>3. Moved(s)
      BY <2>1, <2>2 DEF Moved
    <2> QED BY <1>1, <1>3, <2>3
  <1> QED BY <1>2, <1>3 DEF NumberedNext

LEMMA TakenMoved ==
  ASSUME StoreInv, PlacesKnown, PlacesKnown', NEW h, SessionTaken(h)
  PROVE  \E s \in SessionId : Moved(s) /\ \A r \in SessionId \ {s} : Left(r)
  <1> PICK x : x = handle[h].container
    OBVIOUS
  <1>1. x \in DOMAIN cache.sessionCache /\ h \in DOMAIN handle'
    BY DEF SessionTaken
  <1>2. cache.sessionCache[x].session \in SessionId
    BY <1>1, StoreTypes DEF Info, SessionId
  <1> PICK s \in SessionId : s = cache.sessionCache[x].session
    BY <1>2
  <1>3. /\ handle'[h].session = s /\ handle'[h].container = x
        /\ handle'[h].statement = cache.sessionCache[x].statement
    BY DEF SessionTaken
  <1>4. Moved(s)
    <2>1. Whereabouts(s) = Kept(x)
      BY <1>1 DEF PlacesKnown
    <2>2. Whereabouts(s)' = [stage |-> "held", container |-> x,
                             statement |-> cache.sessionCache[x].statement]
      BY <1>1, <1>3, PlaceHeld
    <2>3. Whereabouts(s)' = [Kept(x) EXCEPT !.stage = "held"] /\ Kept(x).stage = "kept"
      BY <2>2 DEF Kept
    <2> QED BY <2>1, <2>3 DEF Moved
  <1>5. ASSUME NEW r \in SessionId \ {s}
        PROVE  Left(r)
    BY PlaceLeft DEF SessionTaken
  <1> QED BY <1>4, <1>5

LEMMA KeptMoved ==
  ASSUME StoreInv, PlacesKnown, PlacesKnown', NEW h, SessionKept(h)
  PROVE  \/ \A s \in SessionId : Left(s)
         \/ \E s \in SessionId : Moved(s) /\ \A r \in SessionId \ {s} : Left(r)
  <1> PICK x : x = handle[h].container
    OBVIOUS
  <1>1. h \in DOMAIN handle /\ handle[h].session \in SessionId
    BY StoreTypes DEF SessionKept, HandleRecord, SessionId
  <1> PICK s \in SessionId : s = handle[h].session
    BY <1>1
  <1>2. ASSUME NEW r \in SessionId, r # s
        PROVE  Left(r)
    BY <1>2, PlaceLeft DEF SessionKept, SessionsFrom
  <1>3. CASE x \in DOMAIN cache'.sessionCache /\ cache'.sessionCache[x].session = s
    <2>1. Whereabouts(s) = Held(h)
      BY <1>1 DEF PlacesKnown
    <2>2. cache'.sessionCache[x].statement = handle[h].statement
      BY <1>3 DEF SessionKept, SessionsFrom
    <2>3. Whereabouts(s)' = [stage |-> "kept", container |-> x,
                             statement |-> handle[h].statement]
      BY <1>3, <2>2, PlaceKept
    <2>4. Whereabouts(s)' = [Held(h) EXCEPT !.stage = "kept"] /\ Held(h).stage = "held"
      BY <2>3 DEF Held
    <2>5. Moved(s)
      BY <2>1, <2>4 DEF Moved
    <2> QED BY <1>2, <2>5
  <1>4. CASE ~ (x \in DOMAIN cache'.sessionCache /\ cache'.sessionCache[x].session = s)
    <2>1. \A c \in DOMAIN cache'.sessionCache : cache'.sessionCache[c].session # s
      BY <1>1, <1>4 DEF SessionKept, SessionsFrom, StoreInv, SessionUsedOnce
    <2>2. \A g \in DOMAIN handle' : handle'[g].session # s
      BY <1>1 DEF SessionKept, StoreInv, SessionUsedOnce
    <2>3. Left(s)
      BY <2>1, <2>2, PlaceLeft DEF SessionKept
    <2> QED BY <1>2, <2>3
  <1> QED BY <1>3, <1>4

LEMMA LedgerInitially ==
  ASSUME StoreInit
  PROVE  Ledger!Init
  <1>1. StoreInv /\ PlacesKnown
    BY StoreInitially, StorePlaces
  <1>2. \A s \in SessionId : s > lastSessionId
    BY StoreConstants DEF SessionId, StoreInit
  <1>3. \A s \in SessionId : Whereabouts(s) = Ledger!New
    BY <1>1, <1>2 DEF PlacesKnown
  <1> QED BY <1>3 DEF Ledger!Init

(* The sessions of a store, through its containers and its cache            *)
(* (GSContainerTag::createSession, closeSession, executeStatement,          *)
(* ContainerCache::takeSession, cacheSession), are used as a SessionLedger  *)
(* says, for any number of containers, handles and cached elements.         *)
THEOREM StoreImplementsLedger == StoreSpec => ImplementsLedger
  <1> DEFINE places == [s \in SessionId |-> Whereabouts(s)]
  <1>1. ASSUME StoreInv, PlacesKnown, PlacesKnown', [StoreNext]_storeVars
        PROVE  [Ledger!Next]_places
    <2>1. StoreMoves
      BY <1>1, StoreStep
    <2>2. \/ \A s \in SessionId : Left(s)
          \/ \E s \in SessionId : Moved(s) /\ \A r \in SessionId \ {s} : Left(r)
      BY <1>1, <2>1, NoneTakenLeft, NewSessionMoved, NumberedMoved, TakenMoved, KeptMoved
         DEF StoreMoves
    <2> QED BY <1>1, <2>2, LedgerStep
  <1> QED BY <1>1, StoreInitially, StoreStep, StorePlaces, LedgerInitially, PTL
          DEF StoreSpec, ImplementsLedger, Ledger!Spec
=============================================================================
