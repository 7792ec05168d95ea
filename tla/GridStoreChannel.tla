-------------------------- MODULE GridStoreChannel --------------------------
(***************************************************************************)
(* GridStoreChannel::executeStatement for one context (client.cpp): the    *)
(* connections that the context keeps, the choice of one for a partition,  *)
(* and the trials after a failure, until the failover times out.           *)
(*                                                                         *)
(* The node resolver, the connection pool and a connection are modules of  *)
(* their own.  Here the resolver gives the address it has cached for the   *)
(* partition or, where it has none and where backups may serve, any one;   *)
(* the pool has connections of other contexts as well; and a connection    *)
(* answers, fails, or answers some heartbeats and fails.                   *)
(***************************************************************************)
EXTENDS Naturals, FiniteSets

CONSTANTS
  Address, Partition,
  Connection,       \* NodeConnection objects: a deleted one may be used again
  NULL,
  FailoverTimeout,  \* in retry intervals
  MaxStatements,    \* bound on the statements
  MaxHeartbeats     \* bound on the heartbeats that are answered

(* The values of ConnectionId that tell apart all those in use. *)
Id == 1 .. Cardinality(Address) + 2
Entry == [id : Id, address : Address, connection : Connection]
RowSet == [partition : Partition, entry : Entry]

ASSUME ChannelAssumption ==
  /\ FailoverTimeout \in Nat /\ MaxStatements \in Nat /\ MaxHeartbeats \in Nat
  /\ IsFiniteSet(Address)
  /\ NULL \notin Address \cup Partition \cup Connection \cup Entry \cup RowSet

VARIABLES
  statementRetryMode, ownerMode,             \* of the channel, of the login
  partitionId, activeConnections, lastConnection, lastHeartbeatCount, closed,
                                             \* GridStoreChannel::Context
  remoteAddress, heartbeatReceiveCount,      \* NodeConnection
  pool,                                      \* NodeConnectionPool
  cached,           \* NodeResolver: the address cached for a partition
  pc, kind, firstTrial, failing,   \* the statement, and the time since its
                                   \* failoverStartTime, or NULL
  rowSet,           \* the partition and the connection of a row set that is
                    \* partly fetched
  switched,         \* history: the context has changed the partition since
  broken,           \* history: that connection has been deleted
  statements, heartbeats           \* how many so far

settings == <<statementRetryMode, ownerMode>>
objects == <<remoteAddress, heartbeatReceiveCount, pool>>
connections == <<activeConnections, lastConnection, lastHeartbeatCount>>
trial == <<firstTrial, failing>>
query == <<rowSet, switched, broken>>
counters == <<statements, heartbeats>>
vars == <<settings, partitionId, connections, closed, objects, cached, pc, kind,
          trial, query, counters>>

Init ==
  /\ statementRetryMode \in {0, 1, 2} /\ ownerMode \in BOOLEAN
  /\ partitionId = NULL /\ closed = FALSE
  /\ activeConnections = [a \in Address |-> NULL]
  /\ lastConnection = NULL /\ lastHeartbeatCount = 0
  /\ remoteAddress = [c \in Connection |-> NULL]
  /\ heartbeatReceiveCount = [c \in Connection |-> 0]
  /\ pool = {}
  /\ cached = [p \in Partition |-> NULL]
  /\ pc = "idle" /\ kind = "none"
  /\ firstTrial = TRUE /\ failing = NULL
  /\ rowSet = NULL /\ switched = FALSE /\ broken = FALSE
  /\ statements = 0 /\ heartbeats = 0

-----------------------------------------------------------------------------
LoseRowSet == rowSet' = NULL /\ switched' = FALSE /\ broken' = FALSE

(* The calls of the context. *)

Start(k, label) ==
  /\ pc = "idle" /\ ~ closed
  /\ statements < MaxStatements
  /\ statements' = statements + 1
  /\ kind' = k /\ pc' = label
  /\ firstTrial' = TRUE /\ failing' = NULL

(* applyPartitionId: another partition, another connection. *)
ApplyPartitionId(p) ==
  /\ partitionId' = p
  /\ lastConnection' = IF p = partitionId THEN lastConnection ELSE NULL

Execute(p) ==
  /\ Start("statement", "trial")
  /\ ApplyPartitionId(p)
  /\ switched' = (switched \/ (rowSet # NULL /\ p # partitionId))
  /\ UNCHANGED <<settings, activeConnections, lastHeartbeatCount, closed, objects,
                 cached, rowSet, broken, heartbeats>>

Active(a) == activeConnections[a] # NULL

(* Mutant: the connection is told by the address of the object. *)
SameObject ==
  LET e == rowSet.entry IN
    /\ Active(e.address)
    /\ activeConnections[e.address].connection = e.connection

(* checkActiveConnection *)
ActiveConnection ==
  LET e == rowSet.entry IN
    /\ Active(e.address)
    /\ activeConnections[e.address].id = e.id

(* FETCH_ROW_SET, or CLOSE_ROW_SET. *)
Fetch ==
  /\ rowSet # NULL
  /\ ActiveConnection
  /\ Start("fetch", "trial")
  /\ ApplyPartitionId(rowSet.partition)
  /\ UNCHANGED <<settings, activeConnections, lastHeartbeatCount, closed, objects,
                 cached, query, heartbeats>>

(* The row set is lost, and the query starts again elsewhere. *)
CannotFetch ==
  /\ pc = "idle" /\ ~ closed
  /\ rowSet # NULL
  /\ ~ ActiveConnection
  /\ LoseRowSet
  /\ UNCHANGED <<settings, partitionId, connections, closed, objects, cached, pc,
                 kind, trial, counters>>

(* executeResolver goes through the same trials. *)
ExecuteResolver ==
  /\ Start("resolver", "sent")
  /\ UNCHANGED <<settings, partitionId, connections, closed, objects, cached, query,
                 heartbeats>>

(* clearContext(true) *)
Close ==
  /\ pc = "idle" /\ ~ closed
  /\ closed' = TRUE
  /\ partitionId' = NULL /\ lastConnection' = NULL
  /\ pool' = pool \cup {activeConnections[a].connection : a \in {b \in Address : Active(b)}}
  /\ activeConnections' = [a \in Address |-> NULL]
  /\ LoseRowSet
  /\ UNCHANGED <<settings, lastHeartbeatCount, remoteAddress,
                 heartbeatReceiveCount, cached, pc, kind, trial, counters>>

(* NodeConnectionPool::add by another context of the same channel.  The      *)
(* heartbeats that the connection has seen are not those of this context.  A   *)
(* statement takes no pooled connection after its first trial, so that it is *)
(* enough to add one between the statements.                                 *)
OtherContextCloses ==
  /\ pc = "idle" /\ ~ closed
  /\ \E c \in Connection, a \in Address, n \in 0 .. 1 :
       /\ remoteAddress[c] = NULL
       /\ remoteAddress' = [remoteAddress EXCEPT ![c] = a]
       /\ heartbeatReceiveCount' = [heartbeatReceiveCount EXCEPT ![c] = n]
       /\ pool' = pool \cup {c}
  /\ UNCHANGED <<settings, partitionId, connections, closed, cached, pc, kind, trial,
                 query, counters>>

-----------------------------------------------------------------------------
(* A failure: the handlers of executeStatement. *)

(* Mutant: the node was there, as it has accepted a connection.             *)
Reconnected(beats) == lastConnection # NULL /\ ~ firstTrial

(* The node was there: it has answered heartbeats since the connection was  *)
(* made, in a trial after the first.                                        *)
Beating(beats) ==
  /\ lastConnection # NULL
  /\ ~ firstTrial
  /\ lastHeartbeatCount # heartbeatReceiveCount[lastConnection.connection] + beats

(* Mutant: the connection is deleted and its entry stays. *)
DeleteOnly ==
  LET c == lastConnection.connection IN
    /\ remoteAddress' = [remoteAddress EXCEPT ![c] = NULL]
    /\ heartbeatReceiveCount' = [heartbeatReceiveCount EXCEPT ![c] = 0]
    /\ lastConnection' = NULL
    /\ UNCHANGED <<activeConnections, lastHeartbeatCount, pool>>

DeleteConnection ==
  LET c == lastConnection.connection IN
    /\ activeConnections' = [activeConnections EXCEPT ![remoteAddress[c]] = NULL]
    /\ remoteAddress' = [remoteAddress EXCEPT ![c] = NULL]
    /\ heartbeatReceiveCount' = [heartbeatReceiveCount EXCEPT ![c] = 0]
    /\ lastConnection' = NULL
    /\ UNCHANGED <<lastHeartbeatCount, pool>>

Finish ==
  /\ pc' = "idle" /\ kind' = "none"
  /\ firstTrial' = TRUE /\ failing' = NULL

(* The connection is lost, and with it the row set that FETCH_ROW_SET was  *)
(* to read.                                                                *)
FetchFailed ==
  /\ kind = "fetch"
  /\ Finish
  /\ rowSet' = NULL /\ switched' = FALSE

TryAgain(time) ==
  /\ pc' = IF kind = "resolver" THEN "sent" ELSE "trial"
  /\ firstTrial' = FALSE /\ failing' = time
  /\ UNCHANGED <<kind, rowSet, switched>>

(* clock: the failoverStartTime that the heartbeats have left.  The time of *)
(* a trial itself is that of its last interval.                             *)
StatementFailed(wrongNode, clock) ==
  LET immediate == statementRetryMode = 0 /\ firstTrial /\ ~ wrongNode
      time == IF clock = NULL THEN 0 ELSE clock
  IN /\ kind # "fetch"
     /\ \/ immediate /\ TryAgain(clock)
        \/ ~ immediate /\ time < FailoverTimeout /\ TryAgain(time + 1)
        \/ ~ immediate /\ time >= FailoverTimeout /\ Finish /\ UNCHANGED <<rowSet, switched>>

Fail(wrongNode, beats) ==
  \/ FetchFailed
  \/ StatementFailed(wrongNode, IF Beating(beats) THEN NULL ELSE failing)

(* The owners are asked for again: in mode 1 only after a WrongNodeException *)
(* that is not the last failure.                                             *)
Invalidate(wrongNode, addresses) ==
  cached' =
    IF \/ statementRetryMode = 0
       \/ statementRetryMode = 1 /\ wrongNode /\ pc' # "idle"
    THEN [p \in Partition |-> NULL] ELSE addresses

-----------------------------------------------------------------------------
(* A trial. *)

(* NodeResolver::getNodeAddress *)
Resolve(a) ==
  ownerMode /\ cached[partitionId] # NULL => a = cached[partitionId]

Learnt(a) == IF ownerMode THEN [cached EXCEPT ![partitionId] = a] ELSE cached

(* ConnectionId: one that no connection in use has, nor the row set. *)
NewId ==
  CHOOSE i \in Id :
    /\ \A a \in Address : Active(a) => activeConnections[a].id # i
    /\ rowSet # NULL => rowSet.entry.id # i

(* NodeConnectionPool::resolve: a first trial prefers a pooled connection. *)
Pooled(a) == {c \in pool : remoteAddress[c] = a}

Supply(a, c) ==
  IF firstTrial /\ Pooled(a) # {}
  THEN c \in Pooled(a) /\ UNCHANGED <<remoteAddress, heartbeatReceiveCount>>
  ELSE /\ remoteAddress[c] = NULL
       /\ remoteAddress' = [remoteAddress EXCEPT ![c] = a]
       /\ heartbeatReceiveCount' = [heartbeatReceiveCount EXCEPT ![c] = 0]

Connect(a, c) ==
  LET entry == [id |-> NewId, address |-> a, connection |-> c] IN
    /\ Supply(a, c)
    /\ pool' = pool \ {c}
    /\ activeConnections' = [activeConnections EXCEPT ![a] = entry]
    /\ lastConnection' = entry
    /\ lastHeartbeatCount' = heartbeatReceiveCount'[c]

(* updateConnection *)
UpdateConnection ==
  \/ /\ lastConnection # NULL
     /\ UNCHANGED <<connections, objects, cached>>
  \/ /\ lastConnection = NULL
     /\ \E a \in Address :
          /\ Resolve(a) /\ cached' = Learnt(a)
          /\ \/ /\ Active(a)
                /\ lastConnection' = activeConnections[a]
                /\ UNCHANGED <<activeConnections, lastHeartbeatCount, objects>>
             \/ /\ ~ Active(a)
                /\ \E c \in Connection : Connect(a, c)

Send ==
  /\ pc = "trial"
  /\ UpdateConnection
  /\ pc' = "sent"
  /\ UNCHANGED <<settings, partitionId, closed, kind, trial, query, counters>>

(* NodeConnectionPool::resolve deletes a connection that fails to log in,   *)
(* whether it is new or a pooled one.                                       *)
LoginFails(a) ==
  /\ Resolve(a) /\ ~ Active(a)
  /\ \/ /\ \E c \in Pooled(a) :
             /\ firstTrial
             /\ pool' = pool \ {c}
             /\ remoteAddress' = [remoteAddress EXCEPT ![c] = NULL]
             /\ heartbeatReceiveCount' = [heartbeatReceiveCount EXCEPT ![c] = 0]
     \/ (~ firstTrial \/ Pooled(a) = {}) /\ UNCHANGED objects

(* A ConnectionException of the resolver, or of the login.                  *)
CannotConnect ==
  /\ pc = "trial" /\ lastConnection = NULL
  /\ \E wrongNode \in BOOLEAN :
       /\ Fail(wrongNode, 0)
       /\ \/ UNCHANGED objects /\ Invalidate(wrongNode, cached)
          \/ \E a \in Address : LoginFails(a) /\ Invalidate(wrongNode, Learnt(a))
  /\ broken' = (broken /\ rowSet' # NULL)
  /\ UNCHANGED <<settings, partitionId, connections, closed, counters>>

(* A StatementException of either.                                          *)
CannotLogin ==
  /\ pc = "trial" /\ lastConnection = NULL
  /\ \/ UNCHANGED <<objects, cached>>
     \/ \E a \in Address : LoginFails(a) /\ cached' = Learnt(a)
  /\ Finish
  /\ UNCHANGED <<settings, partitionId, connections, closed, query, counters>>

-----------------------------------------------------------------------------
(* The outcome of a statement that was sent. *)

Answered(beats) ==
  /\ heartbeats + beats <= MaxHeartbeats
  /\ kind = "resolver" => beats = 0
  /\ heartbeats' = heartbeats + beats

CountHeartbeats(beats) ==
  heartbeatReceiveCount' =
    IF lastConnection = NULL THEN heartbeatReceiveCount
    ELSE [heartbeatReceiveCount EXCEPT ![lastConnection.connection] = @ + beats]

(* A reply.  A statement may be a query that opens a row set, and a fetch   *)
(* may be the last one.                                                     *)
Succeed ==
  /\ pc = "sent"
  /\ \E beats \in 0 .. MaxHeartbeats : Answered(beats) /\ CountHeartbeats(beats)
  /\ Finish
  /\ \/ /\ kind = "statement"
        /\ rowSet' = [partition |-> partitionId, entry |-> lastConnection]
        /\ switched' = FALSE /\ broken' = FALSE
     \/ kind = "fetch" /\ LoseRowSet
     \/ UNCHANGED query
  /\ UNCHANGED <<settings, partitionId, connections, closed, remoteAddress, pool,
                 cached, statements>>

(* A StatementException.  The node may have lost the row set.               *)
Refused ==
  /\ pc = "sent"
  /\ \E beats \in 0 .. MaxHeartbeats : Answered(beats) /\ CountHeartbeats(beats)
  /\ Finish
  /\ \/ kind = "fetch" /\ LoseRowSet
     \/ UNCHANGED query
  /\ UNCHANGED <<settings, partitionId, connections, closed, remoteAddress, pool,
                 cached, statements>>

(* A ConnectionException, or a WrongNodeException.  The connection is       *)
(* deleted even where it is the resolver's that failed.                     *)
Break ==
  /\ pc = "sent"
  /\ \E beats \in 0 .. MaxHeartbeats, wrongNode \in BOOLEAN :
       /\ Answered(beats)
       /\ Fail(wrongNode, beats)
       /\ Invalidate(wrongNode, cached)
  /\ \/ /\ lastConnection # NULL
        /\ DeleteConnection
        /\ broken' = (rowSet' # NULL /\ (broken \/ lastConnection = rowSet.entry))
     \/ /\ lastConnection = NULL
        /\ UNCHANGED <<connections, objects>>
        /\ broken' = (broken /\ rowSet' # NULL)
  /\ UNCHANGED <<settings, partitionId, closed, statements>>

-----------------------------------------------------------------------------
Progress == Send \/ CannotConnect \/ CannotLogin \/ Succeed \/ Refused \/ Break

Next ==
  \/ \E p \in Partition : Execute(p)
  \/ Fetch \/ CannotFetch
  \/ ExecuteResolver
  \/ Close
  \/ OtherContextCloses
  \/ Progress

Spec == Init /\ [][Next]_vars

(* Every trial comes to an end, as every wait of a connection is limited.  *)
FairSpec == Spec /\ WF_vars(Progress)

-----------------------------------------------------------------------------
(* Every variable has its type. *)
TypeOK ==
  /\ statementRetryMode \in {0, 1, 2} /\ ownerMode \in BOOLEAN
  /\ partitionId \in Partition \cup {NULL}
  /\ activeConnections \in [Address -> Entry \cup {NULL}]
  /\ lastConnection \in Entry \cup {NULL}
  /\ lastHeartbeatCount \in Nat /\ closed \in BOOLEAN
  /\ remoteAddress \in [Connection -> Address \cup {NULL}]
  /\ heartbeatReceiveCount \in [Connection -> Nat]
  /\ pool \subseteq Connection
  /\ cached \in [Partition -> Address \cup {NULL}]
  /\ pc \in {"idle", "trial", "sent"}
  /\ kind \in {"none", "statement", "fetch", "resolver"}
  /\ firstTrial \in BOOLEAN
  /\ failing \in (0 .. FailoverTimeout) \cup {NULL}
  /\ rowSet \in RowSet \cup {NULL}
  /\ switched \in BOOLEAN /\ broken \in BOOLEAN
  /\ statements \in 0 .. MaxStatements /\ heartbeats \in 0 .. MaxHeartbeats

(* Every NodeConnection is either in the pool or in activeConnections, once *)
(* and under its own address, so that it is deleted once; and the last      *)
(* connection is one of them.  The assert(false) of executeStatement is     *)
(* where the code would find otherwise.  Every variable has its type.       *)
ConnectionsOwned ==
  /\ TypeOK
  /\ \A c \in Connection :
       LET active == {a \in Address :
                        Active(a) /\ activeConnections[a].connection = c}
       IN IF remoteAddress[c] = NULL THEN active = {} /\ c \notin pool
          ELSE \/ active = {remoteAddress[c]} /\ c \notin pool
               \/ active = {} /\ c \in pool
  /\ lastConnection # NULL =>
       activeConnections[lastConnection.address] = lastConnection

(* FETCH_ROW_SET and CLOSE_ROW_SET go out only while the connection that     *)
(* opened the row set is alive, and, as long as the context stays with the   *)
(* partition, on that connection and no other: checkActiveConnection tells   *)
(* a connection from the next one to the same address, even where the new    *)
(* object takes the place of the deleted one.                                *)
FetchOnQueryConnection ==
  kind = "fetch" =>
    /\ ~ broken
    /\ switched \/ lastConnection = rowSet.entry

(* A statement ends, with a reply, an error, or the failover timing out, as  *)
(* long as no more than a limited number of heartbeats are answered: the     *)
(* heartbeats that start the clock again are those of the connection at      *)
(* hand, and not a difference left over from another one.                    *)
StatementEnds == pc # "idle" ~> pc = "idle"
=============================================================================
