---------------------------- MODULE NodeResolver ----------------------------
(***************************************************************************)
(* NodeResolver (client.cpp): finds the master of the cluster, asks it     *)
(* where a partition is, and caches the answers for all the contexts (one  *)
(* per GSGridStore) of a channel.  A call runs with mutex_ held, but for   *)
(* the read of connectionTrialCounter_ before it.  A step of a call ends   *)
(* where it waits for the network.                                         *)
(*                                                                         *)
(* The three entries of ClusterInfo are one here: the partition count.     *)
(* The members of PROVIDER mode are those of a fixed list here.            *)
(***************************************************************************)
EXTENDS Naturals, Sequences, FiniteSets

CONSTANTS
  Context,          \* the ClusterInfo objects, one for each context
  Node, Partition,
  Member,           \* the addresses of FIXED_LIST mode
  PartitionCount,   \* what each node says its cluster has
  Placement,        \* where a partition may be
  NULL,             \* no node, no context, no count
  TrialModulus,     \* the width of connectionTrialCounter_
  MaxCalls,         \* bound on the calls
  MaxChanges        \* bound on the changes of the cluster

ASSUME ResolverAssumption ==
  /\ Member \in Seq(Node) /\ Member # <<>>
  /\ PartitionCount \in [Node -> Nat \ {0}]
  /\ Placement \subseteq [owner : Node \cup {NULL}, backups : SUBSET Node]
  /\ NULL \notin Context \cup Node \cup Nat
  /\ TrialModulus \in Nat \ {0}
  /\ MaxCalls \in Nat /\ MaxChanges \in Nat

VARIABLES
  masterAddress, masterConnection,    \* NULL, or a node
  nodeAddressMap,                     \* what is known of each partition
  lastSelectedMember,
  connectionTrialCounter, connectionFailedPreviously, masterCacheCounter,
  mutex,                              \* the context inside mutex_, or NULL
  pc, want, start,                    \* each call: where it is, its arguments,
                                      \* the trial counter it started with
  partitionCount, byConnection,       \* each context: ClusterInfo
  lastMasterCacheCounter,
  answer,                             \* the last address each context got
  seen, avoid,                        \* history: the number of fetches at the
                                      \* last answer, and at the last answer
                                      \* that the context found useless
  fetches,                            \* history: the number of fetches
  calls,                              \* the calls so far
  up, leader, belief, placement,
  changes,                            \* the cluster, and how often it changed
  multicast                           \* MULTICAST mode, or FIXED_LIST

master == <<masterAddress, masterConnection, nodeAddressMap, lastSelectedMember>>
counters == <<connectionTrialCounter, connectionFailedPreviously,
              masterCacheCounter>>
info == <<partitionCount, byConnection, lastMasterCacheCounter>>
history == <<seen, avoid, fetches>>
cluster == <<up, leader, belief, placement, changes, multicast>>
vars == <<master, counters, mutex, pc, want, start, info, answer, history, calls,
          cluster>>

Unknown == [owner |-> NULL, backups |-> {}, stamp |-> 0]
Want == [kind : {"master", "count"}]
          \cup [kind : {"node"}, partition : Partition, backup : BOOLEAN]

NoWant == [kind |-> "count"]

Goto(c, label) == pc' = [pc EXCEPT ![c] = label]

(* The call ends, and with it its arguments. *)
Return(c) ==
  /\ mutex' = NULL
  /\ Goto(c, "idle")
  /\ want' = [want EXCEPT ![c] = NoWant]
  /\ start' = [start EXCEPT ![c] = 0]

Init ==
  /\ masterAddress = NULL /\ masterConnection = NULL
  /\ nodeAddressMap = [p \in Partition |-> Unknown]
  /\ lastSelectedMember \in 0 .. Len(Member) - 1   \* the first one asked is any
  /\ connectionTrialCounter = 0
  /\ connectionFailedPreviously = FALSE
  /\ masterCacheCounter = 1
  /\ mutex = NULL
  /\ pc = [c \in Context |-> "idle"]
  /\ want = [c \in Context |-> NoWant]
  /\ start = [c \in Context |-> 0]
  /\ partitionCount = [c \in Context |-> NULL]
  /\ byConnection = [c \in Context |-> FALSE]
  /\ lastMasterCacheCounter = [c \in Context |-> 0]
  /\ answer = [c \in Context |-> [address |-> NULL, stamp |-> 0]]
  /\ seen = [c \in Context |-> 0] /\ avoid = [c \in Context |-> 0]
  /\ fetches = 0 /\ calls = 0
  /\ up = Node
  /\ leader \in Node
  /\ belief = [n \in Node |-> leader]
  /\ placement \in [Partition -> Placement]
  /\ changes = 0
  /\ multicast \in BOOLEAN
  /\ multicast => lastSelectedMember = 0

-----------------------------------------------------------------------------
(* The cluster: nodes go down and come back, another node becomes the      *)
(* master and the nodes learn of it one by one, partitions move.           *)

Change ==
  /\ changes < MaxChanges
  /\ changes' = changes + 1
  /\ \/ /\ \E n \in Node : up' = (up \cup {n}) \ (up \cap {n})
        /\ UNCHANGED <<leader, belief, placement>>
     \/ /\ leader' \in Node
        /\ belief' = [belief EXCEPT ![leader'] = leader']
        /\ UNCHANGED <<up, placement>>
     \/ /\ \E p \in Partition, l \in Placement :
             placement' = [placement EXCEPT ![p] = l]
        /\ UNCHANGED <<up, leader, belief>>
  /\ UNCHANGED <<master, counters, mutex, pc, want, start, info, answer, history,
                 calls, multicast>>

Learn(n) ==
  /\ belief' = [belief EXCEPT ![n] = leader]
  /\ UNCHANGED <<master, counters, mutex, pc, want, start, info, answer, history,
                 calls, up, leader, placement, changes, multicast>>

-----------------------------------------------------------------------------
(* The start of a call, and its end. *)

Call(c, w) ==
  /\ pc[c] = "idle"
  /\ calls < MaxCalls
  /\ w.kind = "count" => partitionCount[c] = NULL
  /\ calls' = calls + 1
  /\ want' = [want EXCEPT ![c] = w]
  /\ start' = [start EXCEPT ![c] = connectionTrialCounter]
  /\ Goto(c, "lock")
  /\ UNCHANGED <<master, counters, mutex, info, answer, history, cluster>>

(* Mutant: an entry counts although its owner is not known. *)
CachedAnyEntry(p) == nodeAddressMap[p] # Unknown

Cached(p) == nodeAddressMap[p].owner # NULL

(* getPartitionCount, getMasterAddress and getNodeAddress take the mutex.  *)
(* They go for the master unless they have what they need.                 *)
Lock(c) ==
  /\ pc[c] = "lock" /\ mutex = NULL
  /\ mutex' = c
  /\ Goto(c, CASE want[c].kind = "count" -> "prepare"
              [] want[c].kind = "master" ->
                   IF masterAddress = NULL THEN "prepare" ELSE "answer"
              [] want[c].kind = "node" ->
                   IF Cached(want[c].partition) THEN "answer"
                   ELSE IF masterConnection = NULL \/ partitionCount[c] = NULL
                        THEN "prepare" ELSE "fetch")
  /\ UNCHANGED <<master, counters, want, start, info, answer, history, calls,
                 cluster>>

(* The master is known: what the call does next. *)
AfterPrepare(c) == IF want[c].kind = "node" THEN "fetch" ELSE "answer"

(* The addresses that getNodeAddress may return.  A loop over a variable   *)
(* of its own, which hides the one that holds the result, looks for the    *)
(* preferable host: it has no effect.                                      *)
Choices(w) ==
  LET entry == nodeAddressMap[w.partition] IN
  IF w.backup /\ entry.backups # {} THEN entry.backups ELSE {entry.owner}

(* The end of a successful call: applyMasterCacheCounter. *)
Answer(c) ==
  /\ pc[c] = "answer"
  /\ lastMasterCacheCounter' =
       [lastMasterCacheCounter EXCEPT ![c] = masterCacheCounter]
  /\ IF want[c].kind = "node"
     THEN /\ \E address \in Choices(want[c]) :
               answer' = [answer EXCEPT ![c] =
                 [address |-> address,
                  stamp |-> nodeAddressMap[want[c].partition].stamp]]
          /\ seen' = [seen EXCEPT ![c] = fetches]
     ELSE UNCHANGED <<answer, seen>>
  /\ Return(c)
  /\ UNCHANGED <<master, counters, partitionCount, byConnection, avoid, fetches,
                 calls, cluster>>

-----------------------------------------------------------------------------
(* ClusterInfo. *)

(* ClusterInfo::invalidate drops what no connection has confirmed. *)
Invalidated(c) == partitionCount[c] # NULL /\ ~ byConnection[c]

(* Mutant: what a notification alone has said is kept. *)
InvalidateNothing(c) == UNCHANGED partitionCount

InvalidateInfo(c) ==
  IF Invalidated(c)
  THEN partitionCount' = [partitionCount EXCEPT ![c] = NULL]
  ELSE UNCHANGED partitionCount

(* acceptClusterInfo refuses a count that differs from an earlier one. *)
Acceptable(c, count) == partitionCount[c] \in {NULL, count}

Accept(c, count, confirmed) ==
  /\ partitionCount' = [partitionCount EXCEPT ![c] = count]
  /\ byConnection' = [byConnection EXCEPT ![c] = @ \/ confirmed]

-----------------------------------------------------------------------------
(* invalidateMaster *)

(* Mutant: the addresses of the nodes stay. *)
ReleaseMasterOnly ==
  /\ masterAddress' = NULL
  /\ masterConnection' = NULL
  /\ masterCacheCounter' = masterCacheCounter + 1
  /\ UNCHANGED nodeAddressMap

(* Forget the master and all that it said. *)
ReleaseMaster ==
  /\ masterAddress' = NULL
  /\ masterConnection' = NULL
  /\ nodeAddressMap' = [p \in Partition |-> Unknown]
  /\ masterCacheCounter' = masterCacheCounter + 1

(* Mutant: the comparison is the other way round. *)
InvalidationOutdated(c) == lastMasterCacheCounter[c] < masterCacheCounter

(* acceptMasterInvalidation: only the contexts that have seen the present  *)
(* state of the resolver may invalidate it, and each of them once.         *)
InvalidationAccepted(c) == lastMasterCacheCounter[c] = masterCacheCounter

ClearCounter(c) ==
  lastMasterCacheCounter' =
    IF InvalidationAccepted(c)
    THEN [lastMasterCacheCounter EXCEPT ![c] = 0] ELSE lastMasterCacheCounter

(* The context could not use the address it got. *)
InvalidateMaster(c) ==
  /\ pc[c] = "idle" /\ mutex = NULL
  /\ calls < MaxCalls
  /\ calls' = calls + 1
  /\ InvalidateInfo(c)
  /\ ClearCounter(c)
  /\ IF InvalidationAccepted(c)
     THEN ReleaseMaster
     ELSE UNCHANGED <<masterAddress, masterConnection, nodeAddressMap,
                      masterCacheCounter>>
  /\ avoid' = [avoid EXCEPT ![c] = seen[c]]
  /\ UNCHANGED <<lastSelectedMember, connectionTrialCounter,
                 connectionFailedPreviously, mutex, pc, want, start,
                 byConnection, answer, seen, fetches, cluster>>

-----------------------------------------------------------------------------
(* prepareConnectionAndClusterInfo *)

NextTrial == (connectionTrialCounter + 1) % TrialModulus

(* Its exception handler, for a statement error or for another one. *)
PrepareFails(c, statementError) ==
  /\ InvalidateInfo(c)
  /\ IF Invalidated(c) \/ ~ statementError
     THEN /\ connectionFailedPreviously' = TRUE
          /\ ReleaseMaster
          /\ ClearCounter(c)
     ELSE UNCHANGED <<masterAddress, masterConnection, nodeAddressMap,
                      connectionFailedPreviously, masterCacheCounter,
                      lastMasterCacheCounter>>
  /\ Return(c)
  /\ UNCHANGED <<byConnection, answer, history, calls, cluster>>

(* Another thread has tried and failed since this call began. *)
FailFast(c) ==
  /\ pc[c] = "prepare"
  /\ connectionFailedPreviously /\ start[c] # connectionTrialCounter
  /\ PrepareFails(c, FALSE)
  /\ UNCHANGED <<connectionTrialCounter, lastSelectedMember>>

Prepare(c) ==
  /\ pc[c] = "prepare"
  /\ ~ (connectionFailedPreviously /\ start[c] # connectionTrialCounter)
  /\ Goto(c, IF masterAddress = NULL /\ multicast THEN "receive" ELSE "connect")
  /\ connectionTrialCounter' =
       IF masterAddress = NULL THEN NextTrial ELSE connectionTrialCounter
  /\ UNCHANGED <<master, connectionFailedPreviously, masterCacheCounter, mutex,
                 want, start, info, answer, history, calls, cluster>>

(* updateMasterInfo: the notification of the master, or of a node that     *)
(* still takes itself for it.                                              *)
Receive(c) ==
  /\ pc[c] = "receive"
  /\ \E n \in up :
       /\ belief[n] = n
       /\ Acceptable(c, PartitionCount[n])
       /\ Accept(c, PartitionCount[n], FALSE)
       /\ masterAddress' = n
  /\ connectionFailedPreviously' = FALSE
  /\ Goto(c, "connect")
  /\ UNCHANGED <<masterConnection, nodeAddressMap, lastSelectedMember,
                 connectionTrialCounter, masterCacheCounter, mutex, want, start,
                 lastMasterCacheCounter, answer, history, calls, cluster>>

(* No notification comes in time, or one of another cluster. *)
ReceiveFails(c) ==
  /\ pc[c] = "receive"
  /\ PrepareFails(c, FALSE)
  /\ UNCHANGED <<connectionTrialCounter, lastSelectedMember>>

(* updateConnectionAndClusterInfo: the node it asks.  A connection to the  *)
(* master that exists is used again.                                       *)
NextMember == (lastSelectedMember % Len(Member)) + 1

(* Mutant: the address of a redirection is not followed. *)
AskedMember == IF masterConnection # NULL THEN masterConnection ELSE Member[NextMember]

Asked == CASE masterConnection # NULL -> masterConnection
           [] masterConnection = NULL /\ masterAddress # NULL -> masterAddress
           [] OTHER -> Member[NextMember]

SelectMember ==
  lastSelectedMember' = IF masterAddress = NULL /\ ~ multicast THEN NextMember
                        ELSE lastSelectedMember

(* The node takes itself for the master, or is asked on the connection to  *)
(* the master, where this is not looked at. *)
Connect(c) ==
  /\ pc[c] = "connect"
  /\ Asked \in up
  /\ belief[Asked] = Asked \/ masterConnection # NULL
  /\ SelectMember
  /\ masterConnection' = Asked
  /\ masterAddress' = belief[Asked]
  /\ Acceptable(c, PartitionCount[Asked])
  /\ Accept(c, PartitionCount[Asked], TRUE)
  /\ connectionFailedPreviously' = FALSE
  /\ Goto(c, AfterPrepare(c))
  /\ UNCHANGED <<nodeAddressMap, connectionTrialCounter, masterCacheCounter,
                 mutex, want, start, lastMasterCacheCounter, answer, history,
                 calls, cluster>>

(* It names another node: that one is asked next. *)
Redirect(c) ==
  /\ pc[c] = "connect"
  /\ masterConnection = NULL
  /\ Asked \in up
  /\ belief[Asked] # Asked
  /\ SelectMember
  /\ masterAddress' = belief[Asked]
  /\ connectionTrialCounter' = NextTrial
  /\ UNCHANGED <<masterConnection, nodeAddressMap, connectionFailedPreviously,
                 masterCacheCounter, mutex, pc, want, start, info, answer,
                 history, calls, cluster>>

(* The node is down or does not reply, or its reply is not acceptable, or  *)
(* the login is refused, which is a statement error.                       *)
ConnectFails(c) ==
  /\ pc[c] = "connect"
  /\ \E statementError \in BOOLEAN :
       /\ statementError => Asked \in up
       /\ PrepareFails(c, statementError)
  /\ SelectMember
  /\ UNCHANGED connectionTrialCounter

-----------------------------------------------------------------------------
(* getNodeAddressList *)

(* The master knows a node for the partition. *)
Usable(w) ==
  LET l == placement[w.partition] IN
  l.owner # NULL \/ (w.backup /\ l.backups # {})

Fetch(c) ==
  /\ pc[c] = "fetch"
  /\ masterConnection \in up
  /\ Usable(want[c])
  /\ Acceptable(c, PartitionCount[masterConnection])
  /\ Accept(c, PartitionCount[masterConnection], TRUE)
  /\ fetches' = fetches + 1
  /\ LET p == want[c].partition IN
       nodeAddressMap' = [nodeAddressMap EXCEPT ![p] =
         [owner |-> placement[p].owner, backups |-> placement[p].backups,
          stamp |-> fetches']]
  /\ connectionFailedPreviously' = FALSE
  /\ Goto(c, "answer")
  /\ UNCHANGED <<masterAddress, masterConnection, lastSelectedMember,
                 connectionTrialCounter, masterCacheCounter, mutex, want, start,
                 lastMasterCacheCounter, answer, seen, avoid, calls, cluster>>

FetchFails(c) ==
  /\ pc[c] = "fetch"
  /\ masterConnection' = NULL
  /\ nodeAddressMap' = [nodeAddressMap EXCEPT ![want[c].partition] = Unknown]
  /\ connectionFailedPreviously' = TRUE
  /\ Return(c)
  /\ UNCHANGED <<masterAddress, lastSelectedMember, connectionTrialCounter,
                 masterCacheCounter, info, answer, history, calls, cluster>>
-----------------------------------------------------------------------------
Step(c) ==
  \/ Lock(c) \/ Answer(c)
  \/ FailFast(c) \/ Prepare(c) \/ Receive(c) \/ ReceiveFails(c)
  \/ Connect(c) \/ Redirect(c) \/ ConnectFails(c)
  \/ Fetch(c) \/ FetchFails(c)

Next ==
  \/ Change
  \/ \E n \in Node : Learn(n)
  \/ \E c \in Context :
       Step(c) \/ InvalidateMaster(c) \/ \E w \in Want : Call(c, w)

Spec == Init /\ [][Next]_vars

(* A call that has begun goes on: in particular each exchange with a node   *)
(* ends, which the client cannot see to (a node that answers heartbeats and *)
(* nothing else holds it: see NodeConnection).  And every node learns of    *)
(* the master in the end.                                                   *)
FairSpec ==
  /\ Spec
  /\ \A c \in Context : WF_vars(Step(c))
  /\ \A n \in Node : WF_vars(Learn(n))

-----------------------------------------------------------------------------
(* Every variable has its type; NULL stands for the value not known. *)
TypeOK ==
  /\ masterAddress \in Node \cup {NULL}
  /\ masterConnection \in Node \cup {NULL}
  /\ nodeAddressMap \in [Partition ->
       [owner : Node \cup {NULL}, backups : SUBSET Node, stamp : Nat]]
  /\ lastSelectedMember \in 0 .. Len(Member)
  /\ connectionTrialCounter \in Nat
  /\ connectionFailedPreviously \in BOOLEAN
  /\ masterCacheCounter \in Nat \ {0}
  /\ mutex \in Context \cup {NULL}
  /\ pc \in [Context -> {"idle", "lock", "prepare", "receive", "connect",
                         "fetch", "answer"}]
  /\ want \in [Context -> Want]
  /\ start \in [Context -> Nat]
  /\ partitionCount \in [Context -> Nat \cup {NULL}]
  /\ byConnection \in [Context -> BOOLEAN]
  /\ lastMasterCacheCounter \in [Context -> Nat]
  /\ answer \in [Context -> [address : Node \cup {NULL}, stamp : Nat]]
  /\ seen \in [Context -> Nat] /\ avoid \in [Context -> Nat]
  /\ fetches \in Nat /\ calls \in Nat
  /\ up \in SUBSET Node /\ leader \in Node /\ belief \in [Node -> Node]
  /\ placement \in [Partition -> Placement] /\ changes \in Nat
  /\ multicast \in BOOLEAN

(* A context that reports an address useless is never given an answer that  *)
(* the resolver had when it gave that address: what it reads next was       *)
(* fetched afterwards, also when another context's report or failure came   *)
(* first and its own was ignored for the masterCacheCounter_.               *)
FreshAfterReport ==
  \A c \in Context, p \in Partition :
    Cached(p) => nodeAddressMap[p].stamp > avoid[c]

(* The assertions and dereferences of the calls: there is a connection when *)
(* a partition is asked for, and each call that succeeds has what it        *)
(* returns; the "Empty address" of getNodeAddress never comes.              *)
ReadyToAnswer ==
  \A c \in Context :
    /\ pc[c] = "fetch" => masterConnection # NULL
    /\ pc[c] = "answer" =>
         CASE want[c].kind = "count" -> partitionCount[c] # NULL
           [] want[c].kind = "master" -> masterAddress # NULL
           [] want[c].kind = "node" -> NULL \notin Choices(want[c])

(* A partition count outside a call is one that a node confirmed on a       *)
(* connection: a count from a notification alone is dropped when the call   *)
(* that received it fails.                                                  *)
OnlyConfirmedCounts ==
  \A c \in Context :
    pc[c] = "idle" /\ partitionCount[c] # NULL => byConnection[c]

(* The number of partitions that a connection has confirmed. *)
Learned == [c \in Context |-> IF byConnection[c] THEN partitionCount[c] ELSE NULL]

Promise == INSTANCE Directory WITH known <- nodeAddressMap, reads <- fetches, count <- Learned

(* To the contexts that share it the resolver is a Directory: an address is *)
(* told as the master last knew it at one moment, to a context that has     *)
(* reported one only when it was read after that, with whatever reports,    *)
(* failures and calls of the others in between; and the count that a        *)
(* connection confirmed is the context's for good, so that no container     *)
(* moves to another partition.                                              *)
ImplementsDirectory == Promise!Spec

(* Every call ends, with an answer or an exception, once the nodes agree on *)
(* who the master is; until then a call may follow the redirections of      *)
(* updateConnectionAndClusterInfo without end, with mutex_ held.            *)
EveryCallEnds ==
  \A c \in Context : pc[c] # "idle" ~> pc[c] = "idle"
=============================================================================
