------------------------- MODULE NodeResolverProofs -------------------------
(***************************************************************************)
(* The safety properties of NodeResolver for any contexts, nodes, bounds   *)
(* and member addresses.  The argument rests on the mutex: between two     *)
(* steps of a call nothing of the resolver changes, so that what one step  *)
(* establishes holds at the next.                                          *)
(***************************************************************************)
EXTENDS NodeResolver, MemberProvider, FiniteSetTheorems, TLAPS

(* A call past its start holds the mutex. *)
Exclusion ==
  \A c \in Context : pc[c] \notin {"idle", "lock"} => mutex = c

(* A call that connects has an address to connect to. *)
MasterNamed ==
  \A c \in Context : pc[c] = "connect" => masterAddress # NULL \/ ~ multicast

(* Only a call for a node asks for a partition. *)
NodeWanted == \A c \in Context : pc[c] = "fetch" => want[c].kind = "node"

(* Only a call between the notification and the reply on the connection has *)
(* a count that is not confirmed. *)
Confirmed ==
  \A c \in Context :
    /\ byConnection[c] => partitionCount[c] # NULL
    /\ partitionCount[c] # NULL /\ pc[c] # "connect" => byConnection[c]

(* The counter tells the contexts whether what they saw is still there: for *)
(* a context with an older counter every entry is newer than its answers.   *)
Fresh ==
  /\ \A p \in Partition : nodeAddressMap[p].stamp <= fetches
  /\ \A c \in Context : avoid[c] <= seen[c] /\ seen[c] <= fetches
  /\ \A c \in Context, p \in Partition :
       Cached(p) /\ lastMasterCacheCounter[c] # masterCacheCounter
         => nodeAddressMap[p].stamp > seen[c]

IInv == TypeOK /\ Exclusion /\ MasterNamed /\ NodeWanted /\ ReadyToAnswer /\ Confirmed
          /\ Fresh /\ FreshAfterReport

-----------------------------------------------------------------------------
(* The steps of one context, by what they are called. *)
LEMMA NextSplit ==
  ASSUME Next
  PROVE  \/ Change
         \/ \E n \in Node : Learn(n)
         \/ \E c \in Context : InvalidateMaster(c)
         \/ \E c \in Context, w \in Want : Call(c, w)
         \/ \E c \in Context : Lock(c)
         \/ \E c \in Context : Answer(c)
         \/ \E c \in Context : FailFast(c)
         \/ \E c \in Context : Prepare(c)
         \/ \E c \in Context : Receive(c)
         \/ \E c \in Context : ReceiveFails(c)
         \/ \E c \in Context : Connect(c)
         \/ \E c \in Context : Redirect(c)
         \/ \E c \in Context : ConnectFails(c)
         \/ \E c \in Context : Fetch(c)
         \/ \E c \in Context : FetchFails(c)
  BY DEF Next, Step

(* The member addresses that are asked in turn. *)
LEMMA MemberAsked ==
  ASSUME lastSelectedMember \in 0 .. Len(Member)
  PROVE  /\ NextMember \in 1 .. Len(Member)
         /\ Member[NextMember] \in Node
  <1>1. Len(Member) \in Nat \ {0}
    BY ResolverAssumption
  <1>2. NextMember \in 1 .. Len(Member)
    BY <1>1 DEF NextMember
  <1> QED BY <1>1, <1>2, ResolverAssumption

LEMMA AskedNode ==
  ASSUME IInv, NEW c \in Context, pc[c] = "connect"
  PROVE  Asked \in Node
  BY MemberAsked DEF IInv, TypeOK, MasterNamed, Asked

LEMMA SelectMemberTyped ==
  ASSUME TypeOK, SelectMember
  PROVE  lastSelectedMember' \in 0 .. Len(Member)
  BY MemberAsked, ResolverAssumption DEF TypeOK, SelectMember

(* What forgetting the master leaves. *)
LEMMA Released ==
  ASSUME TypeOK, ReleaseMaster
  PROVE  /\ masterAddress' = NULL /\ masterConnection' = NULL
         /\ nodeAddressMap' \in [Partition ->
              [owner : Node \cup {NULL}, backups : SUBSET Node, stamp : Nat]]
         /\ masterCacheCounter' \in Nat \ {0}
         /\ \A p \in Partition : ~ Cached(p)' /\ nodeAddressMap'[p].stamp = 0
  BY DEF TypeOK, ReleaseMaster, Unknown, Cached

(* The end of a call. *)
Returned(c) ==
  /\ pc' \in [Context -> {"idle", "lock", "prepare", "receive", "connect",
                          "fetch", "answer"}]
  /\ want' \in [Context -> Want] /\ start' \in [Context -> Nat]
  /\ mutex' = NULL

LEMMA ReturnTyped ==
  ASSUME TypeOK, NEW c \in Context, Return(c)
  PROVE  Returned(c)
  <1>1. NoWant \in Want
    BY DEF NoWant, Want
  <1> QED BY <1>1 DEF TypeOK, Return, Returned, Goto

(* What the end of a call by an exception in the preparation changes. *)
LEMMA PrepareFailsTyped ==
  ASSUME TypeOK, NEW c \in Context, NEW e \in BOOLEAN, PrepareFails(c, e),
         lastSelectedMember' \in 0 .. Len(Member),
         connectionTrialCounter' = connectionTrialCounter
  PROVE  TypeOK'
  <1>1. partitionCount' \in [Context -> Nat \cup {NULL}]
    BY DEF TypeOK, PrepareFails, InvalidateInfo
  <1>2. lastMasterCacheCounter' \in [Context -> Nat]
    BY DEF TypeOK, PrepareFails, ClearCounter
  <1>3. /\ masterAddress' \in Node \cup {NULL}
        /\ masterConnection' \in Node \cup {NULL}
        /\ nodeAddressMap' \in [Partition ->
             [owner : Node \cup {NULL}, backups : SUBSET Node, stamp : Nat]]
        /\ masterCacheCounter' \in Nat \ {0}
        /\ connectionFailedPreviously' \in BOOLEAN
    BY Released DEF TypeOK, PrepareFails
  <1>4. Returned(c)
    BY ReturnTyped DEF PrepareFails
  <1> QED BY <1>1, <1>2, <1>3, <1>4
        DEF TypeOK, PrepareFails, Returned, history, cluster

-----------------------------------------------------------------------------
(* Type correctness of a step. *)
LEMMA TypeStep == IInv /\ [Next]_vars => TypeOK'
  <1> SUFFICES ASSUME IInv, [Next]_vars PROVE TypeOK'
    OBVIOUS
  <1>0. TypeOK
    BY DEF IInv
  <1>a. CASE Change
    <2>1. changes' \in Nat
      BY <1>0, <1>a, ResolverAssumption DEF Change, TypeOK
    <2>2. up' \in SUBSET Node
      BY <1>0, <1>a DEF Change, TypeOK
    <2>5. leader' \in Node
      BY <1>0, <1>a DEF Change, TypeOK
    <2>6. belief' = [belief EXCEPT ![leader'] = leader'] \/ belief' = belief
      BY <1>a DEF Change
    <2>7. \A l \in Node : [belief EXCEPT ![l] = l] \in [Node -> Node]
      BY <1>0 DEF TypeOK
    <2>3. leader' \in Node /\ belief' \in [Node -> Node]
      BY <1>0, <2>5, <2>6, <2>7 DEF TypeOK
    <2>4. placement' \in [Partition -> Placement]
      BY <1>0, <1>a DEF Change, TypeOK
    <2> QED BY <1>0, <1>a, <2>1, <2>2, <2>3, <2>4
          DEF Change, TypeOK, master, counters, info, history
  <1>b. ASSUME NEW n \in Node, Learn(n) PROVE TypeOK'
    BY <1>0, <1>b DEF Learn, TypeOK, master, counters, info, history
  <1>c. ASSUME NEW c \in Context, InvalidateMaster(c) PROVE TypeOK'
    <2>1. partitionCount' \in [Context -> Nat \cup {NULL}]
          /\ lastMasterCacheCounter' \in [Context -> Nat]
      BY <1>0, <1>c DEF TypeOK, InvalidateMaster, InvalidateInfo, ClearCounter
    <2>2. /\ masterAddress' \in Node \cup {NULL}
          /\ masterConnection' \in Node \cup {NULL}
          /\ nodeAddressMap' \in [Partition ->
               [owner : Node \cup {NULL}, backups : SUBSET Node, stamp : Nat]]
          /\ masterCacheCounter' \in Nat \ {0}
      BY <1>0, <1>c, Released DEF TypeOK, InvalidateMaster
    <2>3. avoid' \in [Context -> Nat] /\ calls' \in Nat
      BY <1>0, <1>c DEF TypeOK, InvalidateMaster
    <2> QED BY <1>0, <1>c, <2>1, <2>2, <2>3 DEF TypeOK, InvalidateMaster, cluster
  <1>d. ASSUME NEW c \in Context, NEW w \in Want, Call(c, w) PROVE TypeOK'
    <2>1. want' \in [Context -> Want] /\ start' \in [Context -> Nat]
          /\ calls' \in Nat
      BY <1>0, <1>d DEF TypeOK, Call
    <2>2. pc' \in [Context -> {"idle", "lock", "prepare", "receive", "connect",
                               "fetch", "answer"}]
      BY <1>0, <1>d DEF TypeOK, Call, Goto
    <2> QED BY <1>0, <1>d, <2>1, <2>2
          DEF TypeOK, Call, master, counters, info, history, cluster
  <1>e. ASSUME NEW c \in Context, Lock(c) PROVE TypeOK'
    <2>1. want[c].kind \in {"count", "master", "node"}
      BY <1>0 DEF TypeOK, Want
    <2>2. pc' \in [Context -> {"idle", "lock", "prepare", "receive", "connect",
                               "fetch", "answer"}]
      BY <1>0, <1>e, <2>1 DEF TypeOK, Lock, Goto
    <2> QED BY <1>0, <1>e, <2>2
          DEF TypeOK, Lock, master, counters, info, history, cluster
  <1>f. ASSUME NEW c \in Context, Answer(c) PROVE TypeOK'
    <2>1. Returned(c)
      BY <1>0, <1>f, ReturnTyped DEF Answer
    <2>2. lastMasterCacheCounter' \in [Context -> Nat]
      BY <1>0, <1>f DEF TypeOK, Answer
    <2>3. answer' \in [Context -> [address : Node \cup {NULL}, stamp : Nat]]
          /\ seen' \in [Context -> Nat]
      <3>1. CASE want[c].kind = "node"
        <4>1. want[c].partition \in Partition
          BY <1>0, <3>1 DEF TypeOK, Want
        <4>2. Choices(want[c]) \subseteq Node \cup {NULL}
              /\ nodeAddressMap[want[c].partition].stamp \in Nat
          BY <1>0, <4>1 DEF TypeOK, Choices
        <4>3. PICK address \in Choices(want[c]) :
                answer' = [answer EXCEPT ![c] =
                  [address |-> address,
                   stamp |-> nodeAddressMap[want[c].partition].stamp]]
          BY <1>f, <3>1 DEF Answer
        <4>4. [address |-> address,
               stamp |-> nodeAddressMap[want[c].partition].stamp]
                \in [address : Node \cup {NULL}, stamp : Nat]
          BY <4>2
        <4>5. answer' \in [Context -> [address : Node \cup {NULL}, stamp : Nat]]
          BY <1>0, <4>3, <4>4 DEF TypeOK
        <4> QED BY <1>0, <1>f, <3>1, <4>5 DEF TypeOK, Answer
      <3>2. CASE want[c].kind # "node"
        BY <1>0, <1>f, <3>2 DEF TypeOK, Answer
      <3> QED BY <3>1, <3>2
    <2> QED BY <1>0, <1>f, <2>1, <2>2, <2>3
          DEF TypeOK, Answer, Returned, master, counters, cluster
  <1>g. ASSUME NEW c \in Context, FailFast(c) PROVE TypeOK'
    BY <1>0, <1>g, PrepareFailsTyped DEF FailFast, TypeOK
  <1>h. ASSUME NEW c \in Context, Prepare(c) PROVE TypeOK'
    <2>1. pc' \in [Context -> {"idle", "lock", "prepare", "receive", "connect",
                               "fetch", "answer"}]
      BY <1>0, <1>h DEF TypeOK, Prepare, Goto
    <2>2. connectionTrialCounter' \in Nat
      BY <1>0, <1>h, ResolverAssumption DEF TypeOK, Prepare, NextTrial
    <2> QED BY <1>0, <1>h, <2>1, <2>2
          DEF TypeOK, Prepare, master, info, history, cluster
  <1>i. ASSUME NEW c \in Context, Receive(c) PROVE TypeOK'
    <2>1. PICK n \in up : /\ Accept(c, PartitionCount[n], FALSE)
                          /\ masterAddress' = n
      BY <1>i DEF Receive
    <2>2. n \in Node /\ PartitionCount[n] \in Nat
      BY <1>0, <2>1, ResolverAssumption DEF TypeOK
    <2>3. partitionCount' \in [Context -> Nat \cup {NULL}]
      BY <1>0, <2>1, <2>2 DEF TypeOK, Accept
    <2>4. byConnection' \in [Context -> BOOLEAN]
      BY <1>0, <2>1 DEF TypeOK, Accept
    <2>5. pc' \in [Context -> {"idle", "lock", "prepare", "receive", "connect",
                               "fetch", "answer"}]
      BY <1>0, <1>i DEF TypeOK, Receive, Goto
    <2> QED BY <1>0, <1>i, <2>1, <2>2, <2>3, <2>4, <2>5
          DEF TypeOK, Receive, history, cluster
  <1>j. ASSUME NEW c \in Context, ReceiveFails(c) PROVE TypeOK'
    BY <1>0, <1>j, PrepareFailsTyped DEF ReceiveFails, TypeOK
  <1>k. ASSUME NEW c \in Context, Connect(c) PROVE TypeOK'
    <2>1. Asked \in Node /\ belief[Asked] \in Node /\ PartitionCount[Asked] \in Nat
      BY <1>0, <1>k, AskedNode, ResolverAssumption DEF Connect, TypeOK
    <2>3. partitionCount' \in [Context -> Nat \cup {NULL}]
      BY <1>0, <1>k, <2>1 DEF TypeOK, Connect, Accept
    <2>4. byConnection' \in [Context -> BOOLEAN]
      BY <1>0, <1>k DEF TypeOK, Connect, Accept
    <2>5. pc' \in [Context -> {"idle", "lock", "prepare", "receive", "connect",
                               "fetch", "answer"}]
      BY <1>0, <1>k DEF TypeOK, Connect, Goto, AfterPrepare
    <2>6. lastSelectedMember' \in 0 .. Len(Member)
      BY <1>0, <1>k, SelectMemberTyped DEF Connect
    <2> QED BY <1>0, <1>k, <2>1, <2>3, <2>4, <2>5, <2>6
          DEF TypeOK, Connect, history, cluster
  <1>l. ASSUME NEW c \in Context, Redirect(c) PROVE TypeOK'
    <2>1. belief[Asked] \in Node
      BY <1>0, <1>l, AskedNode DEF Redirect, TypeOK
    <2>2. connectionTrialCounter' \in Nat
      BY <1>0, <1>l, ResolverAssumption DEF TypeOK, Redirect, NextTrial
    <2>3. lastSelectedMember' \in 0 .. Len(Member)
      BY <1>0, <1>l, SelectMemberTyped DEF Redirect
    <2> QED BY <1>0, <1>l, <2>1, <2>2, <2>3
          DEF TypeOK, Redirect, info, history, cluster
  <1>m. ASSUME NEW c \in Context, ConnectFails(c) PROVE TypeOK'
    <2>1. lastSelectedMember' \in 0 .. Len(Member)
      BY <1>0, <1>m, SelectMemberTyped DEF ConnectFails
    <2> QED BY <1>0, <1>m, <2>1, PrepareFailsTyped DEF ConnectFails
  <1>n. ASSUME NEW c \in Context, Fetch(c) PROVE TypeOK'
    <2>1. masterConnection \in Node /\ PartitionCount[masterConnection] \in Nat
      BY <1>0, <1>n, ResolverAssumption DEF Fetch, TypeOK
    <2>2. fetches' \in Nat
      BY <1>0, <1>n DEF Fetch, TypeOK
    <2>3. partitionCount' \in [Context -> Nat \cup {NULL}]
      BY <1>0, <1>n, <2>1 DEF TypeOK, Fetch, Accept
    <2>4. byConnection' \in [Context -> BOOLEAN]
      BY <1>0, <1>n DEF TypeOK, Fetch, Accept
    <2>5. pc' \in [Context -> {"idle", "lock", "prepare", "receive", "connect",
                               "fetch", "answer"}]
      BY <1>0, <1>n DEF TypeOK, Fetch, Goto
    <2>6. nodeAddressMap' \in [Partition ->
            [owner : Node \cup {NULL}, backups : SUBSET Node, stamp : Nat]]
      <3>1. \A p \in Partition : placement[p] \in [owner : Node \cup {NULL}, backups : SUBSET Node]
        BY <1>0, ResolverAssumption DEF TypeOK
      <3> QED BY <1>0, <1>n, <2>2, <3>1 DEF TypeOK, Fetch
    <2> QED BY <1>0, <1>n, <2>2, <2>3, <2>4, <2>5, <2>6
          DEF TypeOK, Fetch, cluster
  <1>o. ASSUME NEW c \in Context, FetchFails(c) PROVE TypeOK'
    <2>1. nodeAddressMap' \in [Partition ->
            [owner : Node \cup {NULL}, backups : SUBSET Node, stamp : Nat]]
      BY <1>0, <1>o DEF TypeOK, FetchFails, Unknown
    <2>2. Returned(c)
      BY <1>0, <1>o, ReturnTyped DEF FetchFails
    <2> QED BY <1>0, <1>o, <2>1, <2>2
          DEF TypeOK, FetchFails, Returned, info, history, cluster
  <1>p. CASE UNCHANGED vars
    BY <1>0, <1>p DEF TypeOK, vars, master, counters, info, history, cluster
  <1> QED BY NextSplit, <1>a, <1>b, <1>c, <1>d, <1>e, <1>f, <1>g, <1>h, <1>i,
             <1>j, <1>k, <1>l, <1>m, <1>n, <1>o, <1>p

-----------------------------------------------------------------------------
(* What the other contexts do not notice of a call that holds the mutex. *)
LEMMA ExclusionStep == IInv /\ [Next]_vars => Exclusion'
  <1> SUFFICES ASSUME IInv, [Next]_vars PROVE Exclusion'
    OBVIOUS
  <1> USE DEF IInv, TypeOK, Exclusion, Goto
  <1>1. CASE \/ Change
             \/ \E n \in Node : Learn(n)
             \/ \E c \in Context : InvalidateMaster(c)
             \/ \E c \in Context : Redirect(c)
             \/ UNCHANGED vars
    BY <1>1 DEF Change, Learn, InvalidateMaster, Redirect, vars
  <1>2. ASSUME NEW c \in Context, NEW w \in Want, Call(c, w) PROVE Exclusion'
    BY <1>2 DEF Call
  <1>3. ASSUME NEW c \in Context, Lock(c) PROVE Exclusion'
    BY <1>3, ResolverAssumption DEF Lock
  <1>4. ASSUME NEW c \in Context,
               \/ Answer(c) \/ FailFast(c) \/ ReceiveFails(c)
               \/ ConnectFails(c) \/ FetchFails(c)
        PROVE  Exclusion'
    <2>1. mutex = c /\ pc' = [pc EXCEPT ![c] = "idle"]
      BY <1>4 DEF Answer, FailFast, ReceiveFails, ConnectFails, FetchFails,
                  PrepareFails, Return
    <2>2. \A d \in Context : d # c => pc[d] \in {"idle", "lock"}
      BY <2>1
    <2> QED BY <2>1, <2>2
  <1>5. ASSUME NEW c \in Context,
               Prepare(c) \/ Receive(c) \/ Connect(c) \/ Fetch(c)
        PROVE  Exclusion'
    <2>1. mutex' = mutex /\ pc[c] \notin {"idle", "lock"}
          /\ \A d \in Context : d # c => pc'[d] = pc[d]
      BY <1>5 DEF Prepare, Receive, Connect, Fetch
    <2> QED BY <2>1
  <1> QED BY NextSplit, <1>1, <1>2, <1>3, <1>4, <1>5

(* A step of the holder of the mutex finds the others outside. *)
LEMMA OthersOutside ==
  ASSUME Exclusion, NEW c \in Context, pc[c] \notin {"idle", "lock"}
  PROVE  \A d \in Context : d # c => pc[d] \in {"idle", "lock"}
  BY DEF Exclusion

(* A failing call leaves no call that depends on what it dropped. *)
LEMMA AllOutside ==
  ASSUME IInv, NEW c \in Context,
         \/ FailFast(c) \/ ReceiveFails(c) \/ ConnectFails(c) \/ FetchFails(c)
         \/ Answer(c) \/ InvalidateMaster(c)
  PROVE  \A d \in Context : pc'[d] \in {"idle", "lock"}
  <1> USE DEF IInv, TypeOK, Goto
  <1>1. CASE InvalidateMaster(c)
    <2>1. mutex = NULL /\ pc' = pc
      BY <1>1 DEF InvalidateMaster
    <2> QED BY <2>1, ResolverAssumption DEF Exclusion
  <1>2. CASE ~ InvalidateMaster(c)
    <2>1. pc[c] \notin {"idle", "lock"} /\ pc' = [pc EXCEPT ![c] = "idle"]
      BY <1>2 DEF Answer, FailFast, ReceiveFails, ConnectFails, FetchFails,
                  PrepareFails, Return
    <2> QED BY <2>1, OthersOutside
  <1> QED BY <1>1, <1>2

(* The mode is a setting: no step changes it. *)
LEMMA ModeStays ==
  ASSUME [Next]_vars
  PROVE  multicast' = multicast
  BY NextSplit
     DEF vars, cluster, Change, Learn, InvalidateMaster, Call, Lock, Answer,
         FailFast, Prepare, Receive, ReceiveFails, Connect, Redirect,
         ConnectFails, Fetch, FetchFails, PrepareFails

LEMMA MasterNamedStep == IInv /\ [Next]_vars => MasterNamed'
  <1> SUFFICES ASSUME IInv, [Next]_vars PROVE MasterNamed'
    OBVIOUS
  <1> USE DEF MasterNamed
  <1>0. multicast' = multicast
    BY ModeStays
  <1>1. CASE \/ Change
             \/ \E n \in Node : Learn(n)
             \/ UNCHANGED vars
    BY <1>0, <1>1 DEF IInv, Change, Learn, vars, master
  <1>2. ASSUME NEW c \in Context,
               \/ FailFast(c) \/ ReceiveFails(c) \/ ConnectFails(c)
               \/ FetchFails(c) \/ Answer(c) \/ InvalidateMaster(c)
        PROVE  MasterNamed'
    BY <1>2, AllOutside
  <1>3. ASSUME NEW c \in Context, NEW w \in Want, Call(c, w) PROVE MasterNamed'
    BY <1>0, <1>3 DEF IInv, TypeOK, Call, Goto, master
  <1>4. ASSUME NEW c \in Context, Lock(c) PROVE MasterNamed'
    <2>1. want[c].kind \in {"count", "master", "node"}
      BY DEF IInv, TypeOK, Want
    <2>2. pc'[c] # "connect"
      BY <1>4, <2>1 DEF IInv, TypeOK, Lock, Goto
    <2> QED BY <1>0, <1>4, <2>2 DEF IInv, TypeOK, Lock, Goto, master
  <1>5. ASSUME NEW c \in Context,
               Prepare(c) \/ Receive(c) \/ Connect(c) \/ Redirect(c) \/ Fetch(c)
        PROVE  MasterNamed'
    <2>1. \A d \in Context : d # c => pc'[d] \in {"idle", "lock"}
      BY <1>5, OthersOutside
         DEF IInv, TypeOK, Prepare, Receive, Connect, Redirect, Fetch, Goto
    <2>2. pc'[c] = "connect" => masterAddress' # NULL \/ ~ multicast
      <3>1. CASE Prepare(c)
        BY <1>0, <3>1 DEF IInv, TypeOK, Prepare, Goto, master
      <3>2. CASE Receive(c)
        BY <3>2, ResolverAssumption DEF IInv, TypeOK, Receive
      <3>3. CASE Connect(c)
        BY <3>3 DEF IInv, TypeOK, Connect, Goto, AfterPrepare
      <3>4. CASE Redirect(c)
        BY <3>4, AskedNode, ResolverAssumption DEF IInv, TypeOK, Redirect
      <3>5. CASE Fetch(c)
        BY <3>5 DEF IInv, TypeOK, Fetch, Goto
      <3> QED BY <1>5, <3>1, <3>2, <3>3, <3>4, <3>5
    <2> QED BY <1>0, <2>1, <2>2
  <1> QED BY NextSplit, <1>1, <1>2, <1>3, <1>4, <1>5

LEMMA NodeWantedStep == IInv /\ [Next]_vars => NodeWanted'
  <1> SUFFICES ASSUME IInv, [Next]_vars PROVE NodeWanted'
    OBVIOUS
  <1> USE DEF NodeWanted, IInv, TypeOK, Goto
  <1>1. CASE \/ Change
             \/ \E n \in Node : Learn(n)
             \/ UNCHANGED vars
    BY <1>1 DEF Change, Learn, vars
  <1>2. ASSUME NEW c \in Context,
               \/ FailFast(c) \/ ReceiveFails(c) \/ ConnectFails(c)
               \/ FetchFails(c) \/ Answer(c) \/ InvalidateMaster(c)
        PROVE  NodeWanted'
    BY <1>2, AllOutside
  <1>3. ASSUME NEW c \in Context, NEW w \in Want, Call(c, w) PROVE NodeWanted'
    BY <1>3 DEF Call
  <1>4. ASSUME NEW c \in Context, Lock(c) PROVE NodeWanted'
    <2>1. want[c].kind \in {"count", "master", "node"}
      BY DEF Want
    <2> QED BY <1>4, <2>1 DEF Lock
  <1>5. ASSUME NEW c \in Context,
               Prepare(c) \/ Receive(c) \/ Redirect(c) \/ Fetch(c)
        PROVE  NodeWanted'
    BY <1>5 DEF Prepare, Receive, Redirect, Fetch
  <1>6. ASSUME NEW c \in Context, Connect(c) PROVE NodeWanted'
    BY <1>6 DEF Connect, AfterPrepare
  <1> QED BY NextSplit, <1>1, <1>2, <1>3, <1>4, <1>5, <1>6

LEMMA ReadyStep == IInv /\ [Next]_vars => ReadyToAnswer'
  <1> SUFFICES ASSUME IInv, [Next]_vars PROVE ReadyToAnswer'
    OBVIOUS
  <1> USE DEF ReadyToAnswer
  <1>1. CASE \/ Change
             \/ \E n \in Node : Learn(n)
             \/ UNCHANGED vars
    BY <1>1 DEF IInv, Change, Learn, vars, master, info, Choices
  <1>2. ASSUME NEW c \in Context,
               \/ FailFast(c) \/ ReceiveFails(c) \/ ConnectFails(c)
               \/ FetchFails(c) \/ Answer(c) \/ InvalidateMaster(c)
        PROVE  ReadyToAnswer'
    BY <1>2, AllOutside
  <1>3. ASSUME NEW c \in Context, NEW w \in Want, Call(c, w) PROVE ReadyToAnswer'
    BY <1>3 DEF IInv, TypeOK, Call, Goto, master, info, Choices
  <1>4. ASSUME NEW c \in Context, Lock(c) PROVE ReadyToAnswer'
    <2>1. want[c].kind \in {"count", "master", "node"}
          /\ (want[c].kind = "node" => want[c].partition \in Partition)
      BY DEF IInv, TypeOK, Want
    <2>2. \A d \in Context : d # c => pc'[d] = pc[d]
      BY <1>4 DEF IInv, TypeOK, Lock, Goto
    <2>3. pc[c] = "lock" /\ pc'[c] = CASE want[c].kind = "count" -> "prepare"
              [] want[c].kind = "master" ->
                   IF masterAddress = NULL THEN "prepare" ELSE "answer"
              [] want[c].kind = "node" ->
                   IF Cached(want[c].partition) THEN "answer"
                   ELSE IF masterConnection = NULL \/ partitionCount[c] = NULL
                        THEN "prepare" ELSE "fetch"
      BY <1>4 DEF IInv, TypeOK, Lock, Goto
    <2>4. UNCHANGED <<masterAddress, masterConnection, nodeAddressMap, want,
                      partitionCount>>
      BY <1>4 DEF Lock, master, info
    <2>5. Cached(want[c].partition) /\ want[c].kind = "node"
            => NULL \notin Choices(want[c])
      BY <2>1, ResolverAssumption DEF IInv, TypeOK, Cached, Choices
    <2>6. Choices(want[c])' = Choices(want[c])
      BY <2>4 DEF Choices
    <2>7. \A d \in Context : Choices(want[d])' = Choices(want[d])
      BY <2>4 DEF Choices
    <2> QED BY <2>1, <2>2, <2>3, <2>4, <2>5, <2>6, <2>7 DEF IInv
  <1>5. ASSUME NEW c \in Context,
               Prepare(c) \/ Receive(c) \/ Connect(c) \/ Redirect(c) \/ Fetch(c)
        PROVE  ReadyToAnswer'
    <2>1. \A d \in Context : d # c => pc'[d] \in {"idle", "lock"}
      BY <1>5, OthersOutside
         DEF IInv, TypeOK, Prepare, Receive, Connect, Redirect, Fetch, Goto
    <2>2. CASE Prepare(c) \/ Receive(c) \/ Redirect(c)
      <3>1. pc'[c] \in {"receive", "connect"}
        BY <2>2 DEF IInv, TypeOK, Prepare, Receive, Redirect, Goto
      <3> QED BY <2>1, <3>1
    <2>3. CASE Connect(c)
      <3>1. Asked \in Node /\ PartitionCount[Asked] \in Nat
            /\ belief[Asked] \in Node
        BY <2>3, AskedNode, ResolverAssumption DEF IInv, TypeOK, Connect
      <3>2. /\ masterConnection' # NULL /\ masterAddress' # NULL
            /\ partitionCount'[c] # NULL
        BY <2>3, <3>1, ResolverAssumption DEF IInv, TypeOK, Connect, Accept
      <3>3. want' = want /\ pc'[c] = AfterPrepare(c)
        BY <2>3 DEF IInv, TypeOK, Connect, Goto
      <3>4. want[c].kind \in {"count", "master", "node"}
        BY DEF IInv, TypeOK, Want
      <3>5. /\ pc'[c] = "answer" => want'[c].kind \in {"count", "master"}
            /\ pc'[c] \in {"answer", "fetch"}
        BY <3>3, <3>4 DEF AfterPrepare
      <3> QED BY <2>1, <3>2, <3>5
    <2>4. CASE Fetch(c)
      <3>1. pc'[c] = "answer" /\ want' = want
        BY <2>4 DEF IInv, TypeOK, Fetch, Goto
      <3>2. want[c] \in Want
        BY DEF IInv, TypeOK
      <3>3. want[c].kind = "node" => NULL \notin Choices(want[c])'
        <4> SUFFICES ASSUME want[c].kind = "node"
                     PROVE  NULL \notin Choices(want[c])'
          OBVIOUS
        <4>1. want[c].partition \in Partition
          BY <3>2 DEF Want
        <4>2. /\ nodeAddressMap'[want[c].partition].owner
                   = placement[want[c].partition].owner
              /\ nodeAddressMap'[want[c].partition].backups
                   = placement[want[c].partition].backups
          BY <2>4, <4>1 DEF IInv, TypeOK, Fetch
        <4>3. placement[want[c].partition].backups \subseteq Node
          BY <4>1, ResolverAssumption DEF IInv, TypeOK
        <4>4. Usable(want[c])
          BY <2>4 DEF Fetch
        <4> QED BY <3>1, <4>2, <4>3, <4>4, ResolverAssumption DEF Usable, Choices
      <3>4. partitionCount'[c] # NULL
        BY <2>4, ResolverAssumption DEF IInv, TypeOK, Fetch, Accept
      <3>5. want[c].kind # "master"
        BY <2>4 DEF IInv, NodeWanted, Fetch
      <3> QED BY <2>1, <3>1, <3>2, <3>3, <3>4, <3>5 DEF Want
    <2> QED BY <1>5, <2>2, <2>3, <2>4
  <1> QED BY NextSplit, <1>1, <1>2, <1>3, <1>4, <1>5

-----------------------------------------------------------------------------
(* The partition count of a context. *)
LEMMA ConfirmedStep ==
  IInv /\ [Next]_vars =>
    /\ Confirmed'
    /\ \A c \in Context : byConnection[c] =>
         byConnection'[c] /\ partitionCount'[c] = partitionCount[c]
  <1> SUFFICES ASSUME IInv, [Next]_vars
               PROVE  /\ Confirmed'
                      /\ \A c \in Context : byConnection[c] =>
                           byConnection'[c] /\ partitionCount'[c] = partitionCount[c]
    OBVIOUS
  <1> DEFINE Goal == /\ Confirmed'
                     /\ \A c \in Context : byConnection[c] =>
                          byConnection'[c] /\ partitionCount'[c] = partitionCount[c]
  <1> USE DEF IInv, TypeOK, Confirmed, Goto
  <1>1. CASE \/ Change
             \/ \E n \in Node : Learn(n)
             \/ \E c \in Context : FetchFails(c)
             \/ \E c \in Context : Answer(c)
             \/ \E c \in Context : Redirect(c)
             \/ UNCHANGED vars
    BY <1>1 DEF Change, Learn, FetchFails, Answer, Return, Redirect, vars, info
  <1>2. ASSUME NEW c \in Context, NEW w \in Want, Call(c, w) PROVE Goal
    BY <1>2 DEF Call, info
  <1>3. ASSUME NEW c \in Context, Lock(c) \/ Prepare(c) PROVE Goal
    BY <1>3 DEF Lock, Prepare, info
  <1>4. ASSUME NEW c \in Context,
               \/ FailFast(c) \/ ReceiveFails(c) \/ ConnectFails(c)
               \/ InvalidateMaster(c)
        PROVE  Goal
    <2>1. InvalidateInfo(c) /\ byConnection' = byConnection
      BY <1>4 DEF FailFast, ReceiveFails, ConnectFails, PrepareFails,
                  InvalidateMaster
    <2>2. \A d \in Context : d # c =>
            pc[d] # "connect" /\ partitionCount'[d] = partitionCount[d]
      <3>1. CASE InvalidateMaster(c)
        BY <3>1, <2>1, AllOutside DEF InvalidateMaster, InvalidateInfo
      <3>2. CASE FailFast(c) \/ ReceiveFails(c) \/ ConnectFails(c)
        BY <3>2, <2>1, OthersOutside
           DEF FailFast, ReceiveFails, ConnectFails, InvalidateInfo
      <3> QED BY <1>4, <3>1, <3>2
    <2>3. /\ byConnection[c] => partitionCount'[c] = partitionCount[c]
          /\ partitionCount'[c] # NULL => byConnection[c]
      BY <2>1 DEF InvalidateInfo, Invalidated
    <2> QED BY <2>1, <2>2, <2>3
  <1>5. ASSUME NEW c \in Context, Receive(c) PROVE Goal
    <2>1. PICK n \in up : /\ Acceptable(c, PartitionCount[n])
                          /\ Accept(c, PartitionCount[n], FALSE)
      BY <1>5 DEF Receive
    <2>2. PartitionCount[n] # NULL
      BY ResolverAssumption
    <2>3. pc' = [pc EXCEPT ![c] = "connect"]
      BY <1>5 DEF Receive
    <2> QED BY <2>1, <2>2, <2>3 DEF Acceptable, Accept
  <1>6. ASSUME NEW c \in Context, Connect(c) \/ Fetch(c) PROVE Goal
    <2>1. PICK n \in Node : Acceptable(c, PartitionCount[n])
                            /\ Accept(c, PartitionCount[n], TRUE)
      BY <1>6, AskedNode DEF Connect, Fetch
    <2>2. PartitionCount[n] # NULL
      BY ResolverAssumption
    <2>3. \A d \in Context : d # c => pc'[d] = pc[d]
      BY <1>6 DEF Connect, Fetch
    <2> QED BY <2>1, <2>2, <2>3 DEF Acceptable, Accept
  <1> QED BY NextSplit, <1>1, <1>2, <1>3, <1>4, <1>5, <1>6

-----------------------------------------------------------------------------
(* The age of what the resolver has, and of what the contexts were told. *)
LEMMA FreshStep == IInv /\ [Next]_vars => Fresh' /\ FreshAfterReport'
  <1> SUFFICES ASSUME IInv, [Next]_vars PROVE Fresh' /\ FreshAfterReport'
    OBVIOUS
  <1> USE DEF Fresh, FreshAfterReport
  <1>0. /\ nodeAddressMap \in [Partition ->
             [owner : Node \cup {NULL}, backups : SUBSET Node, stamp : Nat]]
        /\ seen \in [Context -> Nat] /\ avoid \in [Context -> Nat]
        /\ lastMasterCacheCounter \in [Context -> Nat]
        /\ fetches \in Nat /\ masterCacheCounter \in Nat \ {0}
        /\ Fresh /\ FreshAfterReport
    BY DEF IInv, TypeOK
  <1>1. CASE UNCHANGED <<nodeAddressMap, seen, avoid, fetches,
                         lastMasterCacheCounter, masterCacheCounter>>
    BY <1>0, <1>1 DEF Cached
  <1>2. CASE \/ Change
             \/ \E n \in Node : Learn(n)
             \/ \E c \in Context, w \in Want : Call(c, w)
             \/ \E c \in Context : Lock(c)
             \/ \E c \in Context : Prepare(c)
             \/ \E c \in Context : Receive(c)
             \/ \E c \in Context : Connect(c)
             \/ \E c \in Context : Redirect(c)
             \/ UNCHANGED vars
    BY <1>1, <1>2 DEF Change, Learn, Call, Lock, Prepare, Receive, Connect,
         Redirect, vars, master, counters, info, history
  <1>3. ASSUME NEW c \in Context,
               ReleaseMaster, UNCHANGED <<seen, fetches>>,
               avoid' \in [Context -> Nat],
               \A d \in Context : avoid'[d] <= seen'[d]
        PROVE  Fresh' /\ FreshAfterReport'
    <2>1. TypeOK
      BY DEF IInv
    <2> QED BY <1>0, <1>3, <2>1, Released
  <1>4. ASSUME NEW c \in Context,
               FailFast(c) \/ ReceiveFails(c) \/ ConnectFails(c)
        PROVE  Fresh' /\ FreshAfterReport'
    <2>1. UNCHANGED <<seen, avoid, fetches>>
      BY <1>4 DEF FailFast, ReceiveFails, ConnectFails, PrepareFails, history
    <2>2. CASE ReleaseMaster
      BY <1>0, <1>3, <2>1, <2>2
    <2>3. CASE UNCHANGED <<nodeAddressMap, masterCacheCounter,
                           lastMasterCacheCounter>>
      BY <1>1, <2>1, <2>3
    <2> QED BY <1>4, <2>2, <2>3
          DEF FailFast, ReceiveFails, ConnectFails, PrepareFails
  <1>5. ASSUME NEW c \in Context, InvalidateMaster(c)
        PROVE  Fresh' /\ FreshAfterReport'
    <2>1. /\ UNCHANGED <<seen, fetches>>
          /\ avoid' = [avoid EXCEPT ![c] = seen[c]]
      BY <1>5 DEF InvalidateMaster
    <2>2. /\ avoid' \in [Context -> Nat]
          /\ \A d \in Context : avoid'[d] <= seen'[d]
      BY <1>0, <2>1
    <2>3. CASE InvalidationAccepted(c)
      BY <1>3, <1>5, <2>1, <2>2, <2>3 DEF InvalidateMaster
    <2>4. CASE ~ InvalidationAccepted(c)
      <3>1. UNCHANGED <<nodeAddressMap, masterCacheCounter,
                        lastMasterCacheCounter>>
        BY <1>5, <2>4 DEF InvalidateMaster, ClearCounter
      <3>2. lastMasterCacheCounter[c] # masterCacheCounter
        BY <2>4 DEF InvalidationAccepted
      <3>3. \A p \in Partition : Cached(p) => nodeAddressMap[p].stamp > seen[c]
        BY <1>0, <3>2
      <3> QED BY <1>0, <2>1, <2>2, <3>1, <3>3 DEF Cached
    <2> QED BY <2>3, <2>4
  <1>6. ASSUME NEW c \in Context, Answer(c) PROVE Fresh' /\ FreshAfterReport'
    <2>1. /\ UNCHANGED <<nodeAddressMap, avoid, fetches, masterCacheCounter>>
          /\ lastMasterCacheCounter' =
               [lastMasterCacheCounter EXCEPT ![c] = masterCacheCounter]
          /\ seen' = seen \/ seen' = [seen EXCEPT ![c] = fetches]
      BY <1>6 DEF Answer, master, counters
    <2>2. /\ lastMasterCacheCounter'[c] = masterCacheCounter'
          /\ seen'[c] \in {seen[c], fetches}
          /\ \A d \in Context : d # c =>
               seen'[d] = seen[d]
               /\ lastMasterCacheCounter'[d] = lastMasterCacheCounter[d]
      BY <1>0, <2>1
    <2> QED BY <1>0, <2>1, <2>2 DEF Cached
  <1>7. ASSUME NEW c \in Context, Fetch(c) PROVE Fresh' /\ FreshAfterReport'
    <2>1. /\ UNCHANGED <<seen, avoid, lastMasterCacheCounter, masterCacheCounter>>
          /\ fetches' = fetches + 1
          /\ nodeAddressMap' = [nodeAddressMap EXCEPT ![want[c].partition] =
               [owner |-> placement[want[c].partition].owner,
                backups |-> placement[want[c].partition].backups,
                stamp |-> fetches']]
      BY <1>7 DEF Fetch
    <2>2. \A p \in Partition :
            nodeAddressMap'[p] = nodeAddressMap[p]
            \/ nodeAddressMap'[p].stamp = fetches + 1
      BY <1>0, <2>1
    <2>3. \A d \in Context : seen[d] < fetches + 1 /\ avoid[d] < fetches + 1
      BY <1>0
    <2> QED BY <1>0, <2>1, <2>2, <2>3 DEF Cached
  <1>8. ASSUME NEW c \in Context, FetchFails(c)
        PROVE  Fresh' /\ FreshAfterReport'
    <2>1. /\ UNCHANGED <<seen, avoid, fetches, lastMasterCacheCounter,
                         masterCacheCounter>>
          /\ nodeAddressMap' =
               [nodeAddressMap EXCEPT ![want[c].partition] = Unknown]
      BY <1>8 DEF FetchFails, info, history
    <2>2. \A p \in Partition :
            nodeAddressMap'[p] = nodeAddressMap[p] \/ nodeAddressMap'[p] = Unknown
      BY <1>0, <2>1
    <2> QED BY <1>0, <2>1, <2>2 DEF Cached, Unknown
  <1> QED BY NextSplit, <1>2, <1>4, <1>5, <1>6, <1>7, <1>8

-----------------------------------------------------------------------------
LEMMA InitIInv == Init => IInv
  <1> SUFFICES ASSUME Init PROVE IInv
    OBVIOUS
  <1>1. TypeOK
    <2>1. want \in [Context -> Want]
      BY DEF Init, Want, NoWant
    <2>2. lastSelectedMember \in 0 .. Len(Member)
      BY ResolverAssumption DEF Init
    <2>5. /\ nodeAddressMap \in [Partition ->
               [owner : Node \cup {NULL}, backups : SUBSET Node, stamp : Nat]]
          /\ answer \in [Context -> [address : Node \cup {NULL}, stamp : Nat]]
      BY DEF Init, Unknown
    <2>6. /\ partitionCount \in [Context -> Nat \cup {NULL}]
          /\ lastSelectedMember \in 0 .. Len(Member)
      BY <2>2 DEF Init
    <2>3. up \in SUBSET Node /\ leader \in Node /\ belief \in [Node -> Node]
          /\ placement \in [Partition -> Placement]
      BY DEF Init
    <2>7. /\ masterAddress \in Node \cup {NULL}
          /\ masterConnection \in Node \cup {NULL}
          /\ mutex \in Context \cup {NULL}
      BY DEF Init
    <2>10. connectionTrialCounter \in Nat /\ masterCacheCounter \in Nat \ {0}
      BY DEF Init
    <2>11. connectionFailedPreviously \in BOOLEAN
      BY DEF Init
    <2>8. /\ pc \in [Context -> {"idle", "lock", "prepare", "receive",
                                 "connect", "fetch", "answer"}]
          /\ start \in [Context -> Nat]
          /\ byConnection \in [Context -> BOOLEAN]
          /\ lastMasterCacheCounter \in [Context -> Nat]
      BY DEF Init
    <2>9. /\ seen \in [Context -> Nat] /\ avoid \in [Context -> Nat]
          /\ fetches \in Nat /\ calls \in Nat /\ changes \in Nat
      BY DEF Init
    <2>12. multicast \in BOOLEAN
      BY DEF Init
    <2> QED BY <2>12, <2>1, <2>3, <2>5, <2>6, <2>7, <2>8, <2>9, <2>10, <2>11 DEF TypeOK
  <1> QED BY <1>1 DEF Init, IInv, Exclusion, MasterNamed, NodeWanted,
        ReadyToAnswer, Confirmed, Fresh, FreshAfterReport, Cached, Unknown

LEMMA IInvStep == IInv /\ [Next]_vars => IInv'
  BY TypeStep, ExclusionStep, MasterNamedStep, NodeWantedStep, ReadyStep,
     ConfirmedStep, FreshStep DEF IInv

(* The inductive invariant holds in every reachable state. *)
THEOREM ResolverInvariant == Spec => []IInv
  BY InitIInv, IInvStep, PTL DEF Spec

(* Every variable of the resolver, of its contexts and of the cluster keeps *)
(* its type. *)
THEOREM ResolverTypeCorrect == Spec => []TypeOK
  BY ResolverInvariant, PTL DEF IInv

(* invalidateMaster, called or ignored, leaves nothing that the context had *)
(* been told before. *)
THEOREM ResolverFreshAfterReport == Spec => []FreshAfterReport
  BY ResolverInvariant, PTL DEF IInv

(* No call of the resolver lacks the connection it uses or the value it     *)
(* returns. *)
THEOREM ResolverReadyToAnswer == Spec => []ReadyToAnswer
  BY ResolverInvariant, PTL DEF IInv

(* A notification alone leaves no partition count behind. *)
THEOREM ResolverOnlyConfirmedCounts == Spec => []OnlyConfirmedCounts
  <1>1. IInv => OnlyConfirmedCounts
    BY DEF IInv, Confirmed, OnlyConfirmedCounts
  <1> QED BY <1>1, ResolverInvariant, PTL

(* The count that a connection confirmed is the context's for good: neither *)
(* an invalidation nor a node of another cluster changes it, and so no      *)
(* container moves to another partition.                                    *)
ConfirmedCountStable ==
  [][\A c \in Context :
       byConnection[c] => byConnection'[c] /\ partitionCount'[c] = partitionCount[c]]_vars

(* A context never changes a partition count that a connection confirmed. *)
THEOREM ResolverConfirmedCountStable == Spec => ConfirmedCountStable
  <1>1. IInv /\ [Next]_vars =>
          [\A c \in Context : byConnection[c] =>
             byConnection'[c] /\ partitionCount'[c] = partitionCount[c]]_vars
    BY ConfirmedStep
  <1> QED BY <1>1, ResolverInvariant, PTL DEF Spec, ConfirmedCountStable

-----------------------------------------------------------------------------
(* The resolver implements Directory. *)

(* A call that asks for a partition has a count that a connection has       *)
(* confirmed, and one that is about to return an address has an entry that  *)
(* was read after the last report of its context. *)
Delivery ==
  \A c \in Context :
    /\ pc[c] = "fetch" => byConnection[c]
    /\ pc[c] = "answer" /\ want[c].kind = "node"
         => nodeAddressMap[want[c].partition].stamp > avoid[c]

LEMMA DeliveryStep == IInv /\ Delivery /\ [Next]_vars => Delivery'
  <1> SUFFICES ASSUME IInv, Delivery, [Next]_vars PROVE Delivery'
    OBVIOUS
  <1>0. TypeOK /\ Delivery
    BY DEF IInv
  <1>1. CASE \/ Change
             \/ \E n \in Node : Learn(n)
             \/ UNCHANGED vars
    BY <1>0, <1>1 DEF Delivery, Change, Learn, vars, master, info, history
  <1>2. ASSUME NEW c \in Context,
               \/ FailFast(c) \/ ReceiveFails(c) \/ ConnectFails(c)
               \/ FetchFails(c) \/ Answer(c) \/ InvalidateMaster(c)
        PROVE  Delivery'
    BY <1>2, AllOutside DEF Delivery
  <1>3. ASSUME NEW c \in Context, NEW w \in Want, Call(c, w) PROVE Delivery'
    BY <1>0, <1>3 DEF Delivery, TypeOK, Call, Goto, master, info, history
  <1>4. ASSUME NEW c \in Context, Lock(c) PROVE Delivery'
    <2>1. want[c] \in Want
      BY <1>0 DEF TypeOK
    <2>2. UNCHANGED <<nodeAddressMap, want, byConnection, partitionCount, avoid>>
      BY <1>4 DEF Lock, master, info, history
    <2>3. \A d \in Context : d # c => pc'[d] = pc[d]
      BY <1>0, <1>4 DEF Lock, TypeOK, Goto
    <2>4. CASE want[c].kind # "node"
      <3>1. pc'[c] \in {"prepare", "answer"}
        BY <1>0, <1>4, <2>1, <2>4 DEF Lock, TypeOK, Goto, Want
      <3> QED BY <1>0, <2>2, <2>3, <2>4, <3>1 DEF Delivery
    <2>5. CASE want[c].kind = "node"
      <3>1. want[c].partition \in Partition
        BY <2>1, <2>5 DEF Want
      <3>2. pc'[c] = IF Cached(want[c].partition) THEN "answer"
                     ELSE IF masterConnection = NULL \/ partitionCount[c] = NULL
                          THEN "prepare" ELSE "fetch"
        BY <1>0, <1>4, <2>5 DEF Lock, TypeOK, Goto
      <3>3. pc'[c] = "answer" => nodeAddressMap[want[c].partition].stamp > avoid[c]
        BY <3>1, <3>2 DEF IInv, FreshAfterReport
      <3>4. pc'[c] = "fetch" => byConnection[c]
        BY <1>4, <3>2 DEF IInv, Confirmed, Lock
      <3> QED BY <1>0, <2>2, <2>3, <3>3, <3>4 DEF Delivery
    <2> QED BY <2>4, <2>5
  <1>5. ASSUME NEW c \in Context,
               Prepare(c) \/ Receive(c) \/ Connect(c) \/ Redirect(c) \/ Fetch(c)
        PROVE  Delivery'
    <2>1. \A d \in Context : d # c => pc'[d] \in {"idle", "lock"}
      BY <1>5, OthersOutside
         DEF IInv, TypeOK, Prepare, Receive, Connect, Redirect, Fetch, Goto
    <2>2. CASE Prepare(c) \/ Receive(c) \/ Redirect(c)
      <3>1. pc'[c] \in {"receive", "connect"}
        BY <1>0, <2>2 DEF TypeOK, Prepare, Receive, Redirect, Goto
      <3> QED BY <2>1, <3>1 DEF Delivery
    <2>3. CASE Connect(c)
      <3>1. want' = want /\ pc'[c] = AfterPrepare(c)
        BY <1>0, <2>3 DEF TypeOK, Connect, Goto
      <3>2. byConnection'[c]
        BY <1>0, <2>3 DEF TypeOK, Connect, Accept
      <3> QED BY <2>1, <3>1, <3>2 DEF Delivery, AfterPrepare
    <2>4. CASE Fetch(c)
      <3>1. pc'[c] = "answer" /\ UNCHANGED <<want, avoid>>
        BY <1>0, <2>4 DEF TypeOK, Fetch, Goto
      <3>2. want[c].partition \in Partition
        BY <1>0, <2>4 DEF IInv, NodeWanted, TypeOK, Want, Fetch
      <3>3. nodeAddressMap'[want[c].partition].stamp = fetches + 1
        BY <1>0, <2>4, <3>2 DEF TypeOK, Fetch
      <3>4. avoid[c] <= seen[c] /\ seen[c] <= fetches
            /\ avoid[c] \in Nat /\ seen[c] \in Nat /\ fetches \in Nat
        BY <1>0 DEF IInv, Fresh, TypeOK
      <3> QED BY <2>1, <3>1, <3>3, <3>4 DEF Delivery
    <2> QED BY <1>5, <2>2, <2>3, <2>4
  <1> QED BY NextSplit, <1>1, <1>2, <1>3, <1>4, <1>5

(* What only the resolver sees of a step. *)
Unseen == UNCHANGED <<placement, nodeAddressMap, fetches, answer, seen, avoid>>

(* A connection confirms what is there already, or nothing is confirmed. *)
LEMMA LearnedStays ==
  ASSUME IInv, byConnection' = byConnection,
         \A c \in Context : byConnection[c] => partitionCount'[c] = partitionCount[c]
  PROVE  Learned' = Learned
  BY DEF Learned

LEMMA ForgetsAll ==
  ASSUME IInv, ReleaseMaster
  PROVE  Promise!Forgetting
  <1>1. nodeAddressMap' = [p \in Partition |-> IF p \in Partition THEN Promise!Unknown
                                               ELSE nodeAddressMap[p]]
    BY DEF ReleaseMaster, Unknown, Promise!Unknown
  <1> QED BY <1>1 DEF Promise!Forgetting

LEMMA ForgetsNothing ==
  ASSUME IInv, nodeAddressMap' = nodeAddressMap
  PROVE  Promise!Forgetting
  <1>1. nodeAddressMap' = [p \in Partition |-> IF p \in {} THEN Promise!Unknown
                                               ELSE nodeAddressMap[p]]
    BY DEF IInv, TypeOK
  <1>2. {} \in SUBSET Partition
    OBVIOUS
  <1> QED BY <1>1, <1>2 DEF Promise!Forgetting

(* Each step is one of a Directory, or is not seen. *)
LEMMA DirectoryStep ==
  ASSUME IInv, Delivery, [Next]_vars
  PROVE  [Promise!Next]_(Promise!vars)
  <1>0. TypeOK
    BY DEF IInv
  <1>0a. \A c \in Context : byConnection[c] =>
           byConnection'[c] /\ partitionCount'[c] = partitionCount[c]
    BY ConfirmedStep
  <1>0b. ASSUME byConnection' = byConnection PROVE Learned' = Learned
    BY <1>0a, <1>0b, LearnedStays
  <1>1. CASE Unseen /\ byConnection' = byConnection
    BY <1>0b, <1>1 DEF Unseen, Promise!vars
  <1>2. CASE Change
    <2>1. Learned' = Learned
      BY <1>0b, <1>2 DEF Change, info
    <2> QED BY <1>2, <2>1
      DEF Change, master, info, history, Promise!Next, Promise!Move, Promise!vars
  <1>3. CASE \/ \E n \in Node : Learn(n)
             \/ \E c \in Context, w \in Want : Call(c, w)
             \/ \E c \in Context : Lock(c) \/ Prepare(c) \/ Redirect(c)
             \/ UNCHANGED vars
    BY <1>1, <1>3 DEF Unseen, Learn, Call, Lock, Prepare, Redirect, vars, master, info,
                      history, cluster
  <1>4. ASSUME NEW c \in Context, Receive(c) PROVE [Promise!Next]_(Promise!vars)
    <2>1. byConnection' = byConnection
      BY <1>0, <1>4 DEF Receive, Accept, TypeOK
    <2> QED BY <1>1, <1>4, <2>1 DEF Unseen, Receive, history, cluster
  <1>5. ASSUME NEW c \in Context, Connect(c) PROVE [Promise!Next]_(Promise!vars)
    <2>1. Unseen
      BY <1>5 DEF Connect, Unseen, history, cluster
    <2>2. Asked \in Node /\ PartitionCount[Asked] \in Nat \ {0}
      BY <1>5, AskedNode, ResolverAssumption DEF Connect
    <2>3. /\ partitionCount' = [partitionCount EXCEPT ![c] = PartitionCount[Asked]]
          /\ byConnection' = [byConnection EXCEPT ![c] = TRUE]
          /\ Acceptable(c, PartitionCount[Asked])
      BY <1>0, <1>5 DEF Connect, Accept, TypeOK
    <2>4. CASE byConnection[c]
      <3>1. byConnection' = byConnection
        BY <1>0, <2>3, <2>4 DEF TypeOK
      <3> QED BY <1>1, <2>1, <3>1
    <2>5. CASE ~ byConnection[c]
      <3>1. Learned[c] = NULL /\ Learned'[c] = PartitionCount[Asked]
        BY <1>0, <2>3, <2>5 DEF Learned, TypeOK
      <3>2. \A d \in Context : d # c => Learned'[d] = Learned[d]
        BY <1>0, <2>3 DEF Learned, TypeOK
      <3>3. Learned' = [Learned EXCEPT ![c] = Learned'[c]]
        BY <3>2 DEF Learned
      <3>4. Promise!Learn(c)
        BY <2>1, <2>2, <3>1, <3>3 DEF Promise!Learn, Unseen
      <3> QED BY <3>4 DEF Promise!Next
    <2> QED BY <2>4, <2>5
  <1>6. ASSUME NEW c \in Context, FailFast(c) \/ ReceiveFails(c) \/ ConnectFails(c)
        PROVE  [Promise!Next]_(Promise!vars)
    <2>1. PICK e \in BOOLEAN : PrepareFails(c, e)
      BY <1>6 DEF FailFast, ReceiveFails, ConnectFails
    <2>2. /\ Learned' = Learned
          /\ UNCHANGED <<placement, fetches, answer, seen, avoid>>
      BY <1>0b, <2>1 DEF PrepareFails, history, cluster
    <2>3. Promise!Forgetting
      BY <2>1, ForgetsAll, ForgetsNothing DEF PrepareFails
    <2> QED BY <2>2, <2>3 DEF Promise!Forget, Promise!Next
  <1>7. ASSUME NEW c \in Context, Fetch(c) PROVE [Promise!Next]_(Promise!vars)
    <2>1. want[c].partition \in Partition
      BY <1>0, <1>7 DEF IInv, NodeWanted, TypeOK, Want, Fetch
    <2>2. byConnection' = byConnection
      BY <1>0, <1>7 DEF Delivery, Fetch, Accept, TypeOK
    <2>3. Learned' = Learned
      BY <1>0b, <2>2
    <2>4. Promise!Read(want[c].partition)
      BY <1>7, <2>3 DEF Promise!Read, Fetch, cluster
    <2> QED BY <2>1, <2>4 DEF Promise!Next
  <1>8. ASSUME NEW c \in Context, FetchFails(c) PROVE [Promise!Next]_(Promise!vars)
    <2>1. nodeAddressMap' = [p \in Partition |->
            IF p \in {want[c].partition} \cap Partition THEN Promise!Unknown
            ELSE nodeAddressMap[p]]
      BY <1>0, <1>8 DEF FetchFails, TypeOK, Unknown, Promise!Unknown
    <2>2. Promise!Forgetting
      BY <2>1 DEF Promise!Forgetting
    <2>3. Learned' = Learned
      BY <1>0b, <1>8 DEF FetchFails, info
    <2> QED BY <1>8, <2>2, <2>3 DEF FetchFails, history, cluster, Promise!Forget, Promise!Next
  <1>9. ASSUME NEW c \in Context, Answer(c) PROVE [Promise!Next]_(Promise!vars)
    <2>1. /\ Learned' = Learned
          /\ UNCHANGED <<placement, nodeAddressMap, fetches, avoid>>
      BY <1>0b, <1>9 DEF Answer, master, cluster
    <2>2. CASE want[c].kind # "node"
      BY <1>9, <2>1, <2>2 DEF Answer, Promise!vars
    <2>3. CASE want[c].kind = "node"
      <3> DEFINE p == want[c].partition
      <3>1. p \in Partition
        BY <1>0, <2>3 DEF TypeOK, Want
      <3>2. NULL \notin Choices(want[c])
        BY <1>9, <2>3 DEF IInv, ReadyToAnswer, Answer
      <3>3. nodeAddressMap[p].stamp > avoid[c]
        BY <1>9, <2>3 DEF Delivery, Answer
      <3>4. PICK address \in Choices(want[c]) :
              answer' = [answer EXCEPT ![c] =
                           [address |-> address, stamp |-> nodeAddressMap[p].stamp]]
        BY <1>9, <2>3 DEF Answer
      <3>5. address \in ({nodeAddressMap[p].owner} \cup nodeAddressMap[p].backups) \ {NULL}
        BY <3>2, <3>4 DEF Choices
      <3>6. Promise!Tell(c, p)
        BY <1>9, <2>1, <2>3, <3>3, <3>4, <3>5 DEF Promise!Tell, Answer
      <3> QED BY <3>1, <3>6 DEF Promise!Next
    <2> QED BY <2>2, <2>3
  <1>10. ASSUME NEW c \in Context, InvalidateMaster(c) PROVE [Promise!Next]_(Promise!vars)
    <2>1. Promise!Forgetting
      BY <1>10, ForgetsAll, ForgetsNothing DEF InvalidateMaster
    <2>2. Learned' = Learned
      BY <1>0b, <1>10 DEF InvalidateMaster
    <2>3. Promise!Report(c)
      BY <1>10, <2>1, <2>2 DEF InvalidateMaster, Promise!Report, cluster
    <2> QED BY <2>3 DEF Promise!Next
  <1> QED BY NextSplit, <1>2, <1>3, <1>4, <1>5, <1>6, <1>7, <1>8, <1>9, <1>10

(* However the calls, the reports and the failures of several contexts      *)
(* follow each other (getNodeAddress, invalidateMaster), the resolver is to *)
(* each of them the Directory that it is to one alone.                      *)
THEOREM ResolverImplementsDirectory == Spec => ImplementsDirectory
  <1>1. Init => Delivery /\ Promise!Init
    BY DEF Init, Delivery, Learned, Unknown, Promise!Init, Promise!Unknown
  <1>2. IInv /\ Delivery /\ [Next]_vars => Delivery' /\ [Promise!Next]_(Promise!vars)
    BY DeliveryStep, DirectoryStep
  <1> QED BY <1>1, <1>2, ResolverInvariant, PTL DEF Spec, ImplementsDirectory, Promise!Spec

-----------------------------------------------------------------------------
(* In PROVIDER mode the resolver has its members from MemberProvider, whose *)
(* properties do not depend on the rest of the resolver.                    *)

(* The list of a complete answer has been given; the list of the call under *)
(* way is taken from its own answer; and only a call that has members goes  *)
(* on to take one.                                                          *)
ListsInv ==
  /\ updated.ever <=> entryList # {}
  /\ entryList \in given \cup {{}}
  /\ sent = Complete /\ reply.success => reply.list \in given
  /\ exchange = "check" =>
       outcome = "none" /\ (updated.present => entryList = reply.list /\ entryList # {})
  /\ exchange = "select" => outcome \in {"ok", "fallback"} /\ entryList # {}
  /\ outcome = "ok" => entryList = reply.list

SelectedInv ==
  /\ selected \in Int /\ selected >= -1
  /\ exchange = "idle" /\ outcome \in {"ok", "fallback"} =>
       memberCount = Cardinality(entryList) /\ selected \in 0 .. memberCount - 1

ProviderInv == ProviderTypeOK /\ ListsInv /\ SelectedInv

LEMMA ProviderInitially ==
  ASSUME ProviderInit
  PROVE  ProviderInv
  <1>1. ProviderTypeOK
    <2>1. wrote \in BOOLEAN /\ closed \in BOOLEAN
      BY DEF ProviderInit
    <2> QED BY <2>1, ProviderAssumption DEF ProviderInit, ProviderTypeOK, Part
  <1>2. ListsInv
    BY DEF ProviderInit, ListsInv, Complete
  <1>3. SelectedInv
    BY DEF ProviderInit, SelectedInv
  <1> QED BY <1>1, <1>2, <1>3 DEF ProviderInv

(* The steps of the network and of a request that reads nothing leave the  *)
(* lists, what is known of them and the member alone.                      *)
SameLists ==
  /\ UNCHANGED <<exchange, outcome, selected, memberCount, entryList, updated, reply>>
  /\ given \subseteq given'
  /\ sent' = Complete /\ reply.success => reply.list \in given'

LEMMA SameListsKept ==
  ASSUME ProviderInv, SameLists
  PROVE  ListsInv' /\ SelectedInv'
  BY DEF ProviderInv, ListsInv, SelectedInv, SameLists

LEMMA ProviderStep ==
  ASSUME ProviderInv, [ProviderNext]_(providerVars)
  PROVE  ProviderInv'
  <1>0. ProviderTypeOK /\ ListsInv /\ SelectedInv
    BY DEF ProviderInv
  <1>1. CASE Update
    <2>1. ProviderTypeOK'
      <3>1. wrote' \in BOOLEAN /\ closed' \in BOOLEAN
        BY <1>1 DEF Update
      <3>2. updated' \in [ever : BOOLEAN, present : BOOLEAN]
        BY <1>0, <1>1 DEF Update, ProviderTypeOK, Outdated
      <3> QED BY <1>0, <1>1, <3>1, <3>2, ProviderAssumption
        DEF Update, ProviderTypeOK, Part, resolver
    <2>2. ListsInv'
      BY <1>0, <1>1 DEF Update, ListsInv, Outdated, Complete,
                        ProviderTypeOK
    <2>3. SelectedInv'
      BY <1>0, <1>1 DEF Update, SelectedInv, resolver
    <2> QED BY <2>1, <2>2, <2>3 DEF ProviderInv
  <1>2. CASE CheckConnecting \/ CheckWrites \/ ProviderAccepts
             \/ Reset \/ ProviderSends \/ ProviderCloses
    <2> USE DEF resolver, entries, request, provider
    <2>1. ProviderTypeOK'
      <3>1. CASE CheckConnecting
        BY <1>0, <3>1, ProviderAssumption
        DEF CheckConnecting, NothingRead, Later, ProviderTypeOK
      <3>2. CASE CheckWrites \/ ProviderAccepts \/ Reset
        BY <1>0, <3>2 DEF CheckWrites, ProviderAccepts, Reset,
                          ProviderTypeOK
      <3>3. CASE ProviderSends
        <4>1. sent' \in Part /\ received' \in 0 .. sent'
          BY <1>0, <3>3 DEF ProviderSends, ProviderTypeOK, Part,
                            Complete
        <4>2. given' \subseteq Lists
          BY <1>0, <3>3 DEF ProviderSends, ProviderTypeOK, Reply
        <4> QED BY <1>0, <3>3, <4>1, <4>2 DEF ProviderSends, ProviderTypeOK
      <3>4. CASE ProviderCloses
        BY <1>0, <3>4 DEF ProviderCloses, ProviderTypeOK
      <3> QED BY <1>2, <3>1, <3>2, <3>3, <3>4
    <2>2. SameLists
      BY <1>0, <1>2
      DEF CheckConnecting, CheckWrites, ProviderAccepts,
          Reset, ProviderSends, ProviderCloses,
          NothingRead, SameLists, ListsInv
    <2> QED BY <2>1, <2>2, SameListsKept DEF ProviderInv
  <1>3. CASE CheckFails
    <2> USE DEF resolver, entries, request, provider
    <2>1. ProviderTypeOK'
      BY <1>0, <1>3 DEF CheckFails, Fails, CloseSocket,
                        ProviderTypeOK
    <2>2. ListsInv'
      BY <1>0, <1>3 DEF CheckFails, Fails, ListsInv
    <2>3. SelectedInv'
      BY <1>0, <1>3 DEF CheckFails, Fails, SelectedInv
    <2> QED BY <2>1, <2>2, <2>3 DEF ProviderInv
  <1>4. CASE CheckReads
    <2> DEFINE result == Parse(reply, sent, Eof)
    <2> USE DEF resolver, entries, request, provider
    <2>1. received' \in 0 .. sent /\ UNCHANGED <<selected, memberCount, wrote, reply, sent, closed, given>>
          /\ exchange = "check" /\ ~ updated.present
      BY <1>0, <1>4 DEF CheckReads, ProviderTypeOK, Part
    <2>2. CASE /\ result = "more"
               /\ UNCHANGED <<entryList, updated, socket>>
               /\ Fails \/ (elapsed' = Later /\ UNCHANGED <<exchange, outcome>>)
      <3>1. elapsed' \in 0 .. Timeout + 1
        BY <1>0, <2>2, ProviderAssumption DEF Fails, Later, ProviderTypeOK
      <3>2. ProviderTypeOK'
        BY <1>0, <2>1, <2>2, <3>1 DEF Fails, ProviderTypeOK
      <3>3. ListsInv'
        BY <1>0, <2>1, <2>2 DEF Fails, ListsInv
      <3>4. SelectedInv'
        BY <1>0, <2>1, <2>2 DEF Fails, SelectedInv
      <3> QED BY <3>2, <3>3, <3>4 DEF ProviderInv
    <2>3. CASE socket' = "closed" /\ Fails /\ UNCHANGED <<entryList, updated>>
      <3>1. ProviderTypeOK'
        BY <1>0, <2>1, <2>3 DEF Fails, ProviderTypeOK
      <3>2. ListsInv'
        BY <1>0, <2>1, <2>3 DEF Fails, ListsInv
      <3>3. SelectedInv'
        BY <1>0, <2>1, <2>3 DEF Fails, SelectedInv
      <3> QED BY <3>1, <3>2, <3>3 DEF ProviderInv
    <2>4. CASE /\ result = "parsed" /\ UsableReply(reply)
               /\ socket' = "closed" /\ entryList' = reply.list
               /\ updated' = [ever |-> TRUE, present |-> TRUE]
               /\ UNCHANGED <<exchange, elapsed, outcome>>
      <3>1. sent = Complete
        BY <1>0, <2>4 DEF Parse, ExpectMore, ProviderTypeOK, Part,
                          FirstLine, Headers, Complete
      <3>2. reply.success /\ reply.list # {} /\ reply.list \in given
        BY <1>0, <2>4, <3>1 DEF UsableReply, ListsInv
      <3>3. ProviderTypeOK'
        BY <1>0, <2>1, <2>4, <3>2 DEF ProviderTypeOK
      <3>4. ListsInv'
        BY <1>0, <2>1, <2>4, <3>2 DEF ListsInv
      <3>5. SelectedInv'
        BY <1>0, <2>1, <2>4 DEF SelectedInv, ListsInv
      <3> QED BY <3>3, <3>4, <3>5 DEF ProviderInv
    <2> QED BY <1>4, <2>2, <2>3, <2>4 DEF CheckReads, NothingRead, CloseSocket
  <1>5. CASE Updated
    <2> USE DEF resolver, entries, request, provider
    <2>1. ProviderTypeOK'
      BY <1>0, <1>5 DEF Updated, ProviderTypeOK
    <2>2. ListsInv'
      BY <1>0, <1>5 DEF Updated, ListsInv
    <2>3. SelectedInv'
      BY <1>0, <1>5 DEF Updated, SelectedInv
    <2> QED BY <2>1, <2>2, <2>3 DEF ProviderInv
  <1>6. CASE TakeMember
    <2> USE DEF resolver, entries, request, provider
    <2>1. entryList # {} /\ IsFiniteSet(entryList)
      BY <1>0, <1>6, FS_EmptySet, ProviderAssumption
      DEF TakeMember, ListsInv, ProviderTypeOK
    <2>2. Cardinality(entryList) \in Nat /\ Cardinality(entryList) > 0
      BY <2>1, FS_CardinalityType, FS_EmptySet
    <2>3. selected' \in 0 .. Cardinality(entryList) - 1
      BY <1>0, <1>6, <2>2
      DEF TakeMember, MemberAt, SelectedInv
    <2>4. ProviderTypeOK'
      BY <1>0, <1>6, <2>2, <2>3 DEF TakeMember, ProviderTypeOK
    <2>5. ListsInv'
      BY <1>0, <1>6 DEF TakeMember, ListsInv
    <2>6. SelectedInv'
      BY <1>0, <1>6, <2>2, <2>3 DEF TakeMember, SelectedInv
    <2> QED BY <2>4, <2>5, <2>6 DEF ProviderInv
  <1>7. CASE UNCHANGED providerVars
    <2> USE DEF providerVars, resolver, entries, request,
                provider
    <2>1. ProviderTypeOK'
      BY <1>0, <1>7 DEF ProviderTypeOK
    <2>2. ListsInv'
      BY <1>0, <1>7 DEF ListsInv
    <2>3. SelectedInv'
      BY <1>0, <1>7 DEF SelectedInv
    <2> QED BY <2>1, <2>2, <2>3 DEF ProviderInv
  <1> QED BY <1>1, <1>2, <1>3, <1>4, <1>5, <1>6, <1>7 DEF ProviderNext, Check

(* In every reachable state of a provider's exchange the resolver has the   *)
(* members of a complete answer, and the member it takes is one of them,    *)
(* for any lists of members and any time-out.                               *)
THEOREM ProviderMembersGiven ==
  ProviderSpec => []MembersGiven
  <1>1. ProviderInit => ProviderInv
    BY ProviderInitially
  <1>2. ProviderInv /\ [ProviderNext]_(providerVars) => ProviderInv'
    BY ProviderStep
  <1>3. ProviderInv => MembersGiven
    BY DEF ProviderInv, ListsInv, SelectedInv, MembersGiven
  <1> QED BY <1>1, <1>2, <1>3, PTL DEF ProviderSpec
=============================================================================
