---------------------------- MODULE MultiPutProofs ----------------------------
(***************************************************************************)
(* The safety properties of MultiPut for any containers, partitions and    *)
(* bounds.  The argument follows the session numbers: a container of the   *)
(* request under way has a number that no other one has and that was new   *)
(* when the trial began, so that what the server has executed under it was *)
(* executed in this trial.                                                 *)
(* At the end are the theorems about the rows that such a request carries. *)
(***************************************************************************)
EXTENDS MultiPut, RowCodec, FiniteSetTheorems, WellFoundedInduction, TLAPS

Running == pc # "idle"

(* A reply belongs to the stage, and a call under way has no outcome. *)
RepliesInv ==
  /\ pc # "reply" => reply = "none"
  /\ reply = "lost" => stage = "main"
  /\ outcome = "ok" => ~ Running

(* Every container of a request has a number of its own. *)
NumbersDiffer ==
  Running =>
    /\ \A c \in containerKeyList : sessionId[c] > 0
    /\ \A c, d \in containerKeyList : sessionId[c] = sessionId[d] => c = d

(* A statement number is executed in its stage, and the last one ends the  *)
(* session.                                                                *)
NumbersNew ==
  Running => \A c \in containerKeyList :
    /\ stage = "create" => ~ Executed(c, 1)
    /\ stage \in {"create", "main"} => ~ Executed(c, 2)
    /\ Executed(c, 2) => Missing(c)

(* Every trial but the last was ended by a session that the server lost    *)
(* after it had created it.                                                *)
LossesCounted ==
  Running =>
    /\ trialCount <= losses
    /\ stage = "main" \/ (stage = "create" /\ reply = "ok") =>
         \A c \in containerKeyList : Missing(c) => trialCount < losses
    /\ reply = "lost" => \E c \in containerKeyList : Missing(c)

(* How often the rows of a container have been put: those of the request   *)
(* under way at most once in each trial, those of later partitions never.  *)
AppliedCounted ==
  Running => \A c \in Container :
    /\ c \notin put \/ PartitionOf[c] \in RemainingPartitions => applied[c] = 0
    /\ c \in containerKeyList =>
         /\ applied[c] <= trialCount + 1
         /\ ~ Executed(c, 1) => applied[c] <= trialCount
         /\ Executed(c, 1) => applied[c] > 0

(* The rows of a partition are put before its sessions are closed. *)
PartitionsPut ==
  Running => \A c \in put :
    \/ PartitionOf[c] \notin requestMap
    \/ c \in containerKeyList /\ (stage = "close" \/ (stage = "main" /\ reply = "ok"))
    => applied[c] > 0

(* A session on the server is one of the request, or was given up; those   *)
(* whose closing has been acknowledged are no longer there.                *)
SessionsKnown ==
  /\ \A s \in session :
       \/ s[1] \in abandoned
       \/ Running /\ \E c \in containerKeyList : s = <<sessionId[c], c>>
  /\ Running /\ stage \in {"close", "throw"} /\ reply = "ok" =>
       \A c \in containerKeyList : Missing(c)

IInv ==
  /\ TypeOK /\ RepliesInv /\ NumbersDiffer /\ NumbersNew /\ LossesCounted
  /\ AppliedCounted /\ PartitionsPut /\ SessionsKnown
  /\ AllPut /\ PutOncePerLoss

-----------------------------------------------------------------------------
(* What the steps of a call have in common.  A request is sent, the same   *)
(* again or the one of the next stage.                                     *)
SendsOn ==
  /\ Running /\ pc' = "send" /\ reply' = "none"
  /\ \/ stage' \in {stage, "throw"}
     \/ stage = "create" /\ reply = "ok" /\ stage' = "main"
     \/ stage = "main" /\ reply = "ok" /\ stage' = "close"
  /\ abandoned' \in {abandoned, abandoned \cup SessionsOf(containerKeyList)}
  /\ UNCHANGED <<put, outcome, progress, server, calls, losses>>

(* The containers of the request get other numbers. *)
BeginsTrial ==
  /\ Running
  /\ \/ stage = "create" /\ trialCount' = trialCount
     \/ stage = "main" /\ reply = "lost" /\ trialCount' = trialCount + 1
  /\ trialCount' \in 0 .. MAX_SESSION_REPAIR_COUNT
  /\ sessionTrial' \in 0 .. MAX_SESSION_REPAIR_COUNT
  /\ abandoned' = abandoned \cup SessionsOf(containerKeyList)
  /\ MakeCreateSessionRequest(containerKeyList)
  /\ UNCHANGED <<outcome, put, requestMap, server, calls, losses>>

(* The request of the next partition, and the end. *)
NextPartition ==
  /\ Succeeded("close")
  /\ requestMap' = RemainingPartitions /\ requestMap' # {}
  /\ trialCount' = 0 /\ sessionTrial' = 0
  /\ MakeCreateSessionRequest(PartitionEntries(requestMap'))
  /\ UNCHANGED <<outcome, put, server, abandoned, calls, losses>>

LastPartition ==
  /\ Succeeded("close")
  /\ requestMap' = RemainingPartitions /\ requestMap' = {}
  /\ trialCount' = 0 /\ sessionTrial' = 0
  /\ pc' = "idle" /\ outcome' = "ok" /\ reply' = "none"
  /\ UNCHANGED <<stage, sessionId, lastSessionId, put, server, abandoned, calls, losses>>

LEMMA NextSplit ==
  ASSUME TypeOK, Next
  PROVE  \/ \E entries \in SUBSET Container \ {{}} : MultiPut(entries)
         \/ ServerCreate \/ ServerPut \/ ServerClose \/ Lose
         \/ SendsOn \/ BeginsTrial \/ NextPartition \/ LastPartition \/ Thrown
  <1>1. ASSUME Retry \/ AcceptCreateSession \/ CreateSessionFails \/ AcceptMain
                 \/ CloseFails \/ ConnectionFails
        PROVE  SendsOn
    BY <1>1 DEF Retry, AcceptCreateSession, CreateSessionFails, AcceptMain,
       CloseFails, ConnectionFails, SendsOn, Send, Throw, ThrowUncreated, Succeeded, Failed,
       Running, progress, server
  <1>2. ASSUME SessionConflicted
        PROVE  SendsOn \/ BeginsTrial
    <2>1. CASE sessionTrial >= MAX_SESSION_REPAIR_COUNT
      BY <1>2, <2>1, MultiPutAssumption DEF SessionConflicted, SendsOn, Send, Throw,
         ThrowUncreated, Failed, Running, progress, server, TypeOK
    <2>2. CASE sessionTrial < MAX_SESSION_REPAIR_COUNT
      BY <1>2, <2>2, MultiPutAssumption DEF SessionConflicted, BeginsTrial, Failed,
         Running, server, TypeOK
    <2> QED BY <1>2, <2>1, <2>2 DEF SessionConflicted
  <1>3. ASSUME MainFails
        PROVE  SendsOn \/ BeginsTrial
    <2>1. CASE Throw
      BY <1>3, <2>1 DEF MainFails, SendsOn, Send, Throw, Failed, Running, progress,
         server, MakeCreateSessionRequest
    <2>2. CASE SessionLost(reply) /\ trialCount < MAX_SESSION_REPAIR_COUNT
      BY <1>3, <2>2, MultiPutAssumption DEF MainFails, BeginsTrial, Failed, Running,
         server, TypeOK, SessionLost
    <2> QED BY <1>3, <2>1, <2>2 DEF MainFails
  <1>4. ASSUME AcceptSessionClosed
        PROVE  NextPartition \/ LastPartition
    BY <1>4 DEF AcceptSessionClosed, NextPartition, LastPartition
  <1> QED BY <1>1, <1>2, <1>3, <1>4 DEF Next

-----------------------------------------------------------------------------
(* The operators. *)

LEMMA MinInSet ==
  ASSUME NEW S \in SUBSET Nat, S # {}
  PROVE  Min(S) \in S
  <1> DEFINE UpTo(k) == S \cap 0 .. k
             T == {UpTo(k) : k \in S}
  <1>1. \A k \in S : UpTo(k) \in FiniteSubsetsOf(Nat)
    BY FS_BoundedSetOfNaturals DEF FiniteSubsetsOf
  <1>2. T \subseteq FiniteSubsetsOf(Nat) /\ T # {}
    BY <1>1
  <1>3. PICK U \in T : \A V \in T : <<V, U>> \notin StrictSubsetOrdering(Nat)
    <2> HIDE DEF T
    <2> QED BY <1>2, FS_StrictSubsetOrderingWellFounded, WFMin
  <1>4. PICK k \in S : U = UpTo(k)
    OBVIOUS
  <1>5. ASSUME NEW y \in S, y < k
        PROVE  FALSE
    <2>1. UpTo(y) \in SUBSET Nat /\ U \in SUBSET Nat /\ UpTo(y) \subseteq U
      BY <1>4, <1>5
    <2>2. k \notin UpTo(y) /\ k \in U
      BY <1>4, <1>5
    <2> HIDE DEF UpTo
    <2>3. <<UpTo(y), U>> \in StrictSubsetOrdering(Nat)
      BY <2>1, <2>2 DEF StrictSubsetOrdering
    <2> QED BY <1>3, <2>3
  <1>6. \A y \in S : k =< y
    BY <1>5
  <1> QED BY <1>6 DEF Min

(* Every container of a request gets a number of its own that was never used. *)
LEMMA NumbersGenerated ==
  ASSUME TypeOK, NEW entries \in SUBSET Container, GenerateSessionIds(entries)
  PROVE  /\ lastSessionId' \in lastSessionId .. MaxSessions
         /\ sessionId' \in [Container -> 0 .. lastSessionId']
         /\ \A c \in entries : sessionId'[c] > lastSessionId
         /\ \A c, d \in entries : sessionId'[c] = sessionId'[d] => c = d
  <1> DEFINE n == Cardinality(entries)
  <1>1. IsFiniteSet(entries) /\ n \in Nat /\ ExistsBijection(1 .. n, entries)
    BY MultiPutAssumption, FS_Subset, FS_CardinalityType
  <1>2. PICK f \in Bijection(1 .. n, entries) : TRUE
    BY <1>1 DEF ExistsBijection
  <1> DEFINE g == [c \in entries |-> lastSessionId + CHOOSE i \in 1 .. n : f[i] = c]
  <1>3. /\ g \in [entries -> lastSessionId + 1 .. lastSessionId + n]
        /\ \A c, d \in entries : c # d => g[c] # g[d]
    <2>1. \A c \in entries : \E i \in 1 .. n : f[i] = c
      BY <1>2 DEF Bijection, Surjection
    <2>2. \A c \in entries : /\ (CHOOSE i \in 1 .. n : f[i] = c) \in 1 .. n
                             /\ f[CHOOSE i \in 1 .. n : f[i] = c] = c
      BY <2>1
    <2>3. \A c \in entries : g[c] - lastSessionId \in 1 .. n /\ f[g[c] - lastSessionId] = c
      BY <1>1, <2>2 DEF TypeOK
    <2>4. \A c \in entries : g[c] \in lastSessionId + 1 .. lastSessionId + n
      BY <1>1, <2>3, <2>2 DEF TypeOK
    <2>5. g \in [entries -> lastSessionId + 1 .. lastSessionId + n]
      BY <2>4
    <2>6. \A c, d \in entries : g[c] = g[d] => c = d
      BY <2>3
    <2> QED BY <2>5, <2>6
  <1> DEFINE new == CHOOSE h \in [entries -> lastSessionId + 1 .. lastSessionId + n] :
                      \A c, d \in entries : c # d => h[c] # h[d]
  <1>4. /\ new \in [entries -> lastSessionId + 1 .. lastSessionId + n]
        /\ \A c, d \in entries : c # d => new[c] # new[d]
    BY <1>3
  <1>5. /\ lastSessionId + n <= MaxSessions /\ lastSessionId' = lastSessionId + n
        /\ sessionId' = [c \in Container |-> IF c \in entries THEN new[c] ELSE sessionId[c]]
    BY DEF GenerateSessionIds
  <1> HIDE DEF new, g
  <1> QED BY <1>1, <1>4, <1>5, MultiPutAssumption DEF TypeOK

LEMMA SameRequest ==
  ASSUME UNCHANGED <<put, requestMap>>
  PROVE  /\ containerKeyList' = containerKeyList
         /\ RemainingPartitions' = RemainingPartitions
  BY DEF containerKeyList, PartitionEntries, RemainingPartitions

LEMMA RequestContainers ==
  ASSUME TypeOK
  PROVE  containerKeyList \in SUBSET put /\ put \in SUBSET Container
  BY DEF TypeOK, containerKeyList, PartitionEntries

Begins ==
  \/ \E entries \in SUBSET Container \ {{}} : MultiPut(entries)
  \/ BeginsTrial \/ NextPartition

(* A trial begins with numbers under which the server has done nothing. *)
LEMMA TrialBegins ==
  ASSUME TypeOK, Begins
  PROVE  /\ pc' = "send" /\ stage' = "create" /\ reply' = "none"
         /\ UNCHANGED <<session, done>>
         /\ lastSessionId' \in lastSessionId .. MaxSessions
         /\ sessionId' \in [Container -> 0 .. lastSessionId']
         /\ containerKeyList' \in SUBSET Container
         /\ \A c \in containerKeyList' :
              /\ sessionId'[c] > lastSessionId
              /\ ~ Executed(c, 1)' /\ ~ Executed(c, 2)' /\ Missing(c)'
         /\ \A c, d \in containerKeyList' : sessionId'[c] = sessionId'[d] => c = d
  <1>1. /\ MakeCreateSessionRequest(containerKeyList')
        /\ containerKeyList' \in SUBSET Container
        /\ UNCHANGED <<session, done>>
    <2>1. CASE \E entries \in SUBSET Container \ {{}} : MultiPut(entries)
      BY <2>1 DEF MultiPut, containerKeyList, PartitionEntries
    <2>2. CASE BeginsTrial
      BY <2>2, SameRequest, RequestContainers DEF BeginsTrial, server
    <2>3. CASE NextPartition
      BY <2>3, RequestContainers
         DEF NextPartition, containerKeyList, PartitionEntries, server
    <2> QED BY <2>1, <2>2, <2>3 DEF Begins
  <1>2. /\ lastSessionId' \in lastSessionId .. MaxSessions
        /\ sessionId' \in [Container -> 0 .. lastSessionId']
        /\ \A c \in containerKeyList' : sessionId'[c] > lastSessionId
        /\ \A c, d \in containerKeyList' : sessionId'[c] = sessionId'[d] => c = d
    <2>1. SUFFICES ASSUME NEW entries, entries = containerKeyList'
                   PROVE  /\ lastSessionId' \in lastSessionId .. MaxSessions
                          /\ sessionId' \in [Container -> 0 .. lastSessionId']
                          /\ \A c \in entries : sessionId'[c] > lastSessionId
                          /\ \A c, d \in entries : sessionId'[c] = sessionId'[d] => c = d
      OBVIOUS
    <2>2. entries \in SUBSET Container /\ GenerateSessionIds(entries)
      BY <1>1, <2>1 DEF MakeCreateSessionRequest
    <2> QED BY <2>2, NumbersGenerated
  <1>3. \A c \in containerKeyList' :
          /\ sessionId'[c] > lastSessionId
          /\ ~ Executed(c, 1)' /\ ~ Executed(c, 2)' /\ Missing(c)'
    <2>1. \A c \in containerKeyList' : \A x :
            <<sessionId'[c], x>> \notin done /\ <<sessionId'[c], x>> \notin session
      BY <1>1, <1>2 DEF TypeOK
    <2> QED BY <1>1, <1>2, <2>1 DEF Executed, Missing
  <1> QED BY <1>1, <1>2, <1>3 DEF MakeCreateSessionRequest, Send

(* A statement of the server is about containers that are being put. *)
LEMMA ServedContainers ==
  ASSUME IInv, Running
  PROVE  \A c \in containerKeyList :
           /\ c \in put /\ c \in Container
           /\ sessionId[c] \in 1 .. lastSessionId
  BY RequestContainers DEF IInv, NumbersDiffer, TypeOK

LEMMA TypeStep ==
  ASSUME IInv, [Next]_vars
  PROVE  TypeOK'
  <1> USE DEF IInv
  <1>1. CASE Begins
    <2>1. /\ put' \subseteq Container /\ outcome' \in {"none", "ok", "error"}
          /\ requestMap' \subseteq {PartitionOf[c] : c \in put'}
          /\ trialCount' \in 0 .. MAX_SESSION_REPAIR_COUNT
          /\ sessionTrial' \in 0 .. MAX_SESSION_REPAIR_COUNT
          /\ applied' \in [Container -> Nat]
          /\ calls' \in 0 .. MaxCalls /\ losses' \in 0 .. MaxLosses
      <3>1. CASE \E entries \in SUBSET Container \ {{}} : MultiPut(entries)
        BY <3>1, MultiPutAssumption DEF MultiPut, TypeOK
      <3>2. CASE BeginsTrial
        BY <3>2 DEF BeginsTrial, TypeOK, server
      <3>3. CASE NextPartition
        BY <3>3, MultiPutAssumption DEF NextPartition, RemainingPartitions, TypeOK, server
      <3> QED BY <1>1, <3>1, <3>2, <3>3 DEF Begins
    <2>2. abandoned' \subseteq 0 .. lastSessionId
      <3>1. SessionsOf(containerKeyList) \subseteq 0 .. lastSessionId
        BY RequestContainers DEF SessionsOf, TypeOK
      <3> QED BY <1>1, <3>1 DEF Begins, MultiPut, BeginsTrial, NextPartition, TypeOK
    <2>3. /\ session' \subseteq (1 .. lastSessionId') \X Container
          /\ done' \subseteq (1 .. lastSessionId') \X {1, 2}
          /\ abandoned' \subseteq 0 .. lastSessionId'
          /\ lastSessionId' \in 0 .. MaxSessions
      BY <1>1, <2>2, TrialBegins, MultiPutAssumption DEF TypeOK
    <2> QED BY <1>1, <2>1, <2>3, TrialBegins DEF TypeOK
  <1>2. CASE ServerCreate
    <2>1. session' \subseteq (1 .. lastSessionId) \X Container
      BY <1>2, ServedContainers DEF ServerCreate, TypeOK, Running
    <2> QED BY <1>2, <2>1 DEF ServerCreate, TypeOK, progress, Answer
  <1>3. CASE ServerPut
    <2>1. done' \subseteq (1 .. lastSessionId) \X {1, 2}
      BY <1>3, ServedContainers DEF ServerPut, TypeOK, Running
    <2>2. applied' \in [Container -> Nat]
      BY <1>3 DEF ServerPut, TypeOK
    <2> QED BY <1>3, <2>1, <2>2 DEF ServerPut, TypeOK, progress, Answer
  <1>4. CASE ServerClose
    <2>1. done' \subseteq (1 .. lastSessionId) \X {1, 2}
      BY <1>4, ServedContainers DEF ServerClose, TypeOK, Running
    <2>2. session' \subseteq (1 .. lastSessionId) \X Container
      BY <1>4 DEF ServerClose, TypeOK
    <2> QED BY <1>4, <2>1, <2>2 DEF ServerClose, TypeOK, progress, Answer
  <1>5. CASE Lose
    BY <1>5, MultiPutAssumption DEF Lose, TypeOK, progress
  <1>6. CASE SendsOn
    <2>1. SessionsOf(containerKeyList) \subseteq 0 .. lastSessionId
      BY RequestContainers DEF SessionsOf, TypeOK
    <2> QED BY <1>6, <2>1 DEF SendsOn, TypeOK, progress, server
  <1>7. CASE LastPartition
    BY <1>7, MultiPutAssumption DEF LastPartition, RemainingPartitions, TypeOK, server
  <1>8. CASE Thrown
    <2>1. abandoned' \subseteq 0 .. lastSessionId
      BY <1>8, RequestContainers DEF Thrown, SessionsOf, TypeOK
    <2> QED BY <1>8, <2>1 DEF Thrown, TypeOK, progress, server
  <1>9. CASE UNCHANGED vars
    BY <1>9 DEF vars, TypeOK, progress, server
  <1> QED BY <1>1, <1>2, <1>3, <1>4, <1>5, <1>6, <1>7, <1>8, <1>9, NextSplit DEF Begins

LEMMA RepliesStep ==
  ASSUME IInv, [Next]_vars
  PROVE  RepliesInv'
  <1> USE DEF IInv, RepliesInv, Running
  <1>1. CASE Begins
    BY <1>1, TrialBegins
       DEF Begins, MultiPut, BeginsTrial, NextPartition, Succeeded
  <1>2. CASE ServerCreate \/ ServerPut \/ ServerClose
    BY <1>2 DEF ServerCreate, ServerPut, ServerClose, Answer
  <1>3. CASE Lose \/ SendsOn \/ LastPartition \/ Thrown \/ UNCHANGED vars
    BY <1>3 DEF Lose, SendsOn, LastPartition, Thrown, vars
  <1> QED BY <1>1, <1>2, <1>3, NextSplit DEF Begins

LEMMA NumbersDifferStep ==
  ASSUME IInv, [Next]_vars
  PROVE  NumbersDiffer'
  <1> USE DEF IInv, NumbersDiffer, Running
  <1>1. CASE Begins
    <2>1. \A c \in containerKeyList' : sessionId'[c] > lastSessionId
      BY <1>1, TrialBegins
    <2>2. \A c \in containerKeyList' : sessionId'[c] \in Nat
      BY <1>1, TrialBegins DEF TypeOK
    <2>3. lastSessionId \in Nat
      BY DEF TypeOK
    <2>4. \A c \in containerKeyList' : sessionId'[c] > 0
      BY <2>1, <2>2, <2>3
    <2> QED BY <1>1, <2>4, TrialBegins
  <1>2. CASE ServerCreate \/ ServerPut \/ ServerClose \/ Lose \/ SendsOn \/ UNCHANGED vars
    BY <1>2, SameRequest DEF ServerCreate, ServerPut, ServerClose, Lose, SendsOn, progress, vars
  <1>3. CASE LastPartition \/ Thrown
    BY <1>3 DEF LastPartition, Thrown
  <1> QED BY <1>1, <1>2, <1>3, NextSplit DEF Begins

LEMMA NumbersNewStep ==
  ASSUME IInv, [Next]_vars
  PROVE  NumbersNew'
  <1> USE DEF IInv, NumbersNew, Running
  <1>1. CASE Begins
    BY <1>1, TrialBegins
  <1>2. CASE ServerCreate
    <2>1. \A c \in containerKeyList : ~ Executed(c, 1) /\ ~ Executed(c, 2)
      BY <1>2 DEF ServerCreate
    <2> QED BY <1>2, <2>1, SameRequest DEF ServerCreate, progress, Executed
  <1>3. CASE ServerPut
    <2>1. \A c \in containerKeyList : ~ Executed(c, 2)
      BY <1>3 DEF ServerPut
    <2>2. \A c : Executed(c, 2)' => Executed(c, 2)
      BY <1>3 DEF ServerPut, progress, Executed
    <2> QED BY <1>3, <2>1, <2>2, SameRequest DEF ServerPut, progress, Answer
  <1>4. CASE ServerClose
    <2>1. \A c \in containerKeyList : Executed(c, 2)' => Missing(c)'
      <3>1. PICK some \in SUBSET {c \in containerKeyList : ~ Missing(c)} :
              /\ session' = session \ {<<sessionId[c], c>> : c \in some}
              /\ done' = done \cup {<<sessionId[c], 2>> : c \in some}
        BY <1>4 DEF ServerClose
      <3>2. sessionId' = sessionId
        BY <1>4 DEF ServerClose, progress
      <3>3. TAKE c \in containerKeyList
      <3>4. CASE c \in some
        BY <3>1, <3>2, <3>4 DEF Missing
      <3>5. CASE c \notin some
        <4>1. Executed(c, 2)' => Executed(c, 2)
          BY <1>4, <3>1, <3>2, <3>5 DEF ServerClose, Executed, NumbersDiffer
        <4> QED BY <1>4, <3>1, <3>2, <4>1 DEF ServerClose, Missing
      <3> QED BY <3>4, <3>5
    <2> QED BY <1>4, <2>1, SameRequest DEF ServerClose, progress
  <1>5. CASE Lose
    BY <1>5, SameRequest DEF Lose, progress, Executed, Missing
  <1>6. CASE SendsOn
    BY <1>6, SameRequest DEF SendsOn, progress, server, Executed, Missing
  <1>7. CASE LastPartition \/ Thrown
    BY <1>7 DEF LastPartition, Thrown
  <1>8. CASE UNCHANGED vars
    BY <1>8, SameRequest DEF vars, progress, server, Executed, Missing
  <1> QED BY <1>1, <1>2, <1>3, <1>4, <1>5, <1>6, <1>7, <1>8, NextSplit DEF Begins

LEMMA LossesCountedStep ==
  ASSUME IInv, [Next]_vars
  PROVE  LossesCounted'
  <1> USE DEF IInv, LossesCounted, Running
  <1>0. trialCount \in Nat /\ losses \in Nat
    BY MultiPutAssumption DEF TypeOK
  <1>1. CASE Begins
    <2>1. trialCount' <= losses' /\ UNCHANGED losses
      <3>1. CASE \E entries \in SUBSET Container \ {{}} : MultiPut(entries)
        BY <3>1, <1>0 DEF MultiPut
      <3>2. CASE BeginsTrial
        BY <3>2, <1>0 DEF BeginsTrial
      <3>3. CASE NextPartition
        BY <3>3, <1>0 DEF NextPartition
      <3> QED BY <1>1, <3>1, <3>2, <3>3 DEF Begins
    <2> QED BY <1>1, <2>1, TrialBegins
  <1>2. CASE ServerCreate
    <2>1. reply' = "ok" => \A c \in containerKeyList : <<sessionId[c], c>> \in session'
      BY <1>2 DEF ServerCreate, Answer
    <2> QED BY <1>2, <2>1, SameRequest DEF ServerCreate, Answer, progress, Missing
  <1>3. CASE ServerPut
    BY <1>3, SameRequest DEF ServerPut, Answer, progress, Missing
  <1>4. CASE ServerClose
    BY <1>4, SameRequest DEF ServerClose, Answer, progress
  <1>5. CASE Lose
    BY <1>0, <1>5, SameRequest DEF Lose, progress, Missing
  <1>6. CASE SendsOn
    BY <1>6, SameRequest DEF SendsOn, progress, server, Missing
  <1>7. CASE LastPartition \/ Thrown
    BY <1>7 DEF LastPartition, Thrown
  <1>8. CASE UNCHANGED vars
    BY <1>8, SameRequest DEF vars, progress, server, Missing
  <1> QED BY <1>1, <1>2, <1>3, <1>4, <1>5, <1>6, <1>7, <1>8, NextSplit DEF Begins

(* The containers of the next request are among those still to come. *)
LEMMA NextContainers ==
  ASSUME TypeOK, NextPartition
  PROVE  /\ \A c \in containerKeyList' : PartitionOf[c] \in RemainingPartitions
         /\ RemainingPartitions' \subseteq RemainingPartitions
  <1>1. RemainingPartitions \in SUBSET Nat /\ RemainingPartitions # {}
    BY MultiPutAssumption DEF TypeOK, NextPartition, RemainingPartitions
  <1>2. Min(RemainingPartitions) \in RemainingPartitions
    BY <1>1, MinInSet
  <1> QED BY <1>2
      DEF NextPartition, containerKeyList, PartitionEntries, RemainingPartitions

(* What a PUT_MULTIPLE_CONTAINER_ROWS does: the rows of some containers,   *)
(* those not yet put under their number.                                   *)
LEMMA PutOfSome ==
  ASSUME IInv, ServerPut
  PROVE  \E some \in SUBSET containerKeyList :
           /\ reply' = "ok" => some = containerKeyList
           /\ \A c \in Container :
                applied'[c] = IF c \in some /\ ~ Executed(c, 1)
                              THEN applied[c] + 1 ELSE applied[c]
           /\ \A c \in containerKeyList : Executed(c, 1)' <=> c \in some \/ Executed(c, 1)
  <1>1. PICK some \in SUBSET {c \in containerKeyList : ~ Missing(c)} :
          /\ done' = done \cup {<<sessionId[c], 1>> : c \in some}
          /\ applied' = [c \in Container |->
               IF c \in some /\ ~ Executed(c, 1) THEN applied[c] + 1 ELSE applied[c]]
          /\ reply' = "ok" => some = containerKeyList
    BY DEF ServerPut, Answer
  <1>2. \A c \in containerKeyList : Executed(c, 1)' <=> c \in some \/ Executed(c, 1)
    BY <1>1 DEF ServerPut, IInv, NumbersDiffer, Running, Executed, progress
  <1> QED BY <1>1, <1>2

LEMMA AppliedCountedStep ==
  ASSUME IInv, [Next]_vars
  PROVE  AppliedCounted'
  <1> USE DEF IInv, AppliedCounted, Running
  <1>0. trialCount \in Nat /\ applied \in [Container -> Nat]
    BY MultiPutAssumption DEF TypeOK
  <1>1. CASE Begins
    <2>0. \A c \in containerKeyList' : ~ Executed(c, 1)'
      BY <1>1, TrialBegins
    <2>1. CASE \E entries \in SUBSET Container \ {{}} : MultiPut(entries)
      BY <2>0, <2>1 DEF MultiPut
    <2>2. CASE BeginsTrial
      <3>1. \A c \in containerKeyList : applied[c] <= trialCount'
        BY <1>0, <2>2, RequestContainers DEF BeginsTrial, NumbersNew
      <3>2. trialCount' \in Nat /\ UNCHANGED applied
        BY <2>2, MultiPutAssumption DEF BeginsTrial, server
      <3> QED BY <1>0, <2>0, <2>2, <3>1, <3>2, SameRequest DEF BeginsTrial
    <2>3. CASE NextPartition
      <3>1. /\ pc # "idle" /\ trialCount' = 0 /\ UNCHANGED <<put, applied>>
        BY <2>3 DEF NextPartition, Succeeded, server
      <3>2. \A c \in containerKeyList' : c \in Container /\ applied[c] = 0
        BY <1>1, <2>3, <3>1, NextContainers, TrialBegins
      <3> QED BY <2>0, <2>3, <3>1, <3>2, NextContainers
    <2> QED BY <1>1, <2>1, <2>2, <2>3 DEF Begins
  <1>2. CASE ServerCreate \/ Lose \/ SendsOn
    BY <1>2, SameRequest DEF ServerCreate, Lose, SendsOn, progress, server, Executed
  <1>3. CASE ServerPut
    <2>1. PICK some \in SUBSET containerKeyList :
            /\ \A c \in Container :
                 applied'[c] = IF c \in some /\ ~ Executed(c, 1)
                               THEN applied[c] + 1 ELSE applied[c]
            /\ \A c \in containerKeyList : Executed(c, 1)' <=> c \in some \/ Executed(c, 1)
      BY <1>3, PutOfSome
    <2>2. UNCHANGED <<put, requestMap, trialCount>> /\ pc # "idle"
      BY <1>3 DEF ServerPut, progress
    <2>3. \A c \in Container : c \notin put \/ PartitionOf[c] \in RemainingPartitions =>
                               c \notin containerKeyList
      BY DEF containerKeyList, PartitionEntries, RemainingPartitions
    <2>4. ASSUME NEW c \in Container, c \in containerKeyList
          PROVE  /\ applied'[c] <= trialCount + 1
                 /\ ~ Executed(c, 1)' => applied'[c] <= trialCount
                 /\ Executed(c, 1)' => applied'[c] > 0
      <3>1. CASE c \in some /\ ~ Executed(c, 1)
        BY <1>0, <2>1, <2>2, <2>4, <3>1
      <3>2. CASE ~ (c \in some /\ ~ Executed(c, 1))
        BY <1>0, <2>1, <2>2, <2>4, <3>2
      <3> QED BY <3>1, <3>2
    <2> QED BY <2>1, <2>2, <2>3, <2>4, SameRequest
  <1>4. CASE ServerClose
    <2>1. \A c : Executed(c, 1)' <=> Executed(c, 1)
      BY <1>4 DEF ServerClose, progress, Executed
    <2> QED BY <1>4, <2>1, SameRequest DEF ServerClose, progress
  <1>5. CASE LastPartition \/ Thrown
    BY <1>5 DEF LastPartition, Thrown
  <1>6. CASE UNCHANGED vars
    BY <1>6, SameRequest DEF vars, progress, server, Executed
  <1> QED BY <1>1, <1>2, <1>3, <1>4, <1>5, <1>6, NextSplit DEF Begins

LEMMA PartitionsPutStep ==
  ASSUME IInv, [Next]_vars
  PROVE  PartitionsPut'
  <1> USE DEF IInv, PartitionsPut, Running
  <1>1. CASE \E entries \in SUBSET Container \ {{}} : MultiPut(entries)
    BY <1>1 DEF MultiPut, MakeCreateSessionRequest, Send
  <1>2. CASE BeginsTrial
    BY <1>2, SameRequest DEF BeginsTrial, MakeCreateSessionRequest, Send, server
  <1>3. CASE NextPartition
    <2>1. \A c \in put : PartitionOf[c] \notin requestMap' =>
            c \in containerKeyList \/ PartitionOf[c] \notin requestMap
      BY <1>3 DEF NextPartition, RemainingPartitions, containerKeyList, PartitionEntries
    <2>2. UNCHANGED <<put, applied>> /\ stage = "close" /\ pc # "idle"
      BY <1>3 DEF NextPartition, Succeeded, server
    <2>3. stage' = "create"
      BY <1>3 DEF NextPartition, MakeCreateSessionRequest, Send
    <2> QED BY <2>1, <2>2, <2>3
  <1>4. CASE ServerCreate \/ ServerClose
    BY <1>4, SameRequest DEF ServerCreate, ServerClose, progress
  <1>5. CASE ServerPut
    <2>1. PICK some \in SUBSET containerKeyList :
            /\ reply' = "ok" => some = containerKeyList
            /\ \A c \in Container :
                 applied'[c] = IF c \in some /\ ~ Executed(c, 1)
                               THEN applied[c] + 1 ELSE applied[c]
      BY <1>5, PutOfSome
    <2>2. /\ UNCHANGED <<put, requestMap>> /\ pc # "idle"
          /\ stage = "main" /\ stage' = "main"
      BY <1>5 DEF ServerPut, progress
    <2>3. ASSUME NEW c \in Container
          PROVE  /\ applied[c] > 0 => applied'[c] > 0
                 /\ c \in containerKeyList /\ reply' = "ok" => applied'[c] > 0
      <3>1. applied[c] \in Nat /\ (c \in containerKeyList /\ Executed(c, 1) => applied[c] > 0)
        BY <2>2 DEF TypeOK, AppliedCounted
      <3> QED BY <2>1, <3>1
    <2> QED BY <2>2, <2>3, SameRequest, RequestContainers
  <1>6. CASE Lose \/ SendsOn
    BY <1>6, SameRequest DEF Lose, SendsOn, progress, server
  <1>7. CASE LastPartition \/ Thrown
    BY <1>7 DEF LastPartition, Thrown
  <1>8. CASE UNCHANGED vars
    BY <1>8, SameRequest DEF vars, progress, server
  <1> QED BY <1>1, <1>2, <1>3, <1>4, <1>5, <1>6, <1>7, <1>8, NextSplit

LEMMA SessionsKnownStep ==
  ASSUME IInv, [Next]_vars
  PROVE  SessionsKnown'
  <1> USE DEF IInv, SessionsKnown, Running
  <1>1. CASE \E entries \in SUBSET Container \ {{}} : MultiPut(entries)
    <2>1. \A s \in session : s[1] \in abandoned
      BY <1>1 DEF MultiPut
    <2> QED BY <1>1, <2>1 DEF MultiPut, MakeCreateSessionRequest, Send
  <1>2. CASE BeginsTrial
    <2>1. \A s \in session : s[1] \in abandoned'
      BY <1>2 DEF BeginsTrial, SessionsOf
    <2> QED BY <1>2, <2>1 DEF BeginsTrial, MakeCreateSessionRequest, Send, server
  <1>3. CASE NextPartition \/ LastPartition
    <2>1. \A s \in session : s[1] \in abandoned
      BY <1>3 DEF NextPartition, LastPartition, Succeeded, Missing
    <2>2. UNCHANGED <<session, abandoned>> /\ reply' = "none"
      BY <1>3 DEF NextPartition, LastPartition, MakeCreateSessionRequest, Send, server
    <2> QED BY <2>1, <2>2
  <1>4. CASE ServerCreate
    <2>1. \A s \in session' : s \in session \/ \E c \in containerKeyList : s = <<sessionId[c], c>>
      BY <1>4 DEF ServerCreate
    <2>2. /\ UNCHANGED <<sessionId, put, requestMap, abandoned>>
          /\ pc # "idle" /\ pc' # "idle" /\ stage' = "create"
      BY <1>4 DEF ServerCreate, Answer, progress
    <2> QED BY <2>1, <2>2, SameRequest
  <1>5. CASE ServerPut
    BY <1>5, SameRequest DEF ServerPut, Answer, progress
  <1>6. CASE ServerClose
    <2>1. PICK some \in SUBSET {c \in containerKeyList : ~ Missing(c)} :
            /\ session' = session \ {<<sessionId[c], c>> : c \in some}
            /\ reply' = "ok" => \A c \in containerKeyList : c \in some \/ Executed(c, 2)
      BY <1>6 DEF ServerClose, Answer
    <2>2. /\ UNCHANGED <<put, requestMap, sessionId, stage, abandoned>>
          /\ pc # "idle" /\ pc' # "idle"
      BY <1>6 DEF ServerClose, Answer, progress
    <2>3. reply' = "ok" => \A c \in containerKeyList : Missing(c)'
      BY <2>1, <2>2 DEF NumbersNew, Missing
    <2> QED BY <2>1, <2>2, <2>3, SameRequest
  <1>7. CASE Lose
    BY <1>7, SameRequest DEF Lose, progress, Missing
  <1>8. CASE SendsOn
    BY <1>8, SameRequest DEF SendsOn, progress, server
  <1>9. CASE Thrown
    <2>1. \A s \in session : s[1] \in abandoned'
      BY <1>9 DEF Thrown, RepliesInv, SessionsOf, Missing
    <2> QED BY <1>9, <2>1 DEF Thrown, server
  <1>10. CASE UNCHANGED vars
    BY <1>10, SameRequest DEF vars, progress, server, Missing
  <1> QED BY <1>1, <1>2, <1>3, <1>4, <1>5, <1>6, <1>7, <1>8, <1>9, <1>10, NextSplit

LEMMA AllPutStep ==
  ASSUME IInv, [Next]_vars
  PROVE  AllPut'
  <1> USE DEF IInv, AllPut, RepliesInv, Running
  <1>1. CASE Begins
    BY <1>1 DEF Begins, MultiPut, BeginsTrial, NextPartition, Succeeded
  <1>2. CASE LastPartition
    <2>1. \A c \in put : c \in containerKeyList \/ PartitionOf[c] \notin requestMap
      BY <1>2 DEF LastPartition, RemainingPartitions, containerKeyList, PartitionEntries
    <2> QED BY <1>2, <2>1 DEF LastPartition, Succeeded, PartitionsPut, server
  <1>3. CASE ServerCreate \/ ServerPut \/ ServerClose \/ Lose \/ SendsOn \/ Thrown
    BY <1>3 DEF ServerCreate, ServerPut, ServerClose, Lose, SendsOn, Thrown, server
  <1>4. CASE UNCHANGED vars
    BY <1>4 DEF vars, server
  <1> QED BY <1>1, <1>2, <1>3, <1>4, NextSplit DEF Begins

LEMMA PutOncePerLossStep ==
  ASSUME IInv, [Next]_vars
  PROVE  PutOncePerLoss'
  <1> USE DEF IInv, PutOncePerLoss
  <1>0. applied \in [Container -> Nat] /\ losses \in Nat /\ trialCount \in Nat
    BY MultiPutAssumption DEF TypeOK
  <1>1. CASE \E entries \in SUBSET Container \ {{}} : MultiPut(entries)
    BY <1>0, <1>1 DEF MultiPut
  <1>2. CASE ServerPut
    <2>1. PICK some \in SUBSET containerKeyList : \A c \in Container :
            applied'[c] = IF c \in some /\ ~ Executed(c, 1)
                          THEN applied[c] + 1 ELSE applied[c]
      BY <1>2, PutOfSome
    <2>2. \A c \in some : c \in Container /\ (~ Executed(c, 1) => applied[c] <= losses)
      BY <1>0, <1>2, RequestContainers
         DEF ServerPut, AppliedCounted, LossesCounted, Running
    <2>3. \A c \in Container : applied'[c] <= losses + 1
      BY <1>0, <2>1, <2>2
    <2> QED BY <1>2, <2>3 DEF ServerPut
  <1>3. CASE Lose
    BY <1>0, <1>3 DEF Lose
  <1>4. CASE \/ ServerCreate \/ ServerClose \/ SendsOn \/ BeginsTrial
             \/ NextPartition \/ LastPartition \/ Thrown
    BY <1>4 DEF ServerCreate, ServerClose, SendsOn, BeginsTrial, NextPartition,
       LastPartition, Thrown, server
  <1>5. CASE UNCHANGED vars
    BY <1>5 DEF vars, server
  <1> QED BY <1>1, <1>2, <1>3, <1>4, <1>5, NextSplit

LEMMA InitIInv == Init => IInv
  <1> SUFFICES ASSUME Init PROVE IInv
    OBVIOUS
  <1>1. TypeOK
    <2>1. applied \in [Container -> Nat] /\ sessionId \in [Container -> 0 .. lastSessionId]
      BY DEF Init
    <2> QED BY <2>1, MultiPutAssumption DEF Init, TypeOK
  <1>2. PutOncePerLoss
    BY DEF Init, PutOncePerLoss
  <1> QED BY <1>1, <1>2 DEF Init, IInv, RepliesInv, NumbersDiffer, NumbersNew, LossesCounted,
      AppliedCounted, PartitionsPut, SessionsKnown, AllPut, Running

LEMMA Inductive == Spec => []IInv
  <1>1. IInv /\ [Next]_vars => IInv'
    BY TypeStep, RepliesStep, NumbersDifferStep, NumbersNewStep, LossesCountedStep,
       AppliedCountedStep, PartitionsPutStep, SessionsKnownStep, AllPutStep,
       PutOncePerLossStep DEF IInv
  <1> QED BY <1>1, InitIInv, PTL DEF Spec

-----------------------------------------------------------------------------
(* Whatever the containers and the bounds, each variable of a multiple put  *)
(* (the numbers, the trials, the server's sessions) keeps its type.         *)
THEOREM MultiPutTypeCorrect == Spec => []TypeOK
  BY Inductive, PTL DEF IInv

(* A gsPutMultipleContainerRows that succeeds has put the rows of all its   *)
(* containers, through all the repairs of its sessions.                     *)
THEOREM MultiPutComplete == Spec => []AllPut
  BY Inductive, PTL DEF IInv

(* A row is put once more only for a session the server has lost: sending   *)
(* a request again (executeStatement) never puts a row twice.               *)
THEOREM MultiPutOncePerLoss == Spec => []PutOncePerLoss
  BY Inductive, PTL DEF IInv

(* A call that has ended, well or not, has left no session on the server    *)
(* but those it gave up or could not close.                                 *)
THEOREM MultiPutSessionsClosed == Spec => []SessionsClosed
  <1>1. IInv => SessionsClosed
    BY DEF IInv, SessionsKnown, SessionsClosed, Running
  <1> QED BY <1>1, Inductive, PTL

(***************************************************************************)
(* The rows of a request, and of an answer (RowCodec): each column of a    *)
(* row by itself.                                                          *)
(***************************************************************************)

(* What writing and reading rely on in a cursor. *)
IsCursor(c) ==
  {"pos", "cells", "ok", "row"} \subseteq DOMAIN c /\ c.pos \in Nat /\ c.ok \in BOOLEAN

(* What stands from one position to another in the stream of d stands in    *)
(* that of r as well, from position at on: the server has moved it there.   *)
Stands(r, at, d, from, to) ==
  \A p \in DOMAIN d.cells : from <= p /\ p < to =>
    p - from + at \in DOMAIN r.cells /\ r.cells[p - from + at] = d.cells[p]

(* What was written from c to d stands where r does. *)
Holds(r, c, d) == Stands(r, r.pos, d, c.pos, d.pos)

LEMMA WriteMoves ==
  ASSUME NEW c, IsCursor(c), NEW size \in Nat, NEW content
  PROVE  /\ IsCursor(Write(c, size, content)) /\ Write(c, size, content).pos = c.pos + size
         /\ Write(c, size, content).ok = c.ok /\ Write(c, size, content).row = c.row
  <1> DEFINE d == Write(c, size, content)
  <1>1. DOMAIN d = DOMAIN c /\ d.pos = c.pos + size /\ d.ok = c.ok /\ d.row = c.row
    BY DEF Write, IsCursor
  <1> QED BY <1>1 DEF IsCursor

(* The stream after a Write. *)
CellsAfter(c, size, content) ==
  IF size = 0 THEN c.cells
  ELSE [p \in DOMAIN c.cells \cup {c.pos} |->
          IF p = c.pos THEN [size |-> size, content |-> content] ELSE c.cells[p]]

LEMMA WriteCells ==
  ASSUME NEW c, IsCursor(c), NEW size \in Nat, NEW content
  PROVE  Write(c, size, content).cells = CellsAfter(c, size, content)
  BY DEF Write, IsCursor, CellsAfter

LEMMA WriteIs ==
  ASSUME NEW c, IsCursor(c), NEW size \in Nat, NEW content, NEW d, d = Write(c, size, content)
  PROVE  /\ IsCursor(d) /\ d.pos = c.pos + size /\ d.ok = c.ok /\ d.row = c.row
         /\ size > 0 => /\ DOMAIN d.cells = DOMAIN c.cells \cup {c.pos}
                        /\ d.cells[c.pos] = [size |-> size, content |-> content]
         /\ size = 0 => d.cells = c.cells
         /\ \A p \in DOMAIN c.cells : p # c.pos => p \in DOMAIN d.cells /\ d.cells[p] = c.cells[p]
  <1>1. IsCursor(d) /\ d.pos = c.pos + size /\ d.ok = c.ok /\ d.row = c.row
    BY WriteMoves
  <1>2. d.cells = CellsAfter(c, size, content)
    BY WriteCells
  <1> QED BY <1>1, <1>2 DEF CellsAfter

LEMMA ReadIs ==
  ASSUME NEW c, IsCursor(c), NEW size \in Nat,
         size > 0 => c.pos \in DOMAIN c.cells /\ c.cells[c.pos].size = size
  PROVE  /\ IsCursor(Read(c, size)) /\ Read(c, size).pos = c.pos + size
         /\ Read(c, size).cells = c.cells /\ Read(c, size).row = c.row
         /\ Read(c, size).ok = c.ok
  <1> DEFINE d == Read(c, size)
  <1>1. DOMAIN d = DOMAIN c /\ d.pos = c.pos + size /\ d.cells = c.cells /\ d.row = c.row
    BY DEF Read, IsCursor
  <1>2. d.ok = (c.ok /\ (size > 0 => c.pos \in DOMAIN c.cells /\ c.cells[c.pos].size = size))
    BY DEF Read, IsCursor
  <1> QED BY <1>1, <1>2 DEF IsCursor

(* What WriteVarSize writes. *)
VarSizeCell(n) ==
  IF n < VAR_SIZE_1BYTE_THRESHOLD THEN [size |-> 1, content |-> <<2 * n + 1>>]
  ELSE IF n < VAR_SIZE_4BYTE_THRESHOLD THEN [size |-> 4, content |-> <<4 * n>>]
  ELSE [size |-> 8, content |-> <<4 * n + 2>>]

LEMMA WriteVarSizeIs ==
  ASSUME NEW c, IsCursor(c), NEW n \in Nat, NEW d, d = WriteVarSize(c, n)
  PROVE  /\ IsCursor(d) /\ d.pos = c.pos + EncodedVarSize(n) /\ d.ok = c.ok /\ d.row = c.row
         /\ EncodedVarSize(n) \in {1, 4, 8}
         /\ DOMAIN d.cells = DOMAIN c.cells \cup {c.pos}
         /\ d.cells[c.pos] = VarSizeCell(n)
         /\ \A p \in DOMAIN c.cells : p # c.pos => d.cells[p] = c.cells[p]
  <1>1. CASE n < VAR_SIZE_1BYTE_THRESHOLD
    <2>1. d = Write(c, 1, <<2 * n + 1>>)
      BY <1>1 DEF WriteVarSize
    <2> QED BY <1>1, <2>1, WriteIs DEF EncodedVarSize, VarSizeCell
  <1>2. CASE ~ (n < VAR_SIZE_1BYTE_THRESHOLD) /\ n < VAR_SIZE_4BYTE_THRESHOLD
    <2>1. d = Write(c, 4, <<4 * n>>)
      BY <1>2 DEF WriteVarSize
    <2> QED BY <1>2, <2>1, WriteIs DEF EncodedVarSize, VarSizeCell
  <1>3. CASE ~ (n < VAR_SIZE_1BYTE_THRESHOLD) /\ ~ (n < VAR_SIZE_4BYTE_THRESHOLD)
    <2>1. d = Write(c, 8, <<4 * n + 2>>)
      BY <1>3 DEF WriteVarSize
    <2> QED BY <1>3, <2>1, WriteIs DEF EncodedVarSize, VarSizeCell
  <1> QED BY <1>1, <1>2, <1>3

LEMMA VarSizeRead ==
  ASSUME NEW r, IsCursor(r), NEW n \in Nat, r.pos \in DOMAIN r.cells,
         r.cells[r.pos] = VarSizeCell(n)
  PROVE  /\ VarSizeWidth(r) = EncodedVarSize(n) /\ VarSize(r) = n
         /\ ReadVarSize(r) = Read(r, EncodedVarSize(n))
         /\ r.cells[r.pos].size = EncodedVarSize(n)
  <1>1. CASE n < VAR_SIZE_1BYTE_THRESHOLD
    <2>1. Number(r) = 2 * n + 1 /\ r.cells[r.pos].size = 1
      BY <1>1 DEF Number, VarSizeCell
    <2>2. n < 128
      BY <1>1, RowCodecAssumption
    <2>3. (2 * n + 1) % 256 = 2 * n + 1 /\ (2 * n + 1) % 2 = 1 /\ (2 * n + 1) \div 2 = n
      BY <2>2
    <2> QED BY <1>1, <2>1, <2>3 DEF VarSizeWidth, VarSize, EncodedVarSize, ReadVarSize
  <1>2. CASE ~ (n < VAR_SIZE_1BYTE_THRESHOLD) /\ n < VAR_SIZE_4BYTE_THRESHOLD
    <2>1. Number(r) = 4 * n /\ r.cells[r.pos].size = 4
      BY <1>2 DEF Number, VarSizeCell
    <2>3. (4 * n % 256) % 2 = 0 /\ (4 * n % 256) % 4 = 0 /\ (4 * n) \div 4 = n
      OBVIOUS
    <2> QED BY <1>2, <2>1, <2>3 DEF VarSizeWidth, VarSize, EncodedVarSize, ReadVarSize
  <1>3. CASE ~ (n < VAR_SIZE_1BYTE_THRESHOLD) /\ ~ (n < VAR_SIZE_4BYTE_THRESHOLD)
    <2>1. Number(r) = 4 * n + 2 /\ r.cells[r.pos].size = 8
      BY <1>3 DEF Number, VarSizeCell
    <2>3. ((4 * n + 2) % 256) % 2 = 0 /\ ((4 * n + 2) % 256) % 4 = 2 /\ (4 * n + 2) \div 4 = n
      OBVIOUS
    <2> QED BY <1>3, <2>1, <2>3 DEF VarSizeWidth, VarSize, EncodedVarSize, ReadVarSize
  <1> QED BY <1>1, <1>2, <1>3

(* The reader takes n from a stream that holds what the writer put there. *)
LEMMA VarSizeMoved ==
  ASSUME NEW c, IsCursor(c), NEW n \in Nat, NEW e, e = WriteVarSize(c, n),
         NEW d, \A p \in DOMAIN e.cells :
                  p \in DOMAIN d.cells /\ (p = c.pos => d.cells[p] = e.cells[p]),
         d.pos \in Nat, d.pos >= e.pos,
         NEW r, IsCursor(r), Holds(r, c, d)
  PROVE  /\ VarSize(r) = n
         /\ IsCursor(ReadVarSize(r)) /\ ReadVarSize(r).pos = r.pos + (e.pos - c.pos)
         /\ ReadVarSize(r).cells = r.cells /\ ReadVarSize(r).row = r.row
         /\ ReadVarSize(r).ok = r.ok
  <1>1. /\ IsCursor(e) /\ e.pos = c.pos + EncodedVarSize(n) /\ EncodedVarSize(n) \in {1, 4, 8}
        /\ c.pos \in DOMAIN e.cells /\ e.cells[c.pos] = VarSizeCell(n)
    BY WriteVarSizeIs
  <1>2. c.pos \in Nat /\ r.pos \in Nat
    BY DEF IsCursor
  <1>3. c.pos < d.pos /\ c.pos - c.pos + r.pos = r.pos
    BY <1>1, <1>2
  <1>4. r.pos \in DOMAIN r.cells /\ r.cells[r.pos] = VarSizeCell(n)
    BY <1>1, <1>2, <1>3 DEF Holds, Stands
  <1>5. /\ VarSize(r) = n /\ ReadVarSize(r) = Read(r, EncodedVarSize(n))
        /\ r.cells[r.pos].size = EncodedVarSize(n)
    BY <1>4, VarSizeRead
  <1>6. /\ IsCursor(Read(r, EncodedVarSize(n)))
        /\ Read(r, EncodedVarSize(n)).pos = r.pos + EncodedVarSize(n)
        /\ Read(r, EncodedVarSize(n)).cells = r.cells /\ Read(r, EncodedVarSize(n)).row = r.row
        /\ Read(r, EncodedVarSize(n)).ok = r.ok
    BY <1>1, <1>4, <1>5, ReadIs
  <1>7. e.pos - c.pos = EncodedVarSize(n)
    BY <1>1, <1>2
  <1> QED BY <1>5, <1>6, <1>7

(* Other numbers take four or eight bytes. *)
LEMMA NumberMoved ==
  ASSUME NEW c, IsCursor(c), NEW size \in Nat \ {0}, NEW n, NEW e, e = Write(c, size, <<n>>),
         NEW d, \A p \in DOMAIN e.cells :
                  p \in DOMAIN d.cells /\ (p = c.pos => d.cells[p] = e.cells[p]),
         d.pos \in Nat, d.pos >= e.pos,
         NEW r, IsCursor(r), Holds(r, c, d)
  PROVE  /\ Number(r) = n
         /\ IsCursor(Read(r, size)) /\ Read(r, size).pos = r.pos + (e.pos - c.pos)
         /\ Read(r, size).cells = r.cells /\ Read(r, size).row = r.row
         /\ Read(r, size).ok = r.ok
  <1>1. /\ IsCursor(e) /\ e.pos = c.pos + size
        /\ c.pos \in DOMAIN e.cells /\ e.cells[c.pos] = [size |-> size, content |-> <<n>>]
    BY WriteIs
  <1>2. c.pos \in Nat /\ r.pos \in Nat
    BY DEF IsCursor
  <1>3. c.pos < d.pos /\ c.pos - c.pos + r.pos = r.pos
    BY <1>1, <1>2
  <1>4. r.pos \in DOMAIN r.cells /\ r.cells[r.pos] = [size |-> size, content |-> <<n>>]
    BY <1>1, <1>2, <1>3 DEF Holds, Stands
  <1>5. Number(r) = n /\ r.cells[r.pos].size = size
    BY <1>4 DEF Number
  <1>6. /\ IsCursor(Read(r, size)) /\ Read(r, size).pos = r.pos + size
        /\ Read(r, size).cells = r.cells /\ Read(r, size).row = r.row
        /\ Read(r, size).ok = r.ok
    BY <1>1, <1>4, <1>5, ReadIs
  <1>7. e.pos - c.pos = size
    BY <1>1, <1>2
  <1> QED BY <1>5, <1>6, <1>7

(* What is written of a value that has a size, and read of it. *)
LEMMA ContentMoved ==
  ASSUME NEW c, IsCursor(c), NEW size \in Nat, NEW text, size = 0 => text = Nothing,
         NEW d, d = Write(c, size, text),
         NEW r, IsCursor(r), Holds(r, c, d)
  PROVE  /\ Content(r, size) = text
         /\ IsCursor(Read(r, size)) /\ Read(r, size).pos = r.pos + (d.pos - c.pos)
         /\ Read(r, size).cells = r.cells /\ Read(r, size).row = r.row
         /\ Read(r, size).ok = r.ok
  <1>1. c.pos \in Nat /\ r.pos \in Nat /\ d.pos = c.pos + size
    <2>1. d.pos = c.pos + size
      BY WriteMoves
    <2> QED BY <2>1 DEF IsCursor
  <1>2. CASE size = 0
    <2>1. Content(r, size) = text
      BY <1>2 DEF Content
    <2> QED BY <1>1, <1>2, <2>1, ReadIs
  <1>3. CASE size > 0
    <2>1. c.pos \in DOMAIN d.cells /\ d.cells[c.pos] = [size |-> size, content |-> text]
      BY <1>3, WriteIs
    <2>2. c.pos < d.pos /\ c.pos - c.pos + r.pos = r.pos
      BY <1>1, <1>3
    <2>3. r.pos \in DOMAIN r.cells /\ r.cells[r.pos] = [size |-> size, content |-> text]
      BY <1>1, <2>1, <2>2 DEF Holds, Stands
    <2>4. Content(r, size) = text
      BY <1>3, <2>3 DEF Content
    <2>5. r.cells[r.pos].size = size
      BY <2>3
    <2> QED BY <1>1, <2>3, <2>4, <2>5, ReadIs
  <1> QED BY <1>1, <1>2, <1>3

LEMMA HoldsRest ==
  ASSUME NEW c, NEW e, NEW d, NEW r, NEW s, Holds(r, c, d), c.pos \in Nat, e.pos \in Nat,
         r.pos \in Nat, c.pos <= e.pos, s.cells = r.cells, s.pos = r.pos + (e.pos - c.pos),
         DOMAIN d.cells \subseteq Nat
  PROVE  Holds(s, e, d)
  <1> SUFFICES ASSUME NEW p \in DOMAIN d.cells, e.pos <= p, p < d.pos
               PROVE  /\ p - e.pos + s.pos \in DOMAIN s.cells
                      /\ s.cells[p - e.pos + s.pos] = d.cells[p]
    BY DEF Holds, Stands
  <1>1. p \in Nat /\ c.pos <= p /\ p - e.pos + s.pos = p - c.pos + r.pos
    OBVIOUS
  <1> QED BY <1>1 DEF Holds, Stands

(* From c to d the stream has grown behind c only, and up to d. *)
Grown(c, d) ==
  /\ \A p \in DOMAIN c.cells : p < c.pos => p \in DOMAIN d.cells /\ d.cells[p] = c.cells[p]
  /\ \A p \in DOMAIN d.cells \ DOMAIN c.cells : c.pos <= p /\ p < d.pos

(* A size before a value, in either format. *)
Sized(c, n) == IF V2 THEN WriteVarSize(c, n) ELSE Write(c, 4, <<n>>)

LEMMA WriteSizeIs ==
  ASSUME NEW c, IsCursor(c), NEW n \in Nat
  PROVE  /\ IsCursor(Sized(c, n)) /\ Sized(c, n).pos \in Nat /\ Sized(c, n).pos > c.pos
         /\ DOMAIN Sized(c, n).cells = DOMAIN c.cells \cup {c.pos}
         /\ \A p \in DOMAIN c.cells : p # c.pos => Sized(c, n).cells[p] = c.cells[p]
  <1> DEFINE e == Sized(c, n)
  <1>1. c.pos \in Nat
    BY DEF IsCursor
  <1>2. CASE V2
    <2>1. e = WriteVarSize(c, n)
      BY <1>2 DEF Sized
    <2>2. /\ IsCursor(e) /\ e.pos = c.pos + EncodedVarSize(n) /\ e.ok = c.ok /\ e.row = c.row
          /\ EncodedVarSize(n) \in {1, 4, 8} /\ DOMAIN e.cells = DOMAIN c.cells \cup {c.pos}
          /\ \A p \in DOMAIN c.cells : p # c.pos => e.cells[p] = c.cells[p]
      BY <2>1, WriteVarSizeIs
    <2> QED BY <1>1, <2>2
  <1>3. CASE ~ V2
    <2>1. e = Write(c, 4, <<n>>)
      BY <1>3 DEF Sized
    <2>2. /\ IsCursor(e) /\ e.pos = c.pos + 4 /\ e.ok = c.ok /\ e.row = c.row
          /\ DOMAIN e.cells = DOMAIN c.cells \cup {c.pos}
          /\ \A p \in DOMAIN c.cells : p # c.pos => e.cells[p] = c.cells[p]
      <3>1. IsCursor(e) /\ e.pos = c.pos + 4 /\ e.ok = c.ok /\ e.row = c.row
        BY <2>1, WriteMoves
      <3>2. e.cells = CellsAfter(c, 4, <<n>>)
        BY <2>1, WriteCells
      <3> QED BY <3>1, <3>2 DEF CellsAfter
    <2> QED BY <1>1, <2>2
  <1> QED BY <1>2, <1>3

LEMMA SizeMoved ==
  ASSUME NEW c, IsCursor(c), NEW n \in Nat,
         NEW e, e = Sized(c, n),
         NEW d, \A p \in DOMAIN e.cells :
                  p \in DOMAIN d.cells /\ (p = c.pos => d.cells[p] = e.cells[p]),
         d.pos \in Nat, d.pos >= e.pos,
         NEW r, IsCursor(r), Holds(r, c, d)
  PROVE  /\ SizeAt(r) = n
         /\ IsCursor(ReadSize(r)) /\ ReadSize(r).pos = r.pos + (e.pos - c.pos)
         /\ ReadSize(r).cells = r.cells /\ ReadSize(r).row = r.row
         /\ ReadSize(r).ok = r.ok
  <1>1. CASE V2
    <2>1. e = WriteVarSize(c, n)
      BY <1>1 DEF Sized
    <2> QED BY <1>1, <2>1, VarSizeMoved DEF SizeAt, ReadSize
  <1>2. CASE ~ V2
    <2>1. e = Write(c, 4, <<n>>)
      BY <1>2 DEF Sized
    <2>2. /\ Number(r) = n
          /\ IsCursor(Read(r, 4)) /\ Read(r, 4).pos = r.pos + (e.pos - c.pos)
          /\ Read(r, 4).cells = r.cells /\ Read(r, 4).row = r.row /\ Read(r, 4).ok = r.ok
      BY <2>1, NumberMoved
    <2> QED BY <1>2, <2>2 DEF SizeAt, ReadSize
  <1> QED BY <1>1, <1>2

LEMMA ReturnIs ==
  ASSUME NEW c, IsCursor(c), NEW value
  PROVE  LET d == Return(c, value) IN
         IsCursor(d) /\ d.pos = c.pos /\ d.cells = c.cells /\ d.ok = c.ok
           /\ d.row = Append(c.row, value)
  BY DEF Return, IsCursor

(* A value that was written from c to d is read from r to s. *)
Written(c, d) ==
  Grown(c, d) /\ d.pos \in Nat /\ d.pos > c.pos /\ DOMAIN d.cells \subseteq Nat
ReadBack(c, d, r, s, value) ==
  /\ s.row = Append(r.row, value) /\ s.ok = r.ok
  /\ s.pos = r.pos + (d.pos - c.pos)

LEMMA StringExact ==
  ASSUME NEW c, IsCursor(c), DOMAIN c.cells \subseteq Nat,
         NEW n \in Nat, NEW text, n = 0 => text = Nothing,
         NEW value, value = [length |-> n, text |-> text],
         NEW d, d = WriteString(c, value)
  PROVE  /\ Written(c, d)
         /\ \A r : IsCursor(r) /\ Holds(r, c, d) => ReadBack(c, d, r, ReadString(r), value)
  <1> DEFINE e == Sized(c, n)
  <1>1. d = Write(e, n, text)
    BY DEF WriteString, Sized
  <1>2. /\ IsCursor(e) /\ e.pos \in Nat /\ e.pos > c.pos
        /\ DOMAIN e.cells = DOMAIN c.cells \cup {c.pos}
        /\ \A p \in DOMAIN c.cells : p # c.pos => e.cells[p] = c.cells[p]
    BY WriteSizeIs
  <1> HIDE DEF e
  <1>3. /\ IsCursor(d) /\ d.pos = e.pos + n
        /\ \A p \in DOMAIN e.cells : p \in DOMAIN d.cells /\ (p # e.pos => d.cells[p] = e.cells[p])
        /\ DOMAIN d.cells \subseteq DOMAIN e.cells \cup {e.pos}
        /\ n = 0 => DOMAIN d.cells = DOMAIN e.cells
    <2>1. IsCursor(d) /\ d.pos = e.pos + n
      BY <1>1, <1>2, WriteMoves
    <2>2. d.cells = CellsAfter(e, n, text)
      BY <1>1, <1>2, WriteCells
    <2> QED BY <2>1, <2>2 DEF CellsAfter
  <1>4. c.pos \in Nat /\ d.pos \in Nat /\ d.pos >= e.pos /\ DOMAIN d.cells \subseteq Nat
        /\ \A p \in DOMAIN e.cells : p \in DOMAIN d.cells /\ (p = c.pos => d.cells[p] = e.cells[p])
    BY <1>2, <1>3 DEF IsCursor
  <1>5. Written(c, d)
    BY <1>2, <1>3, <1>4 DEF Written, Grown
  <1>6. ASSUME NEW r, IsCursor(r), Holds(r, c, d)
        PROVE  ReadBack(c, d, r, ReadString(r), value)
    <2> DEFINE s == ReadSize(r)
    <2>0. r.pos \in Nat
      BY <1>6 DEF IsCursor
    <2>5. /\ SizeAt(r) = n /\ IsCursor(s) /\ s.pos = r.pos + (e.pos - c.pos)
          /\ s.cells = r.cells /\ s.row = r.row /\ s.ok = r.ok
      BY <1>4, <1>6, SizeMoved DEF e
    <2>6. Holds(s, e, d)
      BY <1>2, <1>4, <1>6, <2>0, <2>5, HoldsRest
    <2>7. /\ Content(s, n) = text /\ IsCursor(Read(s, n))
          /\ Read(s, n).pos = s.pos + (d.pos - e.pos)
          /\ Read(s, n).row = s.row /\ Read(s, n).ok = s.ok
      BY <1>1, <1>2, <2>5, <2>6, ContentMoved
    <2>8. ReadString(r) = Return(Read(s, n), [length |-> n, text |-> text])
      BY <2>5, <2>7 DEF ReadString
    <2>9. Read(s, n).pos = r.pos + (d.pos - c.pos)
      BY <1>2, <1>4, <2>0, <2>5, <2>7
    <2> HIDE DEF s
    <2> QED BY <2>5, <2>7, <2>8, <2>9, ReturnIs DEF ReadBack
  <1> QED BY <1>5, <1>6

(* The size that is put in at the end stands where it would stand had it    *)
(* been known from the start.                                               *)
LEMMA ArraySizeFirst ==
  ASSUME NEW c, IsCursor(c), NEW n \in Nat, NEW text,
         NEW d, d = EncodeVarData(c, "longs", [count |-> n, text |-> text])
  PROVE  \E k \in Nat : LET e == Write(Sized(Sized(c, k), n), 8 * n, text) IN
           d.pos = e.pos /\ d.cells = e.cells
  <1>0. /\ d = ArrayEnd(Write(PutArraySizeInfo(c, 8 * n, n), 8 * n, text), c.pos)
        /\ c.pos \in Nat /\ 8 * n \in Nat
    BY DEF EncodeVarData, IsCursor
  <1>1. CASE V2
    <2> DEFINE k == 8 * n + EncodedVarSize(n)
    <2>1. k \in Nat
      BY <1>0 DEF EncodedVarSize
    <2>2. d = Write(Sized(Sized(c, k), n), 8 * n, text)
      BY <1>0, <1>1 DEF ArrayEnd, PutArraySizeInfo, Sized
    <2> QED BY <2>1, <2>2
  <1>2. CASE ~ V2
    <2> DEFINE k == 8 * n + 4
               a == Write(c, 4, <<0>>)
               b == Write(a, 4, <<n>>)
               f == Write(b, 8 * n, text)
               g == At(f, c.pos)
               h == Write(g, 4, <<f.pos - (c.pos + 4)>>)
               a1 == Write(c, 4, <<k>>)
               b1 == Write(a1, 4, <<n>>)
               e == Write(b1, 8 * n, text)
    <2>1. d = At(h, f.pos) /\ e = Write(Sized(Sized(c, k), n), 8 * n, text)
      BY <1>0, <1>2 DEF ArrayEnd, PutArraySizeInfo, Sized
    <2>2. /\ IsCursor(a) /\ a.pos = c.pos + 4 /\ IsCursor(a1) /\ a1.pos = c.pos + 4
          /\ IsCursor(b) /\ b.pos = c.pos + 8 /\ IsCursor(b1) /\ b1.pos = c.pos + 8
          /\ IsCursor(f) /\ f.pos = c.pos + 8 + 8 * n /\ IsCursor(e) /\ e.pos = c.pos + 8 + 8 * n
      <3>1. IsCursor(a) /\ a.pos = c.pos + 4 /\ IsCursor(a1) /\ a1.pos = c.pos + 4
        BY WriteMoves
      <3>2. IsCursor(b) /\ b.pos = a.pos + 4 /\ IsCursor(b1) /\ b1.pos = a1.pos + 4
        BY <3>1, WriteMoves
      <3>3. IsCursor(f) /\ f.pos = b.pos + 8 * n /\ IsCursor(e) /\ e.pos = b1.pos + 8 * n
        BY <1>0, <3>2, WriteMoves
      <3> HIDE DEF a, a1, b, b1, f, e
      <3> QED BY <1>0, <3>1, <3>2, <3>3
    <2>3. IsCursor(g) /\ g.pos = c.pos /\ g.cells = f.cells
      <3> HIDE DEF f
      <3> QED BY <1>0, <2>2 DEF At, IsCursor
    <2>4. h.cells = CellsAfter(g, 4, <<k>>)
      <3>1. f.pos - (c.pos + 4) = k
        <4> HIDE DEF f
        <4> QED BY <1>0, <2>2
      <3> HIDE DEF f, g
      <3> QED BY <2>3, <3>1, WriteCells
    <2>5. d.pos = f.pos /\ d.cells = h.cells
      <3>1. IsCursor(h)
        <4> HIDE DEF f, g
        <4> QED BY <2>3, WriteMoves
      <3> HIDE DEF f, g, h
      <3> QED BY <2>1, <3>1 DEF At, IsCursor
    <2>6. a.cells = CellsAfter(c, 4, <<0>>) /\ a1.cells = CellsAfter(c, 4, <<k>>)
      BY WriteCells
    <2>7. b.cells = CellsAfter(a, 4, <<n>>) /\ b1.cells = CellsAfter(a1, 4, <<n>>)
      <3> HIDE DEF a, a1
      <3> QED BY <2>2, WriteCells
    <2>8. f.cells = CellsAfter(b, 8 * n, text) /\ e.cells = CellsAfter(b1, 8 * n, text)
      <3> HIDE DEF b, b1
      <3> QED BY <1>0, <2>2, WriteCells
    <2> HIDE DEF a, b, f, g, h, a1, b1, e, k
    <2>9. /\ DOMAIN b.cells = DOMAIN b1.cells /\ c.pos \in DOMAIN b.cells
          /\ b1.cells[c.pos] = [size |-> 4, content |-> <<k>>]
          /\ \A p \in DOMAIN b.cells : p # c.pos => b.cells[p] = b1.cells[p]
      BY <1>0, <2>2, <2>6, <2>7 DEF CellsAfter
    <2>10. /\ DOMAIN f.cells = DOMAIN e.cells /\ c.pos \in DOMAIN f.cells
           /\ e.cells[c.pos] = [size |-> 4, content |-> <<k>>]
           /\ \A p \in DOMAIN f.cells : p # c.pos => f.cells[p] = e.cells[p]
      BY <1>0, <2>2, <2>8, <2>9 DEF CellsAfter
    <2>11. h.cells = e.cells
      <3>1. e.cells = [p \in DOMAIN e.cells |-> e.cells[p]]
        <4>1. b1.cells = [p \in DOMAIN b1.cells |-> b1.cells[p]]
          BY <2>7 DEF CellsAfter
        <4> QED BY <2>8, <4>1 DEF CellsAfter
      <3> QED BY <2>3, <2>4, <2>10, <3>1 DEF CellsAfter
    <2>12. k \in Nat
      BY <1>0 DEF k
    <2> QED BY <2>1, <2>2, <2>5, <2>11, <2>12
  <1> QED BY <1>1, <1>2

LEMMA LongsExact ==
  ASSUME NEW c, IsCursor(c), DOMAIN c.cells \subseteq Nat,
         NEW n \in Nat, NEW text, n = 0 => text = Nothing,
         NEW value, value = [count |-> n, text |-> text],
         NEW d, d = EncodeVarData(c, "longs", value)
  PROVE  /\ Written(c, d)
         /\ \A r : IsCursor(r) /\ Holds(r, c, d) =>
              ReadBack(c, d, r, DecodeVarData(r, "longs"), value)
  <1> PICK k \in Nat : LET e == Write(Sized(Sized(c, k), n), 8 * n, text) IN
                         d.pos = e.pos /\ d.cells = e.cells
    BY ArraySizeFirst
  <1> DEFINE a == Sized(c, k)
             b == Sized(a, n)
             e == Write(b, 8 * n, text)
  <1>0. 8 * n \in Nat /\ (8 * n = 0 => text = Nothing) /\ c.pos \in Nat
    BY DEF IsCursor
  <1>1. d.pos = e.pos /\ d.cells = e.cells
    OBVIOUS
  <1>2. /\ IsCursor(a) /\ a.pos \in Nat /\ a.pos > c.pos
        /\ DOMAIN a.cells = DOMAIN c.cells \cup {c.pos}
        /\ \A p \in DOMAIN c.cells : p # c.pos => a.cells[p] = c.cells[p]
    BY WriteSizeIs
  <1> HIDE DEF a
  <1>3. /\ IsCursor(b) /\ b.pos \in Nat /\ b.pos > a.pos
        /\ DOMAIN b.cells = DOMAIN a.cells \cup {a.pos}
        /\ \A p \in DOMAIN a.cells : p # a.pos => b.cells[p] = a.cells[p]
    BY <1>2, WriteSizeIs
  <1> HIDE DEF b
  <1>4. /\ IsCursor(e) /\ e.pos = b.pos + 8 * n
        /\ \A p \in DOMAIN b.cells : p \in DOMAIN e.cells /\ (p # b.pos => e.cells[p] = b.cells[p])
        /\ DOMAIN e.cells \subseteq DOMAIN b.cells \cup {b.pos}
        /\ 8 * n = 0 => DOMAIN e.cells = DOMAIN b.cells
    <2>1. IsCursor(e) /\ e.pos = b.pos + 8 * n
      BY <1>0, <1>3, WriteMoves
    <2>2. e.cells = CellsAfter(b, 8 * n, text)
      BY <1>0, <1>3, WriteCells
    <2> HIDE DEF e
    <2> QED BY <2>1, <2>2 DEF CellsAfter
  <1>5. /\ e.pos \in Nat /\ e.pos >= b.pos /\ e.pos >= a.pos /\ DOMAIN e.cells \subseteq Nat
        /\ \A p \in DOMAIN a.cells : p \in DOMAIN e.cells /\ (p = c.pos => e.cells[p] = a.cells[p])
        /\ \A p \in DOMAIN b.cells : p \in DOMAIN e.cells /\ (p = a.pos => e.cells[p] = b.cells[p])
    <2> HIDE DEF e
    <2> QED BY <1>0, <1>2, <1>3, <1>4
  <1>7. Written(c, d)
    <2>1. Grown(c, e)
      <3> HIDE DEF e
      <3> QED BY <1>0, <1>2, <1>3, <1>4, <1>5 DEF Grown
    <2> HIDE DEF e
    <2> QED BY <1>0, <1>1, <1>2, <1>3, <1>5, <2>1 DEF Written, Grown
  <1>6. ASSUME NEW r, IsCursor(r), Holds(r, c, d)
        PROVE  ReadBack(c, d, r, DecodeVarData(r, "longs"), value)
    <2> DEFINE s == ReadSize(r)
               t == ReadSize(s)
    <2>0. r.pos \in Nat
      BY <1>6 DEF IsCursor
    <2>1. Holds(r, c, e)
      BY <1>1, <1>6 DEF Holds, Stands
    <2>6. /\ SizeAt(r) = k /\ IsCursor(s) /\ s.pos = r.pos + (a.pos - c.pos)
          /\ s.cells = r.cells /\ s.row = r.row /\ s.ok = r.ok
      <3> HIDE DEF e
      <3> QED BY <1>5, <1>6, <2>1, SizeMoved DEF a
    <2> HIDE DEF s
    <2>7. Holds(s, a, e)
      <3> HIDE DEF e
      <3> QED BY <1>0, <1>2, <1>5, <2>0, <2>1, <2>6, HoldsRest
    <2>8. /\ SizeAt(s) = n /\ IsCursor(t) /\ t.pos = s.pos + (b.pos - a.pos)
          /\ t.cells = s.cells /\ t.row = s.row /\ t.ok = s.ok
      <3> HIDE DEF e
      <3> QED BY <1>2, <1>5, <2>6, <2>7, SizeMoved DEF b
    <2> HIDE DEF t
    <2>9. Holds(t, b, e)
      <3>1. s.pos \in Nat
        BY <2>6 DEF IsCursor
      <3> HIDE DEF e
      <3> QED BY <1>2, <1>3, <1>5, <2>7, <2>8, <3>1, HoldsRest
    <2>10. /\ Content(t, 8 * n) = text /\ IsCursor(Read(t, 8 * n))
           /\ Read(t, 8 * n).pos = t.pos + (e.pos - b.pos)
           /\ Read(t, 8 * n).row = t.row /\ Read(t, 8 * n).ok = t.ok
      BY <1>0, <1>3, <2>8, <2>9, ContentMoved
    <2>11. DecodeVarData(r, "longs") = Return(Read(t, 8 * n), [count |-> n, text |-> text])
      BY <2>8, <2>10 DEF DecodeVarData, DecodeLongs, s, t
    <2>12. Read(t, 8 * n).pos = r.pos + (d.pos - c.pos)
      <3> HIDE DEF e
      <3> QED BY <1>0, <1>1, <1>2, <1>3, <1>5, <2>0, <2>6, <2>8, <2>10
    <2> QED BY <2>6, <2>8, <2>10, <2>11, <2>12, ReturnIs DEF ReadBack
  <1> QED BY <1>6, <1>7

(* What writing and reading a value leave of a cursor. *)
WriterKeeps(c, d) == DOMAIN d = DOMAIN c /\ \A f \in DOMAIN c \ {"pos", "cells"} : d[f] = c[f]
ReaderKeeps(r, s) == DOMAIN s = DOMAIN r /\ \A f \in DOMAIN r \ {"pos", "ok", "row"} : s[f] = r[f]

LEMMA WriteKeeps ==
  ASSUME NEW c, NEW size, NEW content
  PROVE  WriterKeeps(c, Write(c, size, content))
  BY DEF WriterKeeps, Write

LEMMA AtKeeps ==
  ASSUME NEW c, NEW pos
  PROVE  WriterKeeps(c, At(c, pos))
  BY DEF WriterKeeps, At

LEMMA WriterKeepsAll ==
  ASSUME NEW c, NEW d, NEW e, WriterKeeps(c, d), WriterKeeps(d, e)
  PROVE  WriterKeeps(c, e)
  BY DEF WriterKeeps

LEMMA SizedKeeps ==
  ASSUME NEW c, NEW n
  PROVE  WriterKeeps(c, Sized(c, n)) /\ WriterKeeps(c, WriteVarSize(c, n))
  <1>1. WriterKeeps(c, WriteVarSize(c, n))
    <2>1. \/ WriteVarSize(c, n) = Write(c, 1, <<2 * n + 1>>)
          \/ WriteVarSize(c, n) = Write(c, 4, <<4 * n>>)
          \/ WriteVarSize(c, n) = Write(c, 8, <<4 * n + 2>>)
      BY DEF WriteVarSize
    <2> QED BY <2>1, WriteKeeps
  <1>2. Sized(c, n) = WriteVarSize(c, n) \/ Sized(c, n) = Write(c, 4, <<n>>)
    BY DEF Sized
  <1> QED BY <1>1, <1>2, WriteKeeps

LEMMA ReadKeeps ==
  ASSUME NEW r, NEW size
  PROVE  ReaderKeeps(r, Read(r, size))
  BY DEF ReaderKeeps, Read

LEMMA ReturnKeeps ==
  ASSUME NEW r, NEW value
  PROVE  ReaderKeeps(r, Return(r, value))
  BY DEF ReaderKeeps, Return

LEMMA ReaderKeepsAll ==
  ASSUME NEW r, NEW s, NEW t, ReaderKeeps(r, s), ReaderKeeps(s, t)
  PROVE  ReaderKeeps(r, t)
  BY DEF ReaderKeeps

LEMMA ReadSizeKeeps ==
  ASSUME NEW r
  PROVE  ReaderKeeps(r, ReadSize(r))
  <1>1. \E n : ReadSize(r) = Read(r, n)
    BY DEF ReadSize, ReadVarSize
  <1> QED BY <1>1, ReadKeeps

(* The values of a column with a variable part, lists of strings apart. *)
ValueOf(type, value, n, text) ==
  /\ \/ type = "string" /\ value = [length |-> n, text |-> text]
     \/ type = "longs" /\ value = [count |-> n, text |-> text]
  /\ n = 0 => text = Nothing

IsValue(type, value) == \E n \in Nat : \E text : ValueOf(type, value, n, text)

LEMMA ValueKeeps ==
  ASSUME NEW c, NEW type, NEW value, IsValue(type, value), NEW r
  PROVE  /\ WriterKeeps(c, EncodeVarData(c, type, value))
         /\ ReaderKeeps(r, DecodeVarData(r, type))
  <1> PICK n \in Nat : \E text : ValueOf(type, value, n, text)
    BY DEF IsValue
  <1> PICK text : ValueOf(type, value, n, text)
    OBVIOUS
  <1> USE DEF ValueOf
  <1>1. CASE type = "string"
    <2> DEFINE e == Sized(c, n)
               s == ReadSize(r)
               t == Read(s, SizeAt(r))
               result == Return(t, [length |-> SizeAt(r), text |-> Content(s, SizeAt(r))])
    <2>1. EncodeVarData(c, type, value) = Write(e, n, text) /\ DecodeVarData(r, type) = result
      BY <1>1 DEF EncodeVarData, WriteString, Sized, DecodeVarData, ReadString
    <2>2. WriterKeeps(c, e) /\ WriterKeeps(e, Write(e, n, text))
      BY SizedKeeps, WriteKeeps
    <2>3. ReaderKeeps(r, s) /\ ReaderKeeps(s, t) /\ ReaderKeeps(t, result)
      BY ReadSizeKeeps, ReadKeeps, ReturnKeeps
    <2> HIDE DEF e, s, t, result
    <2>4. ReaderKeeps(s, result)
      BY <2>3, ReaderKeepsAll
    <2> QED BY <2>1, <2>2, <2>3, <2>4, WriterKeepsAll, ReaderKeepsAll
  <1>2. CASE type = "longs"
    <2> DEFINE a == PutArraySizeInfo(c, 8 * n, n)
               b == Write(a, 8 * n, text)
               s == ReadSize(r)
               t == ReadSize(s)
               u == Read(t, 8 * SizeAt(s))
               result == Return(u, [count |-> SizeAt(s), text |-> Content(t, 8 * SizeAt(s))])
    <2>1. EncodeVarData(c, type, value) = ArrayEnd(b, c.pos) /\ DecodeVarData(r, type) = result
      BY <1>2 DEF EncodeVarData, DecodeVarData, DecodeLongs
    <2>2. WriterKeeps(c, a)
      <3> DEFINE x == WriteVarSize(c, 8 * n + EncodedVarSize(n))
                 y == Write(c, 4, <<0>>)
      <3>1. a = WriteVarSize(x, n) \/ a = Write(y, 4, <<n>>)
        BY DEF PutArraySizeInfo
      <3>2. /\ WriterKeeps(c, x) /\ WriterKeeps(x, WriteVarSize(x, n))
            /\ WriterKeeps(c, y) /\ WriterKeeps(y, Write(y, 4, <<n>>))
        BY SizedKeeps, WriteKeeps
      <3> HIDE DEF x, y, a
      <3> QED BY <3>1, <3>2, WriterKeepsAll
    <2>3. WriterKeeps(a, b)
      BY WriteKeeps
    <2>4. WriterKeeps(b, ArrayEnd(b, c.pos))
      <3> DEFINE x == At(b, c.pos)
                 y == Write(x, 4, <<b.pos - (c.pos + 4)>>)
      <3>1. ArrayEnd(b, c.pos) = b \/ ArrayEnd(b, c.pos) = At(y, b.pos)
        BY DEF ArrayEnd
      <3>2. /\ WriterKeeps(b, b) /\ WriterKeeps(b, x)
            /\ WriterKeeps(x, y) /\ WriterKeeps(y, At(y, b.pos))
        <4>1. WriterKeeps(b, b)
          BY DEF WriterKeeps
        <4> QED BY <4>1, AtKeeps, WriteKeeps
      <3> HIDE DEF x, y, b
      <3>3. WriterKeeps(b, y)
        BY <3>2, WriterKeepsAll
      <3> QED BY <3>1, <3>2, <3>3, WriterKeepsAll
    <2>5. ReaderKeeps(r, s) /\ ReaderKeeps(s, t) /\ ReaderKeeps(t, u) /\ ReaderKeeps(u, result)
      BY ReadSizeKeeps, ReadKeeps, ReturnKeeps
    <2> HIDE DEF a, b, s, t, u, result
    <2>6. ReaderKeeps(r, t)
      BY <2>5, ReaderKeepsAll
    <2>7. ReaderKeeps(r, u)
      BY <2>5, <2>6, ReaderKeepsAll
    <2>8. WriterKeeps(c, b)
      BY <2>2, <2>3, WriterKeepsAll
    <2> QED BY <2>1, <2>4, <2>5, <2>7, <2>8, WriterKeepsAll, ReaderKeepsAll
  <1> QED BY <1>1, <1>2

(* The variable part of a value (putString, encodeArray, putArraySizeInfo   *)
(* and their counterparts on the way back) is read as it was written, and   *)
(* as much is read as was written; what stood before it stays.  It holds    *)
(* wherever the server has moved the value, in both formats, and for every  *)
(* length and every threshold of the sizes.                                 *)
THEOREM CodecValueExact ==
  ASSUME NEW c, IsCursor(c), DOMAIN c.cells \subseteq Nat,
         NEW type, NEW value, IsValue(type, value),
         NEW d, d = EncodeVarData(c, type, value)
  PROVE  /\ Written(c, d)
         /\ \A r : IsCursor(r) /\ Holds(r, c, d) =>
              ReadBack(c, d, r, DecodeVarData(r, type), value)
  <1> PICK n \in Nat : \E text : ValueOf(type, value, n, text)
    BY DEF IsValue
  <1> PICK text : ValueOf(type, value, n, text)
    OBVIOUS
  <1> USE DEF ValueOf
  <1>1. CASE type = "string"
    <2>1. d = WriteString(c, value) /\ \A r : DecodeVarData(r, type) = ReadString(r)
      BY <1>1 DEF EncodeVarData, DecodeVarData
    <2> QED BY <1>1, <2>1, StringExact
  <1>2. CASE type = "longs"
    BY <1>2, LongsExact
  <1> QED BY <1>1, <1>2

(* A cursor of a list of rows. *)
IsListCursor(c) ==
  /\ IsCursor(c)
  /\ {"varDataTop", "varDataLast", "pendingPos", "varDataBaseOffset"} \subseteq DOMAIN c
  /\ c.varDataTop \in Nat /\ c.varDataLast \in Nat

(* Where the variable part of the next value is expected. *)
VarPos(r, offset) ==
  IF V2 THEN r.varDataLast ELSE r.varDataTop + offset - r.varDataBaseOffset

(* A field of a row (encodeField, decodeField) is read as it was written,   *)
(* both when it is written at once and when the cursor goes to the variable *)
(* part of the list and back (beginVarData, endVarData).  The list may be   *)
(* another one than that which was written: its variable part begins        *)
(* elsewhere, and with the values of another row (setVarDataBaseOffset).    *)
(* Both cursors then stand behind the field, in each part of the list.      *)
THEOREM CodecFieldExact ==
  ASSUME NEW c, IsListCursor(c), DOMAIN c.cells \subseteq Nat,
         NEW i \in DOMAIN schema, schema[i] \in {"byte", "long", "string", "longs"},
         NEW value, HasVarDataPart(schema[i]) => IsValue(schema[i], value),
         NEW size, size = FixedFieldPartSize(schema[i]), c.pos + size <= c.varDataLast,
         NEW d, d = EncodeField(c, i, value),
         NEW r, IsListCursor(r),
         NEW v \in Nat, v = VarPos(r, c.varDataLast - c.varDataTop),
         Stands(r, r.pos, d, c.pos, c.pos + size),
         Stands(r, v, d, c.varDataLast, d.varDataLast),
         NEW s, s = DecodeField(r, i)
  PROVE  /\ s.row = Append(r.row, value) /\ s.ok = r.ok
         /\ d.pos = c.pos + size /\ s.pos = r.pos + size
         /\ IF HasVarDataPart(schema[i])
            THEN s.varDataLast = v + (d.varDataLast - c.varDataLast)
            ELSE s.varDataLast = r.varDataLast /\ d.varDataLast = c.varDataLast
         /\ s.varDataTop = r.varDataTop /\ s.varDataBaseOffset = r.varDataBaseOffset
         /\ d.varDataTop = c.varDataTop
  <1> DEFINE type == schema[i]
  <1>0. size \in Nat /\ c.pos \in Nat /\ r.pos \in Nat /\ IsCursor(c) /\ IsCursor(r)
        /\ c.varDataLast \in Nat /\ c.varDataTop \in Nat
    BY DEF FixedFieldPartSize, HasVarDataPart, IsListCursor, IsCursor
  <1>1. CASE ~ HasVarDataPart(type)
    <2>1. size \in {1, 8} /\ d = Write(c, size, value)
      <3>1. size \in {1, 8}
        BY <1>1 DEF FixedFieldPartSize, HasVarDataPart
      <3>2. d = Write(c, size, value)
        BY <1>1 DEF EncodeField
      <3> QED BY <3>1, <3>2
    <2> DEFINE q == Read(r, size)
    <2>2. s = Return(q, Content(r, size))
      BY <1>1 DEF DecodeField
    <2>3. d.pos = c.pos + size /\ d.cells = CellsAfter(c, size, value)
      BY <1>0, <2>1, WriteMoves, WriteCells
    <2>4. r.pos \in DOMAIN r.cells /\ r.cells[r.pos] = [size |-> size, content |-> value]
      <3>1. c.pos \in DOMAIN d.cells /\ d.cells[c.pos] = [size |-> size, content |-> value]
        BY <2>1, <2>3 DEF CellsAfter
      <3>2. c.pos - c.pos + r.pos = r.pos /\ c.pos < c.pos + size
        BY <1>0, <2>1
      <3> QED BY <1>0, <3>1, <3>2 DEF Stands
    <2>5. Content(r, size) = value
      BY <2>1, <2>4 DEF Content
    <2>6. IsCursor(q) /\ q.pos = r.pos + size /\ q.row = r.row /\ q.ok = r.ok
      <3>1. r.cells[r.pos].size = size
        BY <2>4
      <3> QED BY <1>0, <2>4, <3>1, ReadIs
    <2>7. ReaderKeeps(r, q) /\ ReaderKeeps(q, s) /\ WriterKeeps(c, d)
      BY <2>1, <2>2, ReadKeeps, ReturnKeeps, WriteKeeps
    <2> HIDE DEF q
    <2>8. s.row = Append(r.row, value) /\ s.ok = r.ok /\ s.pos = r.pos + size
      BY <2>2, <2>5, <2>6, ReturnIs
    <2>9. /\ s.varDataLast = r.varDataLast /\ d.varDataLast = c.varDataLast
          /\ s.varDataTop = r.varDataTop /\ s.varDataBaseOffset = r.varDataBaseOffset
          /\ d.varDataTop = c.varDataTop
      BY <2>7 DEF IsListCursor, ReaderKeeps, WriterKeeps
    <2> QED BY <1>1, <2>3, <2>8, <2>9
  <1>2. CASE HasVarDataPart(type)
    <2> DEFINE c1 == BeginOutputVarData(c)
               d1 == EncodeVarData(c1, type, value)
               r1 == BeginInputVarData(r)
               s1 == DecodeVarData(r1, type)
               offset == c.varDataLast - c.varDataTop
               h == IF V2 THEN c ELSE Write(c, 8, <<offset>>)
    <2>1. d = EndVarData(d1) /\ s = EndVarData(s1) /\ size = IF V2 THEN 0 ELSE 8
      <3>1. d = EndVarData(d1)
        BY <1>2 DEF EncodeField
      <3>2. s = EndVarData(s1)
        BY <1>2 DEF DecodeField
      <3>3. size = IF V2 THEN 0 ELSE 8
        BY <1>2 DEF FixedFieldPartSize, HasVarDataPart
      <3> QED BY <3>1, <3>2, <3>3
    <2>2. /\ h.pos = c.pos + size /\ IsCursor(h) /\ WriterKeeps(c, h)
          /\ h.cells = IF V2 THEN c.cells ELSE CellsAfter(c, 8, <<offset>>)
      <3>1. CASE V2
        BY <1>0, <2>1, <3>1 DEF WriterKeeps
      <3>2. CASE ~ V2
        BY <1>0, <2>1, <3>2, WriteMoves, WriteCells, WriteKeeps
      <3> QED BY <3>1, <3>2
    <2>3. c1 = At([h EXCEPT !.pendingPos = h.pos], c.varDataLast)
      BY DEF BeginOutputVarData
    <2> HIDE DEF h
    <2>4. /\ IsListCursor(c1) /\ c1.pos = c.varDataLast /\ c1.cells = h.cells
          /\ c1.pendingPos = h.pos /\ c1.varDataTop = c.varDataTop
      BY <1>0, <2>2, <2>3 DEF At, WriterKeeps, IsListCursor, IsCursor
    <2>5. DOMAIN c1.cells \subseteq Nat
      BY <1>0, <2>2, <2>4 DEF CellsAfter
    <2> HIDE DEF c1
    <2>6. WriterKeeps(c1, d1)
      BY <1>2, ValueKeeps
    <2>7. d1.pendingPos = h.pos /\ d1.varDataTop = c.varDataTop /\ DOMAIN d1 = DOMAIN c1
      BY <2>4, <2>6 DEF WriterKeeps, IsListCursor
    <2>8. /\ d.pos = c.pos + size /\ d.varDataLast = d1.pos /\ d.cells = d1.cells
          /\ d.varDataTop = c.varDataTop
      <3> HIDE DEF d1
      <3> QED BY <2>1, <2>2, <2>4, <2>7 DEF EndVarData, At, IsListCursor, IsCursor
    <2>9. Written(c1, d1) /\ \A q : IsCursor(q) /\ Holds(q, c1, d1) =>
                                    ReadBack(c1, d1, q, DecodeVarData(q, type), value)
      <3>1. IsCursor(c1) /\ IsValue(type, value)
        BY <1>2, <2>4 DEF IsListCursor
      <3> QED BY <2>5, <3>1, CodecValueExact
    <2>10. r1.pos = v /\ r1.cells = r.cells /\ r1.row = r.row /\ r1.ok = r.ok
           /\ DOMAIN r1 = DOMAIN r /\ r1.pendingPos = r.pos + size
           /\ r1.varDataTop = r.varDataTop /\ r1.varDataBaseOffset = r.varDataBaseOffset
      <3>1. CASE V2
        <4>1. r1 = At([r EXCEPT !.pendingPos = r.pos], r.varDataLast)
          BY <3>1 DEF BeginInputVarData
        <4>2. v = r.varDataLast /\ size = 0
          BY <2>1, <3>1 DEF VarPos
        <4> HIDE DEF r1
        <4> QED BY <1>0, <4>1, <4>2 DEF At, IsListCursor, IsCursor
      <3>2. CASE ~ V2
        <4> DEFINE q == Read(r, 8)
        <4>1. size = 8 /\ v = r.varDataTop + offset - r.varDataBaseOffset
          BY <2>1, <3>2 DEF VarPos
        <4>2. c.pos \in DOMAIN d1.cells /\ d1.cells[c.pos] = [size |-> 8, content |-> <<offset>>]
          <5>1. h.cells = CellsAfter(c, 8, <<offset>>)
            BY <2>2, <3>2
          <5>2. c.pos \in DOMAIN h.cells /\ h.cells[c.pos] = [size |-> 8, content |-> <<offset>>]
            BY <5>1 DEF CellsAfter
          <5>3. c.pos < c1.pos
            BY <1>0, <2>4, <4>1
          <5> HIDE DEF d1, offset
          <5> QED BY <2>4, <2>9, <5>2, <5>3 DEF Written, Grown
        <4>3. r.pos \in DOMAIN r.cells /\ r.cells[r.pos] = [size |-> 8, content |-> <<offset>>]
          <5>1. c.pos \in DOMAIN d.cells /\ d.cells[c.pos] = [size |-> 8, content |-> <<offset>>]
            BY <2>8, <4>2
          <5>2. c.pos - c.pos + r.pos = r.pos /\ c.pos < c.pos + size
            BY <1>0, <4>1
          <5> HIDE DEF offset
          <5> QED BY <1>0, <5>1, <5>2 DEF Stands
        <4>4. Number(r) = offset /\ r.cells[r.pos].size = 8
          <5> HIDE DEF offset
          <5> QED BY <4>3 DEF Number
        <4>5. IsCursor(q) /\ q.cells = r.cells /\ q.row = r.row /\ q.ok = r.ok /\ ReaderKeeps(r, q)
          BY <1>0, <4>3, <4>4, ReadIs, ReadKeeps
        <4>6. r1 = At([q EXCEPT !.pendingPos = r.pos + 8], v)
          BY <3>2, <4>1, <4>4 DEF BeginInputVarData
        <4> HIDE DEF r1, q, offset
        <4> QED BY <1>0, <4>1, <4>5, <4>6 DEF At, IsListCursor, IsCursor, ReaderKeeps
      <3> QED BY <3>1, <3>2
    <2> HIDE DEF r1, d1, offset
    <2>11. IsCursor(r1)
      BY <1>0, <2>10 DEF IsCursor
    <2>12. Holds(r1, c1, d1)
      BY <2>4, <2>8, <2>10 DEF Holds, Stands
    <2>13. ReadBack(c1, d1, r1, s1, value) /\ ReaderKeeps(r1, s1)
      <3>1. ReaderKeeps(r1, s1)
        BY <1>2, ValueKeeps
      <3> QED BY <2>9, <2>11, <2>12, <3>1
    <2> HIDE DEF s1
    <2>14. /\ s1.row = Append(r.row, value) /\ s1.ok = r.ok
           /\ s1.pos = v + (d.varDataLast - c.varDataLast)
           /\ DOMAIN s1 = DOMAIN r /\ s1.pendingPos = r.pos + size
           /\ s1.varDataTop = r.varDataTop /\ s1.varDataBaseOffset = r.varDataBaseOffset
      BY <2>4, <2>8, <2>10, <2>13 DEF ReadBack, ReaderKeeps, IsListCursor
    <2>15. /\ s.row = s1.row /\ s.ok = s1.ok /\ s.pos = s1.pendingPos /\ s.varDataLast = s1.pos
           /\ s.varDataTop = s1.varDataTop /\ s.varDataBaseOffset = s1.varDataBaseOffset
      BY <2>1, <2>14 DEF EndVarData, At, IsListCursor, IsCursor
    <2> QED BY <1>2, <2>8, <2>14, <2>15
  <1> QED BY <1>1, <1>2
=============================================================================
