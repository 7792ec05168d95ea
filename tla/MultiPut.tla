------------------------------- MODULE MultiPut -------------------------------
(***************************************************************************)
(* gsPutMultipleContainerRows (client.cpp, GSGridStoreTag::multiPut): the  *)
(* rows of several containers, one request for each partition.  Before     *)
(* each request the client numbers a session for every container of the    *)
(* partition and has them all created; after it they are all closed.  The  *)
(* request is sent again in new sessions when the server has lost one.     *)
(*                                                                         *)
(* The server is the one the client is written for: it works through the   *)
(* containers of a request one after the other, stops at the first that    *)
(* fails, keeps what it has done until then, and executes a statement      *)
(* number of a session once.                                               *)
(***************************************************************************)
EXTENDS Naturals, FiniteSetsExt

CONSTANTS
  Container, PartitionOf,    \* the containers, and the partition of each
  MAX_SESSION_REPAIR_COUNT,
  MaxSessions,               \* bound on the sessions the client numbers
  MaxCalls,                  \* bound on the calls of the application
  MaxLosses                  \* bound on the sessions that vanish

ASSUME MultiPutAssumption ==
  /\ IsFiniteSet(Container)
  /\ PartitionOf \in [Container -> Nat]
  /\ MAX_SESSION_REPAIR_COUNT \in Nat /\ MaxSessions \in Nat
  /\ MaxCalls \in Nat /\ MaxLosses \in Nat

VARIABLES
  put, outcome,              \* the containers of the call, and how it ended
  requestMap,                \* the partitions whose request is still to come
  sessionId,                 \* SubEntry::sessionId_, of each container
  lastSessionId,             \* GridStoreChannel::Context
  pc, stage, reply,          \* the statement under way
  trialCount, sessionTrial,  \* executeStatement
  session,                   \* the server: the containers of its sessions
  done,                      \* and the numbers executed in each of them
  applied,                   \* history: how often the rows of a container were
                             \* put in this call,
  abandoned,                 \* the sessions given up by a repair or a conflict,
                             \* or whose creation or closing failed,
  calls, losses              \* and how many so far

progress == <<requestMap, sessionId, lastSessionId, trialCount, sessionTrial>>
server == <<session, done, applied>>
vars == <<put, outcome, progress, pc, stage, reply, server, abandoned, calls, losses>>

Init ==
  /\ put = {} /\ outcome = "none" /\ requestMap = {}
  /\ sessionId = [c \in Container |-> 0] /\ lastSessionId = 0
  /\ pc = "idle" /\ stage = "create" /\ reply = "none"
  /\ trialCount = 0 /\ sessionTrial = 0
  /\ session = {} /\ done = {}
  /\ applied = [c \in Container |-> 0]
  /\ abandoned = {}
  /\ calls = 0 /\ losses = 0

-----------------------------------------------------------------------------
(* The entries of the request under way: the containers of the least of the *)
(* partitions that are left.                                                *)
PartitionEntries(partitions) == {c \in put : PartitionOf[c] = Min(partitions)}

containerKeyList == PartitionEntries(requestMap)

SessionsOf(entries) == {sessionId[c] : c \in entries}

Send(s) == /\ stage' = s /\ pc' = "send" /\ reply' = "none"

(* Each of the containers gets a new session number. *)
GenerateSessionIds(entries) ==
  LET n == Cardinality(entries)
      new == CHOOSE f \in [entries -> lastSessionId + 1 .. lastSessionId + n] :
               \A c, d \in entries : c # d => f[c] # f[d]
  IN
  /\ lastSessionId + n <= MaxSessions
  /\ sessionId' = [c \in Container |-> IF c \in entries THEN new[c] ELSE sessionId[c]]
  /\ lastSessionId' = lastSessionId + n

MakeCreateSessionRequest(entries) ==
  /\ GenerateSessionIds(entries)
  /\ Send("create")

MultiPut(entries) ==
  /\ pc = "idle" /\ calls < MaxCalls
  /\ calls' = calls + 1
  /\ put' = entries
  /\ requestMap' = {PartitionOf[c] : c \in entries}
  /\ outcome' = "none"
  /\ trialCount' = 0 /\ sessionTrial' = 0
  /\ applied' = [c \in Container |-> 0]
  /\ MakeCreateSessionRequest(
       {c \in entries : PartitionOf[c] = Min({PartitionOf[d] : d \in entries})})
  /\ UNCHANGED <<session, done, abandoned, losses>>

-----------------------------------------------------------------------------
(* The server.  What it does of a request that fails is some of it. *)

Answer(result) == /\ pc' = "reply" /\ reply' = result

(* CREATE_MULTIPLE_SESSIONS.  A conflict: another client has a session of   *)
(* this number.                                                             *)
ServerCreate ==
  /\ pc = "send" /\ stage = "create"
  /\ \E some \in SUBSET containerKeyList :
       /\ session' = session \cup {<<sessionId[c], c>> : c \in some}
       /\ IF some = containerKeyList THEN Answer("ok")
          ELSE Answer("conflict") \/ Answer("error")
  /\ UNCHANGED <<put, outcome, progress, stage, done, applied, abandoned, calls, losses>>

Missing(c) == <<sessionId[c], c>> \notin session

(* Mutant: the statement number is not looked at. *)
NeverExecuted(c, n) == FALSE

Executed(c, n) == <<sessionId[c], n>> \in done

(* PUT_MULTIPLE_CONTAINER_ROWS: statement 1 of each session.  A session is  *)
(* lost when there is none of its number, or one of another client.         *)
ServerPut ==
  /\ pc = "send" /\ stage = "main"
  /\ \E some \in SUBSET {c \in containerKeyList : ~ Missing(c)} :
       /\ done' = done \cup {<<sessionId[c], 1>> : c \in some}
       /\ applied' = [c \in Container |->
            IF c \in some /\ ~ Executed(c, 1) THEN applied[c] + 1 ELSE applied[c]]
       /\ IF some = containerKeyList THEN Answer("ok")
          ELSE \/ Answer("error")
               \/ (\E c \in containerKeyList : Missing(c)) /\ Answer("lost")
  /\ UNCHANGED <<put, outcome, progress, stage, session, abandoned, calls, losses>>

(* CLOSE_MULTIPLE_SESSIONS: statement 2 of each session.  Once a session is *)
(* closed the statement can only be answered again.                         *)
ServerClose ==
  /\ pc = "send" /\ stage \in {"close", "throw"}
  /\ \E some \in SUBSET {c \in containerKeyList : ~ Missing(c)} :
       /\ session' = session \ {<<sessionId[c], c>> : c \in some}
       /\ done' = done \cup {<<sessionId[c], 2>> : c \in some}
       /\ \/ Answer("error")
          \/ (\A c \in containerKeyList : c \in some \/ Executed(c, 2)) /\ Answer("ok")
  /\ UNCHANGED <<put, outcome, progress, stage, applied, abandoned, calls, losses>>

(* A session times out, or the partition moves to a node without it. *)
Lose ==
  /\ losses < MaxLosses
  /\ losses' = losses + 1
  /\ \E s \in session : session' = session \ {s}
  /\ UNCHANGED <<put, outcome, progress, pc, stage, reply, done, applied, abandoned, calls>>

(* GridStoreChannel::executeStatement sends the request again. *)
Retry ==
  /\ pc = "reply"
  /\ Send(stage)
  /\ UNCHANGED <<put, outcome, progress, server, abandoned, calls, losses>>

-----------------------------------------------------------------------------
(* executeStatement *)

Succeeded(s) == pc = "reply" /\ reply = "ok" /\ stage = s
Failed(s, errors) == pc = "reply" /\ reply \in errors /\ stage = s

(* Mutant: a failed call leaves its sessions. *)
ThrowAtOnce ==
  /\ pc' = "idle" /\ outcome' = "error" /\ reply' = "none"
  /\ UNCHANGED stage

(* An exception closes the sessions before it goes on. *)
Throw == Send("throw") /\ UNCHANGED outcome

(* Before the answer to the creation the client does not know the ids of   *)
(* the containers: the closing names container 0, and nobody may count on  *)
(* it.                                                                     *)
ThrowUncreated ==
  /\ Throw
  /\ abandoned' = abandoned \cup SessionsOf(containerKeyList)

AcceptCreateSession ==
  /\ Succeeded("create")
  /\ Send("main")
  /\ UNCHANGED <<put, outcome, progress, server, abandoned, calls, losses>>

(* isNewSessionConflicted: other numbers, as long as there is a trial left. *)
SessionConflicted ==
  /\ Failed("create", {"conflict"})
  /\ \/ /\ sessionTrial < MAX_SESSION_REPAIR_COUNT
        /\ sessionTrial' = sessionTrial + 1
        /\ abandoned' = abandoned \cup SessionsOf(containerKeyList)
        /\ MakeCreateSessionRequest(containerKeyList)
        /\ UNCHANGED outcome
     \/ /\ sessionTrial >= MAX_SESSION_REPAIR_COUNT
        /\ ThrowUncreated
        /\ UNCHANGED <<sessionId, lastSessionId, sessionTrial>>
  /\ UNCHANGED <<put, requestMap, trialCount, server, calls, losses>>

CreateSessionFails ==
  /\ Failed("create", {"error"})
  /\ ThrowUncreated
  /\ UNCHANGED <<put, progress, server, calls, losses>>

AcceptMain ==
  /\ Succeeded("main")
  /\ Send("close")
  /\ UNCHANGED <<put, outcome, progress, server, abandoned, calls, losses>>

(* isInitialSessionLost, as acceptStatementErrorForSession calls it. *)
SessionLost(result) == result = "lost"

(* All of the containers get new sessions, and all of their rows are sent  *)
(* again.                                                                  *)
MainFails ==
  /\ Failed("main", {"lost", "error"})
  /\ \/ /\ SessionLost(reply) /\ trialCount < MAX_SESSION_REPAIR_COUNT
        /\ trialCount' = trialCount + 1 /\ sessionTrial' = 0
        /\ abandoned' = abandoned \cup SessionsOf(containerKeyList)
        /\ MakeCreateSessionRequest(containerKeyList)
        /\ UNCHANGED outcome
     \/ /\ ~ SessionLost(reply) \/ trialCount >= MAX_SESSION_REPAIR_COUNT
        /\ Throw
        /\ UNCHANGED <<sessionId, lastSessionId, trialCount, sessionTrial, abandoned>>
  /\ UNCHANGED <<put, requestMap, server, calls, losses>>

(* Mutant: the partitions after the first are forgotten. *)
FirstPartitionOnly == {}

RemainingPartitions == requestMap \ {Min(requestMap)}

(* The request of the partition is complete: the next one, or the end. *)
AcceptSessionClosed ==
  /\ Succeeded("close")
  /\ requestMap' = RemainingPartitions
  /\ trialCount' = 0 /\ sessionTrial' = 0
  /\ \/ /\ requestMap' # {}
        /\ MakeCreateSessionRequest(PartitionEntries(requestMap'))
        /\ UNCHANGED outcome
     \/ /\ requestMap' = {}
        /\ pc' = "idle" /\ outcome' = "ok" /\ reply' = "none"
        /\ UNCHANGED <<stage, sessionId, lastSessionId>>
  /\ UNCHANGED <<put, server, abandoned, calls, losses>>

(* The closing fails, and is tried once more before the call fails. *)
CloseFails ==
  /\ Failed("close", {"error"})
  /\ Throw
  /\ UNCHANGED <<put, progress, server, abandoned, calls, losses>>

(* The failover has timed out. *)
ConnectionFails ==
  /\ pc \in {"send", "reply"}
  /\ \/ stage = "create" /\ ThrowUncreated
     \/ stage \in {"main", "close"} /\ Throw /\ UNCHANGED abandoned
  /\ UNCHANGED <<put, progress, server, calls, losses>>

(* The sessions are closed, or not: the call fails with its own error. *)
Thrown ==
  /\ pc \in {"send", "reply"} /\ stage = "throw"
  /\ pc' = "idle" /\ outcome' = "error" /\ reply' = "none"
  /\ abandoned' = IF reply = "ok" THEN abandoned
                  ELSE abandoned \cup SessionsOf(containerKeyList)
  /\ UNCHANGED <<put, progress, stage, server, calls, losses>>

-----------------------------------------------------------------------------
Next ==
  \/ \E entries \in SUBSET Container \ {{}} : MultiPut(entries)
  \/ ServerCreate \/ ServerPut \/ ServerClose \/ Lose \/ Retry
  \/ AcceptCreateSession \/ SessionConflicted \/ CreateSessionFails
  \/ AcceptMain \/ MainFails \/ AcceptSessionClosed \/ CloseFails
  \/ ConnectionFails \/ Thrown

Spec == Init /\ [][Next]_vars

-----------------------------------------------------------------------------
(* Every variable has its type; a session in use has been numbered. *)
TypeOK ==
  /\ put \subseteq Container /\ outcome \in {"none", "ok", "error"}
  /\ requestMap \subseteq {PartitionOf[c] : c \in put}
  /\ lastSessionId \in 0 .. MaxSessions
  /\ sessionId \in [Container -> 0 .. lastSessionId]
  /\ pc \in {"idle", "send", "reply"}
  /\ stage \in {"create", "main", "close", "throw"}
  /\ reply \in {"none", "ok", "conflict", "lost", "error"}
  /\ trialCount \in 0 .. MAX_SESSION_REPAIR_COUNT
  /\ sessionTrial \in 0 .. MAX_SESSION_REPAIR_COUNT
  /\ session \subseteq (1 .. lastSessionId) \X Container
  /\ done \subseteq (1 .. lastSessionId) \X {1, 2}
  /\ applied \in [Container -> Nat]
  /\ abandoned \subseteq 0 .. lastSessionId
  /\ calls \in 0 .. MaxCalls /\ losses \in 0 .. MaxLosses

(* When gsPutMultipleContainerRows succeeds, the rows of every container of *)
(* every partition have been put, whatever sessions were lost meanwhile.    *)
AllPut == outcome = "ok" => \A c \in put : applied[c] > 0

(* The rows of a container are put once, and once more for each session the *)
(* server has lost, also one of another container: an answer that is lost,  *)
(* a number that is taken or an error never puts a row twice.               *)
PutOncePerLoss == \A c \in Container : applied[c] <= losses + 1

(* A call leaves no session behind on the server, whether it succeeds or    *)
(* fails, but those of a trial it had to give up, those whose creation      *)
(* failed and those it has tried to close in vain.  Every variable has its  *)
(* type.                                                                    *)
SessionsClosed ==
  /\ TypeOK
  /\ pc = "idle" => \A s \in session : s[1] \in abandoned
=============================================================================
