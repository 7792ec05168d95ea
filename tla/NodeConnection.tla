--------------------------- MODULE NodeConnection ---------------------------
(***************************************************************************)
(* One NodeConnection (client.cpp): a statement, its reply, and the        *)
(* heartbeats by which the client finds out whether a node that does not   *)
(* reply is still there.  A heartbeat is a CONNECT statement sent while    *)
(* the reply to another statement is due, so that the two replies come in  *)
(* any order, and every reply may be late, come in two pieces, or never    *)
(* come.                                                                   *)
(*                                                                         *)
(* Channels delete a connection after a ConnectionException.  The resolver *)
(* gives it back to the pool (updateConnectionAndClusterInfo), so that the *)
(* next statement meets the replies to those that were given up.           *)
(***************************************************************************)
EXTENDS Naturals, Sequences

CONSTANTS
  ChannelId,        \* the ids that sessions give to the statements of a channel
  MaxRequests       \* bound on the requests of the connection

ASSUME ConnectionAssumption ==
  /\ ChannelId \subseteq Nat \ {0}
  /\ MaxRequests \in Nat

VARIABLES
  statementId, responseUnacceptable,   \* NodeConnection
  shortTimeout,     \* its statementTimeoutMillis_: not above the heartbeat's
  pc,               \* where the client is: see the actions
  own, beat,        \* the statement and the last heartbeat, as requests
  saved,            \* the reply to own that came in place of that to beat
  outcome,          \* how the last statement ended
  outstanding,      \* the requests that the node has not replied to
  inbox,            \* what has arrived: the heads and bodies of replies
  closed,           \* whether the node has closed the connection
  requests,         \* how many requests so far
  answer,           \* history: what the node said to own
  failed            \* history: whether a statement was given up

object == <<statementId, responseUnacceptable, shortTimeout>>
heartbeat == <<beat, saved>>
call == <<own, heartbeat, outcome>>
node == <<outstanding, inbox, closed>>
history == <<answer, failed>>
vars == <<object, pc, call, node, requests, history>>

(* A request: GET is GET_PARTITION_ADDRESS of the resolver, PUT a statement *)
(* of a channel.  The number tells it from every other one.                 *)
Request == [type : {"GET", "PUT", "CONNECT"}, id : Nat, number : Nat]
NoRequest == [type |-> "CONNECT", id |-> 0, number |-> 0]
NoReply == [to |-> NoRequest, result |-> "none"]

Init ==
  /\ statementId = 0 /\ responseUnacceptable = FALSE /\ shortTimeout \in BOOLEAN
  /\ pc = "idle"
  /\ own = NoRequest /\ beat = NoRequest /\ saved = NoReply
  /\ outcome = NoReply
  /\ outstanding = {} /\ inbox = <<>> /\ closed = FALSE
  /\ requests = 0 /\ answer = "none" /\ failed = FALSE

-----------------------------------------------------------------------------
(* Where the call goes. *)

(* Whether the caller deletes a connection that has failed. *)
Gone(request) == request.type = "PUT"

GoOn(label) ==
  /\ pc' = label
  /\ UNCHANGED <<outcome, failed>>

(* The state of the heartbeats is local to the call. *)
Clear == beat' = NoRequest /\ saved' = NoReply

Finish(reply) ==
  /\ pc' = "idle"
  /\ outcome' = reply
  /\ Clear
  /\ UNCHANGED failed

(* A ConnectionException, or a WrongNodeException, which is one. *)
GiveUp(request, reply) ==
  /\ pc' = IF Gone(request) THEN "deleted" ELSE "idle"
  /\ outcome' = reply
  /\ failed' = TRUE
  /\ Clear

Broken == [NoReply EXCEPT !.result = "connection"]
Break == GiveUp(own, Broken)

-----------------------------------------------------------------------------
(* executeStatementDirect *)

(* The statement is sent: under the id of its session, or the next one of   *)
(* the connection. *)
Execute(type, id) ==
  LET request == [type |-> type, id |-> id, number |-> requests + 1] IN
  /\ pc = "idle"
  /\ requests + 2 <= MaxRequests   \* with a heartbeat
  /\ requests' = requests + 1
  /\ statementId' = IF type = "GET" THEN id ELSE statementId
  /\ own' = request /\ answer' = "none"
  /\ \/ /\ ~ closed
        /\ outstanding' = outstanding \cup {request}
        /\ GoOn("wait")
        /\ UNCHANGED heartbeat
     \/ /\ closed
        /\ GiveUp(request, Broken)
        /\ UNCHANGED outstanding
  /\ UNCHANGED <<responseUnacceptable, shortTimeout, inbox, closed>>

Get == Execute("GET", statementId + 1)
Put(id) == Execute("PUT", id)

(* readFully of a head, and the magic number of what was read. *)
ReadHead(label, next) ==
  /\ pc = label
  /\ inbox # <<>>
  /\ inbox' = Tail(inbox)
  /\ IF Head(inbox).part = "head" THEN GoOn(next) /\ UNCHANGED heartbeat
     ELSE Break
  /\ UNCHANGED <<object, own, outstanding, closed, requests, answer>>

(* readFully fails before the first byte, or after it. *)
NothingComes ==
  /\ inbox = <<>>
  /\ UNCHANGED <<inbox, outstanding, responseUnacceptable>>

(* The rest comes late. *)
Rest == [part |-> "rest", reply |-> NoReply]

SomethingComes ==
  /\ inbox = <<>>
  /\ \E r \in outstanding : outstanding' = outstanding \ {r}
  /\ inbox' = <<Rest>>
  /\ responseUnacceptable' = TRUE

ReadBody(label) ==
  /\ pc = label
  /\ inbox # <<>>
  /\ inbox' = Tail(inbox)
  /\ UNCHANGED <<object, own, outstanding, closed, requests, answer>>

Arrived == Head(inbox).reply

(* The body does not come in time, in whole or in part. *)
BodyLate ==
  /\ pc \in {"body", "beatBody", "lateBody"}
  /\ Break
  /\ \/ UNCHANGED <<inbox, responseUnacceptable>>
     \/ /\ responseUnacceptable' = TRUE
        /\ inbox' = <<Rest>> \o Tail(inbox)
  /\ UNCHANGED <<statementId, shortTimeout, own, outstanding, closed, requests, answer>>

(* The wait for the reply to the statement, before and after heartbeats. *)
ReadReplyHead == ReadHead("wait", "body")

ReplyLate ==
  /\ pc = "wait"
  /\ \/ /\ NothingComes
        /\ ~ responseUnacceptable
        /\ GoOn("beat")
        /\ UNCHANGED heartbeat
     \/ /\ NothingComes
        /\ responseUnacceptable
        /\ Break
     \/ SomethingComes /\ Break
  /\ UNCHANGED <<statementId, shortTimeout, own, closed, requests, answer>>

(* Mutant: the id is not compared. *)
MatchesType(reply, request) == reply.to.type = request.type

Matches(reply, request) ==
  reply.to.type = request.type /\ reply.to.id = request.id

(* Its own reply ends the call, unless the node is not the one to ask. *)
Conclude(reply) ==
  IF reply.result = "deny" THEN GiveUp(own, reply) ELSE Finish(reply)

ReadReply ==
  /\ ReadBody("body")
  /\ IF Matches(Arrived, own) THEN Conclude(Arrived) ELSE Break

-----------------------------------------------------------------------------
(* processHeartbeat *)

(* What is compared with the statement timeout is the time of the first    *)
(* wait, the shorter of the two timeouts: the watch that would add to it is *)
(* never started.  By default there is no statement timeout at all.        *)
StatementTimedOut == shortTimeout

TimeOut ==
  /\ pc = "beat"
  /\ StatementTimedOut
  /\ Break
  /\ UNCHANGED <<object, own, node, requests, answer>>

SendHeartbeat ==
  LET request == [type |-> "CONNECT", id |-> statementId + 1,
                  number |-> requests + 1] IN
  /\ pc = "beat"
  /\ ~ StatementTimedOut
  /\ requests < MaxRequests
  /\ requests' = requests + 1
  /\ statementId' = request.id
  /\ \/ /\ ~ closed
        /\ beat' = request
        /\ outstanding' = outstanding \cup {request}
        /\ GoOn("beatHead")
        /\ UNCHANGED saved
     \/ /\ closed
        /\ Break
        /\ UNCHANGED outstanding
  /\ UNCHANGED <<responseUnacceptable, shortTimeout, own, inbox, closed, answer>>

ReadHeartbeatHead == ReadHead("beatHead", "beatBody")

(* Mutant: a time-out of the wait for it is ignored. *)
AwaitHeartbeat ==
  /\ pc \in {"beatHead", "lateHead"}
  /\ SomethingComes
  /\ Break
  /\ UNCHANGED <<statementId, shortTimeout, own, closed, requests, answer>>

(* No reply at all to the heartbeat: the connection is given up. *)
HeartbeatLate ==
  /\ pc \in {"beatHead", "lateHead"}
  /\ NothingComes \/ SomethingComes
  /\ Break
  /\ UNCHANGED <<statementId, shortTimeout, own, closed, requests, answer>>

Answered == Matches(Arrived, beat) /\ Arrived.result = "success"

(* Mutant: the reply to the heartbeat is left in the socket. *)
LeaveHeartbeat == Conclude(Arrived)

(* The reply to the statement has come in the place of the heartbeat's. It  *)
(* is kept, be it an error, while the heartbeat's is read. *)
KeepReply ==
  IF Arrived.result = "deny" THEN GiveUp(own, Arrived)
  ELSE /\ saved' = Arrived
       /\ GoOn("lateHead")
       /\ UNCHANGED beat

ReadFirst ==
  /\ ReadBody("beatBody")
  /\ IF Answered THEN GoOn("wait") /\ UNCHANGED heartbeat
     ELSE IF Matches(Arrived, own) THEN KeepReply ELSE Break

ReadLateHead == ReadHead("lateHead", "lateBody")

ReadLate ==
  /\ ReadBody("lateBody")
  /\ IF Answered THEN Finish(saved) ELSE Break

-----------------------------------------------------------------------------
(* The node. *)

(* To a statement that was given up it may as well say "success". *)
Results(r) ==
  IF r = own THEN {"success", "error", "deny"}
  ELSE IF r = beat THEN {"success", "error"} ELSE {"success"}

Reply ==
  /\ ~ closed /\ pc # "deleted"
  /\ \E r \in outstanding : \E result \in Results(r) :
       LET reply == [to |-> r, result |-> result] IN
       /\ outstanding' = outstanding \ {r}
       /\ answer' = IF r = own THEN result ELSE answer
       /\ inbox' = inbox \o <<[part |-> "head", reply |-> reply],
                              [part |-> "body", reply |-> reply]>>
  /\ UNCHANGED <<object, pc, call, closed, requests, failed>>

Close ==
  /\ ~ closed /\ pc # "deleted"
  /\ closed' = TRUE /\ outstanding' = {}
  /\ UNCHANGED <<object, pc, call, inbox, requests, history>>

-----------------------------------------------------------------------------
Client ==
  \/ ReadReplyHead \/ ReplyLate \/ ReadReply \/ BodyLate
  \/ TimeOut \/ SendHeartbeat \/ ReadHeartbeatHead \/ HeartbeatLate \/ ReadFirst
  \/ ReadLateHead \/ ReadLate

Next ==
  \/ Get \/ \E id \in ChannelId : Put(id)
  \/ Client \/ Reply \/ Close

Spec == Init /\ [][Next]_vars

(* The sockets have timeouts: no receive waits for ever.  The node need not *)
(* do anything. *)
FairSpec == Spec /\ WF_vars(Client)

-----------------------------------------------------------------------------
Part == [part : {"head", "body", "rest"},
         reply : [to : Request, result : {"none", "success", "error", "deny"}]]

(* Every variable has its type; the connection has used no more numbers     *)
(* than it has sent requests.                                               *)
TypeOK ==
  /\ statementId \in 0 .. requests
  /\ responseUnacceptable \in BOOLEAN /\ shortTimeout \in BOOLEAN
  /\ pc \in {"idle", "wait", "body", "beat", "beatHead", "beatBody", "lateHead",
            "lateBody", "deleted"}
  /\ own \in Request /\ beat \in Request
  /\ \A reply \in {saved, outcome} :
       /\ reply.to \in Request
       /\ reply.result \in {"none", "success", "error", "deny", "connection"}
  /\ outstanding \subseteq Request /\ inbox \in Seq(Part) /\ closed \in BOOLEAN
  /\ requests \in Nat /\ failed \in BOOLEAN
  /\ answer \in {"none", "success", "error", "deny"}

(* What a caller gets is what the node said to its own statement: no late   *)
(* reply to a heartbeat or to a statement that was given up is taken for    *)
(* it, and an error that came in the place of a heartbeat's is not lost.    *)
OwnReply ==
  outcome.result \in {"success", "error", "deny"} /\ pc \in {"idle", "deleted"}
    => outcome = [to |-> own, result |-> answer]

(* A statement that ends, well or with an error of its own, leaves nothing  *)
(* to come: its replies and those to all of its heartbeats have been read.  *)
(* Every variable has its type.                                             *)
InSync ==
  /\ TypeOK
  /\ pc = "idle" /\ ~ failed => outstanding = {} /\ inbox = <<>>

(* The node has answered each heartbeat of the statement so far, and there  *)
(* is no room for more in the model.                                        *)
HeartbeatsAnswered ==
  pc = "beat" /\ requests = MaxRequests /\ beat # NoRequest /\ beat \notin outstanding

(* A statement ends, by its reply, by what it cannot read, or by a heartbeat *)
(* that the node does not answer: only a node that answers one heartbeat     *)
(* after the other, and never the statement, can hold it.  That node holds   *)
(* it for ever, whatever the statement timeout is.                           *)
StatementEnds == pc # "idle" ~> pc \in {"idle", "deleted"} \/ HeartbeatsAnswered
=============================================================================
