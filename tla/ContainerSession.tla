-------------------------- MODULE ContainerSession --------------------------
(***************************************************************************)
(* The session and the transactions of a GSContainer (client.cpp), over a  *)
(* channel that loses replies and sends the statement again, and a server  *)
(* whose sessions may vanish (a timeout, a failover) at any time.          *)
(*                                                                         *)
(* The protocol is the present one: the client numbers the sessions.  The  *)
(* container cache is off (StoreContainers has it on).  The server is the  *)
(* one the client is written for: it executes a statement number of a      *)
(* session once, and refuses a transaction mode that does not fit.         *)
(***************************************************************************)
EXTENDS Naturals, FiniteSets

CONSTANTS
  Update,                    \* the rows to put, each of them once
  MaxSchemaVersion,          \* bound on the version of the schema
  MAX_SESSION_REPAIR_COUNT,
  NULL,
  MaxSessions,               \* bound on the sessions the client numbers
  MaxCalls,                  \* bound on the calls of the application
  MaxLosses                  \* bound on the sessions that vanish

ASSUME SessionAssumption ==
  /\ MaxSchemaVersion \in Nat
  /\ MAX_SESSION_REPAIR_COUNT \in Nat
  /\ MaxSessions \in Nat /\ MaxCalls \in Nat /\ MaxLosses \in Nat
  /\ NULL \notin Update

VARIABLES
  hasKey, schemaVerId,       \* the schema: whether it has a row key, version
  autoCommit, sessionId, sessionPrepared, statementId,    \* GSContainerTag
  transactionId, transactionStarted,
  lastSessionId,             \* GridStoreChannel::Context
  rowSet,                    \* a row set for update, or NULL
  pc, call, stage, req, reply,   \* the call under way, and its statement
  main, trialCount,          \* executeStatement: the statement that has failed
  createTrialCount, then,    \* createSession: its trials; and what comes when
                             \* the session is closed
  session, committed, transactions,   \* the server: its sessions, how often it
                             \* has made a row durable (up to twice), its
                             \* transactions so far
  pending, maybe, sent,      \* history: the rows acknowledged and the rows in
                             \* doubt of the transaction, and all the rows put
  calls, losses              \* how many so far

schema == <<hasKey, schemaVerId>>
settings == <<schema, autoCommit, rowSet>>
state == <<sessionId, sessionPrepared, transactionId, transactionStarted>>
trials == <<trialCount, createTrialCount>>
loop == <<main, trials, then>>
server == <<session, committed, transactions>>
history == <<pending, maybe, sent>>
vars == <<settings, state, statementId, lastSessionId, pc, call, stage, req,
          reply, loop, server, history, calls, losses>>

NoSession == [live |-> FALSE, last |-> 0, transaction |-> 0, rows |-> {}]
NoReply == [result |-> "none", rows |-> {}, transaction |-> 0]
NoRequest == [statement |-> "none", session |-> 0, id |-> 0, row |-> NULL,
              create |-> FALSE, mode |-> "none", version |-> 0]

Init ==
  /\ hasKey \in BOOLEAN /\ schemaVerId \in 0 .. MaxSchemaVersion
  /\ rowSet = NULL
  /\ autoCommit \in BOOLEAN    \* setAutoCommit(FALSE) may have been called
  /\ sessionId = 0 /\ sessionPrepared = FALSE /\ statementId = 0
  /\ transactionId = 1 /\ transactionStarted = FALSE
  /\ lastSessionId = 0
  /\ pc = "idle" /\ call = "none" /\ stage = "main"
  /\ req = NoRequest /\ reply = NoReply
  /\ main = NoRequest /\ trialCount = 0 /\ createTrialCount = 0
  /\ then = "throw"
  /\ session = [s \in 1 .. MaxSessions |-> NoSession]
  /\ committed = [u \in Update |-> 0]
  /\ transactions = 0
  /\ pending = {} /\ maybe = {} /\ sent = {}
  /\ calls = 0 /\ losses = 0

-----------------------------------------------------------------------------
(* The requests. *)

Send(s, r) ==
  /\ stage' = s /\ req' = r /\ reply' = NoReply
  /\ pc' = "send"

(* Mutant: the number of the statement before is used again. *)
SameStatementId == IF statementId = 0 THEN 1 ELSE statementId

NextStatementId == statementId + 1

(* Mutant: the transaction goes on whenever there is a session. *)
ModeOfSession(prepared) ==
  IF autoCommit THEN "auto" ELSE IF prepared THEN "continue" ELSE "begin"

(* The transaction mode of putTransactionInfo. *)
TransactionMode(prepared) ==
  IF autoCommit THEN "auto"
  ELSE IF transactionStarted THEN "continue" ELSE "begin"

(* A statement of the call, in session s or in none. *)
Execute(statement, row, s, prepared) ==
  /\ statementId' = IF s = 0 THEN statementId ELSE NextStatementId
  /\ Send("main",
       [statement |-> statement, session |-> s,
        id |-> IF s = 0 THEN 0 ELSE NextStatementId, row |-> row,
        create |-> s # 0 /\ ~ prepared,
        mode |-> IF s = 0 THEN "auto" ELSE TransactionMode(prepared),
        version |-> schemaVerId])

(* CREATE_SESSION, COMMIT_TRANSACTION, ABORT_TRANSACTION, CLOSE_SESSION. *)
Plain(statement, s, id) ==
  [NoRequest EXCEPT !.statement = statement, !.session = s, !.id = id]

CloseRequest == Plain("close", sessionId, NextStatementId)

GenerateSessionId ==
  /\ lastSessionId < MaxSessions
  /\ lastSessionId' = lastSessionId + 1

(* CREATE_SESSION, for the row to put. *)
CreateSession(s, row) ==
  /\ GenerateSessionId
  /\ Send(s, [Plain("create", lastSessionId + 1, 0) EXCEPT !.row = row])

-----------------------------------------------------------------------------
(* The calls of the application. *)

Call(kind) ==
  /\ pc = "idle" /\ calls < MaxCalls
  /\ calls' = calls + 1 /\ call' = kind
  /\ UNCHANGED <<loop, server, losses>>

(* Mutant: a query is never of the session. *)
NeverRequired(kind) == kind # "get" /\ (kind = "lock" \/ ~ autoCommit \/ ~ hasKey)

(* prepareSession: whether the statement is one of the session. *)
SessionRequired(kind) ==
  CASE kind = "put" -> ~ autoCommit \/ ~ hasKey
    [] kind = "get" -> ~ autoCommit /\ transactionStarted
    [] kind = "lock" -> TRUE

(* prepareSession and the statement.  A session that is not prepared is     *)
(* created first for a row without a key, and by the statement otherwise.   *)
Prepare(kind, row) ==
  IF ~ SessionRequired(kind)
  THEN Execute(kind, row, 0, FALSE) /\ UNCHANGED <<state, lastSessionId>>
  ELSE IF sessionPrepared
  THEN Execute(kind, row, sessionId, TRUE) /\ UNCHANGED <<state, lastSessionId>>
  ELSE IF kind = "put" /\ ~ hasKey
  THEN CreateSession("create", row) /\ UNCHANGED <<state, statementId>>
  ELSE /\ GenerateSessionId
       /\ sessionId' = lastSessionId + 1
       /\ Execute(kind, row, lastSessionId + 1, FALSE)
       /\ UNCHANGED <<sessionPrepared, transactionId, transactionStarted>>

PutRow(u) ==
  /\ Call("put")
  /\ u \notin sent
  /\ sent' = sent \cup {u}
  /\ maybe' = maybe \cup {u}
  /\ Prepare("put", u)
  /\ UNCHANGED <<settings, pending>>

GetRow ==
  /\ Call("get")
  /\ Prepare("get", NULL)
  /\ UNCHANGED <<settings, history>>

(* fetchAll, with a query of the container among those of the store.  The   *)
(* number is taken before it is known whether the statement is one of the   *)
(* session; only a transaction that has started makes it one.               *)
FetchAll ==
  LET s == IF SessionRequired("get") THEN sessionId ELSE 0
      numbered == ~ autoCommit /\ sessionId # 0
  IN
  /\ Call("fetchAll")
  /\ statementId' = IF numbered THEN NextStatementId ELSE statementId
  /\ Send("main",
       [Plain("get", s, IF numbered THEN NextStatementId ELSE 0) EXCEPT
          !.mode = IF s = 0 THEN "auto" ELSE TransactionMode(TRUE),
          !.version = schemaVerId])
  /\ UNCHANGED <<settings, state, lastSessionId, history>>

(* getRow and fetch for update, which give the row set here. *)
LockRow ==
  /\ Call("lock")
  /\ ~ autoCommit
  /\ Prepare("lock", NULL)
  /\ UNCHANGED <<settings, history>>

(* Mutant: any transaction will do. *)
AnyTransaction == ~ autoCommit /\ transactionStarted

(* checkTransactionPreserved *)
TransactionPreserved ==
  /\ rowSet.transactionId = transactionId
  /\ transactionStarted
  /\ ~ autoCommit

(* updateRow through the row set. *)
UpdateRow(u) ==
  /\ Call("update")
  /\ rowSet # NULL
  /\ TransactionPreserved
  /\ u \notin sent
  /\ sent' = sent \cup {u}
  /\ maybe' = maybe \cup {u}
  /\ Execute("put", u, sessionId, sessionPrepared)
  /\ UNCHANGED <<settings, state, lastSessionId, pending>>

NextTransaction == transactionId' = transactionId + 1

(* commit and abort, and commit called by setAutoCommit(TRUE). *)
EndTransaction(kind, statement) ==
  /\ Call(kind)
  /\ ~ autoCommit /\ transactionStarted
  /\ NextTransaction
  /\ statementId' = NextStatementId
  /\ Send("main", Plain(statement, sessionId, NextStatementId))
  /\ UNCHANGED <<settings, sessionId, sessionPrepared, transactionStarted,
                 lastSessionId, history>>

Commit == EndTransaction("commit", "commit")
Abort == EndTransaction("abort", "abort")
SetAutoCommit == EndTransaction("setAutoCommit", "commit")

(* setAutoCommit with nothing to commit. *)
SwitchCommitMode ==
  /\ Call("none")
  /\ autoCommit \/ ~ transactionStarted
  /\ autoCommit' = ~ autoCommit
  /\ transactionStarted' = FALSE
  /\ UNCHANGED <<schema, rowSet, sessionId, sessionPrepared, transactionId, statementId,
                 lastSessionId, pc, stage, req, reply, history>>

(* closeRemote *)
Close ==
  /\ Call("close")
  /\ IF sessionId = 0
     THEN pc' = "closed" /\ UNCHANGED <<statementId, stage, req, reply>>
     ELSE /\ statementId' = NextStatementId
          /\ Send("final", CloseRequest)
  /\ UNCHANGED <<settings, state, lastSessionId, history>>

-----------------------------------------------------------------------------
(* The server. *)

Missing(s) ==
  /\ req.session # 0 /\ req.statement # "create"
  /\ ~ s.live /\ ~ req.create

Repeated(s) == s.live /\ req.statement # "create" /\ req.id <= s.last

Invalid(s) ==
  \/ /\ req.statement \in {"put", "get", "lock"}
     /\ \/ req.version # schemaVerId
        \/ req.mode \in {"begin", "auto"} /\ s.transaction # 0
        \/ req.mode = "continue" /\ s.transaction = 0
  \/ req.statement \in {"commit", "abort"} /\ s.transaction = 0

(* The session after the statement. *)
Applied(s) ==
  LET begun == [s EXCEPT !.live = TRUE, !.last = req.id,
                         !.transaction = IF req.mode = "begin"
                                         THEN transactions + 1 ELSE @]
  IN CASE req.statement = "create" -> [s EXCEPT !.live = TRUE]
       [] req.statement = "put" /\ req.mode = "auto" -> begun
       [] req.statement = "put" /\ req.mode # "auto" -> [begun EXCEPT !.rows = @ \cup {req.row}]
       [] req.statement = "lock" -> begun
       [] req.statement = "get" -> s
       [] req.statement \in {"commit", "abort"} ->
            [s EXCEPT !.last = req.id, !.transaction = 0, !.rows = {}]
       [] req.statement = "close" -> NoSession

(* The rows that the statement makes durable. *)
Durable(s) ==
  CASE req.statement = "put" /\ req.mode = "auto" -> {req.row}
    [] req.statement = "commit" -> s.rows
    [] OTHER -> {}

ServerExecute ==
  LET s == IF req.session = 0 THEN NoSession ELSE session[req.session]
      t == Applied(s)
      Ok(x) == [result |-> "ok", rows |-> x.rows, transaction |-> x.transaction]
  IN
  /\ pc = "send"
  /\ pc' = "reply"
  /\ \/ /\ Missing(s)
        /\ reply' = [NoReply EXCEPT !.result = "lost"]
        /\ UNCHANGED server
     \/ /\ Repeated(s)
        /\ reply' = Ok(s)
        /\ UNCHANGED server
     \/ /\ ~ Missing(s) /\ ~ Repeated(s) /\ Invalid(s)
        /\ reply' = [NoReply EXCEPT !.result = "error"]
        /\ UNCHANGED server
     \/ /\ ~ Missing(s) /\ ~ Repeated(s) /\ ~ Invalid(s)
        /\ reply' = Ok(t)
        /\ session' = IF req.session = 0 THEN session
                      ELSE [session EXCEPT ![req.session] = t]
        /\ committed' = [u \in Update |->
             IF u \in Durable(s) /\ committed[u] < 2 THEN committed[u] + 1
             ELSE committed[u]]
        /\ transactions' = IF t.transaction > transactions
                           THEN transactions + 1 ELSE transactions
  /\ UNCHANGED <<settings, state, statementId, lastSessionId, call, stage, req,
                 loop, history, calls, losses>>

(* A lock timeout, a violated constraint: a statement error of its own. *)
ServerRefuse ==
  /\ pc = "send"
  /\ pc' = "reply"
  /\ reply' = [NoReply EXCEPT !.result = "error"]
  /\ UNCHANGED <<settings, state, statementId, lastSessionId, call, stage, req,
                 loop, server, history, calls, losses>>

(* Another client has a session of this number: its UUID does not match. *)
ServerConflict ==
  /\ pc = "send"
  /\ req.statement = "create" \/ req.create
  /\ ~ session[req.session].live
  /\ pc' = "reply"
  /\ reply' = [NoReply EXCEPT !.result = "conflict"]
  /\ UNCHANGED <<settings, state, statementId, lastSessionId, call, stage, req,
                 loop, server, history, calls, losses>>

(* A session times out, or the partition moves to a node without it. *)
Lose ==
  /\ losses < MaxLosses
  /\ losses' = losses + 1
  /\ \E s \in 1 .. MaxSessions :
       session[s].live /\ session' = [session EXCEPT ![s] = NoSession]
  /\ UNCHANGED <<settings, state, statementId, lastSessionId, pc, call, stage,
                 req, reply, loop, committed, transactions, history, calls>>

-----------------------------------------------------------------------------
(* GridStoreChannel::executeStatement sends the statement again. *)

(* Mutant: under a number of its own. *)
RetryRenumbered ==
  /\ pc = "reply"
  /\ Send(stage, [req EXCEPT !.id = @ + 1])
  /\ UNCHANGED <<settings, state, statementId, lastSessionId, call, loop, server,
                 history, calls, losses>>

Retry ==
  /\ pc = "reply"
  /\ Send(stage, req)
  /\ UNCHANGED <<settings, state, statementId, lastSessionId, call, loop, server,
                 history, calls, losses>>

-----------------------------------------------------------------------------
(* The outcome of a statement. *)

(* setSessionIdDirect(0, true) *)
DropSession ==
  /\ sessionId' = 0 /\ statementId' = 0
  /\ sessionPrepared' = FALSE /\ transactionStarted' = FALSE
  /\ NextTransaction

(* The call is over: what it has left in its buffers is of no use. *)
Return ==
  /\ pc' = "idle" /\ call' = "none"
  /\ stage' = "main" /\ req' = NoRequest /\ reply' = NoReply
  /\ main' = NoRequest /\ trialCount' = 0 /\ createTrialCount' = 0
  /\ then' = "throw"

(* The end of a call that fails. *)
Throw ==
  /\ Return
  /\ IF transactionStarted' THEN UNCHANGED <<pending, maybe>>
     ELSE pending' = {} /\ maybe' = {}
  /\ UNCHANGED sent

Succeeded == pc = "reply" /\ reply.result = "ok"
Refused == pc = "reply" /\ reply.result \in {"lost", "conflict", "error"}

Ending == call \in {"commit", "abort", "setAutoCommit"}

(* createSession has succeeded: the statement it was for. *)
Created ==
  /\ Succeeded /\ stage = "create"
  /\ sessionId' = req.session
  /\ sessionPrepared' = TRUE
  /\ Execute("put", req.row, req.session, TRUE)
  /\ UNCHANGED <<settings, transactionId, transactionStarted, lastSessionId, call,
                 loop, server, history, calls, losses>>

MainDone ==
  /\ Succeeded /\ stage = "main"
  /\ Return
  /\ sessionPrepared' = (sessionPrepared \/ req.session # 0)
  /\ transactionStarted' =
       (~ Ending /\ (transactionStarted \/ (~ autoCommit /\ req.session # 0)))
  /\ autoCommit' = (autoCommit \/ call = "setAutoCommit")
  /\ rowSet' = CASE call = "lock" -> [transactionId |-> transactionId,
                                      transaction |-> reply.transaction]
                 [] call = "abort" -> NULL
                 [] OTHER -> rowSet
  /\ IF transactionStarted'
     THEN /\ pending' = pending \cup ({req.row} \ {NULL})
          /\ maybe' = maybe \ {req.row}
     ELSE pending' = {} /\ maybe' = {}
  /\ UNCHANGED <<schema, sessionId, transactionId, statementId, lastSessionId,
                 server, sent, calls, losses>>

(* isNewSessionConflicted, and a trial left. *)
Conflicted ==
  /\ stage \in {"create", "recreate"} /\ reply.result = "conflict"
  /\ createTrialCount < MAX_SESSION_REPAIR_COUNT

(* isInitialSessionLost, and a trial left. *)
Repairable ==
  /\ stage = "main" /\ req.session # 0
  /\ reply.result \in {"lost", "conflict"}
  /\ ~ transactionStarted
  /\ trialCount < MAX_SESSION_REPAIR_COUNT

(* What follows closeSession(true): the statement in a new session, another *)
(* number for the session to create, or the error. *)
Continue(w, failed) ==
  \/ /\ w = "repair"
     /\ CreateSession("recreate", failed.row)
     /\ trialCount' = trialCount + 1 /\ createTrialCount' = 0
     /\ UNCHANGED <<call, main, then, history>>
  \/ /\ w \in {"create", "recreate"}
     /\ CreateSession(w, failed.row)
     /\ createTrialCount' = createTrialCount + 1
     /\ UNCHANGED <<call, main, then, trialCount, history>>
  \/ /\ w = "throw"
     /\ Throw
     /\ UNCHANGED lastSessionId

(* A StatementException closes the session, if there is one. *)
StatementFails ==
  LET w == IF Conflicted THEN stage ELSE IF Repairable THEN "repair" ELSE "throw"
  IN
  /\ Refused /\ stage \in {"create", "main", "recreate"} /\ call # "fetchAll"
  /\ \/ /\ sessionId # 0
        /\ then' = w
        /\ main' = IF stage = "recreate" THEN main ELSE req
        /\ statementId' = NextStatementId
        /\ Send("cleanup", CloseRequest)
        /\ UNCHANGED <<state, call, trials, lastSessionId, history>>
     \/ /\ sessionId = 0
        /\ UNCHANGED <<state, statementId>>
        /\ Continue(w, req)
  /\ UNCHANGED <<settings, server, calls, losses>>

(* executeStatement of the store: acceptStatementErrorForSession and        *)
(* makeCloseSessionRequest do nothing without a query for update.           *)
FetchAllFails ==
  /\ Refused /\ call = "fetchAll"
  /\ UNCHANGED <<settings, state, statementId, lastSessionId, server, calls, losses>>
  /\ Throw

(* closeSession(true) is over, whether the server has answered or not.      *)
CleanedUp ==
  /\ pc \in {"send", "reply"} /\ stage = "cleanup"
  /\ DropSession
  /\ Continue(then, main)
  /\ rowSet' = IF call = "abort" THEN NULL ELSE rowSet
  /\ UNCHANGED <<schema, autoCommit, server, calls, losses>>

(* The statement again, in the new session.  The buffer has held the        *)
(* request of closeSession in between: where that one is as long, the new   *)
(* request has its bytes, and the schema version is zero.                   *)
Recreated ==
  /\ Succeeded /\ stage = "recreate"
  /\ sessionId' = req.session
  /\ sessionPrepared' = TRUE
  /\ statementId' = NextStatementId
  /\ Send("main", [main EXCEPT !.session = req.session, !.id = NextStatementId,
                               !.create = FALSE, !.version = 0])
  /\ UNCHANGED <<settings, transactionId, transactionStarted, lastSessionId, call,
                 loop, server, history, calls, losses>>

(* The failover has timed out. *)
ConnectionFails ==
  /\ pc \in {"send", "reply"} /\ stage \in {"create", "main", "recreate"}
  /\ transactionStarted' = (transactionStarted /\ ~ Ending)
  /\ Throw
  /\ rowSet' = IF call = "abort" THEN NULL ELSE rowSet
  /\ UNCHANGED <<schema, autoCommit, sessionId, sessionPrepared, transactionId,
                 statementId, lastSessionId, server, calls, losses>>

Closed ==
  /\ pc \in {"send", "reply"} /\ stage = "final"
  /\ DropSession
  /\ pc' = "closed"
  /\ req' = NoRequest /\ reply' = NoReply
  /\ pending' = {} /\ maybe' = {}
  /\ UNCHANGED <<settings, lastSessionId, call, stage, loop, server, sent, calls,
                 losses>>

-----------------------------------------------------------------------------
Next ==
  \/ \E u \in Update : PutRow(u) \/ UpdateRow(u)
  \/ GetRow \/ FetchAll \/ LockRow \/ Commit \/ Abort \/ SetAutoCommit \/ SwitchCommitMode
  \/ Close
  \/ ServerExecute \/ ServerRefuse \/ ServerConflict \/ Lose
  \/ Retry \/ Created \/ MainDone \/ StatementFails \/ FetchAllFails
  \/ CleanedUp \/ Recreated \/ ConnectionFails \/ Closed

Spec == Init /\ [][Next]_vars

-----------------------------------------------------------------------------
Request ==
  [statement : {"none", "create", "put", "get", "lock", "commit", "abort", "close"},
   session : 0 .. MaxSessions, id : Nat, row : Update \cup {NULL},
   create : BOOLEAN, mode : {"none", "auto", "begin", "continue"}, version : Nat]

(* Every variable has its type; a session the client knows is one it has    *)
(* numbered. *)
TypeOK ==
  /\ hasKey \in BOOLEAN /\ schemaVerId \in Nat /\ autoCommit \in BOOLEAN
  /\ rowSet \in [transactionId : Nat, transaction : Nat] \cup {NULL}
  /\ lastSessionId \in 0 .. MaxSessions
  /\ sessionId \in 0 .. lastSessionId
  /\ sessionPrepared \in BOOLEAN /\ statementId \in Nat
  /\ transactionId \in Nat /\ transactionStarted \in BOOLEAN
  /\ pc \in {"idle", "send", "reply", "closed"}
  /\ call \in {"none", "put", "get", "fetchAll", "lock", "update", "commit", "abort",
               "setAutoCommit", "close"}
  /\ stage \in {"create", "main", "cleanup", "recreate", "final"}
  /\ req \in Request /\ main \in Request
  /\ reply \in [result : {"none", "ok", "lost", "conflict", "error"}, rows : SUBSET Update,
                transaction : Nat]
  /\ trialCount \in 0 .. MAX_SESSION_REPAIR_COUNT
  /\ createTrialCount \in 0 .. MAX_SESSION_REPAIR_COUNT
  /\ then \in {"throw", "repair", "create", "recreate"}
  /\ session \in [1 .. MaxSessions -> [live : BOOLEAN, last : Nat,
                                       transaction : Nat, rows : SUBSET Update]]
  /\ committed \in [Update -> 0 .. 2] /\ transactions \in Nat
  /\ pending \subseteq sent /\ maybe \subseteq sent /\ sent \subseteq Update
  /\ calls \in Nat /\ losses \in Nat

(* What becomes durable in a step is the whole of the transaction under way *)
(* and nothing else: every row that was acknowledged in it, perhaps rows    *)
(* whose calls failed in it, and no row of a transaction that the           *)
(* application was told is over, by an abort, an error, or a failed commit. *)
AtomicCommit ==
  [][LET new == {u \in Update : committed'[u] > committed[u]} IN
     new # {} => pending \subseteq new /\ new \subseteq pending \cup maybe]_vars

(* When commit, or setAutoCommit, succeeds, all the rows acknowledged since *)
(* the transaction began are durable, whatever was lost and sent again; and *)
(* every variable has its type.                                             *)
CommitCompletes ==
  /\ TypeOK
  /\ Succeeded /\ stage = "main" /\ call \in {"commit", "setAutoCommit"}
       => \A u \in pending : committed[u] > 0

(* A row put in a session is applied once, however often the statement was  *)
(* sent, as long as the server keeps the session.                           *)
AppliedOnce == losses = 0 /\ ~ hasKey => \A u \in Update : committed[u] <= 1

(* A read inside a transaction, also one by fetchAll, sees the rows that    *)
(* were acknowledged in it, or fails.                                       *)
ReadsOwnWrites ==
  Succeeded /\ stage = "main" /\ call \in {"get", "fetchAll"} /\ transactionStarted
    => pending \subseteq reply.rows

(* An update through a row set is executed in the transaction that locked   *)
(* the rows of that row set. *)
RowSetOwnTransaction ==
  Succeeded /\ stage = "main" /\ call = "update"
    => reply.transaction = rowSet.transaction

-----------------------------------------------------------------------------
(* What the application is about to be told: the reply to its call. *)
Told ==
  IF ~ (Succeeded /\ stage = "main") THEN [told |-> "nothing"]
  ELSE IF call \in {"commit", "setAutoCommit"} THEN [told |-> "committed"]
  ELSE IF call = "abort" THEN [told |-> "aborted"]
  ELSE IF call \in {"get", "fetchAll"} /\ transactionStarted
  THEN [told |-> "rows", rows |-> reply.rows]
  ELSE [told |-> "nothing"]

Promise == INSTANCE Transaction
             WITH Row <- Update, offered <- sent, acknowledged <- pending,
                  doubtful <- maybe, durable <- {u \in Update : committed[u] > 0},
                  answer <- Told

(* The session keeps what a container promises of its transactions: they    *)
(* become durable as a whole, an answer to a commit, an abort or a read in  *)
(* one is true, and what has ended stays so (executeStatement, commit,      *)
(* abort, and the repair of sessions).                                      *)
ImplementsTransaction == Promise!Spec
=============================================================================
