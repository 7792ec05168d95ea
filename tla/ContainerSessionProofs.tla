----------------------- MODULE ContainerSessionProofs -----------------------
(***************************************************************************)
(* The safety properties of ContainerSession for any rows and bounds.  The *)
(* argument follows the statement numbers: what the session on the server  *)
(* has in its transaction are the rows of the client's, as long as the     *)
(* session lives and the client has not been told that it is over; a       *)
(* statement that was executed is told by its number from one that was not.*)
(***************************************************************************)
EXTENDS ContainerSession, TLAPS

Busy == pc \in {"send", "reply"}
Current == session[sessionId]

(* The statement of the call, in the session of the client; and whether    *)
(* the server has executed it.                                             *)
InSession == Busy /\ stage = "main" /\ req.session # 0
Executed == InSession /\ Current.last >= req.id

(* What the client knows between the statements of a call. *)
ClientInv ==
  /\ transactionStarted => sessionPrepared /\ ~ autoCommit
  /\ sessionPrepared => sessionId # 0
  /\ ~ transactionStarted => pending = {}
  /\ ~ Busy /\ ~ transactionStarted => maybe = {}
  /\ pc = "idle" => call = "none"

(* The transaction mode of the statement under way. *)
Mode == TransactionMode(TRUE)

(* A statement that has failed and is sent again in another session. *)
Repaired(r) ==
  /\ ~ transactionStarted
  /\ \/ call = "put" /\ r.statement = "put" /\ r.row \in maybe
     \/ call = "lock" /\ r.statement = "lock" /\ r.row = NULL /\ ~ autoCommit
  /\ r.mode = Mode

(* A session that is created for a row without a key. *)
ForRow(row) == call = "put" /\ ~ hasKey /\ ~ transactionStarted /\ row \in maybe

(* The statement of the call. *)
MainInv ==
  Busy /\ stage = "main" =>
    /\ req.session \in {0, sessionId}
    /\ \/ call = "put" /\ req.statement = "put" /\ req.row \in maybe
       \/ call = "update" /\ req.statement = "put" /\ req.row \in maybe /\ transactionStarted
       \/ call \in {"get", "fetchAll"} /\ req.statement = "get" /\ req.row = NULL
       \/ call = "lock" /\ req.statement = "lock" /\ req.row = NULL /\ ~ autoCommit
       \/ /\ call \in {"commit", "setAutoCommit"} /\ req.statement = "commit"
          /\ transactionStarted /\ req.row = NULL
       \/ call = "abort" /\ req.statement = "abort" /\ transactionStarted /\ req.row = NULL
    /\ req.statement \in {"put", "lock"} => req.mode = Mode
    /\ req.statement = "get" => (req.session # 0 <=> transactionStarted)
    /\ req.session = 0 => /\ call \in {"put", "get", "fetchAll"}
                          /\ call = "put" => autoCommit /\ hasKey
                          /\ ~ req.create
    /\ req.session # 0 => /\ req.id = statementId
                          /\ req.create <=> ~ sessionPrepared
    /\ req.create => req.statement \in {"put", "lock"} /\ (call = "put" => hasKey)

(* The statements that open and close sessions. *)
OtherInv ==
  /\ Busy /\ stage \in {"create", "recreate"} =>
       /\ req.statement = "create" /\ ~ req.create
       /\ req.session # 0 /\ req.session = lastSessionId /\ req.session # sessionId
       /\ ~ sessionPrepared
       /\ IF stage = "create" THEN ForRow(req.row)
          ELSE Repaired(main) /\ req.row = main.row /\ sessionId = 0
  /\ Busy /\ stage = "cleanup" =>
       /\ then = "create" => ForRow(main.row) /\ createTrialCount < MAX_SESSION_REPAIR_COUNT
       /\ then = "repair" => Repaired(main) /\ trialCount < MAX_SESSION_REPAIR_COUNT
       /\ then # "recreate" /\ call \notin {"fetchAll", "close"}
  /\ Busy /\ stage = "final" => call = "close"
  /\ Busy /\ stage \in {"cleanup", "final"} =>
       /\ req.statement = "close" /\ ~ req.create
       /\ sessionId # 0 /\ req.session = sessionId

(* The sessions of the server. *)
SessionsInv ==
  /\ \A s \in 1 .. MaxSessions :
       /\ ~ session[s].live \/ s > lastSessionId => session[s] = NoSession
       /\ session[s].transaction = 0 => session[s].rows = {}
  /\ sessionId # 0 => Current.last <= statementId
  /\ Busy /\ stage \in {"create", "recreate"} =>
       session[req.session].last = 0 /\ session[req.session].transaction = 0

(* The session has the transaction of the client. *)
Agree ==
  /\ Current.transaction # 0
  /\ pending \subseteq Current.rows /\ Current.rows \subseteq pending \cup maybe
  /\ \A u \in Current.rows : committed[u] = 0

TransactionInv ==
  /\ transactionStarted /\ Current.live /\ (Ending => stage = "main" /\ ~ Executed)
       => Agree
  /\ Executed /\ Current.live /\ req.statement \in {"put", "lock"} /\ ~ autoCommit
       => Agree /\ (req.statement = "put" => req.row \in Current.rows)
  /\ Executed /\ Current.live /\ req.statement = "commit"
       => \A u \in pending : committed[u] > 0

(* What a reply says of the session, if that has not been lost since. *)
RepliesInv ==
  Succeeded /\ InSession /\ Current.live =>
    /\ req.statement # "get" => Executed
    /\ req.statement \in {"put", "lock"} => reply.transaction = Current.transaction

(* Rows not yet durable. *)
DurableInv ==
  /\ \A u \in Update : committed[u] > 0 => u \in sent
  /\ ~ autoCommit /\ call \notin {"commit", "setAutoCommit"} =>
       \A u \in pending \cup maybe : committed[u] = 0

(* The row set is of the present transaction or of an earlier one. *)
RowSetInv ==
  rowSet # NULL =>
    /\ rowSet.transactionId <= transactionId
    /\ Ending => rowSet.transactionId < transactionId
    /\ rowSet.transactionId = transactionId =>
         /\ transactionStarted
         /\ Current.live => Current.transaction = rowSet.transaction

UpdateInv ==
  Busy /\ call = "update" /\ stage = "main" =>
    rowSet # NULL /\ rowSet.transactionId = transactionId

(* Where no session is lost, a session that is prepared lives, and a row    *)
(* that is durable is not put again.                                       *)
NothingLost ==
  losses = 0 /\ ~ hasKey =>
    /\ sessionPrepared /\ ~ (Busy /\ stage \in {"cleanup", "final"}) => Current.live
    /\ Succeeded /\ stage \in {"create", "recreate"} => session[req.session].live
    /\ Succeeded /\ InSession => Current.live
    /\ autoCommit /\ Busy /\ call = "put" =>
         /\ stage = "main" => /\ committed[req.row] > 0 => Executed
                              /\ reply.result \notin {"lost", "conflict"}
         /\ stage = "create" => committed[req.row] = 0
         /\ stage = "cleanup" /\ then = "create" => committed[main.row] = 0
         /\ stage # "recreate"
         /\ ~ (stage = "cleanup" /\ then = "repair")

IInv ==
  /\ TypeOK /\ ClientInv /\ MainInv /\ OtherInv /\ SessionsInv /\ TransactionInv
  /\ RepliesInv /\ DurableInv /\ RowSetInv /\ UpdateInv /\ NothingLost
  /\ CommitCompletes /\ ReadsOwnWrites /\ RowSetOwnTransaction /\ AppliedOnce
-----------------------------------------------------------------------------
(* What the steps have in common.  A call sends its statement, in no       *)
(* session, in that of the client or in a new one.                         *)
NewStatement ==
  /\ pc = "idle" /\ pc' = "send" /\ stage' = "main" /\ reply' = NoReply
  /\ req' \in Request /\ MainInv'
  /\ call' # "close" /\ call' # "none"
  /\ \/ UNCHANGED <<sessionId, lastSessionId>>
     \/ /\ ~ sessionPrepared /\ lastSessionId < MaxSessions
        /\ lastSessionId' = lastSessionId + 1 /\ sessionId' = lastSessionId + 1
  /\ statementId' \in {statementId, statementId + 1}
  /\ req'.session # 0 => req'.id = statementId + 1
  /\ transactionId' = IF Ending' THEN transactionId + 1 ELSE transactionId
  /\ call' = "update" => rowSet # NULL /\ rowSet.transactionId = transactionId
  /\ calls' \in Nat
  /\ \/ /\ UNCHANGED <<sent, maybe>>
        /\ call' \notin {"put", "update"}
     \/ /\ req'.row \in Update \ sent
        /\ sent' = sent \cup {req'.row} /\ maybe' = maybe \cup {req'.row}
  /\ UNCHANGED <<settings, sessionPrepared, transactionStarted, loop, server, pending, losses>>

(* A session is created for the row of the call. *)
CreatesForRow(u) ==
  /\ pc = "idle" /\ call' = "put" /\ calls' \in Nat
  /\ u \in Update \ sent /\ ~ hasKey /\ ~ sessionPrepared
  /\ sent' = sent \cup {u} /\ maybe' = maybe \cup {u}
  /\ CreateSession("create", u)
  /\ UNCHANGED <<settings, state, statementId, loop, server, pending, losses>>

(* Another session is created for the statement that has failed. *)
CreatesAgain ==
  /\ Busy
  /\ \E row \in Update \cup {NULL} :
       \/ /\ CreateSession("recreate", row)
          /\ Repaired(main)' /\ row = main'.row /\ sessionId' = 0
          /\ losses = 0 /\ ~ hasKey => ~ (autoCommit /\ call = "put")
       \/ /\ CreateSession("create", row)
          /\ ForRow(row)
          /\ losses = 0 /\ ~ hasKey /\ autoCommit => committed[row] = 0
  /\ trialCount' \in 0 .. MAX_SESSION_REPAIR_COUNT
  /\ createTrialCount' \in 0 .. MAX_SESSION_REPAIR_COUNT
  /\ \/ DropSession
     \/ UNCHANGED <<state, statementId>> /\ sessionId = 0
  /\ ~ transactionStarted
  /\ rowSet' \in {rowSet, NULL}
  /\ UNCHANGED <<schema, autoCommit, call, main, then, server, history, calls, losses>>

(* The session is closed after a failure. *)
CleansUp ==
  /\ Refused /\ stage \in {"create", "main", "recreate"} /\ call # "fetchAll"
  /\ sessionId # 0
  /\ then' = IF Conflicted THEN stage ELSE IF Repairable THEN "repair" ELSE "throw"
  /\ main' = IF stage = "recreate" THEN main ELSE req
  /\ statementId' = NextStatementId
  /\ Send("cleanup", CloseRequest)
  /\ UNCHANGED <<settings, state, call, trials, lastSessionId, history, server, calls,
                 losses>>

(* The call ends with an exception. *)
Thrown ==
  /\ Busy /\ Throw
  /\ \/ DropSession
     \/ /\ stage \notin {"cleanup", "final"}
        /\ transactionStarted' = (transactionStarted /\ ~ Ending)
        /\ UNCHANGED <<sessionId, sessionPrepared, statementId, transactionId>>
  /\ rowSet' \in {rowSet, NULL}
  /\ UNCHANGED <<schema, autoCommit, lastSessionId, server, calls, losses>>

(* The replies of the server that change none of its sessions: an error,   *)
(* and the reply to a statement that was executed before.                  *)
Answered ==
  /\ pc = "send" /\ pc' = "reply"
  /\ \/ reply' = [NoReply EXCEPT !.result = "error"]
     \/ /\ reply' = [NoReply EXCEPT !.result = "conflict"]
        /\ req.statement = "create" \/ req.create
     \/ /\ reply' = [NoReply EXCEPT !.result = "lost"]
        /\ req.session # 0 /\ req.statement # "create" /\ ~ req.create
        /\ ~ session[req.session].live
  /\ UNCHANGED <<settings, state, statementId, lastSessionId, call, stage, req,
                 loop, server, history, calls, losses>>

OkReply(x) == [result |-> "ok", rows |-> x.rows, transaction |-> x.transaction]

Repeats ==
  /\ pc = "send" /\ pc' = "reply"
  /\ req.session # 0 /\ req.statement # "create"
  /\ session[req.session].live /\ req.id <= session[req.session].last
  /\ reply' = OkReply(session[req.session])
  /\ UNCHANGED <<settings, state, statementId, lastSessionId, call, stage, req,
                 loop, server, history, calls, losses>>

(* The session of the request, and the execution of the request in it. *)
Target == IF req.session = 0 THEN NoSession ELSE session[req.session]

Applies(s, t) ==
  /\ pc = "send" /\ pc' = "reply"
  /\ s = Target /\ t = Applied(s)
  /\ ~ Missing(s) /\ ~ Repeated(s) /\ ~ Invalid(s)
  /\ reply' = OkReply(t)
  /\ session' = IF req.session = 0 THEN session
                ELSE [session EXCEPT ![req.session] = t]
  /\ committed' = [u \in Update |->
       IF u \in Durable(s) /\ committed[u] < 2 THEN committed[u] + 1 ELSE committed[u]]
  /\ transactions' = IF t.transaction > transactions
                     THEN transactions + 1 ELSE transactions
  /\ UNCHANGED <<settings, state, statementId, lastSessionId, call, stage, req,
                 loop, history, calls, losses>>

LEMMA ModeType == Mode \in {"auto", "begin", "continue"}
  BY DEF Mode, TransactionMode

LEMMA PrepareSplit ==
  ASSUME TypeOK, ClientInv,
         NEW kind \in {"put", "get", "lock"}, NEW row \in Update \cup {NULL},
         Prepare(kind, row), call' = kind, pc = "idle",
         kind = "put" => row \in maybe', kind # "put" => row = NULL,
         kind = "lock" => ~ autoCommit,
         UNCHANGED settings
  PROVE  \/ /\ CreateSession("create", row)
            /\ kind = "put" /\ ~ hasKey /\ ~ sessionPrepared
            /\ UNCHANGED <<state, statementId>>
         \/ /\ pc' = "send" /\ stage' = "main" /\ reply' = NoReply
            /\ req' \in Request /\ MainInv' /\ req'.row = row
            /\ \/ UNCHANGED <<sessionId, lastSessionId>>
               \/ /\ ~ sessionPrepared /\ lastSessionId < MaxSessions
                  /\ lastSessionId' = lastSessionId + 1
                  /\ sessionId' = lastSessionId + 1
            /\ statementId' \in {statementId, statementId + 1}
            /\ req'.session # 0 => req'.id = statementId + 1
            /\ UNCHANGED <<transactionId, sessionPrepared, transactionStarted>>
  <1>0. /\ autoCommit' = autoCommit /\ hasKey' = hasKey
        /\ transactionStarted' = transactionStarted => Mode' = Mode
    BY DEF settings, schema, Mode, TransactionMode
  <1>1. CASE ~ SessionRequired(kind)
    <2>1. Execute(kind, row, 0, FALSE) /\ UNCHANGED <<state, lastSessionId>>
      BY <1>1 DEF Prepare
    <2>2. /\ pc' = "send" /\ stage' = "main" /\ reply' = NoReply
          /\ req' = [statement |-> kind, session |-> 0, id |-> 0, row |-> row,
                   create |-> FALSE, mode |-> "auto",
                   version |-> schemaVerId]
          /\ statementId' = statementId
      BY <2>1 DEF Execute, Send
    <2>a. req' \in Request
      BY <2>2, SessionAssumption DEF Request, TypeOK
    <2>3. /\ sessionId' = sessionId /\ transactionStarted' = transactionStarted
          /\ transactionId' = transactionId /\ sessionPrepared' = sessionPrepared
          /\ lastSessionId' = lastSessionId
      BY <2>1 DEF state
    <2>4. MainInv' /\ req'.row = row /\ req'.session = 0
      BY <1>0, <1>1, <2>2, <2>3 DEF MainInv, SessionRequired, ClientInv, Mode, TransactionMode
    <2> QED BY <2>2, <2>a, <2>3, <2>4
  <1>2. CASE SessionRequired(kind) /\ sessionPrepared
    <2>1. Execute(kind, row, sessionId, TRUE) /\ UNCHANGED <<state, lastSessionId>>
      BY <1>2 DEF Prepare
    <2>2. /\ pc' = "send" /\ stage' = "main" /\ reply' = NoReply
          /\ req' = [statement |-> kind, session |-> sessionId, id |-> statementId + 1, row |-> row,
                   create |-> FALSE, mode |-> Mode,
                   version |-> schemaVerId]
          /\ statementId' = statementId + 1 /\ sessionId # 0
      BY <1>2, <2>1 DEF Execute, Send, NextStatementId, ClientInv, Mode
    <2>a. req' \in Request
      BY <2>2, ModeType, SessionAssumption DEF Request, TypeOK
    <2>3. /\ sessionId' = sessionId /\ transactionStarted' = transactionStarted
          /\ transactionId' = transactionId /\ sessionPrepared' = sessionPrepared
          /\ lastSessionId' = lastSessionId
      BY <2>1 DEF state
    <2>4. MainInv' /\ req'.row = row /\ req'.id = statementId + 1
      BY <1>0, <1>2, <2>2, <2>3 DEF MainInv, SessionRequired, ClientInv
    <2> QED BY <2>2, <2>a, <2>3, <2>4
  <1>3. CASE SessionRequired(kind) /\ ~ sessionPrepared /\ kind = "put" /\ ~ hasKey
    BY <1>3 DEF Prepare
  <1>4. CASE SessionRequired(kind) /\ ~ sessionPrepared /\ ~ (kind = "put" /\ ~ hasKey)
    <2>1. /\ Execute(kind, row, lastSessionId + 1, FALSE)
          /\ lastSessionId < MaxSessions /\ lastSessionId' = lastSessionId + 1
          /\ sessionId' = lastSessionId + 1
          /\ UNCHANGED <<sessionPrepared, transactionId, transactionStarted>>
      BY <1>4 DEF Prepare, GenerateSessionId
    <2>2. lastSessionId + 1 \in 0 .. MaxSessions /\ lastSessionId + 1 # 0
      BY <2>1, SessionAssumption DEF TypeOK
    <2>3. /\ pc' = "send" /\ stage' = "main" /\ reply' = NoReply
          /\ req' = [statement |-> kind, session |-> lastSessionId + 1, id |-> statementId + 1, row |-> row,
                   create |-> TRUE, mode |-> Mode,
                   version |-> schemaVerId]
          /\ statementId' = statementId + 1
      BY <2>1, <2>2 DEF Execute, Send, NextStatementId, Mode, TransactionMode
    <2>a. req' \in Request
      BY <2>2, <2>3, ModeType, SessionAssumption DEF Request, TypeOK
    <2>4. MainInv' /\ req'.row = row /\ req'.id = statementId + 1
      BY <1>0, <1>4, <2>1, <2>2, <2>3
         DEF MainInv, SessionRequired, ClientInv, Mode, TransactionMode
    <2>5. /\ lastSessionId < MaxSessions /\ lastSessionId' = lastSessionId + 1
          /\ sessionId' = lastSessionId + 1 /\ ~ sessionPrepared
          /\ transactionId' = transactionId /\ sessionPrepared' = sessionPrepared
          /\ transactionStarted' = transactionStarted
      BY <1>4, <2>1
    <2> QED BY <2>3, <2>a, <2>4, <2>5
  <1> QED BY <1>1, <1>2, <1>3, <1>4

LEMMA PutSplit ==
  ASSUME TypeOK, ClientInv, NEW u \in Update, PutRow(u)
  PROVE  NewStatement \/ CreatesForRow(u)
  <1>1. /\ pc = "idle" /\ call' = "put" /\ calls' \in Nat /\ Prepare("put", u)
        /\ u \in Update \ sent /\ sent' = sent \cup {u} /\ maybe' = maybe \cup {u}
        /\ UNCHANGED <<settings, loop, server, pending, losses>>
    BY DEF PutRow, Call, TypeOK
  <1>2. u \in maybe' /\ UNCHANGED settings
    BY <1>1
  <1>3. Prepare("put", u) /\ call' = "put" /\ pc = "idle"
    BY <1>1
  <1>4. CASE CreateSession("create", u) /\ ~ hasKey /\ ~ sessionPrepared
             /\ UNCHANGED <<state, statementId>>
    BY <1>1, <1>4 DEF CreatesForRow
  <1>5. CASE ~ (CreateSession("create", u) /\ ~ hasKey /\ ~ sessionPrepared
                /\ UNCHANGED <<state, statementId>>)
    <2>1. /\ pc' = "send" /\ stage' = "main" /\ reply' = NoReply
          /\ req' \in Request /\ MainInv' /\ req'.row = u
          /\ \/ UNCHANGED <<sessionId, lastSessionId>>
             \/ /\ ~ sessionPrepared /\ lastSessionId < MaxSessions
                /\ lastSessionId' = lastSessionId + 1
                /\ sessionId' = lastSessionId + 1
          /\ statementId' \in {statementId, statementId + 1}
          /\ req'.session # 0 => req'.id = statementId + 1
          /\ UNCHANGED <<transactionId, sessionPrepared, transactionStarted>>
      BY <1>2, <1>3, <1>5, PrepareSplit
    <2> QED BY <1>1, <2>1 DEF NewStatement, Ending
  <1> QED BY <1>4, <1>5

LEMMA ReadSplit ==
  ASSUME TypeOK, ClientInv, GetRow \/ LockRow
  PROVE  NewStatement
  <1>1. PICK kind \in {"get", "lock"} :
          /\ pc = "idle" /\ call' = kind /\ calls' \in Nat /\ Prepare(kind, NULL)
          /\ kind = "lock" => ~ autoCommit
          /\ UNCHANGED <<settings, loop, server, history, losses>>
    BY DEF GetRow, LockRow, Call, TypeOK
  <1>2. UNCHANGED settings /\ kind \in {"put", "get", "lock"} /\ kind # "put"
    BY <1>1
  <1>3. /\ pc' = "send" /\ stage' = "main" /\ reply' = NoReply
        /\ req' \in Request /\ MainInv' /\ req'.row = NULL
        /\ \/ UNCHANGED <<sessionId, lastSessionId>>
           \/ /\ ~ sessionPrepared /\ lastSessionId < MaxSessions
              /\ lastSessionId' = lastSessionId + 1
              /\ sessionId' = lastSessionId + 1
        /\ statementId' \in {statementId, statementId + 1}
        /\ req'.session # 0 => req'.id = statementId + 1
        /\ UNCHANGED <<transactionId, sessionPrepared, transactionStarted>>
    BY <1>1, <1>2, PrepareSplit
  <1> QED BY <1>1, <1>2, <1>3 DEF NewStatement, Ending, history

LEMMA FetchAllSplit ==
  ASSUME TypeOK, ClientInv, FetchAll
  PROVE  NewStatement
  <1>1. /\ pc = "idle" /\ call' = "fetchAll" /\ calls' \in Nat
        /\ pc' = "send" /\ stage' = "main" /\ reply' = NoReply
        /\ UNCHANGED <<settings, loop, server, history, losses>>
        /\ UNCHANGED <<state, lastSessionId>>
    BY DEF FetchAll, Call, Send, TypeOK
  <1>2. /\ hasKey' = hasKey /\ autoCommit' = autoCommit /\ sessionId' = sessionId
        /\ sessionPrepared' = sessionPrepared /\ transactionId' = transactionId
        /\ transactionStarted' = transactionStarted /\ lastSessionId' = lastSessionId
    BY <1>1 DEF settings, schema, state
  <1>3. CASE transactionStarted
    <2>1. /\ sessionId # 0 /\ ~ autoCommit
          /\ req' = [statement |-> "get", session |-> sessionId, id |-> statementId + 1,
                     row |-> NULL, create |-> FALSE, mode |-> "continue",
                     version |-> schemaVerId]
          /\ statementId' = statementId + 1
      BY <1>3 DEF FetchAll, SessionRequired, Send, Plain, NoRequest, NextStatementId,
         TransactionMode, ClientInv
    <2>2. req' \in Request
      BY <2>1, SessionAssumption DEF Request, TypeOK
    <2>3. MainInv'
      BY <1>1, <1>2, <1>3, <2>1 DEF MainInv, ClientInv
    <2> QED BY <1>1, <1>2, <2>1, <2>2, <2>3 DEF NewStatement, Ending, history
  <1>4. CASE ~ transactionStarted
    <2> DEFINE i == IF ~ autoCommit /\ sessionId # 0 THEN statementId + 1 ELSE 0
    <2>1. /\ req' = [statement |-> "get", session |-> 0, id |-> i,
                     row |-> NULL, create |-> FALSE, mode |-> "auto",
                     version |-> schemaVerId]
          /\ statementId' \in {statementId, statementId + 1}
      BY <1>4 DEF FetchAll, SessionRequired, Send, Plain, NoRequest, NextStatementId
    <2>2. i \in Nat
      BY DEF TypeOK
    <2> HIDE DEF i
    <2>3. req' \in Request
      BY <2>1, <2>2, SessionAssumption DEF Request, TypeOK
    <2>4. MainInv'
      BY <1>1, <1>2, <1>4, <2>1 DEF MainInv, ClientInv
    <2>5. req'.session = 0
      BY <2>1
    <2> QED BY <1>1, <1>2, <2>1, <2>3, <2>4, <2>5 DEF NewStatement, Ending, history
  <1> QED BY <1>3, <1>4

LEMMA UpdateSplit ==
  ASSUME TypeOK, ClientInv, NEW u \in Update, UpdateRow(u)
  PROVE  NewStatement
  <1>1. /\ pc = "idle" /\ call' = "update" /\ calls' \in Nat
        /\ u \notin sent /\ sent' = sent \cup {u} /\ maybe' = maybe \cup {u}
        /\ rowSet # NULL /\ rowSet.transactionId = transactionId
        /\ transactionStarted /\ ~ autoCommit
        /\ UNCHANGED <<settings, loop, server, pending, losses>>
        /\ UNCHANGED <<state, lastSessionId>>
        /\ Execute("put", u, sessionId, sessionPrepared)
    BY DEF UpdateRow, Call, TypeOK, TransactionPreserved
  <1>2. /\ hasKey' = hasKey /\ autoCommit' = autoCommit /\ sessionId' = sessionId
        /\ sessionPrepared' = sessionPrepared /\ transactionId' = transactionId
        /\ transactionStarted' = transactionStarted /\ lastSessionId' = lastSessionId
    BY <1>1 DEF settings, schema, state
  <1>3. /\ sessionPrepared /\ sessionId # 0
        /\ pc' = "send" /\ stage' = "main" /\ reply' = NoReply
        /\ req' = [statement |-> "put", session |-> sessionId, id |-> statementId + 1,
                   row |-> u, create |-> FALSE, mode |-> "continue",
                   version |-> schemaVerId]
        /\ statementId' = statementId + 1
    BY <1>1 DEF Execute, Send, NextStatementId, TransactionMode, ClientInv
  <1>4. req' \in Request
    BY <1>3, SessionAssumption DEF Request, TypeOK
  <1>5. MainInv'
    BY <1>1, <1>2, <1>3 DEF MainInv, Mode, TransactionMode
  <1>6. req'.row = u /\ req'.id = statementId + 1
    BY <1>3
  <1> QED BY <1>1, <1>2, <1>3, <1>4, <1>5, <1>6 DEF NewStatement, Ending

LEMMA EndSplit ==
  ASSUME TypeOK, ClientInv, Commit \/ Abort \/ SetAutoCommit
  PROVE  NewStatement
  <1>1. PICK kind \in {"commit", "abort", "setAutoCommit"},
             statement \in {"commit", "abort"} :
          /\ kind = "abort" <=> statement = "abort"
          /\ EndTransaction(kind, statement)
    BY DEF Commit, Abort, SetAutoCommit
  <1>a. /\ pc = "idle" /\ call' = kind /\ calls' = calls + 1
        /\ transactionStarted /\ ~ autoCommit
        /\ NextTransaction /\ statementId' = statementId + 1
        /\ Send("main", Plain(statement, sessionId, statementId + 1))
        /\ UNCHANGED <<loop, server, losses>>
        /\ UNCHANGED <<settings, sessionId, sessionPrepared, transactionStarted,
                      lastSessionId, history>>
    BY <1>1 DEF EndTransaction, Call, NextStatementId
  <1>b. req' = [statement |-> statement, session |-> sessionId, id |-> statementId + 1,
                row |-> NULL, create |-> FALSE, mode |-> "none", version |-> 0]
    BY <1>a DEF Send, Plain, NoRequest
  <1>2. /\ pc = "idle" /\ call' = kind /\ calls' \in Nat
        /\ transactionStarted /\ ~ autoCommit
        /\ transactionId' = transactionId + 1 /\ statementId' = statementId + 1
        /\ pc' = "send" /\ stage' = "main" /\ reply' = NoReply
        /\ req' = [statement |-> statement, session |-> sessionId, id |-> statementId + 1,
                   row |-> NULL, create |-> FALSE, mode |-> "none", version |-> 0]
        /\ UNCHANGED <<settings, loop, server, history, losses>>
        /\ UNCHANGED <<sessionId, sessionPrepared, transactionStarted, lastSessionId>>
    <2>1. pc' = "send" /\ stage' = "main" /\ reply' = NoReply
      BY <1>a DEF Send
    <2>2. transactionId' = transactionId + 1
      BY <1>a DEF NextTransaction
    <2>3. calls' \in Nat
      BY <1>a DEF TypeOK
    <2> QED BY <1>a, <1>b, <2>1, <2>2, <2>3
  <1>3. sessionPrepared /\ sessionId # 0
    BY <1>2 DEF ClientInv
  <1>4. req' \in Request
    BY <1>2, SessionAssumption DEF Request, TypeOK
  <1>5. MainInv'
    <2>1. /\ req'.session = sessionId' /\ req'.id = statementId' /\ ~ req'.create
          /\ req'.statement = statement /\ req'.row = NULL /\ sessionPrepared'
          /\ transactionStarted' /\ req'.session # 0
      BY <1>2, <1>3
    <2>2. \/ call' \in {"commit", "setAutoCommit"} /\ req'.statement = "commit"
          \/ call' = "abort" /\ req'.statement = "abort"
      BY <1>1, <1>2
    <2> QED BY <2>1, <2>2 DEF MainInv
  <1>6. Ending' /\ call' \notin {"put", "update", "none", "close"} /\ req'.id = statementId + 1
    BY <1>2 DEF Ending
  <1> QED BY <1>2, <1>4, <1>5, <1>6 DEF NewStatement, history

LEMMA ServerSplit ==
  ASSUME ServerExecute \/ ServerRefuse \/ ServerConflict
  PROVE  Answered \/ Repeats \/ \E s, t : Applies(s, t)
  <1>1. CASE ServerRefuse
    BY <1>1 DEF ServerRefuse, Answered
  <1>2. CASE ServerConflict
    BY <1>2 DEF ServerConflict, Answered
  <1>3. CASE ServerExecute
    <2> DEFINE s == Target
               t == Applied(Target)
    <2>1. /\ pc = "send" /\ pc' = "reply"
          /\ UNCHANGED <<settings, state, statementId, lastSessionId, call, stage, req,
                        loop, history, calls, losses>>
          /\ \/ /\ Missing(s)
                /\ reply' = [NoReply EXCEPT !.result = "lost"]
                /\ UNCHANGED server
             \/ /\ Repeated(s)
                /\ reply' = OkReply(s)
                /\ UNCHANGED server
             \/ /\ ~ Missing(s) /\ ~ Repeated(s) /\ Invalid(s)
                /\ reply' = [NoReply EXCEPT !.result = "error"]
                /\ UNCHANGED server
             \/ Applies(s, t)
      BY <1>3 DEF ServerExecute, Applies, Target, OkReply
    <2>2. CASE Missing(s) /\ reply' = [NoReply EXCEPT !.result = "lost"] /\ UNCHANGED server
      BY <2>1, <2>2 DEF Answered, Missing, Target
    <2>3. CASE Repeated(s) /\ reply' = OkReply(s) /\ UNCHANGED server
      BY <2>1, <2>3 DEF Repeats, Repeated, Target, NoSession
    <2>4. CASE reply' = [NoReply EXCEPT !.result = "error"] /\ UNCHANGED server
      BY <2>1, <2>4 DEF Answered
    <2> QED BY <2>1, <2>2, <2>3, <2>4
  <1> QED BY <1>1, <1>2, <1>3

(* What follows the failure of a statement, or the closing of its session. *)
LEMMA FailSplit ==
  ASSUME TypeOK, ClientInv, MainInv, OtherInv, NothingLost,
         StatementFails \/ FetchAllFails \/ CleanedUp \/ ConnectionFails
  PROVE  CleansUp \/ CreatesAgain \/ Thrown
  <1>1. CASE ConnectionFails
    BY <1>1 DEF ConnectionFails, Thrown, Busy
  <1>2. CASE FetchAllFails
    BY <1>2 DEF FetchAllFails, Thrown, Busy, Refused, OtherInv, settings, state, Ending, TypeOK
  <1>3. CASE CleanedUp
    <2>1. /\ Busy /\ stage = "cleanup" /\ DropSession /\ Continue(then, main)
          /\ rowSet' \in {rowSet, NULL}
          /\ UNCHANGED <<schema, autoCommit, server, calls, losses>>
      BY <1>3 DEF CleanedUp, Busy
    <2>2. CASE then = "throw"
      BY <2>1, <2>2 DEF Continue, Thrown
    <2>3. CASE then = "create"
      <3>1. /\ CreateSession("create", main.row) /\ createTrialCount' = createTrialCount + 1
            /\ UNCHANGED <<call, main, then, trialCount, history>>
        BY <2>1, <2>3 DEF Continue
      <3>2. /\ ForRow(main.row) /\ createTrialCount < MAX_SESSION_REPAIR_COUNT
            /\ losses = 0 /\ ~ hasKey /\ autoCommit => committed[main.row] = 0
        BY <2>1, <2>3 DEF OtherInv, NothingLost, ForRow
      <3>3. main.row \in Update \cup {NULL} /\ ~ transactionStarted
        BY <3>2 DEF TypeOK, Request, ForRow
      <3>4. createTrialCount' \in 0 .. MAX_SESSION_REPAIR_COUNT
            /\ trialCount' \in 0 .. MAX_SESSION_REPAIR_COUNT
        BY <3>1, <3>2, SessionAssumption DEF TypeOK
      <3> QED BY <2>1, <3>1, <3>2, <3>3, <3>4 DEF CreatesAgain
    <2>4. CASE then = "repair"
      <3>1. /\ CreateSession("recreate", main.row)
            /\ trialCount' = trialCount + 1 /\ createTrialCount' = 0
            /\ UNCHANGED <<call, main, then, history>>
        BY <2>1, <2>4 DEF Continue
      <3>2. /\ Repaired(main) /\ trialCount < MAX_SESSION_REPAIR_COUNT
            /\ losses = 0 /\ ~ hasKey => ~ (autoCommit /\ call = "put")
        BY <2>1, <2>4 DEF OtherInv, NothingLost
      <3>3. main.row \in Update \cup {NULL} /\ ~ transactionStarted
        BY <3>2 DEF TypeOK, Request, Repaired
      <3>4. /\ autoCommit' = autoCommit /\ transactionStarted' = FALSE /\ main' = main
            /\ call' = call /\ maybe' = maybe /\ sessionId' = 0
        BY <2>1, <3>1 DEF DropSession, history
      <3>5. Repaired(main)'
        BY <3>2, <3>3, <3>4 DEF Repaired, Mode, TransactionMode
      <3>6. createTrialCount' \in 0 .. MAX_SESSION_REPAIR_COUNT
            /\ trialCount' \in 0 .. MAX_SESSION_REPAIR_COUNT
        BY <3>1, <3>2, SessionAssumption DEF TypeOK
      <3> QED BY <2>1, <3>1, <3>2, <3>3, <3>4, <3>5, <3>6 DEF CreatesAgain
    <2> QED BY <2>1, <2>2, <2>3, <2>4 DEF OtherInv, TypeOK
  <1>4. CASE StatementFails
    <2> DEFINE w == IF Conflicted THEN stage ELSE IF Repairable THEN "repair" ELSE "throw"
    <2>1. /\ Refused /\ stage \in {"create", "main", "recreate"} /\ call # "fetchAll"
          /\ UNCHANGED <<settings, server, calls, losses>>
          /\ \/ CleansUp
             \/ sessionId = 0 /\ UNCHANGED <<state, statementId>> /\ Continue(w, req)
      BY <1>4 DEF StatementFails, CleansUp
    <2>2. ASSUME sessionId = 0, UNCHANGED <<state, statementId>>, Continue(w, req)
          PROVE  CreatesAgain \/ Thrown
      <3>a. ~ transactionStarted /\ Busy
        BY <2>1, <2>2 DEF ClientInv, Refused, Busy
      <3>b. ~ Ending
        BY <2>1, <3>a DEF MainInv, OtherInv, Ending, ForRow, Repaired
      <3>1. /\ ~ transactionStarted /\ ~ Ending /\ Busy
            /\ UNCHANGED <<schema, autoCommit, rowSet, server, calls, losses>>
            /\ UNCHANGED <<sessionId, sessionPrepared, transactionId, transactionStarted,
                          statementId>>
        BY <2>1, <2>2, <3>a, <3>b DEF settings, state
      <3>2. ~ Repairable
        BY <2>1, <2>2 DEF Repairable, MainInv, Refused, Busy
      <3>3. CASE ~ Conflicted
        <4>0. Continue("throw", req)
          BY <2>2, <3>2, <3>3
        <4>1. Throw /\ UNCHANGED lastSessionId
          BY <4>0 DEF Continue
        <4>2. transactionStarted' = (transactionStarted /\ ~ Ending)
          BY <3>1 DEF TypeOK
        <4> QED BY <2>1, <3>1, <4>1, <4>2 DEF Thrown
      <3>4. CASE Conflicted
        <4>1. stage \in {"create", "recreate"} /\ createTrialCount < MAX_SESSION_REPAIR_COUNT
              /\ Continue(stage, req)
          BY <2>2, <3>4 DEF Conflicted
        <4>2. /\ CreateSession(stage, req.row)
              /\ createTrialCount' = createTrialCount + 1
              /\ UNCHANGED <<call, main, then, trialCount, history>>
          BY <4>1 DEF Continue
        <4>3. createTrialCount' \in 0 .. MAX_SESSION_REPAIR_COUNT
              /\ trialCount' \in 0 .. MAX_SESSION_REPAIR_COUNT
          BY <4>1, <4>2, SessionAssumption DEF TypeOK
        <4>4. req.row \in Update \cup {NULL}
          BY DEF TypeOK, Request
        <4>5. CASE stage = "create"
          <5>1. /\ ForRow(req.row)
                /\ losses = 0 /\ ~ hasKey /\ autoCommit => committed[req.row] = 0
            BY <4>5, <3>1 DEF OtherInv, NothingLost, ForRow
          <5> QED BY <2>2, <3>1, <4>2, <4>3, <4>4, <4>5, <5>1 DEF CreatesAgain
        <4>6. CASE stage = "recreate"
          <5>1. /\ Repaired(main) /\ req.row = main.row
                /\ losses = 0 /\ ~ hasKey => ~ (autoCommit /\ call = "put")
            BY <4>6, <3>1 DEF OtherInv, NothingLost
          <5>2. /\ autoCommit' = autoCommit /\ transactionStarted' = FALSE /\ main' = main
                /\ call' = call /\ maybe' = maybe /\ sessionId' = 0
            BY <2>2, <3>1, <4>2 DEF history
          <5>3. Repaired(main)'
            BY <5>1, <5>2, <3>1 DEF Repaired, Mode, TransactionMode
          <5> QED BY <2>2, <3>1, <4>2, <4>3, <4>4, <4>6, <5>1, <5>2, <5>3 DEF CreatesAgain
        <4> QED BY <4>1, <4>5, <4>6
      <3> QED BY <3>3, <3>4
    <2> QED BY <2>1, <2>2
  <1> QED BY <1>1, <1>2, <1>3, <1>4

-----------------------------------------------------------------------------
(* A step after which there is no answer says nothing of one. *)
LEMMA NoAnswer ==
  ASSUME TypeOK', ~ Succeeded'
  PROVE  CommitCompletes' /\ ReadsOwnWrites' /\ RowSetOwnTransaction' /\ RepliesInv'
  BY DEF CommitCompletes, ReadsOwnWrites, RowSetOwnTransaction, RepliesInv

LEMMA SessionTypes ==
  ASSUME TypeOK
  PROVE  /\ \A s \in 1 .. MaxSessions :
              /\ session[s].live \in BOOLEAN /\ session[s].last \in Nat
              /\ session[s].transaction \in Nat /\ session[s].rows \subseteq Update
         /\ sessionId # 0 => sessionId \in 1 .. MaxSessions
         /\ req.session # 0 => req.session \in 1 .. MaxSessions
         /\ req.id \in Nat
  BY SessionAssumption DEF TypeOK, Request

LEMMA NewStatementStep ==
  ASSUME IInv, NewStatement
  PROVE  IInv'
  <1> USE DEF IInv
  <1>1. /\ autoCommit' = autoCommit /\ rowSet' = rowSet /\ hasKey' = hasKey
        /\ schemaVerId' = schemaVerId /\ sessionPrepared' = sessionPrepared
        /\ transactionStarted' = transactionStarted
        /\ main' = main /\ trialCount' = trialCount
        /\ createTrialCount' = createTrialCount /\ then' = then
        /\ session' = session /\ committed' = committed /\ transactions' = transactions
        /\ pending' = pending /\ losses' = losses
        /\ maybe \subseteq maybe' /\ pc = "idle" /\ pc' = "send" /\ stage' = "main"
    BY DEF NewStatement, settings, schema, loop, trials, server
  <1>2. call' \in {"put", "get", "fetchAll", "lock", "update", "commit", "abort", "setAutoCommit"}
    BY <1>1 DEF NewStatement, MainInv, Busy
  <1>3. TypeOK'
    <2>1. /\ lastSessionId' \in 0 .. MaxSessions /\ sessionId' \in 0 .. lastSessionId'
          /\ statementId' \in Nat /\ transactionId' \in Nat
      BY SessionAssumption DEF TypeOK, NewStatement
    <2>2. pending' \subseteq sent' /\ maybe' \subseteq sent' /\ sent' \subseteq Update
      BY <1>1 DEF TypeOK, NewStatement
    <2>3. reply' = [result |-> "none", rows |-> {}, transaction |-> 0] /\ req' \in Request
          /\ calls' \in Nat
      BY DEF NewStatement, NoReply
    <2> QED BY <1>1, <1>2, <2>1, <2>2, <2>3 DEF TypeOK
  <1>5. /\ sessionId' # 0 => Current'.last \in Nat /\ Current'.last <= statementId
        /\ \/ sessionId' = sessionId /\ lastSessionId' = lastSessionId /\ Current' = Current
           \/ /\ Current' = NoSession /\ ~ sessionPrepared
              /\ lastSessionId' = lastSessionId + 1
    <2>1. CASE UNCHANGED <<sessionId, lastSessionId>>
      BY <1>1, <2>1, SessionTypes DEF SessionsInv, Current
    <2>2. CASE /\ ~ sessionPrepared /\ lastSessionId < MaxSessions
               /\ lastSessionId' = lastSessionId + 1 /\ sessionId' = lastSessionId + 1
      <3>1. sessionId' \in 1 .. MaxSessions /\ sessionId' > lastSessionId
        BY <2>2, SessionAssumption DEF TypeOK
      <3>2. Current' = NoSession
        BY <1>1, <3>1 DEF SessionsInv, Current
      <3> QED BY <2>2, <3>2 DEF NoSession, TypeOK
    <2> QED BY <2>1, <2>2 DEF NewStatement
  <1>6. ~ Executed' /\ ~ Succeeded'
    <2>1. req'.session # 0 => req'.id = statementId + 1 /\ sessionId' # 0
      BY <1>1 DEF NewStatement, MainInv, Busy
    <2> QED BY <1>1, <1>5, <2>1 DEF Executed, InSession, Succeeded, TypeOK
  <1>7. ClientInv'
    <2>1. sessionPrepared => sessionId' # 0
      BY <1>5 DEF ClientInv
    <2> QED BY <1>1, <2>1 DEF ClientInv, Busy
  <1>8. MainInv' /\ OtherInv'
    BY <1>1 DEF NewStatement, OtherInv
  <1>9. SessionsInv'
    <2>1. \A s \in 1 .. MaxSessions : s > lastSessionId' => s > lastSessionId
      BY <1>5 DEF TypeOK
    <2>2. statementId <= statementId'
      BY DEF NewStatement, TypeOK
    <2> QED BY <1>1, <1>3, <1>5, <2>1, <2>2 DEF SessionsInv, TypeOK
  <1>10. TransactionInv'
    <2>1. ASSUME transactionStarted', Current'.live, Ending' => stage' = "main" /\ ~ Executed'
          PROVE  Agree'
      <3>1. transactionStarted /\ Current' = Current /\ Current.live /\ ~ Ending
        BY <1>1, <1>5, <2>1 DEF ClientInv, Ending, NoSession
      <3>2. Agree
        BY <3>1 DEF TransactionInv
      <3> QED BY <1>1, <3>1, <3>2 DEF Agree
    <2> QED BY <1>6, <2>1 DEF TransactionInv
  <1>11. DurableInv'
    BY <1>1 DEF DurableInv, NewStatement, ClientInv, TypeOK
  <1>12. RowSetInv' /\ UpdateInv'
    <2>1. transactionId' >= transactionId /\ (Ending' => transactionId' > transactionId)
          /\ (transactionId' = transactionId => ~ Ending')
      BY DEF NewStatement, TypeOK
    <2>2. rowSet' # NULL => rowSet.transactionId \in Nat
      BY <1>1 DEF TypeOK
    <2>3. UpdateInv'
      BY <1>1 DEF UpdateInv, NewStatement, Ending
    <2>4. ASSUME rowSet # NULL
          PROVE  /\ rowSet.transactionId <= transactionId'
                 /\ Ending' => rowSet.transactionId < transactionId'
                 /\ rowSet.transactionId = transactionId' =>
                      /\ transactionStarted
                      /\ Current.live => Current.transaction = rowSet.transaction
      BY <1>1, <1>3, <2>1, <2>2, <2>4 DEF RowSetInv, TypeOK
    <2>5. transactionStarted => Current' = Current
      BY <1>5 DEF ClientInv
    <2>6. RowSetInv'
      BY <1>1, <2>4, <2>5 DEF RowSetInv
    <2> QED BY <2>3, <2>6
  <1>13. NothingLost'
    <2>1. call' = "put" /\ autoCommit' => committed'[req'.row] = 0
      BY <1>1, <1>2 DEF NewStatement, DurableInv, TypeOK
    <2>2. reply'.result = "none"
      BY DEF NewStatement, NoReply
    <2>3. ~ Busy /\ (losses = 0 /\ ~ hasKey /\ sessionPrepared => Current'.live)
      BY <1>1, <1>5 DEF NothingLost, Busy
    <2>4. ~ (committed'[req'.row] > 0 /\ autoCommit' /\ call' = "put")
      BY <2>1
    <2> QED BY <1>1, <1>6, <2>2, <2>3, <2>4 DEF NothingLost
  <1>14. AppliedOnce'
    BY <1>1 DEF AppliedOnce
  <1> QED BY <1>3, <1>6, <1>7, <1>8, <1>9, <1>10, <1>11, <1>12, <1>13, <1>14, NoAnswer

(* A session with a number that was never used. *)
LEMMA FreshSession ==
  ASSUME TypeOK, SessionsInv, GenerateSessionId
  PROVE  /\ lastSessionId + 1 \in 1 .. MaxSessions /\ lastSessionId' = lastSessionId + 1
         /\ lastSessionId + 1 # sessionId
         /\ session[lastSessionId + 1] = NoSession
  BY SessionAssumption DEF TypeOK, SessionsInv, GenerateSessionId

(* The request that creates it. *)
LEMMA CreateSent ==
  ASSUME TypeOK, SessionsInv, NEW where \in {"create", "recreate"},
         NEW row \in Update \cup {NULL}, CreateSession(where, row)
  PROVE  /\ stage' = where /\ pc' = "send" /\ reply' = NoReply
         /\ req' = [statement |-> "create", session |-> lastSessionId + 1, id |-> 0,
                    row |-> row, create |-> FALSE, mode |-> "none", version |-> 0]
         /\ req' \in Request
         /\ lastSessionId + 1 \in 1 .. MaxSessions /\ lastSessionId' = lastSessionId + 1
         /\ lastSessionId + 1 # sessionId
         /\ session[lastSessionId + 1] = NoSession
  <1>1. /\ GenerateSessionId
        /\ stage' = where /\ pc' = "send" /\ reply' = NoReply
        /\ req' = [statement |-> "create", session |-> lastSessionId + 1, id |-> 0,
                   row |-> row, create |-> FALSE, mode |-> "none", version |-> 0]
    BY DEF CreateSession, Send, Plain, NoRequest
  <1>2. /\ lastSessionId + 1 \in 1 .. MaxSessions /\ lastSessionId' = lastSessionId + 1
        /\ lastSessionId + 1 # sessionId
        /\ session[lastSessionId + 1] = NoSession
    BY <1>1, FreshSession
  <1>3. req' \in Request
    BY <1>1, <1>2, SessionAssumption DEF Request, TypeOK
  <1> QED BY <1>1, <1>2, <1>3

LEMMA CreatesForRowStep ==
  ASSUME IInv, NEW u \in Update, CreatesForRow(u)
  PROVE  IInv'
  <1> USE DEF IInv
  <1>1. /\ autoCommit' = autoCommit /\ rowSet' = rowSet /\ hasKey' = hasKey
        /\ schemaVerId' = schemaVerId /\ sessionPrepared' = sessionPrepared
        /\ sessionId' = sessionId /\ transactionId' = transactionId
        /\ transactionStarted' = transactionStarted /\ statementId' = statementId
        /\ main' = main /\ trialCount' = trialCount
        /\ createTrialCount' = createTrialCount /\ then' = then
        /\ session' = session /\ committed' = committed /\ transactions' = transactions
        /\ pending' = pending /\ losses' = losses /\ calls' \in Nat
        /\ sent' = sent \cup {u} /\ maybe' = maybe \cup {u} /\ u \in Update \ sent
        /\ pc = "idle" /\ call' = "put" /\ ~ hasKey /\ ~ sessionPrepared
    BY DEF CreatesForRow, settings, schema, state, loop, trials, server
  <1>2. /\ stage' = "create" /\ pc' = "send" /\ reply' = NoReply
        /\ req' = [statement |-> "create", session |-> lastSessionId + 1, id |-> 0,
                   row |-> u, create |-> FALSE, mode |-> "none", version |-> 0]
        /\ req' \in Request
        /\ lastSessionId + 1 \in 1 .. MaxSessions /\ lastSessionId' = lastSessionId + 1
        /\ lastSessionId + 1 # sessionId
        /\ session[lastSessionId + 1] = NoSession
    BY CreateSent DEF CreatesForRow
  <1>3. TypeOK'
    <2>1. /\ lastSessionId' \in 0 .. MaxSessions /\ sessionId' \in 0 .. lastSessionId'
      BY <1>1, <1>2 DEF TypeOK
    <2>2. pending' \subseteq sent' /\ maybe' \subseteq sent' /\ sent' \subseteq Update
      BY <1>1 DEF TypeOK
    <2> QED BY <1>1, <1>2, <2>1, <2>2 DEF TypeOK, NoReply
  <1>4. ~ transactionStarted /\ ~ Succeeded' /\ ~ Executed' /\ ~ Busy /\ Current' = Current
    BY <1>1, <1>2 DEF ClientInv, Succeeded, Executed, InSession, Busy, Current
  <1>5. ClientInv' /\ MainInv'
    BY <1>1, <1>2 DEF ClientInv, MainInv, Busy
  <1>6. OtherInv'
    <2>1. req'.statement = "create" /\ ~ req'.create /\ req'.session = lastSessionId + 1
          /\ req'.row = u /\ req'.session # 0
      BY <1>2
    <2>2. ForRow(req.row)'
      BY <1>1, <1>4, <2>1 DEF ForRow
    <2> QED BY <1>1, <1>2, <2>1, <2>2 DEF OtherInv
  <1>7. SessionsInv'
    <2>1. \A s \in 1 .. MaxSessions : s > lastSessionId' => s > lastSessionId
      BY <1>2 DEF TypeOK
    <2>2. session'[req'.session].last = 0 /\ session'[req'.session].transaction = 0
      BY <1>1, <1>2 DEF NoSession
    <2> QED BY <1>1, <1>4, <2>1, <2>2 DEF SessionsInv
  <1>8. TransactionInv'
    BY <1>1, <1>4 DEF TransactionInv
  <1>9. DurableInv'
    BY <1>1 DEF DurableInv, ClientInv, TypeOK
  <1>10. RowSetInv' /\ UpdateInv'
    BY <1>1, <1>4 DEF RowSetInv, UpdateInv, Ending
  <1>11. NothingLost'
    <2>1. committed'[req'.row] = 0 \/ ~ autoCommit'
      BY <1>1, <1>2 DEF DurableInv, TypeOK
    <2> QED BY <1>1, <1>2, <1>4, <2>1 DEF NothingLost, InSession
  <1>12. AppliedOnce'
    BY <1>1 DEF AppliedOnce
  <1> QED BY <1>3, <1>4, <1>5, <1>6, <1>7, <1>8, <1>9, <1>10, <1>11, <1>12, NoAnswer

LEMMA CloseStep ==
  ASSUME IInv, Close
  PROVE  IInv'
  <1> USE DEF IInv
  <1>1. /\ autoCommit' = autoCommit /\ rowSet' = rowSet /\ hasKey' = hasKey
        /\ schemaVerId' = schemaVerId /\ sessionPrepared' = sessionPrepared
        /\ sessionId' = sessionId /\ transactionId' = transactionId
        /\ transactionStarted' = transactionStarted
        /\ main' = main /\ trialCount' = trialCount /\ lastSessionId' = lastSessionId
        /\ createTrialCount' = createTrialCount /\ then' = then
        /\ session' = session /\ committed' = committed /\ transactions' = transactions
        /\ pending' = pending /\ maybe' = maybe /\ sent' = sent
        /\ losses' = losses /\ calls' \in Nat
        /\ pc = "idle" /\ call' = "close"
    BY DEF Close, Call, settings, schema, state, loop, trials, server, history, TypeOK
  <1>2. \/ /\ sessionId = 0 /\ pc' = "closed"
           /\ UNCHANGED <<statementId, stage, req, reply>>
        \/ /\ sessionId # 0 /\ pc' = "send" /\ stage' = "final" /\ reply' = NoReply
           /\ req' = [statement |-> "close", session |-> sessionId, id |-> statementId + 1,
                      row |-> NULL, create |-> FALSE, mode |-> "none", version |-> 0]
           /\ statementId' = statementId + 1
    BY DEF Close, CloseRequest, Send, Plain, NoRequest, NextStatementId
  <1>3. statementId' \in Nat /\ statementId' >= statementId
    BY <1>2 DEF TypeOK
  <1>4. TypeOK'
    <2>1. req' \in Request
      <3>1. CASE sessionId = 0
        BY <1>2, <3>1 DEF TypeOK
      <3>2. CASE sessionId # 0
        <4>1. req' = [statement |-> "close", session |-> sessionId, id |-> statementId + 1,
                      row |-> NULL, create |-> FALSE, mode |-> "none", version |-> 0]
          BY <1>2, <3>2
        <4> QED BY <3>2, <4>1, SessionTypes, SessionAssumption DEF TypeOK, Request
      <3> QED BY <3>1, <3>2
    <2>2. /\ pc' \in {"send", "closed"} /\ (stage' = stage \/ stage' = "final")
          /\ (reply' = reply \/ reply' = NoReply)
      BY <1>2
    <2> QED BY <1>1, <1>3, <2>1, <2>2 DEF TypeOK, NoReply
  <1>5. /\ ~ Succeeded' /\ ~ Executed' /\ ~ Busy /\ Current' = Current
        /\ Busy' => stage' = "final" /\ req'.statement = "close" /\ ~ req'.create
                    /\ sessionId # 0 /\ req'.session = sessionId
    BY <1>1, <1>2 DEF Succeeded, Executed, InSession, Busy, Current
  <1>6. ClientInv' /\ MainInv' /\ OtherInv'
    BY <1>1, <1>2, <1>5 DEF ClientInv, MainInv, OtherInv
  <1>7. SessionsInv'
    <2>2. sessionId # 0 => Current.last \in Nat /\ Current.last <= statementId
      BY SessionTypes DEF SessionsInv, Current
    <2>3. sessionId # 0 => Current.last <= statementId'
      BY <1>3, <2>2 DEF TypeOK
    <2> QED BY <1>1, <1>5, <2>3 DEF SessionsInv
  <1>8. TransactionInv'
    <2>1. Agree => Agree'
      BY <1>1, <1>5 DEF Agree
    <2>2. ~ Ending
      BY <1>1 DEF Ending, ClientInv
    <2> QED BY <1>1, <1>5, <2>1, <2>2 DEF TransactionInv
  <1>9. DurableInv'
    BY <1>1 DEF DurableInv, ClientInv
  <1>10. RowSetInv' /\ UpdateInv'
    BY <1>1, <1>5 DEF RowSetInv, UpdateInv, Ending
  <1>11. NothingLost'
    BY <1>1, <1>5 DEF NothingLost
  <1>12. AppliedOnce'
    BY <1>1 DEF AppliedOnce
  <1> QED BY <1>4, <1>5, <1>6, <1>7, <1>8, <1>9, <1>10, <1>11, <1>12, NoAnswer

LEMMA SwitchStep ==
  ASSUME IInv, SwitchCommitMode
  PROVE  IInv'
  <1> USE DEF IInv
  <1>1. /\ autoCommit' = ~ autoCommit /\ rowSet' = rowSet /\ hasKey' = hasKey
        /\ schemaVerId' = schemaVerId /\ sessionPrepared' = sessionPrepared
        /\ sessionId' = sessionId /\ transactionId' = transactionId
        /\ transactionStarted' = FALSE
        /\ main' = main /\ trialCount' = trialCount /\ lastSessionId' = lastSessionId
        /\ createTrialCount' = createTrialCount /\ then' = then
        /\ session' = session /\ committed' = committed /\ transactions' = transactions
        /\ pending' = pending /\ maybe' = maybe /\ sent' = sent
        /\ losses' = losses /\ calls' \in Nat
        /\ pc = "idle" /\ call' = "none" /\ statementId' = statementId
        /\ pc' = pc /\ stage' = stage /\ req' = req /\ reply' = reply
    BY DEF SwitchCommitMode, Call, schema, loop, trials, server, history, TypeOK
  <1>2. ~ transactionStarted
    BY DEF SwitchCommitMode, ClientInv
  <1>3. TypeOK'
    BY <1>1 DEF TypeOK
  <1>4. ~ Succeeded' /\ ~ Executed' /\ ~ Busy' /\ ~ Busy /\ ~ Ending' /\ Current' = Current
    BY <1>1 DEF Succeeded, Executed, InSession, Busy, Ending, Current
  <1>5. ClientInv' /\ MainInv' /\ OtherInv' /\ UpdateInv'
    BY <1>1, <1>2, <1>4 DEF ClientInv, MainInv, OtherInv, UpdateInv
  <1>6. SessionsInv'
    BY <1>1, <1>4 DEF SessionsInv
  <1>7. TransactionInv'
    BY <1>1, <1>4 DEF TransactionInv
  <1>8. DurableInv'
    BY <1>1, <1>2, <1>4 DEF DurableInv, ClientInv
  <1>9. RowSetInv'
    BY <1>1, <1>2, <1>4 DEF RowSetInv
  <1>10. NothingLost'
    BY <1>1, <1>4 DEF NothingLost
  <1>11. AppliedOnce'
    BY <1>1 DEF AppliedOnce
  <1> QED BY <1>3, <1>4, <1>5, <1>6, <1>7, <1>8, <1>9, <1>10, <1>11, NoAnswer

(* What an answer or another sending leaves as it is. *)
SameCall ==
  /\ autoCommit' = autoCommit /\ rowSet' = rowSet /\ hasKey' = hasKey
  /\ schemaVerId' = schemaVerId /\ sessionPrepared' = sessionPrepared
  /\ sessionId' = sessionId /\ transactionId' = transactionId
  /\ transactionStarted' = transactionStarted
  /\ main' = main /\ trialCount' = trialCount /\ lastSessionId' = lastSessionId
  /\ createTrialCount' = createTrialCount /\ then' = then
  /\ pending' = pending /\ maybe' = maybe /\ sent' = sent
  /\ losses' = losses /\ calls' = calls
  /\ call' = call /\ statementId' = statementId /\ stage' = stage /\ req' = req
  /\ Busy /\ Busy'

SameServer ==
  session' = session /\ committed' = committed /\ transactions' = transactions

LEMMA SameCallInv ==
  ASSUME IInv, SameCall
  PROVE  ClientInv' /\ MainInv' /\ OtherInv' /\ UpdateInv'
  <1> USE DEF IInv
  <1>1. Mode' = Mode
    BY DEF SameCall, Mode, TransactionMode
  <1>2. ClientInv' /\ UpdateInv'
    BY DEF SameCall, ClientInv, UpdateInv, Busy
  <1>3. MainInv'
    BY <1>1 DEF SameCall, MainInv
  <1>4. Repaired(main) => Repaired(main)'
    BY <1>1 DEF SameCall, Repaired
  <1>5. OtherInv'
    BY <1>4 DEF SameCall, OtherInv, ForRow
  <1> QED BY <1>2, <1>3, <1>5

LEMMA SameServerInv ==
  ASSUME IInv, SameCall, SameServer, TypeOK'
  PROVE  SessionsInv' /\ TransactionInv' /\ DurableInv' /\ RowSetInv' /\ AppliedOnce'
  <1> USE DEF IInv
  <1>1. Current' = Current /\ (Executed' <=> Executed) /\ (Ending' <=> Ending)
    BY DEF SameCall, SameServer, Current, Executed, InSession, Ending
  <1>2. SessionsInv'
    BY <1>1 DEF SameCall, SameServer, SessionsInv
  <1>3. TransactionInv'
    <2>1. Agree => Agree'
      BY <1>1 DEF SameCall, SameServer, Agree
    <2> QED BY <1>1, <2>1 DEF SameCall, SameServer, TransactionInv
  <1>4. DurableInv' /\ AppliedOnce'
    BY DEF SameCall, SameServer, DurableInv, AppliedOnce
  <1>5. RowSetInv'
    BY <1>1 DEF SameCall, RowSetInv
  <1> QED BY <1>2, <1>3, <1>4, <1>5

LEMMA RetryStep ==
  ASSUME IInv, Retry
  PROVE  IInv'
  <1> USE DEF IInv
  <1>1. SameCall /\ SameServer /\ pc' = "send" /\ reply' = NoReply
    BY DEF Retry, Send, SameCall, SameServer, Busy, settings, schema, state, loop, trials, server, history
  <1>2. TypeOK'
    BY <1>1 DEF TypeOK, SameCall, SameServer, NoReply
  <1>3. ~ Succeeded' /\ (Executed' <=> Executed) /\ Current' = Current
    BY <1>1 DEF Succeeded, Executed, InSession, Current, SameCall, SameServer
  <1>4. NothingLost'
    BY <1>1, <1>3 DEF NothingLost, SameCall, SameServer, NoReply
  <1> QED BY <1>1, <1>2, <1>3, <1>4, SameCallInv, SameServerInv, NoAnswer

LEMMA AnsweredStep ==
  ASSUME IInv, Answered
  PROVE  IInv'
  <1> USE DEF IInv
  <1>1. SameCall /\ SameServer /\ pc' = "reply"
    BY DEF Answered, SameCall, SameServer, Busy, settings, schema, state, loop, trials, server, history
  <1>2. \E x \in {"error", "conflict", "lost"} :
          reply' = [result |-> x, rows |-> {}, transaction |-> 0]
    BY DEF Answered, NoReply
  <1>3. TypeOK'
    BY <1>1, <1>2 DEF TypeOK, SameCall, SameServer
  <1>4. ~ Succeeded' /\ (Executed' <=> Executed) /\ Current' = Current
    BY <1>1, <1>2 DEF Succeeded, Executed, InSession, Current, SameCall, SameServer
  <1>5. NothingLost'
    <2>1. ASSUME losses = 0, ~ hasKey, call = "put", stage = "main"
          PROVE  reply'.result \notin {"lost", "conflict"}
      <3>1. Busy /\ req.session # 0 /\ req.session = sessionId /\ ~ req.create
            /\ sessionPrepared /\ req.statement = "put"
        BY <1>1, <2>1 DEF MainInv, SameCall
      <3>2. session[req.session].live
        BY <2>1, <3>1 DEF NothingLost, Current
      <3>3. reply' = [NoReply EXCEPT !.result = "error"]
        BY <3>1, <3>2 DEF Answered
      <3> QED BY <3>3 DEF NoReply
    <2> QED BY <1>1, <1>4, <2>1 DEF NothingLost, SameCall, SameServer
  <1> QED BY <1>1, <1>3, <1>4, <1>5, SameCallInv, SameServerInv, NoAnswer

LEMMA RepeatsStep ==
  ASSUME IInv, Repeats
  PROVE  IInv'
  <1> USE DEF IInv
  <1>1. SameCall /\ SameServer /\ pc = "send" /\ pc' = "reply"
        /\ req.session # 0 /\ req.statement # "create"
        /\ session[req.session].live /\ req.id <= session[req.session].last
        /\ reply' = [result |-> "ok", rows |-> session[req.session].rows,
                     transaction |-> session[req.session].transaction]
    BY DEF Repeats, OkReply, SameCall, SameServer, Busy, settings, schema, state, loop, trials, server, history
  <1>2. TypeOK'
    <2>1. session[req.session].rows \in SUBSET Update /\ session[req.session].transaction \in Nat
      BY <1>1, SessionTypes
    <2> QED BY <1>1, <2>1 DEF TypeOK, SameCall, SameServer
  <1>3. (Executed' <=> Executed) /\ (InSession' <=> InSession) /\ Current' = Current
        /\ stage \notin {"create", "recreate"}
    BY <1>1 DEF Executed, InSession, Current, SameCall, SameServer, OtherInv
  <1>4. CASE stage # "main"
    <2>1. CommitCompletes' /\ ReadsOwnWrites' /\ RowSetOwnTransaction' /\ RepliesInv'
      BY <1>1, <1>2, <1>4 DEF SameCall, CommitCompletes, ReadsOwnWrites, RowSetOwnTransaction,
         RepliesInv, InSession
    <2>2. NothingLost'
      BY <1>1, <1>3, <1>4 DEF SameCall, SameServer, NothingLost, InSession
    <2> QED BY <1>1, <1>2, <2>1, <2>2, SameCallInv, SameServerInv
  <1>5. CASE stage = "main"
    <2>1. InSession /\ req.session = sessionId /\ Current.live /\ Executed
          /\ reply'.rows = Current.rows /\ reply'.transaction = Current.transaction
      <3>1. req.session = sessionId
        BY <1>1, <1>5 DEF SameCall, MainInv
      <3>2. session[req.session].last \in Nat /\ req.id \in Nat
        BY <1>1, SessionTypes
      <3> QED BY <1>1, <1>5, <3>1, <3>2 DEF InSession, SameCall, Executed, Current
    <2>2. RepliesInv'
      BY <1>1, <1>3, <2>1 DEF RepliesInv, SameCall
    <2>3. CommitCompletes'
      <3>1. ASSUME call \in {"commit", "setAutoCommit"}
            PROVE  \A u \in pending : committed[u] > 0
        <4>1. req.statement = "commit"
          BY <1>5, <2>1, <3>1 DEF MainInv, InSession
        <4> QED BY <2>1, <4>1 DEF TransactionInv
      <3> QED BY <1>1, <1>2, <3>1 DEF CommitCompletes, SameCall, SameServer
    <2>4. ReadsOwnWrites'
      <3>1. ASSUME call \in {"get", "fetchAll"}, transactionStarted
            PROVE  pending \subseteq Current.rows
        <4>1. Agree
          BY <2>1, <3>1 DEF TransactionInv, Ending
        <4> QED BY <4>1 DEF Agree
      <3> QED BY <1>1, <2>1, <3>1 DEF ReadsOwnWrites, SameCall
    <2>5. RowSetOwnTransaction'
      <3>1. ASSUME call = "update"
            PROVE  Current.transaction = rowSet.transaction
        BY <1>1, <1>5, <2>1, <3>1 DEF UpdateInv, RowSetInv, SameCall
      <3> QED BY <1>1, <2>1, <3>1 DEF RowSetOwnTransaction, SameCall
    <2>6. NothingLost'
      BY <1>1, <1>3, <1>5, <2>1 DEF SameCall, SameServer, NothingLost
    <2> QED BY <1>1, <1>2, <2>2, <2>3, <2>4, <2>5, <2>6, SameCallInv, SameServerInv
  <1> QED BY <1>4, <1>5

LEMMA LoseStep ==
  ASSUME IInv, Lose
  PROVE  IInv'
  <1> USE DEF IInv
  <1>1. PICK lost \in 1 .. MaxSessions : session' = [session EXCEPT ![lost] = NoSession]
    BY DEF Lose
  <1>2. /\ autoCommit' = autoCommit /\ rowSet' = rowSet /\ hasKey' = hasKey
        /\ schemaVerId' = schemaVerId /\ sessionPrepared' = sessionPrepared
        /\ sessionId' = sessionId /\ transactionId' = transactionId
        /\ transactionStarted' = transactionStarted
        /\ main' = main /\ trialCount' = trialCount /\ lastSessionId' = lastSessionId
        /\ createTrialCount' = createTrialCount /\ then' = then
        /\ pending' = pending /\ maybe' = maybe /\ sent' = sent
        /\ losses' = losses + 1 /\ calls' = calls
        /\ call' = call /\ statementId' = statementId /\ stage' = stage /\ req' = req
        /\ pc' = pc /\ reply' = reply
        /\ committed' = committed /\ transactions' = transactions
    BY DEF Lose, settings, schema, state, loop, trials, history
  <1>3. /\ session' \in [1 .. MaxSessions -> [live : BOOLEAN, last : Nat,
                                            transaction : Nat, rows : SUBSET Update]]
        /\ \A s \in 1 .. MaxSessions : session'[s] = session[s] \/ session'[s] = NoSession
    BY <1>1 DEF TypeOK, NoSession
  <1>4. TypeOK'
    BY <1>2, <1>3 DEF TypeOK
  <1>5. (Busy' <=> Busy) /\ (InSession' <=> InSession) /\ (Succeeded' <=> Succeeded)
        /\ (Ending' <=> Ending)
    BY <1>2 DEF Busy, InSession, Succeeded, Ending
  <1>6. sessionId # 0 => Current' = Current \/ (Current' = NoSession /\ ~ Current'.live)
    BY <1>2, <1>3, SessionTypes DEF Current, NoSession
  <1>7. sessionId # 0 /\ Current'.live => Current' = Current /\ (Executed' <=> Executed)
    BY <1>2, <1>5, <1>6 DEF Executed
  <1>8. ClientInv' /\ UpdateInv' /\ MainInv' /\ OtherInv'
    <2>1. Mode' = Mode /\ (Repaired(main) => Repaired(main)')
      BY <1>2 DEF Mode, TransactionMode, Repaired
    <2>2. ClientInv' /\ UpdateInv'
      BY <1>2, <1>5 DEF ClientInv, UpdateInv
    <2>3. MainInv'
      BY <1>2, <1>5, <2>1 DEF MainInv
    <2>4. OtherInv'
      BY <1>2, <1>5, <2>1 DEF OtherInv, ForRow
    <2> QED BY <2>2, <2>3, <2>4
  <1>9. SessionsInv'
    <2>1. sessionId # 0 => Current'.last <= statementId
      BY <1>6 DEF SessionsInv, NoSession, TypeOK
    <2>2. Busy /\ stage \in {"create", "recreate"} =>
            session'[req.session].last = 0 /\ session'[req.session].transaction = 0
      BY <1>3, SessionTypes DEF SessionsInv, OtherInv, NoSession
    <2>3. ASSUME NEW s \in 1 .. MaxSessions
          PROVE  /\ ~ session'[s].live \/ s > lastSessionId => session'[s] = NoSession
                 /\ session'[s].transaction = 0 => session'[s].rows = {}
      BY <1>3 DEF SessionsInv, NoSession
    <2> QED BY <1>2, <1>5, <2>1, <2>2, <2>3 DEF SessionsInv
  <1>10. TransactionInv'
    <2>1. (transactionStarted => sessionId # 0) /\ (Executed' => sessionId # 0)
      BY <1>2, <1>5 DEF ClientInv, Executed, InSession, MainInv
    <2>2. sessionId # 0 /\ Current'.live /\ Agree => Agree'
      BY <1>2, <1>7 DEF Agree
    <2> QED BY <1>2, <1>5, <1>7, <2>1, <2>2 DEF TransactionInv
  <1>11. RepliesInv'
    <2>1. InSession => sessionId # 0
      BY DEF InSession, MainInv
    <2> QED BY <1>2, <1>5, <1>7, <2>1 DEF RepliesInv
  <1>12. DurableInv'
    BY <1>2 DEF DurableInv
  <1>13. RowSetInv'
    BY <1>2, <1>5, <1>7 DEF RowSetInv, ClientInv
  <1>14. NothingLost' /\ AppliedOnce'
    <2>1. losses' # 0
      BY <1>2 DEF TypeOK
    <2> QED BY <2>1 DEF NothingLost, AppliedOnce
  <1>15. CommitCompletes' /\ ReadsOwnWrites' /\ RowSetOwnTransaction'
    BY <1>2, <1>4, <1>5 DEF CommitCompletes, ReadsOwnWrites, RowSetOwnTransaction
  <1> QED BY <1>4, <1>8, <1>9, <1>10, <1>11, <1>12, <1>13, <1>14, <1>15

LEMMA ClosedStep ==
  ASSUME IInv, Closed
  PROVE  IInv'
  <1> USE DEF IInv
  <1>1. /\ autoCommit' = autoCommit /\ rowSet' = rowSet /\ hasKey' = hasKey
        /\ schemaVerId' = schemaVerId /\ sessionPrepared' = FALSE
        /\ sessionId' = 0 /\ transactionId' = transactionId + 1
        /\ transactionStarted' = FALSE /\ statementId' = 0
        /\ main' = main /\ trialCount' = trialCount /\ lastSessionId' = lastSessionId
        /\ createTrialCount' = createTrialCount /\ then' = then
        /\ pending' = {} /\ maybe' = {} /\ sent' = sent
        /\ losses' = losses /\ calls' = calls /\ call' = call /\ stage' = stage
        /\ req' = NoRequest /\ reply' = NoReply /\ pc' = "closed"
        /\ session' = session /\ committed' = committed /\ transactions' = transactions
    BY DEF Closed, DropSession, NextTransaction, settings, schema, loop, trials, server
  <1>2. TypeOK'
    <2>1. NoRequest \in Request
      BY SessionAssumption DEF NoRequest, Request
    <2>2. sessionId' \in 0 .. lastSessionId' /\ transactionId' \in Nat /\ statementId' \in Nat
      BY <1>1, SessionAssumption DEF TypeOK
    <2>3. reply' \in [result : {"none", "ok", "lost", "conflict", "error"}, rows : SUBSET Update,
                    transaction : Nat]
      BY <1>1 DEF NoReply
    <2>4. pending' \subseteq sent' /\ maybe' \subseteq sent' /\ sent' \subseteq Update
      BY <1>1 DEF TypeOK
    <2>5. sessionPrepared' \in BOOLEAN /\ transactionStarted' \in BOOLEAN
      BY <1>1
    <2> QED BY <1>1, <2>1, <2>2, <2>3, <2>4, <2>5 DEF TypeOK
  <1>3. ~ Busy' /\ ~ Executed' /\ ~ Succeeded' /\ (Ending' <=> Ending)
    BY <1>1 DEF Busy, Executed, InSession, Succeeded, Ending
  <1>4. ClientInv' /\ MainInv' /\ OtherInv' /\ UpdateInv'
    BY <1>1, <1>3 DEF ClientInv, MainInv, OtherInv, UpdateInv
  <1>5. SessionsInv' /\ TransactionInv' /\ DurableInv' /\ NothingLost' /\ AppliedOnce'
    BY <1>1, <1>3 DEF SessionsInv, TransactionInv, DurableInv, NothingLost, AppliedOnce
  <1>6. RowSetInv'
    BY <1>1, <1>2, <1>3 DEF RowSetInv, TypeOK
  <1> QED BY <1>2, <1>3, <1>4, <1>5, <1>6, NoAnswer

LEMMA CleansUpStep ==
  ASSUME IInv, CleansUp
  PROVE  IInv'
  <1> USE DEF IInv
  <1>1. /\ autoCommit' = autoCommit /\ rowSet' = rowSet /\ hasKey' = hasKey
        /\ schemaVerId' = schemaVerId /\ sessionPrepared' = sessionPrepared
        /\ sessionId' = sessionId /\ transactionId' = transactionId
        /\ transactionStarted' = transactionStarted /\ statementId' = statementId + 1
        /\ trialCount' = trialCount /\ lastSessionId' = lastSessionId
        /\ createTrialCount' = createTrialCount
        /\ pending' = pending /\ maybe' = maybe /\ sent' = sent
        /\ losses' = losses /\ calls' = calls /\ call' = call /\ call # "fetchAll"
        /\ session' = session /\ committed' = committed /\ transactions' = transactions
        /\ Busy /\ Busy' /\ pc' = "send" /\ stage' = "cleanup" /\ reply' = NoReply
        /\ stage \in {"create", "main", "recreate"} /\ sessionId # 0
        /\ main' = IF stage = "recreate" THEN main ELSE req
    BY DEF CleansUp, Send, NextStatementId, Refused, Busy, settings, schema, state, trials, server, history
  <1>2. req' = [statement |-> "close", session |-> sessionId, id |-> statementId + 1,
                row |-> NULL, create |-> FALSE, mode |-> "none", version |-> 0]
    BY DEF CleansUp, CloseRequest, Send, Plain, NoRequest, NextStatementId
  <1>3. /\ then' = "create" => stage = "create" /\ createTrialCount < MAX_SESSION_REPAIR_COUNT
        /\ then' = "repair" => Repairable
        /\ then' = "recreate" => stage = "recreate"
        /\ then' \in {"throw", "repair", "create", "recreate"}
    BY DEF CleansUp, Conflicted
  <1>4. TypeOK'
    <2>1. req' \in Request
      BY <1>1, <1>2, SessionTypes, SessionAssumption DEF TypeOK, Request
    <2> QED BY <1>1, <1>3, <2>1 DEF TypeOK, NoReply
  <1>5. ~ Executed' /\ ~ Succeeded' /\ (Ending' <=> Ending) /\ Current' = Current
    BY <1>1 DEF Executed, InSession, Succeeded, Ending, Current
  <1>6. ClientInv' /\ MainInv' /\ UpdateInv'
    BY <1>1 DEF ClientInv, MainInv, UpdateInv
  <1>7. stage # "recreate" /\ main' = req
    BY <1>1 DEF OtherInv
  <1>8. OtherInv'
    <2>1. then' = "create" => ForRow(main.row)'
      BY <1>1, <1>3, <1>7 DEF OtherInv, ForRow
    <2>2. then' = "repair" => Repaired(main)' /\ trialCount < MAX_SESSION_REPAIR_COUNT
      <3>1. Mode' = Mode
        BY <1>1 DEF Mode, TransactionMode
      <3>2. ASSUME Repairable
            PROVE  Repaired(req) /\ trialCount < MAX_SESSION_REPAIR_COUNT
        BY <1>1, <3>2 DEF Repairable, Repaired, MainInv
      <3> QED BY <1>1, <1>3, <1>7, <3>1, <3>2 DEF Repaired
    <2>3. call # "close"
      BY <1>1, <1>7 DEF MainInv, OtherInv, ForRow
    <2>4. req'.statement = "close" /\ ~ req'.create /\ req'.session = sessionId
      BY <1>2
    <2> QED BY <1>1, <1>3, <1>7, <2>1, <2>2, <2>3, <2>4 DEF OtherInv
  <1>9. SessionsInv'
    <2>1. Current.last <= statementId'
      BY <1>1, SessionTypes DEF SessionsInv, TypeOK, Current
    <2> QED BY <1>1, <1>5, <2>1 DEF SessionsInv
  <1>10. TransactionInv'
    <2>1. Agree => Agree'
      BY <1>1, <1>5 DEF Agree
    <2>2. ASSUME transactionStarted, Current.live, ~ Ending
          PROVE  Agree
      BY <2>2 DEF TransactionInv
    <2>3. stage' # "main"
      BY <1>1
    <2> QED BY <1>1, <1>5, <2>1, <2>2, <2>3 DEF TransactionInv
  <1>11. DurableInv' /\ RowSetInv' /\ AppliedOnce'
    BY <1>1, <1>5 DEF DurableInv, RowSetInv, AppliedOnce
  <1>12. NothingLost'
    <2>1. ASSUME losses = 0, ~ hasKey, autoCommit, call = "put"
          PROVE  /\ then' = "create" => committed'[main'.row] = 0
                 /\ then' # "repair"
      <3>1. then' = "create" => committed[req.row] = 0
        BY <1>1, <1>3, <2>1 DEF NothingLost
      <3>2. stage = "main" => reply.result \notin {"lost", "conflict"}
        BY <1>1, <2>1 DEF NothingLost
      <3> QED BY <1>1, <1>3, <1>7, <3>1, <3>2 DEF Repairable
    <2> QED BY <1>1, <1>5, <2>1 DEF NothingLost, InSession
  <1> QED BY <1>4, <1>5, <1>6, <1>8, <1>9, <1>10, <1>11, <1>12, NoAnswer

LEMMA CreatesAgainStep ==
  ASSUME IInv, CreatesAgain
  PROVE  IInv'
  <1> USE DEF IInv
  <1>1. PICK row \in Update \cup {NULL}, where \in {"create", "recreate"} :
          /\ CreateSession(where, row)
          /\ where = "recreate" =>
               /\ Repaired(main)' /\ row = main'.row
               /\ losses = 0 /\ ~ hasKey => ~ (autoCommit /\ call = "put")
          /\ where = "create" =>
               /\ ForRow(row)
               /\ losses = 0 /\ ~ hasKey /\ autoCommit => committed[row] = 0
    BY DEF CreatesAgain
  <1>2. /\ stage' = where /\ pc' = "send" /\ reply' = NoReply
        /\ req' = [statement |-> "create", session |-> lastSessionId + 1, id |-> 0,
                   row |-> row, create |-> FALSE, mode |-> "none", version |-> 0]
        /\ req' \in Request
        /\ lastSessionId + 1 \in 1 .. MaxSessions /\ lastSessionId' = lastSessionId + 1
        /\ lastSessionId + 1 # sessionId
        /\ session[lastSessionId + 1] = NoSession
    BY <1>1, CreateSent
  <1>3. /\ autoCommit' = autoCommit /\ hasKey' = hasKey /\ schemaVerId' = schemaVerId
        /\ call' = call /\ main' = main /\ then' = then
        /\ session' = session /\ committed' = committed /\ transactions' = transactions
        /\ pending' = pending /\ maybe' = maybe /\ sent' = sent
        /\ losses' = losses /\ calls' = calls /\ Busy /\ ~ transactionStarted
        /\ trialCount' \in 0 .. MAX_SESSION_REPAIR_COUNT
        /\ createTrialCount' \in 0 .. MAX_SESSION_REPAIR_COUNT
        /\ (rowSet' = rowSet \/ rowSet' = NULL)
    BY DEF CreatesAgain, schema, server, history
  <1>4. /\ sessionId' = 0 /\ sessionPrepared' = FALSE /\ transactionStarted' = FALSE
        /\ transactionId' \in {transactionId, transactionId + 1}
        /\ statementId' \in Nat
    <2>1. CASE DropSession
      BY <2>1 DEF DropSession, NextTransaction
    <2>2. CASE UNCHANGED <<state, statementId>> /\ sessionId = 0
      BY <1>3, <2>2 DEF state, ClientInv, TypeOK
    <2> QED BY <2>1, <2>2 DEF CreatesAgain
  <1>5. TypeOK'
    <2>1. sessionId' \in 0 .. lastSessionId' /\ lastSessionId' \in 0 .. MaxSessions
      BY <1>2, <1>4 DEF TypeOK
    <2>2. transactionId' \in Nat
      BY <1>4 DEF TypeOK
    <2>3. sessionPrepared' \in BOOLEAN /\ transactionStarted' \in BOOLEAN
      BY <1>4
    <2>4. rowSet' \in [transactionId : Nat, transaction : Nat] \cup {NULL}
      BY <1>3 DEF TypeOK
    <2> QED BY <1>2, <1>3, <1>4, <2>1, <2>2, <2>3, <2>4 DEF TypeOK, NoReply
  <1>6. Busy' /\ ~ Executed' /\ ~ Succeeded' /\ (Ending' <=> Ending)
    BY <1>2, <1>3 DEF Busy, Executed, InSession, Succeeded, Ending
  <1>7. ClientInv' /\ MainInv' /\ UpdateInv'
    BY <1>2, <1>3, <1>4, <1>6 DEF ClientInv, MainInv, UpdateInv
  <1>8. OtherInv'
    <2>1. req'.statement = "create" /\ ~ req'.create /\ req'.session = lastSessionId'
          /\ req'.row = row /\ req'.session # 0
      BY <1>2
    <2>2. where = "create" => ForRow(req.row)'
      BY <1>1, <1>3, <1>4, <2>1 DEF ForRow
    <2>3. sessionId' # lastSessionId'
      BY <1>2, <1>4
    <2> QED BY <1>1, <1>2, <1>4, <2>1, <2>2, <2>3 DEF OtherInv
  <1>9. SessionsInv'
    <2>1. \A s \in 1 .. MaxSessions : s > lastSessionId' => s > lastSessionId
      BY <1>2 DEF TypeOK
    <2>2. session'[req'.session].last = 0 /\ session'[req'.session].transaction = 0
      BY <1>2, <1>3 DEF NoSession
    <2> QED BY <1>3, <1>4, <2>1, <2>2 DEF SessionsInv
  <1>10. TransactionInv' /\ DurableInv' /\ AppliedOnce'
    BY <1>3, <1>4, <1>6 DEF TransactionInv, DurableInv, AppliedOnce
  <1>11. RowSetInv'
    <2>1. ASSUME rowSet # NULL, rowSet' = rowSet
          PROVE  /\ rowSet'.transactionId <= transactionId'
                 /\ Ending' => rowSet'.transactionId < transactionId'
                 /\ rowSet'.transactionId # transactionId'
      BY <1>3, <1>4, <1>6, <2>1 DEF RowSetInv, TypeOK
    <2> QED BY <1>3, <2>1 DEF RowSetInv
  <1>12. NothingLost'
    <2>1. req'.row = row
      BY <1>2
    <2> QED BY <1>1, <1>2, <1>3, <1>4, <1>6, <2>1 DEF NothingLost, InSession
  <1> QED BY <1>5, <1>6, <1>7, <1>8, <1>9, <1>10, <1>11, <1>12, NoAnswer

LEMMA ThrownStep ==
  ASSUME IInv, Thrown
  PROVE  IInv'
  <1> USE DEF IInv
  <1>1. /\ autoCommit' = autoCommit /\ hasKey' = hasKey /\ schemaVerId' = schemaVerId
        /\ session' = session /\ committed' = committed /\ transactions' = transactions
        /\ sent' = sent /\ lastSessionId' = lastSessionId
        /\ losses' = losses /\ calls' = calls /\ Busy
        /\ pc' = "idle" /\ call' = "none" /\ stage' = "main"
        /\ req' = NoRequest /\ reply' = NoReply /\ main' = NoRequest
        /\ trialCount' = 0 /\ createTrialCount' = 0 /\ then' = "throw"
        /\ (rowSet' = rowSet \/ rowSet' = NULL)
        /\ \/ transactionStarted' /\ pending' = pending /\ maybe' = maybe
           \/ ~ transactionStarted' /\ pending' = {} /\ maybe' = {}
    BY DEF Thrown, Throw, Return, schema, server
  <1>2. \/ /\ sessionId' = 0 /\ sessionPrepared' = FALSE /\ transactionStarted' = FALSE
           /\ transactionId' = transactionId + 1 /\ statementId' = 0
        \/ /\ sessionId' = sessionId /\ sessionPrepared' = sessionPrepared
           /\ transactionStarted' = (transactionStarted /\ ~ Ending)
           /\ transactionId' = transactionId /\ statementId' = statementId
           /\ stage \notin {"cleanup", "final"} /\ Current' = Current
    BY <1>1 DEF Thrown, DropSession, NextTransaction, Current
  <1>3. TypeOK'
    <2>1. NoRequest \in Request
      BY SessionAssumption DEF NoRequest, Request
    <2>0. transactionStarted' \in BOOLEAN
      BY <1>2
    <2>2. /\ sessionId' \in 0 .. lastSessionId' /\ transactionId' \in Nat /\ statementId' \in Nat
          /\ sessionPrepared' \in BOOLEAN
      <3>1. /\ sessionId \in 0 .. lastSessionId /\ lastSessionId \in Nat
            /\ transactionId \in Nat /\ statementId \in Nat
        BY DEF TypeOK
      <3>2. sessionPrepared' = sessionPrepared \/ sessionPrepared' = FALSE
        BY <1>2
      <3>3. sessionPrepared' \in BOOLEAN
        BY <3>2 DEF TypeOK
      <3>4. /\ sessionId' = 0 \/ sessionId' = sessionId
            /\ transactionId' = transactionId + 1 \/ transactionId' = transactionId
            /\ statementId' = 0 \/ statementId' = statementId
        BY <1>2
      <3> HIDE DEF IInv
      <3>5. sessionId' \in 0 .. lastSessionId' /\ transactionId' \in Nat /\ statementId' \in Nat
        BY <1>1, <3>1, <3>4
      <3> QED BY <3>3, <3>5
    <2>3. reply' \in [result : {"none", "ok", "lost", "conflict", "error"}, rows : SUBSET Update,
                    transaction : Nat]
      BY <1>1 DEF NoReply
    <2>4. pending' \subseteq sent' /\ maybe' \subseteq sent' /\ sent' \subseteq Update
      BY <1>1 DEF TypeOK
    <2>5. trialCount' \in 0 .. MAX_SESSION_REPAIR_COUNT
          /\ createTrialCount' \in 0 .. MAX_SESSION_REPAIR_COUNT
      BY <1>1, SessionAssumption
    <2>6. rowSet' \in [transactionId : Nat, transaction : Nat] \cup {NULL}
      BY <1>1 DEF TypeOK
    <2> QED BY <1>1, <2>0, <2>1, <2>2, <2>3, <2>4, <2>5, <2>6 DEF TypeOK
  <1>4. ~ Busy' /\ ~ Executed' /\ ~ Succeeded' /\ ~ Ending'
    BY <1>1 DEF Busy, Executed, InSession, Succeeded, Ending
  <1>5. ASSUME transactionStarted'
        PROVE  /\ transactionStarted /\ ~ Ending /\ Current' = Current
               /\ sessionId' = sessionId /\ sessionPrepared' = sessionPrepared
               /\ transactionId' = transactionId /\ pending' = pending /\ maybe' = maybe
    BY <1>1, <1>2, <1>5
  <1>6. ClientInv' /\ MainInv' /\ OtherInv' /\ UpdateInv'
    <2>1. ClientInv'
      BY <1>1, <1>2, <1>4, <1>5 DEF ClientInv
    <2> QED BY <1>4, <2>1 DEF MainInv, OtherInv, UpdateInv
  <1>7. SessionsInv'
    BY <1>1, <1>2, <1>4 DEF SessionsInv
  <1>8. TransactionInv'
    <2>1. ASSUME transactionStarted', Current'.live
          PROVE  Agree'
      <3>1. transactionStarted /\ Current.live /\ ~ Ending
        BY <1>5, <2>1
      <3>2. Agree
        BY <3>1 DEF TransactionInv
      <3> QED BY <1>1, <1>5, <2>1, <3>2 DEF Agree
    <2> QED BY <1>4, <2>1 DEF TransactionInv
  <1>9. DurableInv'
    BY <1>1, <1>5 DEF DurableInv, Ending
  <1>10. RowSetInv'
    <2>1. ASSUME rowSet # NULL, rowSet' = rowSet
          PROVE  /\ rowSet'.transactionId <= transactionId'
                 /\ rowSet'.transactionId = transactionId' =>
                      /\ transactionStarted' /\ Current' = Current
                      /\ Current.live => Current.transaction = rowSet.transaction
      BY <1>2, <2>1 DEF RowSetInv, TypeOK
    <2> QED BY <1>1, <1>4, <2>1 DEF RowSetInv
  <1>11. NothingLost'
    BY <1>1, <1>2, <1>4 DEF NothingLost
  <1>12. AppliedOnce'
    BY <1>1 DEF AppliedOnce
  <1> QED BY <1>3, <1>4, <1>6, <1>7, <1>8, <1>9, <1>10, <1>11, <1>12, NoAnswer

(* The statement is sent in the session that was created for it. *)
InNewSession ==
  /\ Succeeded /\ stage \in {"create", "recreate"}
  /\ sessionId' = req.session /\ sessionPrepared' = TRUE
  /\ statementId' = statementId + 1
  /\ pc' = "send" /\ stage' = "main" /\ reply' = NoReply
  /\ req' \in Request
  /\ req'.session = req.session /\ req'.id = statementId + 1 /\ ~ req'.create
  /\ req'.row = req.row /\ req'.mode = Mode
  /\ IF stage = "create" THEN ForRow(req.row) /\ req'.statement = "put"
     ELSE /\ Repaired(main) /\ req.row = main.row
          /\ req'.statement = main.statement
  /\ UNCHANGED <<settings, transactionId, transactionStarted, lastSessionId, call,
                 loop, server, history, calls, losses>>

LEMMA CreatedSplit ==
  ASSUME IInv, Created \/ Recreated
  PROVE  InNewSession
  <1> USE DEF IInv
  <1>0. Busy /\ stage \in {"create", "recreate"}
    BY DEF Created, Recreated, Succeeded, Busy
  <1>1. /\ req.session \in 1 .. MaxSessions /\ req.row \in Update \cup {NULL}
        /\ IF stage = "create" THEN ForRow(req.row)
           ELSE Repaired(main) /\ req.row = main.row
    BY <1>0, SessionTypes DEF OtherInv, TypeOK, Request
  <1>2. CASE Created
    <2>1. /\ Succeeded /\ stage = "create"
          /\ sessionId' = req.session /\ sessionPrepared' = TRUE
          /\ Execute("put", req.row, req.session, TRUE)
          /\ UNCHANGED <<settings, transactionId, transactionStarted, lastSessionId, call,
                         loop, server, history, calls, losses>>
      BY <1>2 DEF Created
    <2>2. /\ pc' = "send" /\ stage' = "main" /\ reply' = NoReply
          /\ statementId' = statementId + 1
          /\ req' = [statement |-> "put", session |-> req.session, id |-> statementId + 1,
                     row |-> req.row, create |-> FALSE, mode |-> Mode, version |-> schemaVerId]
      <3>1. req.session # 0
        BY <1>1, SessionAssumption
      <3> QED BY <2>1, <3>1 DEF Execute, Send, NextStatementId, Mode, TransactionMode
    <2>3. req' \in Request
      BY <1>1, <2>2, ModeType, SessionAssumption DEF TypeOK, Request
    <2>4. /\ req'.session = req.session /\ req'.id = statementId + 1 /\ ~ req'.create
          /\ req'.row = req.row /\ req'.mode = Mode /\ req'.statement = "put"
      BY <2>2
    <2> QED BY <1>1, <2>1, <2>2, <2>3, <2>4 DEF InNewSession
  <1>3. CASE Recreated
    <2>1. /\ Succeeded /\ stage = "recreate"
          /\ sessionId' = req.session /\ sessionPrepared' = TRUE
          /\ statementId' = statementId + 1
          /\ pc' = "send" /\ stage' = "main" /\ reply' = NoReply
          /\ req' = [main EXCEPT !.session = req.session, !.id = statementId + 1,
                               !.create = FALSE, !.version = 0]
          /\ UNCHANGED <<settings, transactionId, transactionStarted, lastSessionId, call,
                         loop, server, history, calls, losses>>
      BY <1>3 DEF Recreated, Send, NextStatementId
    <2>2. Repaired(main) /\ req.row = main.row /\ main \in Request
      BY <1>1, <2>1 DEF TypeOK
    <2>3. main = [statement |-> main.statement, session |-> main.session, id |-> main.id,
                  row |-> main.row, create |-> main.create, mode |-> main.mode,
                  version |-> main.version]
      BY <2>2 DEF Request
    <2>4. req' = [statement |-> main.statement, session |-> req.session,
                  id |-> statementId + 1, row |-> main.row, create |-> FALSE,
                  mode |-> main.mode, version |-> 0]
      BY <2>1, <2>3
    <2>5. req' \in Request
      BY <1>1, <2>2, <2>4 DEF TypeOK, Request
    <2>6. main.mode = Mode
      BY <2>2 DEF Repaired
    <2> QED BY <2>1, <2>2, <2>4, <2>5, <2>6 DEF InNewSession
  <1> QED BY <1>2, <1>3

LEMMA InNewSessionStep ==
  ASSUME IInv, InNewSession
  PROVE  IInv'
  <1> USE DEF IInv
  <1>1. /\ autoCommit' = autoCommit /\ rowSet' = rowSet /\ hasKey' = hasKey
        /\ schemaVerId' = schemaVerId /\ transactionId' = transactionId
        /\ transactionStarted' = transactionStarted
        /\ main' = main /\ trialCount' = trialCount /\ lastSessionId' = lastSessionId
        /\ createTrialCount' = createTrialCount /\ then' = then
        /\ pending' = pending /\ maybe' = maybe /\ sent' = sent
        /\ losses' = losses /\ calls' = calls /\ call' = call
        /\ session' = session /\ committed' = committed /\ transactions' = transactions
        /\ Succeeded /\ Busy /\ stage \in {"create", "recreate"}
        /\ pc' = "send" /\ stage' = "main" /\ reply' = NoReply /\ Busy'
    BY DEF InNewSession, settings, schema, loop, trials, server, history, Succeeded, Busy
  <1>2. /\ sessionId' = req.session /\ sessionPrepared' = TRUE
        /\ statementId' = statementId + 1 /\ req' \in Request
        /\ req'.session = req.session /\ req'.id = statementId + 1 /\ ~ req'.create
        /\ req'.row = req.row /\ req'.mode = Mode
    BY DEF InNewSession
  <1>3. /\ ~ transactionStarted /\ req.session # 0 /\ req.session = lastSessionId
        /\ Mode' = Mode
        /\ \/ call = "put" /\ req'.statement = "put" /\ req.row \in maybe
           \/ call = "lock" /\ req'.statement = "lock" /\ req.row = NULL /\ ~ autoCommit
    BY <1>1 DEF InNewSession, OtherInv, ForRow, Repaired, Mode, TransactionMode
  <1>4. TypeOK'
    <2>1. sessionId' \in 0 .. lastSessionId' /\ statementId' \in Nat
      BY <1>1, <1>2, <1>3 DEF TypeOK
    <2> QED BY <1>1, <1>2, <2>1 DEF TypeOK, NoReply
  <1>5. Current' = session[req.session] /\ Current'.last = 0 /\ statementId' > 0
    BY <1>1, <1>2 DEF Current, SessionsInv, TypeOK
  <1>6. ~ Executed' /\ ~ Succeeded' /\ (Ending' <=> Ending)
    BY <1>1, <1>2, <1>5 DEF Executed, Succeeded, Ending, TypeOK
  <1>7. ClientInv' /\ MainInv' /\ OtherInv' /\ UpdateInv'
    <2>1. ClientInv'
      BY <1>1, <1>2, <1>3 DEF ClientInv, Busy
    <2>2. MainInv'
      BY <1>1, <1>2, <1>3 DEF MainInv
    <2> QED BY <1>1, <1>3, <2>1, <2>2 DEF OtherInv, UpdateInv
  <1>8. SessionsInv'
    <2>1. \A s \in 1 .. MaxSessions :
            /\ ~ session'[s].live \/ s > lastSessionId' => session'[s] = NoSession
            /\ session'[s].transaction = 0 => session'[s].rows = {}
      BY <1>1 DEF SessionsInv
    <2>2. Current'.last <= statementId'
      BY <1>4, <1>5 DEF TypeOK
    <2> QED BY <1>1, <2>1, <2>2 DEF SessionsInv
  <1>9. TransactionInv' /\ DurableInv' /\ AppliedOnce'
    BY <1>1, <1>3, <1>6 DEF TransactionInv, DurableInv, AppliedOnce
  <1>10. RowSetInv'
    BY <1>1, <1>3, <1>6 DEF RowSetInv
  <1>11. NothingLost'
    <2>1. losses = 0 /\ ~ hasKey => Current'.live
      BY <1>1, <1>5 DEF NothingLost
    <2>2. losses = 0 /\ ~ hasKey /\ autoCommit /\ call = "put" => committed[req.row] = 0
      BY <1>1 DEF NothingLost
    <2>3. ~ (committed[req.row] > 0 /\ losses = 0 /\ ~ hasKey /\ autoCommit /\ call = "put")
      BY <2>2
    <2>4. reply'.result = "none"
      BY <1>1 DEF NoReply
    <2> QED BY <1>1, <1>2, <1>6, <2>1, <2>3, <2>4 DEF NothingLost
  <1> QED BY <1>4, <1>6, <1>7, <1>8, <1>9, <1>10, <1>11, NoAnswer

LEMMA MainDoneStep ==
  ASSUME IInv, MainDone
  PROVE  IInv'
  <1> USE DEF IInv
  <1>1. /\ hasKey' = hasKey /\ schemaVerId' = schemaVerId
        /\ session' = session /\ committed' = committed /\ transactions' = transactions
        /\ sent' = sent /\ lastSessionId' = lastSessionId
        /\ losses' = losses /\ calls' = calls /\ Succeeded /\ Busy /\ stage = "main"
        /\ pc' = "idle" /\ call' = "none" /\ stage' = "main"
        /\ req' = NoRequest /\ reply' = NoReply /\ main' = NoRequest
        /\ trialCount' = 0 /\ createTrialCount' = 0 /\ then' = "throw"
        /\ sessionId' = sessionId /\ transactionId' = transactionId
        /\ statementId' = statementId /\ Current' = Current
        /\ \/ /\ transactionStarted' /\ pending' = pending \cup ({req.row} \ {NULL})
              /\ maybe' = maybe \ {req.row}
           \/ ~ transactionStarted' /\ pending' = {} /\ maybe' = {}
    BY DEF MainDone, Return, schema, server, Succeeded, Busy, Current
  <1>2. /\ sessionPrepared' = (sessionPrepared \/ req.session # 0)
        /\ transactionStarted' =
              (~ Ending /\ (transactionStarted \/ (~ autoCommit /\ req.session # 0)))
        /\ autoCommit' = (autoCommit \/ call = "setAutoCommit")
    BY DEF MainDone
  <1>3. /\ call = "lock" => rowSet' = [transactionId |-> transactionId,
                                       transaction |-> reply.transaction]
        /\ call = "abort" => rowSet' = NULL
        /\ call \notin {"lock", "abort"} => rowSet' = rowSet
    BY DEF MainDone
  <1>4. TypeOK'
    <2>1. NoRequest \in Request
      BY SessionAssumption DEF NoRequest, Request
    <2>2. sessionPrepared' \in BOOLEAN /\ transactionStarted' \in BOOLEAN /\ autoCommit' \in BOOLEAN
      BY <1>2
    <2>3. reply' \in [result : {"none", "ok", "lost", "conflict", "error"}, rows : SUBSET Update,
                    transaction : Nat]
      BY <1>1 DEF NoReply
    <2>4. pending' \subseteq sent' /\ maybe' \subseteq sent' /\ sent' \subseteq Update
      <3>1. req.row \in maybe \/ req.row = NULL
        BY <1>1 DEF MainInv
      <3> QED BY <1>1, <3>1 DEF TypeOK
    <2>5. trialCount' \in 0 .. MAX_SESSION_REPAIR_COUNT
          /\ createTrialCount' \in 0 .. MAX_SESSION_REPAIR_COUNT
      BY <1>1, SessionAssumption
    <2>6. rowSet' \in [transactionId : Nat, transaction : Nat] \cup {NULL}
      BY <1>3 DEF TypeOK
    <2> QED BY <1>1, <2>1, <2>2, <2>3, <2>4, <2>5, <2>6 DEF TypeOK
  <1>5. ~ Busy' /\ ~ Executed' /\ ~ Succeeded' /\ ~ Ending'
    BY <1>1 DEF Busy, Executed, InSession, Succeeded, Ending
  <1>6. ASSUME transactionStarted'
        PROVE  /\ ~ Ending /\ ~ autoCommit /\ autoCommit' = autoCommit
               /\ req.session # 0
    BY <1>1, <1>2, <1>6 DEF MainInv, ClientInv, Ending, TypeOK
  <1>7. ClientInv' /\ MainInv' /\ OtherInv' /\ UpdateInv'
    <2>1. sessionPrepared' => sessionId # 0
      BY <1>1, <1>2 DEF ClientInv, MainInv
    <2>2. transactionStarted' => sessionPrepared' /\ ~ autoCommit'
      BY <1>2, <1>6
    <2>3. ClientInv'
      BY <1>1, <1>5, <2>1, <2>2 DEF ClientInv
    <2> QED BY <1>5, <2>3 DEF MainInv, OtherInv, UpdateInv
  <1>8. SessionsInv'
    BY <1>1, <1>5 DEF SessionsInv
  <1>9. TransactionInv'
    <2>1. ASSUME transactionStarted', Current'.live
          PROVE  Agree'
      <3>1. InSession /\ Current.live /\ ~ Ending /\ ~ autoCommit
        BY <1>1, <1>6, <2>1 DEF InSession
      <3>2. CASE req.statement = "put"
        <4>1. Agree /\ req.row \in Current.rows
          BY <1>1, <3>1, <3>2 DEF RepliesInv, TransactionInv
        <4>2. req.row \in Update
          BY <1>1, <3>2 DEF MainInv, TypeOK
        <4>3. pending' = pending \cup {req.row} /\ maybe' = maybe \ {req.row}
          BY <1>1, <2>1, <4>2, SessionAssumption
        <4> QED BY <1>1, <4>1, <4>3 DEF Agree
      <3>3. CASE req.statement # "put"
        <4>1. req.row = NULL /\ req.statement \in {"get", "lock"}
          BY <1>1, <3>1, <3>3 DEF MainInv, Ending
        <4>2. pending' = pending /\ maybe' = maybe
          <5>1. NULL \notin maybe
            BY SessionAssumption DEF TypeOK
          <5>2. pending' = pending \cup ({req.row} \ {NULL}) /\ maybe' = maybe \ {req.row}
            BY <1>1, <2>1
          <5> QED BY <4>1, <5>1, <5>2
        <4>3. Agree
          <5>1. CASE req.statement = "lock"
            BY <1>1, <3>1, <5>1 DEF RepliesInv, TransactionInv
          <5>2. CASE req.statement = "get"
            <6>1. transactionStarted
              BY <1>1, <3>1, <5>2 DEF MainInv, InSession
            <6> QED BY <3>1, <6>1 DEF TransactionInv
          <5> QED BY <4>1, <5>1, <5>2
        <4> QED BY <1>1, <4>2, <4>3 DEF Agree
      <3> QED BY <3>2, <3>3
    <2> QED BY <1>5, <2>1 DEF TransactionInv
  <1>10. DurableInv'
    <2>1. CASE ~ transactionStarted'
      BY <1>1, <2>1 DEF DurableInv
    <2>2. CASE transactionStarted'
      <3>1. pending' \cup maybe' \subseteq pending \cup maybe
        BY <1>1, <2>2 DEF MainInv
      <3>2. \A u \in pending \cup maybe : committed[u] = 0
        BY <1>6, <2>2 DEF DurableInv, Ending
      <3> QED BY <1>1, <3>1, <3>2 DEF DurableInv
    <2> QED BY <2>1, <2>2
  <1>11. RowSetInv'
    <2>1. CASE call = "lock"
      <3>1. InSession /\ req.statement = "lock" /\ ~ Ending /\ ~ autoCommit
        BY <1>1, <2>1 DEF InSession, MainInv, Ending
      <3>2. transactionStarted'
        BY <1>2, <3>1 DEF InSession
      <3>3. Current.live => Current.transaction = reply.transaction
        BY <1>1, <3>1 DEF RepliesInv
      <3>4. rowSet'.transactionId = transactionId /\ rowSet'.transaction = reply.transaction
        BY <1>3, <2>1
      <3> QED BY <1>1, <1>5, <3>2, <3>3, <3>4 DEF RowSetInv, TypeOK
    <2>2. CASE call = "abort"
      BY <1>3, <2>2 DEF RowSetInv
    <2>3. CASE call \notin {"lock", "abort"}
      <3>1. ASSUME rowSet # NULL, rowSet.transactionId = transactionId
            PROVE  transactionStarted'
        <4>1. transactionStarted /\ ~ Ending
          BY <3>1 DEF RowSetInv, TypeOK
        <4> QED BY <1>2, <4>1
      <3> QED BY <1>1, <1>3, <1>5, <2>3, <3>1 DEF RowSetInv
    <2> QED BY <2>1, <2>2, <2>3
  <1>12. NothingLost'
    <2>1. losses = 0 /\ ~ hasKey /\ sessionPrepared' => Current.live
      BY <1>1, <1>2 DEF NothingLost, InSession
    <2> QED BY <1>1, <1>5, <2>1 DEF NothingLost
  <1>13. AppliedOnce'
    BY <1>1 DEF AppliedOnce
  <1> QED BY <1>4, <1>5, <1>7, <1>8, <1>9, <1>10, <1>11, <1>12, <1>13, NoAnswer

(* The session and the durable rows after each kind of statement. *)
ServerSession == [live : BOOLEAN, last : Nat, transaction : Nat, rows : SUBSET Update]

Begun(s, rows) ==
  [live |-> TRUE, last |-> req.id,
   transaction |-> IF req.mode = "begin" THEN transactions + 1 ELSE s.transaction,
   rows |-> rows]

LEMMA AppliedEffect ==
  ASSUME NEW s \in ServerSession, NEW t, t = Applied(s)
  PROVE  /\ req.statement = "create" =>
              t = [live |-> TRUE, last |-> s.last, transaction |-> s.transaction,
                   rows |-> s.rows]
         /\ (req.statement = "put" /\ req.mode = "auto") \/ req.statement = "lock" =>
              t = Begun(s, s.rows)
         /\ req.statement = "put" /\ req.mode # "auto" =>
              t = Begun(s, s.rows \cup {req.row})
         /\ req.statement = "get" => t = s
         /\ req.statement \in {"commit", "abort"} =>
              t = [live |-> s.live, last |-> req.id, transaction |-> 0, rows |-> {}]
         /\ req.statement = "close" => t = NoSession
         /\ Durable(s) = IF req.statement = "put" /\ req.mode = "auto" THEN {req.row}
                         ELSE IF req.statement = "commit" THEN s.rows ELSE {}
  <1>1. PICK begun : begun = [s EXCEPT !.live = TRUE, !.last = req.id,
                                       !.transaction = IF req.mode = "begin"
                                                       THEN transactions + 1 ELSE @]
    OBVIOUS
  <1>2. begun = Begun(s, s.rows) /\ begun.rows = s.rows
    BY <1>1 DEF Begun, ServerSession
  <1>3. /\ req.statement = "create" => t = [s EXCEPT !.live = TRUE]
        /\ (req.statement = "put" /\ req.mode = "auto") \/ req.statement = "lock" => t = begun
        /\ req.statement = "put" /\ req.mode # "auto" =>
             t = [begun EXCEPT !.rows = @ \cup {req.row}]
        /\ req.statement = "get" => t = s
        /\ req.statement \in {"commit", "abort"} =>
             t = [s EXCEPT !.last = req.id, !.transaction = 0, !.rows = {}]
        /\ req.statement = "close" => t = NoSession
    BY <1>1 DEF Applied
  <1>4. CASE req.statement = "create"
    BY <1>3, <1>4 DEF Durable, ServerSession
  <1>5. CASE (req.statement = "put" /\ req.mode = "auto") \/ req.statement \in {"lock", "get", "close"}
    BY <1>2, <1>3, <1>5 DEF Durable
  <1>6. CASE req.statement = "put" /\ req.mode # "auto"
    <2>1. t = [begun EXCEPT !.rows = @ \cup {req.row}]
      BY <1>3, <1>6
    <2>2. t = Begun(s, s.rows \cup {req.row})
      BY <1>2, <2>1 DEF Begun
    <2> QED BY <1>6, <2>2 DEF Durable
  <1>7. CASE req.statement \in {"commit", "abort"}
    <2>1. t = [s EXCEPT !.last = req.id, !.transaction = 0, !.rows = {}]
      BY <1>3, <1>7
    <2>2. t = [live |-> s.live, last |-> req.id, transaction |-> 0, rows |-> {}]
      BY <2>1 DEF ServerSession
    <2> QED BY <1>7, <2>2 DEF Durable
  <1>8. CASE req.statement \notin {"create", "put", "lock", "get", "commit", "abort", "close"}
    BY <1>8 DEF Durable
  <1> QED BY <1>4, <1>5, <1>6, <1>7, <1>8

(* What every execution has in common. *)
LEMMA AppliesCommon ==
  ASSUME IInv, NEW s, NEW t, Applies(s, t)
  PROVE  /\ SameCall /\ pc = "send" /\ pc' = "reply"
         /\ s \in ServerSession /\ t \in ServerSession
         /\ reply' = OkReply(t) /\ reply'.result = "ok"
         /\ reply'.rows = t.rows /\ reply'.transaction = t.transaction
         /\ Succeeded' /\ TypeOK'
         /\ ClientInv' /\ MainInv' /\ OtherInv' /\ UpdateInv'
         /\ (InSession' <=> InSession) /\ (Ending' <=> Ending)
         /\ \A u \in Update :
              committed'[u] = IF u \in Durable(s) /\ committed[u] < 2
                              THEN committed[u] + 1 ELSE committed[u]
         /\ Durable(s) = {} => committed' = committed
  <1> USE DEF IInv
  <1>1. SameCall /\ pc = "send" /\ pc' = "reply"
    BY DEF Applies, SameCall, Busy, settings, schema, state, loop, trials, history
  <1>2. s \in ServerSession
    BY DEF Applies, Target, TypeOK, NoSession, ServerSession, Request
  <1>3. /\ req.id \in Nat /\ req.row \in Update \cup {NULL} /\ transactions \in Nat
        /\ req.statement \in {"none", "create", "put", "get", "lock", "commit", "abort", "close"}
    BY DEF TypeOK, Request
  <1>4. req.statement # "none" /\ (req.statement = "put" => req.row \in Update)
    BY <1>1 DEF TypeOK, MainInv, OtherInv, SameCall, Busy
  <1>5. t \in ServerSession
    <2>1. t = Applied(s)
      BY DEF Applies
    <2>2. s.last \in Nat /\ s.transaction \in Nat /\ s.rows \in SUBSET Update
          /\ s.live \in BOOLEAN
      BY <1>2 DEF ServerSession
    <2>3. NoSession \in ServerSession
      BY DEF NoSession, ServerSession
    <2>4. ASSUME NEW rows \in SUBSET Update PROVE Begun(s, rows) \in ServerSession
      BY <1>3, <2>2 DEF Begun, ServerSession
    <2>5. [live |-> TRUE, last |-> s.last, transaction |-> s.transaction, rows |-> s.rows]
            \in ServerSession
      BY <2>2 DEF ServerSession
    <2>6. [live |-> s.live, last |-> req.id, transaction |-> 0, rows |-> {}] \in ServerSession
      BY <1>3, <2>2 DEF ServerSession
    <2>7. req.statement = "put" => s.rows \cup {req.row} \in SUBSET Update
      BY <1>4, <2>2
    <2>8. CASE req.statement \in {"create", "commit", "abort", "get", "close"}
      <3>1. CASE req.statement = "create"
        BY <1>2, <2>1, <2>5, <3>1, AppliedEffect
      <3>2. CASE req.statement \in {"commit", "abort"}
        <4>1. t = [live |-> s.live, last |-> req.id, transaction |-> 0, rows |-> {}]
          BY <1>2, <2>1, <3>2, AppliedEffect
        <4> QED BY <2>6, <4>1
      <3>3. CASE req.statement \in {"get", "close"}
        BY <1>2, <2>1, <2>3, <3>3, AppliedEffect
      <3> QED BY <2>8, <3>1, <3>2, <3>3
    <2>9. CASE (req.statement = "put" /\ req.mode = "auto") \/ req.statement = "lock"
      <3>1. t = Begun(s, s.rows)
        BY <1>2, <2>1, <2>9, AppliedEffect
      <3> QED BY <2>2, <2>4, <3>1
    <2>10. CASE req.statement = "put" /\ req.mode # "auto"
      <3>1. t = Begun(s, s.rows \cup {req.row})
        BY <1>2, <2>1, <2>10, AppliedEffect
      <3> QED BY <2>4, <2>7, <2>10, <3>1
    <2> QED BY <1>3, <1>4, <2>8, <2>9, <2>10
  <1>6. /\ reply' = OkReply(t) /\ reply'.result = "ok"
        /\ reply'.rows = t.rows /\ reply'.transaction = t.transaction
    BY DEF Applies, OkReply
  <1>7. committed' = [u \in Update |->
             IF u \in Durable(s) /\ committed[u] < 2 THEN committed[u] + 1 ELSE committed[u]]
    BY DEF Applies
  <1>8. TypeOK'
    <2>1. reply' \in [result : {"none", "ok", "lost", "conflict", "error"}, rows : SUBSET Update,
                    transaction : Nat]
      BY <1>5, <1>6 DEF OkReply, ServerSession
    <2>2. session' \in [1 .. MaxSessions -> [live : BOOLEAN, last : Nat,
                                             transaction : Nat, rows : SUBSET Update]]
      BY <1>5 DEF Applies, ServerSession, TypeOK
    <2>3. committed' \in [Update -> 0 .. 2]
      BY <1>7 DEF TypeOK
    <2>4. transactions' \in Nat
      BY <1>3 DEF Applies
    <2> QED BY <1>1, <2>1, <2>2, <2>3, <2>4 DEF TypeOK, SameCall
  <1>9. Succeeded' /\ (InSession' <=> InSession) /\ (Ending' <=> Ending)
    BY <1>1, <1>6 DEF Succeeded, InSession, SameCall, Ending
  <1>10. Durable(s) = {} => committed' = committed
    BY <1>7 DEF TypeOK
  <1> QED BY <1>1, <1>2, <1>5, <1>6, <1>7, <1>8, <1>9, <1>10, SameCallInv

(* A statement of no session: a query, or a row put with a key. *)
LEMMA AppliesWithoutSession ==
  ASSUME IInv, NEW s, NEW t, Applies(s, t), req.session = 0
  PROVE  IInv'
  <1> USE DEF IInv
  <1>1. /\ SameCall /\ pc = "send" /\ pc' = "reply" /\ reply'.result = "ok"
        /\ s \in ServerSession /\ t = Applied(s)
        /\ TypeOK' /\ ClientInv' /\ MainInv' /\ OtherInv' /\ UpdateInv'
        /\ (InSession' <=> InSession) /\ (Ending' <=> Ending)
        /\ \A u \in Update :
             committed'[u] = IF u \in Durable(s) /\ committed[u] < 2
                             THEN committed[u] + 1 ELSE committed[u]
        /\ Durable(s) = {} => committed' = committed
    BY AppliesCommon DEF Applies
  <1>2. stage = "main" /\ ~ InSession /\ ~ Executed /\ ~ Executed' /\ session' = session
    BY <1>1 DEF InSession, Executed, OtherInv, SameCall, Applies, TypeOK
  <1>3. Current' = Current
    BY <1>1, <1>2 DEF Current, SameCall
  <1>4. /\ ~ transactionStarted /\ ~ Ending /\ call \in {"put", "get", "fetchAll"}
        /\ \/ call = "put" /\ autoCommit /\ hasKey /\ req.statement = "put" /\ req.row \in maybe
           \/ req.statement = "get"
    BY <1>1, <1>2 DEF MainInv, ClientInv, SameCall, Ending
  <1>5. ~ autoCommit => Durable(s) = {}
    BY <1>1, <1>4, AppliedEffect
  <1>6. \A u \in Update : committed'[u] > 0 => u \in sent
    <2>1. Durable(s) \subseteq maybe
      BY <1>1, <1>4, AppliedEffect
    <2> QED BY <1>1, <2>1 DEF DurableInv, TypeOK
  <1>7. SessionsInv'
    BY <1>1, <1>2, <1>3 DEF SessionsInv, SameCall
  <1>8. TransactionInv' /\ RepliesInv'
    BY <1>1, <1>2, <1>4 DEF TransactionInv, RepliesInv, SameCall
  <1>9. DurableInv'
    BY <1>1, <1>5, <1>6 DEF DurableInv, SameCall
  <1>10. RowSetInv'
    BY <1>1, <1>3 DEF RowSetInv, SameCall
  <1>11. NothingLost' /\ AppliedOnce'
    <2>1. ASSUME ~ hasKey
          PROVE  committed' = committed /\ call # "put"
      <3>1. req.statement = "get" /\ call # "put"
        BY <1>1, <1>2, <1>4, <2>1 DEF MainInv, SameCall
      <3>2. Durable(s) = {}
        BY <1>1, <3>1, AppliedEffect
      <3> QED BY <1>1, <3>1, <3>2
    <2> QED BY <1>1, <1>2, <1>3, <2>1 DEF NothingLost, AppliedOnce, SameCall
  <1>12. CommitCompletes' /\ ReadsOwnWrites' /\ RowSetOwnTransaction'
    BY <1>1, <1>4 DEF CommitCompletes, ReadsOwnWrites, RowSetOwnTransaction, SameCall
  <1> QED BY <1>1, <1>7, <1>8, <1>9, <1>10, <1>11, <1>12

(* A session is created. *)
LEMMA AppliesCreate ==
  ASSUME IInv, NEW s, NEW t, Applies(s, t), stage \in {"create", "recreate"}
  PROVE  IInv'
  <1> USE DEF IInv
  <1>1. /\ SameCall /\ pc = "send" /\ pc' = "reply" /\ reply'.result = "ok"
        /\ s \in ServerSession /\ t = Applied(s)
        /\ TypeOK' /\ ClientInv' /\ MainInv' /\ OtherInv' /\ UpdateInv'
        /\ (Ending' <=> Ending)
        /\ Durable(s) = {} => committed' = committed
    BY AppliesCommon DEF Applies
  <1>2. /\ req.session # 0 /\ req.session # sessionId /\ req.statement = "create"
        /\ req.session = lastSessionId /\ ~ sessionPrepared
        /\ session[req.session].last = 0 /\ session[req.session].transaction = 0
    BY <1>1 DEF OtherInv, SessionsInv, SameCall
  <1>3. /\ s = session[req.session] /\ session' = [session EXCEPT ![req.session] = t]
        /\ t = [live |-> TRUE, last |-> s.last, transaction |-> s.transaction, rows |-> s.rows]
        /\ committed' = committed
    BY <1>1, <1>2, AppliedEffect DEF Applies, Target
  <1>4. /\ ~ InSession /\ ~ Executed /\ ~ InSession' /\ ~ Executed' /\ Current' = Current
        /\ req.session \in 1 .. MaxSessions
    <2>1. req.session \in 1 .. MaxSessions
      BY <1>2, SessionTypes
    <2>2. Current' = Current
      BY <1>1, <1>2, <1>3, <2>1 DEF Current, SameCall, TypeOK
    <2> QED BY <1>1, <2>1, <2>2 DEF InSession, Executed, SameCall
  <1>5. ~ transactionStarted
    BY <1>2 DEF ClientInv
  <1>6. SessionsInv'
    <2>1. session'[req.session] = t
      BY <1>3, <1>4 DEF TypeOK
    <2>2. ASSUME NEW k \in 1 .. MaxSessions
          PROVE  /\ ~ session'[k].live \/ k > lastSessionId' => session'[k] = NoSession
                 /\ session'[k].transaction = 0 => session'[k].rows = {}
      <3>1. CASE k = req.session
        <4>1. ~ (k > lastSessionId') /\ session'[k].live
          BY <1>1, <1>2, <1>3, <2>1, <3>1 DEF SameCall, TypeOK
        <4>2. session'[k].rows = {}
          BY <1>2, <1>3, <2>1, <3>1, <1>4 DEF SessionsInv
        <4> QED BY <4>1, <4>2
      <3>2. CASE k # req.session
        <4>1. session'[k] = session[k]
          BY <1>3, <3>2 DEF TypeOK
        <4> QED BY <1>1, <4>1 DEF SessionsInv, SameCall
      <3> QED BY <3>1, <3>2
    <2> QED BY <1>1, <1>2, <1>3, <1>4, <2>1, <2>2 DEF SessionsInv, SameCall
  <1>7. TransactionInv' /\ RepliesInv' /\ DurableInv'
    BY <1>1, <1>3, <1>4, <1>5 DEF TransactionInv, RepliesInv, DurableInv, SameCall
  <1>8. RowSetInv'
    BY <1>1, <1>4 DEF RowSetInv, SameCall
  <1>9. NothingLost' /\ AppliedOnce'
    <2>1. session'[req.session].live
      BY <1>3, <1>4 DEF TypeOK
    <2> QED BY <1>1, <1>2, <1>3, <1>4, <2>1 DEF NothingLost, AppliedOnce, SameCall
  <1>10. CommitCompletes' /\ ReadsOwnWrites' /\ RowSetOwnTransaction'
    BY <1>1 DEF CommitCompletes, ReadsOwnWrites, RowSetOwnTransaction, SameCall
  <1> QED BY <1>1, <1>6, <1>7, <1>8, <1>9, <1>10

(* The session is closed. *)
LEMMA AppliesClose ==
  ASSUME IInv, NEW s, NEW t, Applies(s, t), stage \in {"cleanup", "final"}
  PROVE  IInv'
  <1> USE DEF IInv
  <1>1. /\ SameCall /\ pc = "send" /\ pc' = "reply" /\ reply'.result = "ok"
        /\ s \in ServerSession /\ t = Applied(s)
        /\ TypeOK' /\ ClientInv' /\ MainInv' /\ OtherInv' /\ UpdateInv'
        /\ (Ending' <=> Ending)
        /\ Durable(s) = {} => committed' = committed
    BY AppliesCommon DEF Applies
  <1>2. req.session # 0 /\ req.session = sessionId /\ req.statement = "close"
    BY <1>1 DEF OtherInv, SameCall
  <1>3. /\ session' = [session EXCEPT ![sessionId] = NoSession]
        /\ committed' = committed
    BY <1>1, <1>2, AppliedEffect DEF Applies
  <1>4. /\ ~ InSession /\ ~ Executed /\ ~ InSession' /\ ~ Executed' /\ Current' = NoSession
        /\ sessionId \in 1 .. MaxSessions /\ ~ Current'.live
    <2>1. sessionId \in 1 .. MaxSessions
      BY <1>2, SessionTypes
    <2>2. Current' = NoSession
      BY <1>1, <1>2, <1>3, <2>1 DEF Current, SameCall, TypeOK
    <2> QED BY <1>1, <2>1, <2>2 DEF InSession, Executed, SameCall, NoSession
  <1>5. SessionsInv'
    <2>1. ASSUME NEW k \in 1 .. MaxSessions
          PROVE  /\ ~ session'[k].live \/ k > lastSessionId' => session'[k] = NoSession
                 /\ session'[k].transaction = 0 => session'[k].rows = {}
      <3>1. session'[k] = session[k] \/ session'[k] = NoSession
        BY <1>3 DEF TypeOK
      <3> QED BY <1>1, <3>1 DEF SessionsInv, SameCall, NoSession
    <2>2. Current'.last <= statementId'
      BY <1>1, <1>4 DEF NoSession, TypeOK
    <2> QED BY <1>1, <2>1, <2>2 DEF SessionsInv, SameCall
  <1>6. TransactionInv' /\ RepliesInv' /\ DurableInv'
    BY <1>1, <1>3, <1>4 DEF TransactionInv, RepliesInv, DurableInv, SameCall
  <1>7. RowSetInv'
    BY <1>1, <1>4 DEF RowSetInv, SameCall
  <1>8. NothingLost' /\ AppliedOnce'
    BY <1>1, <1>3, <1>4 DEF NothingLost, AppliedOnce, SameCall
  <1>9. CommitCompletes' /\ ReadsOwnWrites' /\ RowSetOwnTransaction'
    BY <1>1 DEF CommitCompletes, ReadsOwnWrites, RowSetOwnTransaction, SameCall
  <1> QED BY <1>1, <1>5, <1>6, <1>7, <1>8, <1>9

(* What the executions in the session of the client have in common.  The   *)
(* number of the statement is new to the session.                          *)
AppliedInSession(s, t) ==
  /\ SameCall /\ stage = "main" /\ pc = "send" /\ pc' = "reply"
  /\ s \in ServerSession /\ t \in ServerSession /\ t = Applied(s)
  /\ req.session = sessionId /\ sessionId \in 1 .. MaxSessions
  /\ InSession /\ InSession' /\ Succeeded' /\ (Ending' <=> Ending)
  /\ Current = s /\ Current' = t /\ req.id = statementId
  /\ session' = [session EXCEPT ![sessionId] = t]
  /\ ~ s.live => s = NoSession
  /\ s.transaction = 0 => s.rows = {}
  /\ s.live => ~ Executed
  /\ s.live \/ req.create
  /\ reply'.result = "ok" /\ reply'.rows = t.rows /\ reply'.transaction = t.transaction
  /\ TypeOK' /\ ClientInv' /\ MainInv' /\ OtherInv' /\ UpdateInv'
  /\ \A u \in Update :
       committed'[u] = IF u \in Durable(s) /\ committed[u] < 2
                       THEN committed[u] + 1 ELSE committed[u]
  /\ Durable(s) = {} => committed' = committed

LEMMA AppliesInSession ==
  ASSUME IInv, NEW s, NEW t, Applies(s, t), req.session # 0, stage = "main"
  PROVE  AppliedInSession(s, t)
  <1> USE DEF IInv
  <1>1. /\ SameCall /\ pc = "send" /\ pc' = "reply" /\ reply'.result = "ok"
        /\ s \in ServerSession /\ t \in ServerSession /\ t = Applied(s)
        /\ TypeOK' /\ ClientInv' /\ MainInv' /\ OtherInv' /\ UpdateInv'
        /\ (InSession' <=> InSession) /\ (Ending' <=> Ending) /\ Succeeded'
        /\ reply'.rows = t.rows /\ reply'.transaction = t.transaction
        /\ \A u \in Update :
             committed'[u] = IF u \in Durable(s) /\ committed[u] < 2
                             THEN committed[u] + 1 ELSE committed[u]
        /\ Durable(s) = {} => committed' = committed
    BY AppliesCommon DEF Applies
  <1>2. /\ req.session = sessionId /\ req.id = statementId /\ InSession
        /\ req.statement # "create" /\ sessionId \in 1 .. MaxSessions
    BY <1>1, SessionTypes DEF MainInv, SameCall, InSession
  <1>3. Current = s /\ session' = [session EXCEPT ![sessionId] = t]
    BY <1>2 DEF Applies, Target, Current
  <1>4. Current' = t
    BY <1>1, <1>2, <1>3 DEF Current, SameCall, TypeOK
  <1>5. (~ s.live => s = NoSession) /\ (s.transaction = 0 => s.rows = {})
    BY <1>2, <1>3 DEF SessionsInv, Current
  <1>6. (s.live => ~ Executed) /\ (s.live \/ req.create)
    <2>1. ~ Missing(s) /\ ~ Repeated(s)
      BY DEF Applies
    <2>2. s.last \in Nat /\ req.id \in Nat
      BY <1>1, SessionTypes DEF ServerSession
    <2> QED BY <1>2, <1>3, <2>1, <2>2 DEF Missing, Repeated, Executed
  <1> QED BY <1>1, <1>2, <1>3, <1>4, <1>5, <1>6 DEF AppliedInSession

LEMMA SessionsAfter ==
  ASSUME IInv, NEW s, NEW t, AppliedInSession(s, t),
         t.live \/ t = NoSession, t.transaction = 0 => t.rows = {}, t.last <= statementId
  PROVE  SessionsInv'
  <1> USE DEF IInv
  <1>1. /\ SameCall /\ stage = "main" /\ sessionId \in 1 .. MaxSessions
        /\ session' = [session EXCEPT ![sessionId] = t] /\ Current' = t
    BY DEF AppliedInSession
  <1>2. session'[sessionId] = t /\ sessionId <= lastSessionId
    BY <1>1 DEF TypeOK
  <1>3. ASSUME NEW k \in 1 .. MaxSessions
        PROVE  /\ ~ session'[k].live \/ k > lastSessionId' => session'[k] = NoSession
               /\ session'[k].transaction = 0 => session'[k].rows = {}
    <2>1. CASE k = sessionId
      <3>1. ~ (k > lastSessionId') /\ session'[k] = t
        BY <1>1, <1>2, <2>1 DEF SameCall, TypeOK
      <3> QED BY <3>1
    <2>2. CASE k # sessionId
      <3>1. session'[k] = session[k]
        BY <1>1, <2>2 DEF TypeOK
      <3> QED BY <1>1, <3>1 DEF SessionsInv, SameCall
    <2> QED BY <2>1, <2>2
  <1> QED BY <1>1, <1>3 DEF SessionsInv, SameCall

(* A row is put in a session, without a transaction. *)
LEMMA AppliesAutoPut ==
  ASSUME IInv, NEW s, NEW t, Applies(s, t), AppliedInSession(s, t),
         req.statement = "put", autoCommit
  PROVE  IInv'
  <1> USE DEF IInv
  <1>1. /\ SameCall /\ stage = "main" /\ Busy /\ InSession' /\ (Ending' <=> Ending)
        /\ Current = s /\ Current' = t /\ req.id = statementId
        /\ TypeOK' /\ ClientInv' /\ MainInv' /\ OtherInv' /\ UpdateInv'
        /\ reply'.result = "ok" /\ reply'.transaction = t.transaction
        /\ s \in ServerSession /\ statementId \in Nat
    BY DEF AppliedInSession, SameCall, TypeOK
  <1>2. /\ req.mode = "auto" /\ ~ transactionStarted /\ req.row \in maybe
        /\ req.row \in Update /\ req.row \in sent /\ call = "put"
    BY <1>1 DEF MainInv, Mode, TransactionMode, ClientInv, TypeOK
  <1>3. t = Begun(s, s.rows) /\ Durable(s) = {req.row}
    BY <1>2, AppliedEffect DEF AppliedInSession
  <1>4. s.transaction = 0 /\ s.rows = {}
    BY <1>2 DEF Applies, Invalid, AppliedInSession
  <1>5. t = [live |-> TRUE, last |-> req.id, transaction |-> 0, rows |-> {}]
    BY <1>2, <1>3, <1>4 DEF Begun
  <1>6. t.live /\ t.last = statementId /\ t.transaction = 0 /\ t.rows = {}
    BY <1>1, <1>5
  <1>7. Executed'
    BY <1>1, <1>6 DEF Executed, SameCall
  <1>8. \A u \in Update : committed'[u] = IF u = req.row /\ committed[u] < 2
                                          THEN committed[u] + 1 ELSE committed[u]
    BY <1>3 DEF AppliedInSession
  <1>9. SessionsInv'
    BY <1>1, <1>6, SessionsAfter
  <1>10. TransactionInv' /\ RepliesInv'
    BY <1>1, <1>2, <1>7 DEF TransactionInv, RepliesInv, SameCall
  <1>11. DurableInv'
    <2>1. \A u \in Update : committed'[u] > 0 => u \in sent
      BY <1>2, <1>8 DEF DurableInv, TypeOK
    <2> QED BY <1>1, <2>1 DEF DurableInv, SameCall
  <1>12. RowSetInv'
    BY <1>1, <1>2 DEF RowSetInv, SameCall
  <1>13. ASSUME losses = 0, ~ hasKey
         PROVE  committed[req.row] = 0
    <2>1. ~ req.create /\ sessionPrepared
      BY <1>1, <1>2, <1>13 DEF MainInv, AppliedInSession
    <2>2. s.live
      BY <2>1 DEF AppliedInSession
    <2>3. ~ Executed
      BY <2>2 DEF AppliedInSession
    <2>4. ~ (committed[req.row] > 0)
      BY <1>1, <1>2, <1>13, <2>3 DEF NothingLost
    <2> QED BY <1>2, <2>4 DEF TypeOK
  <1>14. NothingLost'
    BY <1>1, <1>6, <1>7 DEF NothingLost, SameCall
  <1>15. AppliedOnce'
    BY <1>1, <1>8, <1>13 DEF AppliedOnce, SameCall, TypeOK
  <1>16. CommitCompletes' /\ ReadsOwnWrites' /\ RowSetOwnTransaction'
    BY <1>1, <1>2 DEF CommitCompletes, ReadsOwnWrites, RowSetOwnTransaction, SameCall
  <1> QED BY <1>1, <1>9, <1>10, <1>11, <1>12, <1>14, <1>15, <1>16

(* A row is put or rows are locked in a transaction, which may begin.      *)
LEMMA AppliesInTransaction ==
  ASSUME IInv, NEW s, NEW t, Applies(s, t), AppliedInSession(s, t),
         req.statement \in {"put", "lock"}, ~ autoCommit
  PROVE  IInv'
  <1> USE DEF IInv
  <1>1. /\ SameCall /\ stage = "main" /\ Busy /\ InSession' /\ (Ending' <=> Ending)
        /\ Current = s /\ Current' = t /\ req.id = statementId /\ t = Applied(s)
        /\ TypeOK' /\ ClientInv' /\ MainInv' /\ OtherInv' /\ UpdateInv'
        /\ reply'.result = "ok" /\ reply'.transaction = t.transaction
        /\ s \in ServerSession /\ statementId \in Nat /\ transactions \in Nat
        /\ s.rows \subseteq Update
    BY DEF AppliedInSession, SameCall, TypeOK, ServerSession
  <1>2. /\ req.mode = IF transactionStarted THEN "continue" ELSE "begin"
        /\ call \in {"put", "update", "lock"} /\ ~ Ending
        /\ req.statement = "put" => req.row \in maybe
        /\ call = "update" => req.statement = "put"
    BY <1>1 DEF MainInv, Mode, TransactionMode, Ending
  <1> DEFINE rows == IF req.statement = "put" THEN s.rows \cup {req.row} ELSE s.rows
  <1>3. t = Begun(s, rows) /\ Durable(s) = {}
    <2>1. CASE req.statement = "put"
      BY <1>1, <1>2, <2>1, AppliedEffect
    <2>2. CASE req.statement = "lock"
      BY <1>1, <1>2, <2>2, AppliedEffect
    <2> QED BY <2>1, <2>2
  <1>4. /\ committed' = committed
        /\ t.live /\ t.last = statementId /\ t.rows = rows
        /\ t.transaction = IF transactionStarted THEN s.transaction ELSE transactions + 1
    BY <1>1, <1>2, <1>3 DEF Begun, AppliedInSession
  <1>5. ~ Invalid(s)
    BY DEF Applies
  <1>6. ASSUME transactionStarted
        PROVE  s.transaction # 0 /\ s.live /\ Agree
    <2>1. s.transaction # 0
      BY <1>2, <1>5, <1>6 DEF Invalid
    <2>2. s.live
      BY <2>1 DEF AppliedInSession, NoSession
    <2> QED BY <1>1, <1>2, <1>6, <2>1, <2>2 DEF TransactionInv
  <1>7. ASSUME ~ transactionStarted
        PROVE  s.rows = {} /\ pending = {}
    <2>1. s.transaction = 0
      BY <1>2, <1>5, <1>7 DEF Invalid
    <2> QED BY <1>7, <2>1 DEF AppliedInSession, ClientInv
  <1>8. /\ t.transaction # 0
        /\ pending \subseteq rows /\ rows \subseteq pending \cup maybe
        /\ \A u \in rows : committed[u] = 0
    <2>1. \A u \in pending \cup maybe : committed[u] = 0
      BY <1>2 DEF DurableInv
    <2>2. CASE transactionStarted
      <3>1. pending \subseteq s.rows /\ s.rows \subseteq pending \cup maybe
        BY <1>1, <1>6, <2>2 DEF Agree
      <3>2. rows \subseteq pending \cup maybe
        BY <1>2, <3>1
      <3> QED BY <1>4, <1>6, <2>1, <2>2, <3>1, <3>2
    <2>3. CASE ~ transactionStarted
      <3>1. rows \subseteq maybe
        BY <1>2, <1>7, <2>3
      <3>2. t.transaction # 0
        BY <1>1, <1>4, <2>3
      <3> QED BY <1>7, <2>1, <2>3, <3>1, <3>2
    <2> QED BY <2>2, <2>3
  <1>9. Agree' /\ (req.statement = "put" => req.row \in t.rows)
    BY <1>1, <1>4, <1>8 DEF Agree, SameCall
  <1>10. Executed'
    BY <1>1, <1>4 DEF Executed, SameCall
  <1> HIDE DEF rows
  <1>11. SessionsInv'
    <2>1. t.transaction = 0 => t.rows = {}
      BY <1>8
    <2> QED BY <1>1, <1>4, <2>1, SessionsAfter
  <1>12. TransactionInv'
    BY <1>1, <1>2, <1>9, <1>10 DEF TransactionInv, SameCall
  <1>13. RepliesInv' /\ DurableInv'
    BY <1>1, <1>4, <1>10 DEF RepliesInv, DurableInv, SameCall
  <1>14. RowSetInv'
    <2>1. ASSUME rowSet # NULL, rowSet.transactionId = transactionId
          PROVE  transactionStarted /\ t.transaction = rowSet.transaction
      BY <1>1, <1>4, <1>6, <2>1 DEF RowSetInv
    <2> QED BY <1>1, <1>2, <2>1 DEF RowSetInv, SameCall
  <1>15. RowSetOwnTransaction'
    <2>1. ASSUME call = "update"
          PROVE  t.transaction = rowSet.transaction
      <3>1. rowSet # NULL /\ rowSet.transactionId = transactionId
        BY <1>1, <2>1 DEF UpdateInv
      <3> QED BY <1>1, <1>4, <1>6, <3>1 DEF RowSetInv
    <2> QED BY <1>1, <2>1 DEF RowSetOwnTransaction, SameCall
  <1>16. NothingLost' /\ AppliedOnce'
    BY <1>1, <1>4 DEF NothingLost, AppliedOnce, SameCall
  <1>17. CommitCompletes' /\ ReadsOwnWrites'
    BY <1>1, <1>2 DEF CommitCompletes, ReadsOwnWrites, SameCall
  <1> QED BY <1>1, <1>11, <1>12, <1>13, <1>14, <1>15, <1>16, <1>17

(* A query in the transaction. *)
LEMMA AppliesGet ==
  ASSUME IInv, NEW s, NEW t, Applies(s, t), AppliedInSession(s, t),
         req.statement = "get"
  PROVE  IInv'
  <1> USE DEF IInv
  <1>1. /\ SameCall /\ stage = "main" /\ Busy /\ InSession /\ InSession' /\ (Ending' <=> Ending)
        /\ Current = s /\ Current' = t /\ t = Applied(s) /\ sessionId \in 1 .. MaxSessions
        /\ TypeOK' /\ ClientInv' /\ MainInv' /\ OtherInv' /\ UpdateInv'
        /\ reply'.result = "ok" /\ reply'.rows = t.rows
        /\ s \in ServerSession /\ session' = [session EXCEPT ![sessionId] = t]
        /\ Durable(s) = {} => committed' = committed
    BY DEF AppliedInSession, SameCall
  <1>2. t = s /\ Durable(s) = {}
    BY <1>1, AppliedEffect
  <1>3. transactionStarted /\ ~ autoCommit /\ ~ req.create /\ call \in {"get", "fetchAll"}
    BY <1>1 DEF MainInv, ClientInv, InSession
  <1>4. s.live
    BY <1>3 DEF AppliedInSession
  <1>5. session' = session /\ committed' = committed
    BY <1>1, <1>2 DEF TypeOK, Current
  <1>6. (Executed' <=> Executed) /\ ~ Ending
    BY <1>1, <1>2, <1>3 DEF Executed, SameCall, Ending
  <1>7. Agree
    BY <1>1, <1>3, <1>4, <1>6 DEF TransactionInv
  <1>8. SessionsInv'
    BY <1>1, <1>2, <1>5 DEF SessionsInv, SameCall
  <1>9. TransactionInv'
    <2>1. Agree'
      BY <1>1, <1>2, <1>5, <1>7 DEF Agree, SameCall
    <2> QED BY <1>1, <1>3, <2>1 DEF TransactionInv, SameCall
  <1>10. RepliesInv' /\ DurableInv'
    BY <1>1, <1>5 DEF RepliesInv, DurableInv, SameCall
  <1>11. RowSetInv'
    BY <1>1, <1>2 DEF RowSetInv, SameCall
  <1>12. NothingLost' /\ AppliedOnce'
    BY <1>1, <1>2, <1>3, <1>4, <1>5 DEF NothingLost, AppliedOnce, SameCall
  <1>13. CommitCompletes' /\ RowSetOwnTransaction'
    BY <1>1, <1>3 DEF CommitCompletes, RowSetOwnTransaction, SameCall
  <1>14. ReadsOwnWrites'
    BY <1>1, <1>2, <1>7 DEF ReadsOwnWrites, SameCall, Agree
  <1> QED BY <1>1, <1>8, <1>9, <1>10, <1>11, <1>12, <1>13, <1>14

(* The transaction is committed or aborted. *)
LEMMA AppliesEnd ==
  ASSUME IInv, NEW s, NEW t, Applies(s, t), AppliedInSession(s, t),
         req.statement \in {"commit", "abort"}
  PROVE  /\ IInv'
         /\ req.statement = "commit" => Durable(s) = s.rows /\ Agree
  <1> USE DEF IInv
  <1>1. /\ SameCall /\ stage = "main" /\ Busy /\ InSession /\ InSession' /\ (Ending' <=> Ending)
        /\ Current = s /\ Current' = t /\ t = Applied(s) /\ req.id = statementId
        /\ TypeOK' /\ ClientInv' /\ MainInv' /\ OtherInv' /\ UpdateInv'
        /\ reply'.result = "ok" /\ statementId \in Nat
        /\ s \in ServerSession /\ s.rows \subseteq Update
        /\ s.live => ~ Executed
        /\ \A u \in Update :
             committed'[u] = IF u \in Durable(s) /\ committed[u] < 2
                             THEN committed[u] + 1 ELSE committed[u]
        /\ Durable(s) = {} => committed' = committed
    BY DEF AppliedInSession, SameCall, TypeOK, ServerSession
  <1>2. t = [live |-> s.live, last |-> req.id, transaction |-> 0, rows |-> {}]
        /\ Durable(s) = IF req.statement = "commit" THEN s.rows ELSE {}
    BY <1>1, AppliedEffect
  <1>3. /\ transactionStarted /\ ~ autoCommit /\ ~ req.create /\ Ending
        /\ call \in {"commit", "setAutoCommit"} \/ call = "abort"
        /\ req.statement = "commit" <=> call \in {"commit", "setAutoCommit"}
    BY <1>1 DEF MainInv, ClientInv, Ending
  <1>4. s.live
    BY <1>3 DEF AppliedInSession
  <1>5. Agree
    BY <1>1, <1>3, <1>4 DEF TransactionInv
  <1>6. t.live /\ t.last = statementId /\ t.transaction = 0 /\ t.rows = {}
    BY <1>1, <1>2, <1>4
  <1>7. Executed'
    BY <1>1, <1>6 DEF Executed, SameCall
  <1>8. /\ req.statement = "abort" => committed' = committed
        /\ req.statement = "commit" =>
             \A u \in Update : committed'[u] = IF u \in s.rows THEN 1 ELSE committed[u]
    <2>1. \A u \in s.rows : committed[u] = 0
      BY <1>1, <1>5 DEF Agree
    <2> QED BY <1>1, <1>2, <2>1
  <1>9. SessionsInv'
    BY <1>1, <1>6, SessionsAfter
  <1>10. req.statement = "commit" => \A u \in pending : committed'[u] > 0
    <2>1. pending \subseteq s.rows
      BY <1>1, <1>5 DEF Agree
    <2> QED BY <1>1, <1>8, <2>1
  <1>11. TransactionInv' /\ RepliesInv'
    BY <1>1, <1>3, <1>7, <1>10 DEF TransactionInv, RepliesInv, SameCall
  <1>12. DurableInv'
    <2>1. s.rows \subseteq sent
      BY <1>1, <1>5 DEF Agree, TypeOK
    <2>2. \A u \in Update : committed'[u] > 0 => u \in sent
      BY <1>8, <2>1 DEF DurableInv
    <2> QED BY <1>1, <1>3, <1>8, <2>2 DEF DurableInv, SameCall
  <1>13. RowSetInv'
    <2>1. rowSet # NULL => rowSet.transactionId < transactionId
                           /\ rowSet.transactionId # transactionId
      BY <1>3 DEF RowSetInv, TypeOK
    <2> QED BY <1>1, <2>1 DEF RowSetInv, SameCall
  <1>14. NothingLost'
    BY <1>1, <1>3, <1>6 DEF NothingLost, SameCall
  <1>15. AppliedOnce'
    BY <1>1, <1>8 DEF AppliedOnce, SameCall, TypeOK
  <1>16. CommitCompletes'
    BY <1>1, <1>3, <1>10 DEF CommitCompletes, SameCall
  <1>17. ReadsOwnWrites' /\ RowSetOwnTransaction'
    BY <1>1, <1>3 DEF ReadsOwnWrites, RowSetOwnTransaction, SameCall
  <1> QED BY <1>1, <1>2, <1>5, <1>9, <1>11, <1>12, <1>13, <1>14, <1>15, <1>16, <1>17

LEMMA AppliesStep ==
  ASSUME IInv, NEW s, NEW t, Applies(s, t)
  PROVE  IInv'
  <1>1. TypeOK /\ MainInv /\ Busy /\ pc = "send"
    BY DEF IInv, Applies, Busy
  <1>2. CASE req.session = 0
    BY <1>2, AppliesWithoutSession
  <1>3. CASE stage \in {"create", "recreate"}
    BY <1>3, AppliesCreate
  <1>4. CASE stage \in {"cleanup", "final"}
    BY <1>4, AppliesClose
  <1>5. CASE req.session # 0 /\ stage = "main"
    <2>1. AppliedInSession(s, t)
      BY <1>5, AppliesInSession
    <2>2. req.statement \in {"put", "get", "lock", "commit", "abort"}
      BY <1>1, <1>5 DEF MainInv
    <2>3. req.statement = "lock" => ~ autoCommit
      BY <1>1, <1>5 DEF MainInv
    <2> QED BY <2>1, <2>2, <2>3, AppliesAutoPut, AppliesInTransaction, AppliesGet, AppliesEnd
  <1> QED BY <1>1, <1>2, <1>3, <1>4, <1>5 DEF TypeOK

LEMMA SessionStutter ==
  ASSUME IInv, UNCHANGED vars
  PROVE  IInv' /\ committed' = committed
  <1> USE DEF IInv
  <1>1. UNCHANGED <<hasKey, schemaVerId, autoCommit, rowSet, sessionId, sessionPrepared,
                    transactionId, transactionStarted, statementId, lastSessionId, pc, call,
                    stage, req, reply, main, trialCount, createTrialCount, then, session,
                    committed, transactions, pending, maybe, sent, calls, losses>>
    BY DEF vars, settings, schema, state, loop, trials, server, history
  <1>2. TypeOK'
    BY <1>1 DEF TypeOK
  <1>3. /\ (Busy' <=> Busy) /\ Mode' = Mode /\ (Repaired(main) => Repaired(main)')
        /\ Current' = Current /\ (InSession' <=> InSession) /\ (Executed' <=> Executed)
        /\ (Ending' <=> Ending) /\ (Succeeded' <=> Succeeded) /\ (Agree => Agree')
    BY <1>1 DEF Busy, Mode, TransactionMode, Repaired, Current, InSession, Executed, Ending,
                Succeeded, Agree
  <1>4. ClientInv' /\ UpdateInv'
    BY <1>1, <1>3 DEF ClientInv, UpdateInv
  <1>5. MainInv'
    BY <1>1, <1>3 DEF MainInv
  <1>6. OtherInv'
    BY <1>1, <1>3 DEF OtherInv, ForRow
  <1>7. SessionsInv'
    BY <1>1, <1>3 DEF SessionsInv
  <1>8. TransactionInv' /\ RepliesInv'
    BY <1>1, <1>3 DEF TransactionInv, RepliesInv
  <1>9. DurableInv' /\ RowSetInv' /\ AppliedOnce'
    BY <1>1, <1>3 DEF DurableInv, RowSetInv, AppliedOnce
  <1>10. NothingLost'
    BY <1>1, <1>3 DEF NothingLost
  <1>11. CommitCompletes' /\ ReadsOwnWrites' /\ RowSetOwnTransaction'
    BY <1>1, <1>2, <1>3 DEF CommitCompletes, ReadsOwnWrites, RowSetOwnTransaction
  <1> QED BY <1>1, <1>2, <1>4, <1>5, <1>6, <1>7, <1>8, <1>9, <1>10, <1>11

(* Every step is one of these, and only the execution of a statement makes  *)
(* rows durable.                                                           *)
LEMMA StepSplit ==
  ASSUME IInv, [Next]_vars
  PROVE  \/ NewStatement \/ (\E u \in Update : CreatesForRow(u))
         \/ SwitchCommitMode \/ Close \/ Answered \/ Repeats
         \/ (\E s, t : Applies(s, t)) \/ Lose \/ Retry
         \/ InNewSession \/ MainDone \/ CleansUp \/ CreatesAgain \/ Thrown
         \/ Closed \/ UNCHANGED vars
  <1>0. TypeOK /\ ClientInv /\ MainInv /\ OtherInv /\ NothingLost
    BY DEF IInv
  <1>1. CASE \E u \in Update : PutRow(u)
    BY <1>0, <1>1, PutSplit
  <1>2. CASE \E u \in Update : UpdateRow(u)
    BY <1>0, <1>2, UpdateSplit DEF IInv
  <1>3. CASE GetRow \/ LockRow
    BY <1>0, <1>3, ReadSplit
  <1>4. CASE FetchAll
    BY <1>0, <1>4, FetchAllSplit
  <1>5. CASE Commit \/ Abort \/ SetAutoCommit
    BY <1>0, <1>5, EndSplit DEF IInv
  <1>6. CASE ServerExecute \/ ServerRefuse \/ ServerConflict
    BY <1>6, ServerSplit
  <1>7. CASE Created \/ Recreated
    BY <1>7, CreatedSplit
  <1>8. CASE StatementFails \/ FetchAllFails \/ CleanedUp \/ ConnectionFails
    BY <1>0, <1>8, FailSplit
  <1> QED BY <1>1, <1>2, <1>3, <1>4, <1>5, <1>6, <1>7, <1>8 DEF Next

LEMMA SessionStep ==
  ASSUME IInv, [Next]_vars
  PROVE  IInv' /\ (committed' = committed \/ \E s, t : Applies(s, t))
  <1>1. CASE NewStatement
    BY <1>1, NewStatementStep DEF NewStatement, server
  <1>2. CASE \E u \in Update : CreatesForRow(u)
    BY <1>2, CreatesForRowStep DEF CreatesForRow, server
  <1>3. CASE SwitchCommitMode
    BY <1>3, SwitchStep DEF SwitchCommitMode, Call, server
  <1>4. CASE Close
    BY <1>4, CloseStep DEF Close, Call, server
  <1>5. CASE Answered
    BY <1>5, AnsweredStep DEF Answered, server
  <1>6. CASE Repeats
    BY <1>6, RepeatsStep DEF Repeats, server
  <1>7. CASE \E s, t : Applies(s, t)
    BY <1>7, AppliesStep
  <1>8. CASE Lose
    BY <1>8, LoseStep DEF Lose
  <1>9. CASE Retry
    BY <1>9, RetryStep DEF Retry, server
  <1>10. CASE InNewSession
    BY <1>10, InNewSessionStep DEF InNewSession, server
  <1>11. CASE MainDone
    BY <1>11, MainDoneStep DEF MainDone, server
  <1>12. CASE CleansUp
    BY <1>12, CleansUpStep DEF CleansUp, server
  <1>13. CASE CreatesAgain
    BY <1>13, CreatesAgainStep DEF CreatesAgain, server
  <1>14. CASE Thrown
    BY <1>14, ThrownStep DEF Thrown, server
  <1>15. CASE Closed
    BY <1>15, ClosedStep DEF Closed, server
  <1>16. CASE UNCHANGED vars
    BY <1>16, SessionStutter
  <1> QED BY <1>1, <1>2, <1>3, <1>4, <1>5, <1>6, <1>7, <1>8, <1>9, <1>10, <1>11, <1>12,
             <1>13, <1>14, <1>15, <1>16, StepSplit

LEMMA SessionInit == Init => IInv
  <1> SUFFICES ASSUME Init PROVE IInv
    OBVIOUS
  <1>1. pc = "idle" /\ ~ Busy /\ ~ Succeeded /\ ~ Executed /\ ~ Ending
    BY DEF Init, Busy, Succeeded, Executed, InSession, Ending
  <1>2. TypeOK
    <2>1. NoRequest \in Request /\ NoSession \in ServerSession
      BY SessionAssumption DEF NoRequest, Request, NoSession, ServerSession
    <2>2. session \in [1 .. MaxSessions -> [live : BOOLEAN, last : Nat, transaction : Nat,
                                            rows : SUBSET Update]]
      BY <2>1 DEF Init, ServerSession
    <2>3. committed \in [Update -> 0 .. 2]
      BY DEF Init
    <2>4. reply \in [result : {"none", "ok", "lost", "conflict", "error"}, rows : SUBSET Update,
                   transaction : Nat]
      BY DEF Init, NoReply
    <2>5. /\ hasKey \in BOOLEAN /\ autoCommit \in BOOLEAN
          /\ sessionPrepared \in BOOLEAN /\ transactionStarted \in BOOLEAN
          /\ schemaVerId \in Nat
      <3>1. schemaVerId \in 0 .. MaxSchemaVersion /\ hasKey \in BOOLEAN /\ autoCommit \in BOOLEAN
            /\ sessionPrepared = FALSE /\ transactionStarted = FALSE
        BY DEF Init
      <3>2. schemaVerId \in Nat
        BY <3>1
      <3> QED BY <3>1, <3>2
    <2>6. /\ req = NoRequest /\ main = NoRequest /\ rowSet = NULL
          /\ lastSessionId = 0 /\ sessionId = 0 /\ statementId = 0 /\ transactionId = 1
          /\ pc = "idle" /\ call = "none" /\ stage = "main" /\ then = "throw"
          /\ trialCount = 0 /\ createTrialCount = 0 /\ transactions = 0
          /\ pending = {} /\ maybe = {} /\ sent = {} /\ calls = 0 /\ losses = 0
      BY DEF Init
    <2> QED BY <2>1, <2>2, <2>3, <2>4, <2>5, <2>6, SessionAssumption DEF TypeOK
  <1>3. ClientInv /\ MainInv /\ OtherInv /\ UpdateInv
    BY <1>1 DEF Init, ClientInv, MainInv, OtherInv, UpdateInv
  <1>4. SessionsInv
    BY <1>1 DEF Init, SessionsInv, NoSession
  <1>5. TransactionInv /\ RepliesInv
    BY <1>1 DEF Init, TransactionInv, RepliesInv
  <1>6. DurableInv /\ RowSetInv /\ NothingLost /\ AppliedOnce
    BY <1>1 DEF Init, DurableInv, RowSetInv, NothingLost, AppliedOnce
  <1> QED BY <1>1, <1>2, <1>3, <1>4, <1>5, <1>6
          DEF IInv, CommitCompletes, ReadsOwnWrites, RowSetOwnTransaction

(* What a statement makes durable is a row of its own, or the transaction,  *)
(* of which nothing was durable before.                                    *)
LEMMA DurableWhole ==
  ASSUME IInv, NEW s, NEW t, Applies(s, t),
         {u \in Update : committed'[u] > committed[u]} # {}
  PROVE  /\ pending \subseteq {u \in Update : committed'[u] > committed[u]}
         /\ {u \in Update : committed'[u] > committed[u]} \subseteq pending \cup maybe
         /\ \A u \in pending : committed[u] = 0
         /\ call \notin {"abort", "get", "fetchAll"}
  <1> USE DEF IInv
  <1> DEFINE new == {u \in Update : committed'[u] > committed[u]}
  <1>1. /\ SameCall /\ Busy /\ s \in ServerSession
        /\ \A u \in Update :
             committed'[u] = IF u \in Durable(s) /\ committed[u] < 2
                             THEN committed[u] + 1 ELSE committed[u]
        /\ Durable(s) = {} => committed' = committed
    BY AppliesCommon DEF SameCall
  <1>2. new \subseteq Durable(s) /\ Durable(s) # {}
    <2>1. ASSUME NEW u \in Update, u \notin Durable(s) PROVE ~ (committed'[u] > committed[u])
      BY <1>1, <2>1 DEF TypeOK
    <2>2. PICK u \in Update : committed'[u] > committed[u]
      OBVIOUS
    <2> QED BY <2>1, <2>2
  <1>3. /\ (req.statement = "put" /\ req.mode = "auto") \/ req.statement = "commit"
        /\ req.statement = "put" => Durable(s) = {req.row}
    <2>1. t = Applied(s)
      BY DEF Applies
    <2> QED BY <1>1, <1>2, <2>1, AppliedEffect
  <1>4. stage = "main"
    BY <1>1, <1>3 DEF OtherInv, TypeOK
  <1>5. CASE req.statement = "put"
    <2>1. autoCommit /\ req.row \in maybe
      BY <1>1, <1>3, <1>4, <1>5 DEF MainInv, Mode, TransactionMode
    <2>2. pending = {}
      BY <2>1 DEF ClientInv
    <2>3. call \notin {"abort", "get", "fetchAll"}
      BY <1>1, <1>4, <1>5 DEF MainInv
    <2> QED BY <1>2, <1>3, <1>5, <2>1, <2>2, <2>3
  <1>6. CASE req.statement = "commit"
    <2>1. req.session # 0
      BY <1>1, <1>4, <1>6 DEF MainInv
    <2>2. AppliedInSession(s, t)
      BY <1>4, <2>1, AppliesInSession
    <2>3. Durable(s) = s.rows /\ Agree /\ Current = s
      BY <1>6, <2>2, AppliesEnd DEF AppliedInSession
    <2>4. pending \subseteq s.rows /\ s.rows \subseteq pending \cup maybe
          /\ \A u \in s.rows : committed[u] = 0
      BY <2>3 DEF Agree
    <2>5. ASSUME NEW u \in s.rows PROVE u \in new
      <3>1. u \in Update /\ u \in Durable(s) /\ committed[u] = 0
        BY <1>1, <2>3, <2>4 DEF ServerSession
      <3>2. committed'[u] = 1
        BY <1>1, <3>1
      <3> QED BY <3>1, <3>2
    <2>6. call \notin {"abort", "get", "fetchAll"}
      BY <1>1, <1>4, <1>6 DEF MainInv
    <2> QED BY <1>2, <2>3, <2>4, <2>5, <2>6
  <1> QED BY <1>3, <1>5, <1>6

-----------------------------------------------------------------------------
(* The inductive invariant. *)
LEMMA SessionInductive == Spec => []IInv
  <1>1. IInv /\ [Next]_vars => IInv'
    BY SessionStep
  <1> QED BY <1>1, SessionInit, PTL DEF Spec

(* Every variable has its type, and a session the client uses is one it has *)
(* numbered. *)
THEOREM SessionTypeCorrect == Spec => []TypeOK
  BY SessionInductive, PTL DEF IInv

(* Whatever was lost and sent again, and whatever sessions have vanished:   *)
(* when commit or setAutoCommit succeeds, every row that was acknowledged   *)
(* in the transaction is durable.                                           *)
THEOREM SessionCommitCompletes == Spec => []CommitCompletes
  BY SessionInductive, PTL DEF IInv

(* A read in a transaction, also that of fetchAll, sees the rows that were  *)
(* acknowledged in it, or fails.                                            *)
THEOREM SessionReadsOwnWrites == Spec => []ReadsOwnWrites
  BY SessionInductive, PTL DEF IInv

(* An update through a row set is executed in the transaction that has      *)
(* locked its rows: checkTransactionPreserved is enough.                    *)
THEOREM SessionRowSetOwnTransaction == Spec => []RowSetOwnTransaction
  BY SessionInductive, PTL DEF IInv

(* Where no session vanishes, a row without a key is put once, however      *)
(* often its statement is sent.                                             *)
THEOREM SessionAppliedOnce == Spec => []AppliedOnce
  BY SessionInductive, PTL DEF IInv

(* A commit makes the whole of the transaction under way durable, and       *)
(* nothing of a transaction that the application was told is over.          *)
THEOREM SessionAtomicCommit == Spec => AtomicCommit
  <1>1. ASSUME IInv, [Next]_vars
        PROVE  [LET new == {u \in Update : committed'[u] > committed[u]} IN
                new # {} => pending \subseteq new /\ new \subseteq pending \cup maybe]_vars
    <2>1. CASE committed' = committed
      <3>1. {u \in Update : committed'[u] > committed[u]} = {}
        BY <1>1, <2>1 DEF IInv, TypeOK
      <3> QED BY <3>1
    <2>2. ASSUME NEW s, NEW t, Applies(s, t)
          PROVE  LET new == {u \in Update : committed'[u] > committed[u]} IN
                 new # {} => pending \subseteq new /\ new \subseteq pending \cup maybe
      BY <1>1, <2>2, DurableWhole
    <2> QED BY <1>1, <2>1, <2>2, SessionStep
  <1> QED BY <1>1, SessionInductive, PTL DEF Spec, AtomicCommit

-----------------------------------------------------------------------------
(* The refinement of Transaction. *)

DurableRows == {u \in Update : committed[u] > 0}
Untold == [told |-> "nothing"]

(* Nothing happens to the rows, and an answer that was there may be lost. *)
LEMMA Quiet ==
  ASSUME UNCHANGED <<pending, maybe, sent, committed>>, Told' \in {Told, Untold}
  PROVE  [Promise!Next]_(Promise!vars)
  BY DEF Promise!Next, Promise!Tell, Promise!rows, Promise!Nothing, Promise!vars, Untold

LEMMA Ends ==
  ASSUME UNCHANGED <<sent, committed>>, pending' = {}, maybe' = {}, Told' = Untold
  PROVE  [Promise!Next]_(Promise!vars)
  BY DEF Promise!Next, Promise!End, Promise!Nothing, Untold

LEMMA Offers ==
  ASSUME NEW u \in Update \ sent, sent' = sent \cup {u}, maybe' = maybe \cup {u},
         UNCHANGED <<pending, committed>>, Told' = Told
  PROVE  [Promise!Next]_(Promise!vars)
  BY DEF Promise!Next, Promise!Offer

LEMMA NoReplyUntold == pc # "reply" => Told = Untold
  BY DEF Told, Untold, Succeeded

(* The reply of a statement that has changed nothing that is durable. *)
LEMMA Tells ==
  ASSUME IInv, CommitCompletes', pc = "send", UNCHANGED <<pending, maybe, sent, stage, call,
                                     transactionStarted, committed>>,
         stage = "main" /\ call \in {"get", "fetchAll"} /\ transactionStarted =>
           pending \subseteq reply'.rows /\ reply'.rows \subseteq pending \cup maybe
  PROVE  [Promise!Next]_(Promise!vars)
  <1>1. TypeOK /\ Busy
    BY DEF IInv, Busy
  <1>2. CASE Told' = Untold
    BY <1>2, Quiet
  <1>3. CASE Told' # Untold /\ call \in {"commit", "setAutoCommit"}
    <2>1. Told' = Promise!Committed /\ Succeeded' /\ stage' = "main" /\ call' = call
      BY <1>3 DEF Told, Untold, Promise!Committed
    <2>2. pending \subseteq DurableRows
      BY <1>1, <1>3, <2>1 DEF CommitCompletes, DurableRows, TypeOK
    <2> QED BY <2>1, <2>2
            DEF Promise!Next, Promise!Tell, Promise!rows, DurableRows
  <1>4. CASE Told' # Untold /\ call = "abort"
    <2>1. Told' = Promise!Aborted /\ stage = "main"
      BY <1>4 DEF Told, Untold, Promise!Aborted
    <2>2. ~ autoCommit
      BY <1>1, <1>4, <2>1 DEF IInv, MainInv, ClientInv
    <2>3. (pending \cup maybe) \cap DurableRows = {}
      BY <1>4, <2>2 DEF IInv, DurableInv, DurableRows
    <2> QED BY <2>1, <2>3
            DEF Promise!Next, Promise!Tell, Promise!rows, DurableRows
  <1>5. CASE Told' # Untold /\ call \in {"get", "fetchAll"}
    <2>1. /\ Told' = Promise!Read(reply'.rows)
          /\ stage = "main" /\ transactionStarted
      BY <1>5 DEF Told, Untold, Promise!Read
    <2>2. Promise!Whole(reply'.rows) /\ reply'.rows \in SUBSET Update
      BY <1>1, <1>5, <2>1 DEF Promise!Whole, TypeOK
    <2> QED BY <2>1, <2>2 DEF Promise!Next, Promise!Tell, Promise!rows
  <1>6. Told' # Untold => call \in {"commit", "setAutoCommit", "abort", "get", "fetchAll"}
    BY DEF Told, Untold
  <1> QED BY <1>2, <1>3, <1>4, <1>5, <1>6

(* A read in the transaction is one of its session. *)
LEMMA ReadsAgree ==
  ASSUME IInv, Busy, stage = "main", call \in {"get", "fetchAll"}, transactionStarted
  PROVE  /\ req.statement = "get" /\ req.session = sessionId /\ req.session # 0
         /\ ~ req.create
         /\ Current.live => Agree
  <1>1. /\ req.statement = "get" /\ req.session = sessionId /\ req.session # 0
        /\ ~ req.create
    BY DEF IInv, MainInv
  <1>2. Current.live => Agree
    BY DEF IInv, TransactionInv, Ending
  <1> QED BY <1>1, <1>2

LEMMA RepeatsPromise ==
  ASSUME IInv, IInv', Repeats
  PROVE  [Promise!Next]_(Promise!vars)
  <1>1. /\ pc = "send" /\ Busy /\ CommitCompletes'
        /\ UNCHANGED <<pending, maybe, sent, stage, call, transactionStarted, committed>>
    BY DEF Repeats, IInv, Busy, state, history, server
  <1>2. ASSUME stage = "main", call \in {"get", "fetchAll"}, transactionStarted
        PROVE  pending \subseteq reply'.rows /\ reply'.rows \subseteq pending \cup maybe
    BY <1>1, <1>2, ReadsAgree DEF Repeats, OkReply, Current, Agree
  <1> QED BY <1>1, <1>2, Tells

LEMMA AppliesPromise ==
  ASSUME IInv, IInv', NEW s, NEW t, Applies(s, t)
  PROVE  [Promise!Next]_(Promise!vars)
  <1>1. /\ pc = "send" /\ Busy /\ CommitCompletes' /\ TypeOK /\ TypeOK'
        /\ UNCHANGED <<pending, maybe, sent, stage, call, transactionStarted>>
    BY DEF Applies, IInv, Busy, state, history
  <1>2. CASE committed' = committed
    <2>1. ASSUME stage = "main", call \in {"get", "fetchAll"}, transactionStarted
          PROVE  pending \subseteq reply'.rows /\ reply'.rows \subseteq pending \cup maybe
      <3>1. /\ req.statement = "get" /\ req.session # 0 /\ req.session = sessionId
            /\ ~ req.create /\ (Current.live => Agree)
        BY <1>1, <2>1, ReadsAgree
      <3>2. s = Current /\ s.live
        BY <3>1 DEF Applies, Target, Current, Missing
      <3>3. t = s
        BY <3>1, AppliesCommon, AppliedEffect DEF Applies
      <3>4. reply'.rows = Current.rows
        BY <3>2, <3>3 DEF Applies, OkReply
      <3> QED BY <3>1, <3>2, <3>4 DEF Agree
    <2> QED BY <1>1, <1>2, <2>1, Tells
  <1>3. CASE committed' # committed
    <2> DEFINE new == {u \in Update : committed'[u] > committed[u]}
               S == DurableRows' \ DurableRows
    <2>1. \A u \in Update : committed'[u] = committed[u] \/ committed'[u] = committed[u] + 1
      BY AppliesCommon
    <2>2. committed \in [Update -> 0 .. 2] /\ committed' \in [Update -> 0 .. 2]
      BY <1>1 DEF TypeOK
    <2>3. \E u \in Update : committed'[u] # committed[u]
      <3>1. (\A u \in Update : committed'[u] = committed[u]) => committed' = committed
        BY <2>2
      <3> QED BY <1>3, <3>1
    <2>4. new # {}
      BY <2>1, <2>2, <2>3
    <2>5. /\ pending \subseteq new /\ new \subseteq pending \cup maybe
          /\ \A u \in pending : committed[u] = 0
          /\ call \notin {"abort", "get", "fetchAll"}
      BY <2>4, DurableWhole
    <2>6. /\ DurableRows \subseteq DurableRows' /\ S \subseteq new
          /\ pending \subseteq S
      BY <2>1, <2>2, <2>5 DEF DurableRows
    <2>7. Promise!Whole(S) /\ S \in SUBSET Update /\ S \cap DurableRows = {}
          /\ DurableRows' = DurableRows \cup S
      BY <2>5, <2>6 DEF Promise!Whole, DurableRows
    <2>8. Told' \in {Promise!Nothing, Promise!Committed}
      BY <1>1, <2>5 DEF Told, Promise!Nothing, Promise!Committed
    <2> HIDE DEF S
    <2> QED BY <1>1, <2>7, <2>8 DEF Promise!Next, Promise!Commit, Promise!rows, DurableRows
  <1> QED BY <1>2, <1>3

LEMMA MainDonePromise ==
  ASSUME IInv, IInv', MainDone
  PROVE  [Promise!Next]_(Promise!vars)
  <1>1. /\ Busy /\ stage = "main" /\ pc' = "idle" /\ UNCHANGED <<sent, committed>>
        /\ IF transactionStarted'
           THEN /\ pending' = pending \cup ({req.row} \ {NULL})
                /\ maybe' = maybe \ {req.row}
           ELSE pending' = {} /\ maybe' = {}
    BY DEF MainDone, Succeeded, Return, Busy, server
  <1>2. Told' = Untold
    <2>1. pc' # "reply"
      BY <1>1
    <2> QED BY <2>1 DEF Told, Untold, Succeeded
  <1>3. CASE ~ transactionStarted'
    BY <1>1, <1>2, <1>3, Ends
  <1>4. CASE transactionStarted' /\ req.row = NULL
    <2>1. NULL \notin maybe
      BY SessionAssumption DEF IInv, TypeOK
    <2> QED BY <1>1, <1>2, <1>4, <2>1, Quiet
  <1>5. CASE transactionStarted' /\ req.row # NULL
    <2>1. req.row \in maybe /\ call \in {"put", "update"}
      BY <1>1, <1>5 DEF IInv, MainInv
    <2>2. req.row \in Update /\ Told = Untold
      BY <2>1 DEF IInv, TypeOK, Told, Untold
    <2>3. Promise!Acknowledge(req.row)
      BY <1>1, <1>2, <1>5, <2>1, <2>2 DEF Promise!Acknowledge
    <2> QED BY <2>2, <2>3 DEF Promise!Next
  <1> QED BY <1>3, <1>4, <1>5

LEMMA TransactionStep ==
  ASSUME IInv, IInv', [Next]_vars
  PROVE  [Promise!Next]_(Promise!vars)
  <1>0. pc' # "reply" => Told' = Untold
    BY DEF Told, Untold, Succeeded
  <1>1. CASE NewStatement
    BY <1>0, <1>1, NoReplyUntold, Quiet, Offers DEF NewStatement, server
  <1>2. CASE \E u \in Update : CreatesForRow(u)
    BY <1>0, <1>2, NoReplyUntold, Offers DEF CreatesForRow, CreateSession, Send, server
  <1>3. CASE SwitchCommitMode
    BY <1>0, <1>3, Quiet DEF SwitchCommitMode, Call, history, server
  <1>4. CASE Close
    BY <1>0, <1>4, Quiet DEF Close, Call, Send, history, server
  <1>5. CASE Answered
    <2>1. Told' = Untold
      BY <1>5 DEF Answered, Told, Untold, Succeeded, NoReply
    <2> QED BY <1>5, <2>1, Quiet DEF Answered, history, server
  <1>6. CASE Repeats
    BY <1>6, RepeatsPromise
  <1>7. CASE \E s, t : Applies(s, t)
    BY <1>7, AppliesPromise
  <1>8. CASE Lose
    <2>1. Told' = Told
      BY <1>8 DEF Lose, Told, Succeeded, state
    <2> QED BY <1>8, <2>1, Quiet DEF Lose, history
  <1>9. CASE Retry
    BY <1>0, <1>9, Quiet DEF Retry, Send, history, server
  <1>10. CASE InNewSession
    BY <1>0, <1>10, Quiet DEF InNewSession, history, server
  <1>11. CASE MainDone
    BY <1>11, MainDonePromise
  <1>12. CASE CleansUp
    BY <1>0, <1>12, Quiet DEF CleansUp, Send, history, server
  <1>13. CASE CreatesAgain
    BY <1>0, <1>13, Quiet DEF CreatesAgain, CreateSession, Send, history, server
  <1>14. CASE Thrown
    BY <1>0, <1>14, Quiet, Ends DEF Thrown, Throw, Return, server
  <1>15. CASE Closed
    BY <1>0, <1>15, Ends DEF Closed, server
  <1>16. CASE UNCHANGED vars
    <2>1. Told' = Told
      BY <1>16 DEF vars, Told, Succeeded, state
    <2> QED BY <1>16, <2>1, Quiet DEF vars, history, server
  <1> QED BY <1>1, <1>2, <1>3, <1>4, <1>5, <1>6, <1>7, <1>8, <1>9, <1>10, <1>11, <1>12,
             <1>13, <1>14, <1>15, <1>16, StepSplit

(* What a container promises of its transactions holds whatever is lost,    *)
(* repeated and refused (executeStatement, commit, abort, closeSession):    *)
(* the session implements Transaction.                                     *)
THEOREM SessionImplementsTransaction == Spec => ImplementsTransaction
  <1>1. Init => Promise!Init
    BY DEF Init, Promise!Init, Promise!Nothing, Told, Succeeded
  <1>2. IInv /\ IInv' /\ [Next]_vars => [Promise!Next]_(Promise!vars)
    BY TransactionStep
  <1> QED BY <1>1, <1>2, SessionInductive, PTL DEF Spec, ImplementsTransaction, Promise!Spec
=============================================================================
