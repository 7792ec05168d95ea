--------------------------- MODULE StoreContainers --------------------------
(***************************************************************************)
(* One GSGridStore with a container cache, the GSContainer handles that    *)
(* its thread opens, and the sessions they leave on the server (client.cpp:*)
(* GSGridStoreTag, GSContainerTag).  The store belongs to one thread;      *)
(* between the requests of that thread the server may lose sessions, and   *)
(* other clients may alter and drop containers.  All containers are in one *)
(* partition.  Session creation is the one of the current protocol, where  *)
(* the client generates the session ids.                                   *)
(***************************************************************************)
EXTENDS ContainerCache

CONSTANTS
  Key,              \* container names
  Container,        \* container ids: a new one for each container created
  Handle,           \* GSContainer objects
  MAX_SESSION_REPAIR_COUNT,
  ConnectionsFail,  \* whether a request may be given up by the channel
  MaxSchemaId,      \* bound on the schemas that the cache gets
  MaxVersion,       \* bound on the schema versions of a container
  MaxSessionId,     \* bound on the sessions the store generates
  MaxStatement      \* bound on the statements of a session

ASSUME StoreAssumption ==
  /\ MAX_SESSION_REPAIR_COUNT \in Nat
  /\ ConnectionsFail \in BOOLEAN
  /\ MaxSchemaId \in Nat /\ MaxVersion \in Nat
  /\ MaxSessionId \in Nat /\ MaxStatement \in Nat

VARIABLES
  cache,            \* containerCache_ of the context
  handle,           \* the open handles
  lastSessionId,    \* lastSessionId_ of the context
  request,          \* the container and session the request buffer names
  call,             \* the statement in progress
  phase,            \* of the store: "open", "closing", "closed"
  remote,           \* on the server: the containers by name
  used,             \* the container ids already given
  sessions          \* on the server: the open sessions of this store

client == <<cache, handle, lastSessionId, request, call, phase>>
server == <<remote, used, sessions>>
storeVars == <<client, server>>

NoCall == [op |-> "none"]
NoRequest == [container |-> NoSession, session |-> 0]
Naming(container, session) == [container |-> container, session |-> session]

StoreInit ==
  /\ cache = EmptyCache
  /\ handle = <<>>
  /\ lastSessionId = 0
  /\ request = NoRequest
  /\ call = NoCall
  /\ phase = "open"
  /\ remote = <<>>
  /\ used = {}
  /\ sessions = <<>>

Idle == phase = "open" /\ call = NoCall

-----------------------------------------------------------------------------
(* The server, as the client sees it. *)

Exists(container, version) ==
  \E k \in DOMAIN remote :
    remote[k].container = container /\ remote[k].version = version

SessionOpen(session, container) ==
  session \in DOMAIN sessions /\ sessions[session].container = container

(* The sessions after CLOSE_SESSION for what the request buffer names. *)
SessionsWithout(named) ==
  IF SessionOpen(named.session, named.container)
  THEN Without(sessions, named.session) ELSE sessions

(* CLOSE_SESSION is executed, or lost with its connection. *)
CloseOnServer(named) ==
  \/ sessions' = SessionsWithout(named)
  \/ ConnectionsFail /\ UNCHANGED sessions

LoseSession ==
  /\ \E s \in DOMAIN sessions : sessions' = Without(sessions, s)
  /\ UNCHANGED <<client, remote, used>>

(* Another client alters or drops a container. *)
AlterByOther(k) ==
  /\ k \in DOMAIN remote
  /\ remote[k].version < MaxVersion
  /\ remote' = [remote EXCEPT ![k].version = @ + 1]
  /\ UNCHANGED <<client, used, sessions>>

DropByOther(k) ==
  /\ k \in DOMAIN remote
  /\ remote' = Without(remote, k)
  /\ UNCHANGED <<client, used, sessions>>

-----------------------------------------------------------------------------
(* Opening and dropping containers. *)

NewHandle(k, container, version) ==
  [key |-> k, container |-> container, version |-> version,
   session |-> 0, statement |-> 0, prepared |-> FALSE, started |-> FALSE,
   auto |-> TRUE, cacheDisabled |-> FALSE]

(* getContainer, and putContainer of an unmodifiable schema, with a cached *)
(* schema that matches the binding. *)
OpenCached(h, k) ==
  /\ Idle
  /\ h \in Handle \ DOMAIN handle
  /\ k \in DOMAIN cache.schemaCache
  /\ LET schema == cache.schemaCache[k] IN
       handle' = With(handle, h, NewHandle(k, schema.container, schema.version))
  /\ UNCHANGED <<cache, lastSessionId, request, call, phase, server>>

(* The same without a matching schema: the server is asked for it. *)
OpenRemote(h, k) ==
  /\ Idle
  /\ h \in Handle \ DOMAIN handle
  /\ k \in DOMAIN remote
  /\ cache.lastSchemaCacheId < MaxSchemaId
  /\ LET container == remote[k].container
         version == remote[k].version IN
       /\ handle' = With(handle, h, NewHandle(k, container, version))
       /\ cache' = CacheSchema(cache, k, container, version)
  /\ request' = NoRequest
  /\ UNCHANGED <<lastSessionId, call, phase, server>>

(* putContainer creates the container, or alters its schema. *)
PutContainer(h, k) ==
  /\ Idle
  /\ h \in Handle \ DOMAIN handle
  /\ cache.lastSchemaCacheId < MaxSchemaId
  /\ \/ /\ k \notin DOMAIN remote
        /\ \E c \in Container \ used :
             /\ remote' = With(remote, k, [container |-> c, version |-> 0])
             /\ used' = used \cup {c}
     \/ /\ k \in DOMAIN remote
        /\ remote[k].version < MaxVersion
        /\ remote' = [remote EXCEPT ![k].version = @ + 1]
        /\ UNCHANGED used
  /\ LET schema == remote'[k] IN
       /\ handle' =
            With(handle, h, NewHandle(k, schema.container, schema.version))
       /\ cache' = CacheSchema(cache, k, schema.container, schema.version)
  /\ request' = NoRequest
  /\ UNCHANGED <<lastSessionId, call, phase, sessions>>

DropContainer(k) ==
  /\ Idle
  /\ remote' = IF k \in DOMAIN remote THEN Without(remote, k) ELSE remote
  /\ cache' = RemoveSchema(cache, k)
  /\ request' = NoRequest
  /\ UNCHANGED <<handle, lastSessionId, call, phase, used, sessions>>

-----------------------------------------------------------------------------
(* Statements.  A query needs no session outside a transaction, an update  *)
(* of a container without row key needs one that exists already, a locking *)
(* statement may create its own on the way.                                *)

SessionRequired(h, op) == op = "query" => ~ handle[h].auto /\ handle[h].started

Call(h, op, next) ==
  [op |-> op, handle |-> h, trial |-> 0, next |-> next,
   version |-> handle[h].version]

(* prepareSession *)
StartStatement(h, op) ==
  /\ Idle
  /\ h \in DOMAIN handle
  /\ op = "lock" => ~ handle[h].auto
  /\ op \in {"commit", "setAutoCommit"} => ~ handle[h].auto /\ handle[h].started
  /\ IF SessionRequired(h, op) /\ ~ handle[h].prepared
     THEN IF op = "update"
          THEN call' = Call(h, op, "create") /\ UNCHANGED <<handle, lastSessionId>>
          ELSE /\ lastSessionId < MaxSessionId
               /\ lastSessionId' = lastSessionId + 1
               /\ handle' = [handle EXCEPT ![h].session = lastSessionId']
               /\ call' = Call(h, op, "execute")
     ELSE call' = Call(h, op, "execute") /\ UNCHANGED <<handle, lastSessionId>>
  /\ UNCHANGED <<cache, request, phase, server>>

(* setAutoCommit when there is no transaction to commit. *)
SetAutoCommit(h) ==
  /\ Idle
  /\ h \in DOMAIN handle
  /\ ~ (handle[h].started /\ ~ handle[h].auto)
  /\ handle' = [handle EXCEPT ![h].auto = ~ @, ![h].started = FALSE]
  /\ UNCHANGED <<cache, lastSessionId, request, call, phase, server>>

(* disableCache *)
DisableCache(h) ==
  cache' = IF handle[h].cacheDisabled THEN cache
           ELSE RemoveSchema(cache, handle[h].key)

(* closeSession(true) and setSessionIdDirect(0, true), or the end of the   *)
(* handle: CLOSE_SESSION goes through the request buffer of the statement. *)
InvalidateSession(h) ==
  IF handle[h].session = 0
  THEN UNCHANGED sessions
  ELSE CloseOnServer(Naming(handle[h].container, handle[h].session))

(* Mutant: only the statement number of the lost session is forgotten. *)
ForgottenNumber(h, disabled) ==
  [handle EXCEPT ![h].statement = 0, ![h].prepared = FALSE,
                 ![h].started = FALSE, ![h].cacheDisabled = @ \/ disabled]

Forgotten(h, disabled) ==
  [handle EXCEPT ![h].session = 0, ![h].statement = 0, ![h].prepared = FALSE,
                 ![h].started = FALSE, ![h].cacheDisabled = @ \/ disabled]

(* Mutant: the statement number of the cached session is forgotten. *)
TakeCachedSessionOnly ==
  /\ call # NoCall /\ call.next = "create"
  /\ LET h == call.handle
         info == CachedSession(cache, handle[h].container) IN
       /\ info # NoSession
       /\ cache' = TakeSession(cache, handle[h].container)
       /\ handle' = [handle EXCEPT ![h].session = info.session,
                                   ![h].prepared = TRUE]
  /\ call' = [call EXCEPT !.next = "execute"]
  /\ UNCHANGED <<lastSessionId, request, phase, server>>

(* createSession, with a session in the cache. *)
TakeCachedSession ==
  /\ call # NoCall /\ call.next = "create"
  /\ LET h == call.handle
         info == CachedSession(cache, handle[h].container) IN
       /\ info # NoSession
       /\ cache' = TakeSession(cache, handle[h].container)
       /\ handle' = [handle EXCEPT ![h].session = info.session,
                                   ![h].statement = info.statement,
                                   ![h].prepared = TRUE]
  /\ call' = [call EXCEPT !.next = "execute"]
  /\ UNCHANGED <<lastSessionId, request, phase, server>>

(* createSession, with a request to the server. *)
CreateSession ==
  /\ call # NoCall /\ call.next = "create"
  /\ lastSessionId < MaxSessionId
  /\ LET h == call.handle
         container == handle[h].container
         opened == With(sessions, lastSessionId',
                        [container |-> container, statement |-> 0]) IN
       /\ CachedSession(cache, container) = NoSession
       /\ lastSessionId' = lastSessionId + 1
       /\ \/ \* done
             /\ \E k \in DOMAIN remote : remote[k].container = container
             /\ sessions' = opened
             /\ request' = Naming(container, lastSessionId')
             /\ handle' = [handle EXCEPT ![h].session = lastSessionId',
                                         ![h].prepared = TRUE]
             /\ call' = [call EXCEPT !.next = "execute"]
             /\ UNCHANGED cache
          \/ \* refused: there is no such container, and the handle may have
             \* the number of a session that it does not know to exist
             /\ \A k \in DOMAIN remote : remote[k].container # container
             /\ InvalidateSession(h)
             /\ request' = Naming(container, IF handle[h].session = 0
                                             THEN lastSessionId'
                                             ELSE handle[h].session)
             /\ DisableCache(h)
             /\ handle' = Forgotten(h, TRUE)
             /\ call' = NoCall
          \/ \* lost, before or after its execution
             /\ ConnectionsFail
             /\ sessions' = opened \/ UNCHANGED sessions
             /\ request' = Naming(container, lastSessionId')
             /\ call' = NoCall
             /\ UNCHANGED <<cache, handle>>
  /\ UNCHANGED <<phase, remote, used>>

(* The statement id of the call: it advances in a session only. *)
NextStatement ==
  handle[call.handle].statement
    + IF SessionRequired(call.handle, call.op) THEN 1 ELSE 0

(* The request of the call is in the request buffer. *)
Sent ==
  /\ call # NoCall /\ call.next = "execute"
  /\ NextStatement <= MaxStatement
  /\ request' = Naming(handle[call.handle].container,
                       IF SessionRequired(call.handle, call.op)
                       THEN handle[call.handle].session ELSE 0)

(* What the statement does to the sessions: it counts in its own, which it *)
(* creates when the handle does not know it to exist.                      *)
Executed ==
  LET h == call.handle IN
  IF SessionRequired(h, call.op)
  THEN With(sessions, handle[h].session,
            [container |-> handle[h].container, statement |-> NextStatement])
  ELSE sessions

(* The server has what the statement refers to. *)
SchemaFound == Exists(handle[call.handle].container, call.version)
SessionFound ==
  LET h == call.handle IN
  SessionRequired(h, call.op) /\ handle[h].prepared
    => SessionOpen(handle[h].session, handle[h].container)

Commits == call.op \in {"commit", "setAutoCommit"}

StatementDone ==
  /\ Sent
  /\ SchemaFound /\ SessionFound
  /\ sessions' = Executed
  /\ LET h == call.handle
         required == SessionRequired(h, call.op) IN
       handle' = [handle EXCEPT
         ![h].statement = NextStatement,
         ![h].prepared = @ \/ required,
         ![h].started = IF Commits THEN FALSE
                        ELSE @ \/ (required /\ ~ handle[h].auto),
         ![h].auto = @ \/ call.op = "setAutoCommit"]
  /\ call' = NoCall
  /\ UNCHANGED <<cache, lastSessionId, phase, remote, used>>

(* The channel gives up: the statement may have been executed. *)
GiveUp ==
  /\ Sent
  /\ ConnectionsFail
  /\ \/ SchemaFound /\ SessionFound /\ sessions' = Executed
     \/ UNCHANGED sessions
  /\ handle' = [handle EXCEPT
       ![call.handle].statement = NextStatement,
       ![call.handle].started = @ /\ ~ Commits]
  /\ call' = NoCall
  /\ UNCHANGED <<cache, lastSessionId, phase, remote, used>>

-----------------------------------------------------------------------------
(* Failed statements. *)

(* The server may refuse CLOSE_SESSION for a session that it has lost, and *)
(* a refused statement of any kind disables the cache of its container.    *)
CloseMayBeRefused(h) ==
  handle[h].session # 0 /\ ~ SessionOpen(handle[h].session, handle[h].container)

(* The session error is one that a new session can repair. *)
Repairable(missing) ==
  /\ missing = "session"
  /\ ~ handle[call.handle].started

(* The server misses the schema or the session of the statement.  The      *)
(* session of the handle is closed.  Outside a transaction the statement   *)
(* is repaired, that is, sent again in another session: its copy is taken  *)
(* after CLOSE_SESSION was written over its head, so its schema version    *)
(* is 0.                                                                   *)
Refuse(missing) ==
  LET h == call.handle
      repair == Repairable(missing) /\ call.trial < MAX_SESSION_REPAIR_COUNT IN
  /\ Sent
  /\ missing = "schema" => ~ SchemaFound
  /\ missing = "session" => ~ SessionFound
  /\ InvalidateSession(h)
  /\ \E closeRefused \in {FALSE, CloseMayBeRefused(h)} :
       LET disabled == closeRefused \/ ~ Repairable(missing) IN
       /\ IF disabled THEN DisableCache(h) ELSE UNCHANGED cache
       /\ handle' = Forgotten(h, disabled)
  /\ call' = IF repair THEN [call EXCEPT !.trial = @ + 1, !.next = "create",
                                         !.version = 0]
             ELSE NoCall
  /\ UNCHANGED <<lastSessionId, phase, remote, used>>

-----------------------------------------------------------------------------
(* Closing handles and the store. *)

(* closeSession(false) of a container that is closed: its session is       *)
(* cached.  A session that has to make room is closed on the server with   *)
(* whatever the request buffer holds: the request for it was written into  *)
(* the response buffer.                                                    *)
CloseContainer(h) ==
  LET old == handle[h]
      result == CacheSession(cache, old.container, old.session, old.statement) IN
  /\ phase # "closed" /\ call = NoCall
  /\ h \in DOMAIN handle
  /\ handle' = Without(handle, h)
  /\ \/ /\ old.session = 0
        /\ UNCHANGED <<cache, request, sessions>>
     \/ /\ old.session # 0 /\ old.started
        /\ request' = Naming(old.container, old.session)
        /\ CloseOnServer(request')
        /\ \/ UNCHANGED cache
           \/ CloseMayBeRefused(h) /\ DisableCache(h)
     \/ /\ old.session # 0 /\ ~ old.started
        /\ cache' = result.cache
        /\ IF result.old = NoSession THEN UNCHANGED sessions
           ELSE CloseOnServer(request)
        /\ UNCHANGED request
  /\ UNCHANGED <<lastSessionId, call, phase, remote, used>>

(* gsCloseGridStore closes the cached sessions first and the containers    *)
(* that are still open next (CloseContainer).                              *)
CloseStore ==
  LET cached == {cache.sessionCache[c].session : c \in DOMAIN cache.sessionCache} IN
  /\ Idle
  /\ phase' = "closing"
  /\ cache' = ForgetSessions(cache)
  /\ request' = IF cached = {} THEN request ELSE NoRequest
  /\ \/ sessions' = Restrict(sessions, DOMAIN sessions \ cached)
     \/ ConnectionsFail /\ UNCHANGED sessions
  /\ UNCHANGED <<handle, lastSessionId, call, remote, used>>

StoreClosed ==
  /\ phase = "closing" /\ handle = <<>>
  /\ phase' = "closed"
  /\ UNCHANGED <<cache, handle, lastSessionId, request, call, server>>

-----------------------------------------------------------------------------
Op == {"query", "update", "lock", "commit", "setAutoCommit"}

StoreNext ==
  \/ \E h \in Handle :
       \/ \E k \in Key : OpenCached(h, k) \/ OpenRemote(h, k) \/ PutContainer(h, k)
       \/ \E op \in Op : StartStatement(h, op)
       \/ SetAutoCommit(h)
       \/ CloseContainer(h)
  \/ \E k \in Key : DropContainer(k) \/ AlterByOther(k) \/ DropByOther(k)
  \/ TakeCachedSession \/ CreateSession
  \/ StatementDone \/ GiveUp \/ Refuse("schema") \/ Refuse("session")
  \/ LoseSession
  \/ CloseStore \/ StoreClosed

StoreSpec == StoreInit /\ [][StoreNext]_storeVars

-----------------------------------------------------------------------------
SessionId == 1..MaxSessionId

StoreTypeOK ==
  /\ DOMAIN cache.schemaCache \subseteq Key
  /\ DOMAIN cache.sessionCache \subseteq Container
  /\ DOMAIN handle \subseteq Handle
  /\ \A h \in DOMAIN handle :
       handle[h] \in [key : Key, container : Container, version : 0..MaxVersion,
                      session : {0} \cup SessionId,
                      statement : 0..MaxStatement, prepared : BOOLEAN,
                      started : BOOLEAN, auto : BOOLEAN, cacheDisabled : BOOLEAN]
  /\ lastSessionId \in 0..MaxSessionId
  /\ call # NoCall => /\ call.op \in Op /\ call.handle \in DOMAIN handle
                      /\ (call.next = "execute"
                          /\ SessionRequired(call.handle, call.op))
                           => handle[call.handle].session # 0
  /\ DOMAIN remote \subseteq Key
  /\ used \subseteq Container
  /\ DOMAIN sessions \subseteq SessionId

(* The cache, of whatever type its elements are, holds no more schemas than *)
(* containerCacheSize, the two structures that it keeps for them agree, and *)
(* whatever sessionKeyMap_ still lists is a cached session: the branches    *)
(* for an eviction that finds nothing are dead.                             *)
CacheConsistent ==
  /\ StoreTypeOK
  /\ Cardinality(DOMAIN cache.schemaCache) <= CacheSize
  /\ \A k \in DOMAIN cache.schemaCache :
       LET id == cache.schemaCache[k].id IN
       id \in DOMAIN cache.schemaNameMap /\ cache.schemaNameMap[id] = k
  /\ \A id \in DOMAIN cache.schemaNameMap :
       /\ cache.schemaNameMap[id] \in DOMAIN cache.schemaCache
       /\ cache.schemaCache[cache.schemaNameMap[id]].id = id
  /\ \A id \in DOMAIN cache.sessionKeyMap :
       /\ cache.sessionKeyMap[id] \in DOMAIN cache.sessionCache
       /\ cache.sessionCache[cache.sessionKeyMap[id]].id = id

(* No two handles work in one session, and none in a session that the      *)
(* cache may give to another handle.                                       *)
SessionUsedOnce ==
  /\ \A g, h \in DOMAIN handle :
       g # h /\ handle[g].session # 0 => handle[g].session # handle[h].session
  /\ \A c, d \in DOMAIN cache.sessionCache :
       c # d => cache.sessionCache[c].session # cache.sessionCache[d].session
  /\ \A h \in DOMAIN handle, c \in DOMAIN cache.sessionCache :
       handle[h].session # cache.sessionCache[c].session

(* A statement is never numbered like one that its session has executed:   *)
(* the server would take it for a repetition and not execute it.           *)
StatementsNew ==
  /\ \A h \in DOMAIN handle : handle[h].session \in DOMAIN sessions =>
       sessions[handle[h].session].statement <= handle[h].statement
  /\ \A c \in DOMAIN cache.sessionCache :
       LET info == cache.sessionCache[c] IN
       info.session \in DOMAIN sessions =>
         sessions[info.session].statement <= info.statement

(* Where a session number is: with a handle, in the cache, or nowhere. *)
Whereabouts(s) ==
  LET holders == {h \in DOMAIN handle : handle[h].session = s}
      kept == {c \in DOMAIN cache.sessionCache : cache.sessionCache[c].session = s}
  IN IF s > lastSessionId THEN [stage |-> "new"]
     ELSE IF holders # {}
     THEN LET h == CHOOSE x \in holders : TRUE IN
          [stage |-> "held", container |-> handle[h].container,
           statement |-> handle[h].statement]
     ELSE IF kept # {}
     THEN LET c == CHOOSE x \in kept : TRUE IN
          [stage |-> "kept", container |-> c,
           statement |-> cache.sessionCache[c].statement]
     ELSE [stage |-> "gone"]

Ledger == INSTANCE SessionLedger WITH session <- [s \in SessionId |-> Whereabouts(s)]

(* Through the handles and the cache a session passes from one container   *)
(* object to the next as in a SessionLedger: it stays with its container,  *)
(* no statement number comes twice, whether statements fail, are repaired  *)
(* or given up, and a session that no handle and no cache entry has any    *)
(* more never comes back.                                                  *)
ImplementsLedger == Ledger!Spec

(* Closing the store releases what it holds on the server. *)
ClosedStoreHoldsNothing == phase = "closed" => sessions = <<>>
=============================================================================
