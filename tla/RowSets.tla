------------------------------ MODULE RowSets -------------------------------
(***************************************************************************)
(* The queries and the row sets of a GSContainer (client.cpp): who refers  *)
(* to whom, how a row set reads on (GS_FETCH_SIZE: from the result that    *)
(* the node keeps; GS_FETCH_PARTIAL_EXECUTION: by another execution), and  *)
(* how the container closes what belongs to it.                            *)
(*                                                                         *)
(* Addresses are numbers: activeResources_ is an ordered set of pointers,  *)
(* and the allocator may give any address that is free.  The node is the   *)
(* one the client is written for: a reply with no row ends the result, and *)
(* the state of a partial execution never goes back.                       *)
(***************************************************************************)
EXTENDS Naturals, Sequences, FiniteSets, FiniteSetsExt

CONSTANTS
  MaxAddress,     \* bound on the resources at one time
  MaxQueries,     \* bound on the queries at one time
  MaxRows,        \* bound on the rows of a result
  MaxStatus,      \* bound on the states of a partial execution
  MaxCalls,       \* bound on the other calls of the application
  MaxBreaks,      \* bound on the failures of the connection
  NULL

Address == 1 .. MaxAddress

Query ==
  [type : {"query"}, lastRowSet : Address \cup {NULL}, visible : BOOLEAN,
   closed : BOOLEAN]
RowSet ==
  [type : {"rowSet"}, refs : Nat \ {0}, closed : BOOLEAN, rows : 0 .. MaxRows,
   remaining : 0 .. MaxRows, status : 0 .. MaxStatus,
   connection : {"none", "current", "old"}, lost : BOOLEAN,
   transactionId : Nat, started : BOOLEAN, unread : Nat]

ASSUME RowSetsAssumption ==
  /\ MaxAddress \in Nat /\ MaxQueries \in Nat
  /\ MaxRows \in Nat \ {0}     \* an execution may give a row
  /\ MaxStatus \in Nat /\ MaxCalls \in Nat /\ MaxBreaks \in Nat
  /\ NULL \notin Nat \cup Query \cup RowSet

VARIABLES
  resource,       \* the queries and row sets, or NULL for no resource
  handle,         \* how many handles of each the application has
  server,         \* the row sets whose result the node keeps, and the
                  \* connection is the one it came by
  closed, referenceCount,                         \* GSContainerTag
  autoCommit, transactionId, transactionStarted,
  pc, subject, then,   \* the call under way, its row set, and what comes next
  stack,          \* the iterations of closeSubResources, innermost last
  aborted,        \* history: the transactions aborted
  calls, breaks   \* how many so far

heap == <<resource, server, breaks>>
transaction == <<autoCommit, transactionId, transactionStarted>>
control == <<pc, subject, then, stack>>
vars == <<heap, handle, closed, referenceCount, transaction, control, aborted,
          calls>>

Active == {a \in Address : resource[a] # NULL}
IsQuery(a) == resource[a] # NULL /\ resource[a].type = "query"
IsRowSet(a) == resource[a] # NULL /\ resource[a].type = "rowSet"

(* The fetch option when a query is executed: "execute" for                 *)
(* GS_FETCH_PARTIAL_EXECUTION, "fetch" for GS_FETCH_SIZE or none, where the *)
(* reply has all the rows.                                                 *)
Mode == {"fetch", "execute"}

Init ==
  /\ resource = [a \in Address |-> NULL]
  /\ handle = [a \in Address |-> 0]
  /\ server = {}
  /\ closed = FALSE /\ referenceCount = 1
  /\ autoCommit \in BOOLEAN     \* setAutoCommit(FALSE) may have been called
  /\ transactionId = 1 /\ transactionStarted = FALSE
  /\ pc = "idle" /\ subject = NULL /\ then = "none" /\ stack = <<>>
  /\ aborted = {} /\ calls = 0 /\ breaks = 0

-----------------------------------------------------------------------------
(* What a step may make of the heap: the resources, the results the node   *)
(* keeps, the failures of the connection, and whether the step throws.     *)

Now == [res |-> resource, server |-> server, breaks |-> breaks, ok |-> TRUE]

Become(h) ==
  /\ resource' = h.res
  /\ server' = h.server
  /\ breaks' = h.breaks

Row(h, a) == h.res[a] # NULL /\ h.res[a].type = "rowSet"

(* The connection that some row set came by fails: what the node kept for it *)
(* is gone.                                                                *)
Broken(h) ==
  IF h.breaks < MaxBreaks /\ \E a \in Address : Row(h, a) /\ h.res[a].connection = "current"
  THEN {[res |-> [a \in Address |->
                    IF Row(h, a) /\ h.res[a].connection = "current"
                    THEN [h.res[a] EXCEPT !.connection = "old"] ELSE h.res[a]],
         server |-> {}, breaks |-> h.breaks + 1, ok |-> FALSE]}
  ELSE {}

(* A closed row set: its rows are dropped, and nothing asks for the rest. *)
Closed(r) == [r EXCEPT !.closed = TRUE, !.connection = "none", !.rows = 0,
                       !.remaining = 0, !.status = 0, !.lost = FALSE, !.unread = 0]

(* GSRowSetTag::closeRemote and closeRowSet: CLOSE_ROW_SET on the           *)
(* connection that the result came by, or an exception without it.         *)
CloseRemote(h, r) ==
  LET c == [h EXCEPT !.res[r] = Closed(@)] IN
  IF h.res[r].closed THEN {[h EXCEPT !.ok = TRUE]}
  ELSE CASE h.res[r].connection = "none" -> {[c EXCEPT !.ok = TRUE]}
         [] h.res[r].connection = "old" -> {[c EXCEPT !.ok = FALSE]}
         [] OTHER -> {[c EXCEPT !.server = @ \ {r}, !.ok = TRUE]}
                       \cup {[b EXCEPT !.res[r] = Closed(@)] : b \in Broken(h)}

RemoveReference(h, r) ==
  IF h.res[r].refs = 1 THEN [h EXCEPT !.res[r] = NULL]
  ELSE [h EXCEPT !.res[r].refs = @ - 1]

(* GSRowSetTag::close *)
CloseRowSetOf(h, r) == {RemoveReference(c, r) : c \in CloseRemote(h, r)}

(* Mutant: the query lets go of its row set, which stays open. *)
ReleaseLastRowSet(h, q) ==
  LET r == h.res[q].lastRowSet
      g == [h EXCEPT !.res[q].lastRowSet = NULL, !.res[q].visible = FALSE]
  IN {IF r = NULL THEN g ELSE RemoveReference(g, r)}

(* GSQueryTag::clearLastRowSet *)
ClearLastRowSet(h, q) ==
  LET r == h.res[q].lastRowSet
      g == [h EXCEPT !.res[q].lastRowSet = NULL, !.res[q].visible = FALSE]
  IN IF r = NULL THEN {g} ELSE CloseRowSetOf(g, r)

(* The references of the container count its resources. *)
Count(h) ==
  referenceCount' = referenceCount + Cardinality({a \in Address : h.res[a] # NULL})
                      - Cardinality(Active)

-----------------------------------------------------------------------------
(* The calls of the application on queries. *)

Call ==
  /\ pc = "idle" /\ calls < MaxCalls
  /\ calls' = calls + 1
  /\ UNCHANGED stack

Opened(a) == ~ resource[a].closed /\ ~ closed

(* gsQuery and the like. *)
NewQuery ==
  /\ pc = "idle" /\ ~ closed
  /\ Cardinality({q \in Address : IsQuery(q)}) < MaxQueries
  /\ \E a \in Address \ Active :
       /\ resource' = [resource EXCEPT ![a] =
            [type |-> "query", lastRowSet |-> NULL, visible |-> FALSE,
             closed |-> FALSE]]
       /\ handle' = [handle EXCEPT ![a] = 1]
  /\ referenceCount' = referenceCount + 1
  /\ UNCHANGED <<server, breaks, closed, transaction, control, aborted, calls>>

(* The replies to a query: rows, rows that the node keeps, and the state of *)
(* a partial execution, 0 for one that is finished.                        *)
Replies(mode) ==
  CASE mode = "fetch" -> {p \in [rows : 0 .. MaxRows, remaining : 0 .. MaxRows,
                                 status : {0}] : p.rows + p.remaining <= MaxRows}
    [] mode = "execute" -> [rows : 0 .. 1, remaining : {0}, status : 0 .. MaxStatus]

(* acceptQueryResponse.  The rows of the result that the application has not *)
(* had yet are history.                                                    *)
NewRowSet(reply, started, refs) ==
  [type |-> "rowSet", refs |-> refs, closed |-> FALSE, rows |-> reply.rows,
   remaining |-> reply.remaining, status |-> reply.status,
   connection |-> IF reply.remaining > 0 THEN "current" ELSE "none",
   lost |-> FALSE, transactionId |-> IF autoCommit THEN 0 ELSE transactionId,
   started |-> started, unread |-> reply.rows + reply.remaining]

(* The row set r is read to the end of what it has, but there is more. *)
MoreToRead(f, r) == f[r].rows = 0 /\ (f[r].remaining > 0 \/ f[r].status # 0)

(* Mutant: the handle is not counted. *)
GiveUncounted(f, r, q, visible) ==
  /\ resource' = [f EXCEPT ![q].visible = visible]
  /\ handle' = [handle EXCEPT ![r] = @ + 1]

(* A handle of the row set r, the last one of the query q. *)
GiveHandle(f, r, q, visible) ==
  /\ resource' = [f EXCEPT ![r].refs = @ + 1, ![q].visible = visible]
  /\ handle' = [handle EXCEPT ![r] = @ + 1]

(* GSQueryTag::fetch, up to prepareFollowing when it has to read on. *)
Fetch(q, mode, forUpdate) ==
  /\ Call
  /\ IsQuery(q) /\ handle[q] > 0 /\ Opened(q)
  /\ forUpdate => ~ autoCommit /\ mode = "fetch"
  /\ \E h \in ClearLastRowSet(Now, q) :
     \/ /\ \E g \in {h} \cup Broken(h) : Become(g) /\ Count(g)
        /\ UNCHANGED <<handle, transaction, pc, subject, then>>
     \/ \E a \in {b \in Address : h.res[b] = NULL}, reply \in Replies(mode) :
          LET f == [h.res EXCEPT ![q].lastRowSet = a,
                      ![a] = NewRowSet(reply, transactionStarted \/ forUpdate, 1)]
          IN /\ transactionStarted' = (transactionStarted \/ forUpdate)
             /\ server' = IF reply.remaining > 0 THEN h.server \cup {a} ELSE h.server
             /\ breaks' = h.breaks
             /\ Count([h EXCEPT !.res = f])
             /\ IF MoreToRead(f, a)
                THEN /\ pc' = "following" /\ subject' = a /\ then' = "fetch"
                     /\ resource' = f /\ UNCHANGED handle
                ELSE /\ GiveHandle(f, a, q, TRUE)
                     /\ UNCHANGED <<pc, subject, then>>
             /\ UNCHANGED <<autoCommit, transactionId>>
  /\ UNCHANGED <<closed, aborted>>

(* gsFetchAll: the query has the row set, the application has not. *)
FetchAll(q, mode) ==
  /\ Call
  /\ IsQuery(q) /\ handle[q] > 0 /\ Opened(q)
  /\ \E h \in ClearLastRowSet(Now, q) :
     \/ \E g \in {h} \cup Broken(h) : Become(g) /\ Count(g)
     \/ \E a \in {b \in Address : h.res[b] = NULL}, reply \in Replies(mode) :
          LET f == [h.res EXCEPT ![q].lastRowSet = a, ![q].visible = TRUE,
                      ![a] = NewRowSet(reply, transactionStarted, 1)]
          IN /\ resource' = f
             /\ server' = IF reply.remaining > 0 THEN h.server \cup {a} ELSE h.server
             /\ breaks' = h.breaks
             /\ Count([h EXCEPT !.res = f])
  /\ UNCHANGED <<handle, closed, transaction, pc, subject, then, aborted>>

(* GSQueryTag::getRowSet *)
GetRowSet(q) ==
  /\ Call
  /\ IsQuery(q) /\ handle[q] > 0 /\ Opened(q)
  /\ resource[q].visible
  /\ LET r == resource[q].lastRowSet IN
     /\ Opened(r)
     /\ IF MoreToRead(resource, r)
        THEN /\ pc' = "following" /\ subject' = r /\ then' = "getRowSet"
             /\ UNCHANGED <<resource, handle>>
        ELSE /\ GiveHandle(resource, r, q, FALSE)
             /\ UNCHANGED <<pc, subject, then>>
  /\ UNCHANGED <<server, breaks, closed, referenceCount, transaction, aborted>>

CloseQuery(q) ==
  /\ Call
  /\ IsQuery(q) /\ handle[q] > 0
  /\ \E h \in ClearLastRowSet(Now, q) :
       LET g == [h EXCEPT !.res[q] = NULL] IN Become(g) /\ Count(g)
  /\ handle' = [handle EXCEPT ![q] = 0]
  /\ UNCHANGED <<closed, transaction, pc, subject, then, aborted>>

-----------------------------------------------------------------------------
(* The calls on row sets. *)

(* GSRowSetTag::next *)
NextRow(r) ==
  /\ Call
  /\ IsRowSet(r) /\ handle[r] > 0 /\ Opened(r)
  /\ resource[r].rows > 0
  /\ resource' = [resource EXCEPT ![r].rows = @ - 1, ![r].unread = @ - 1]
  /\ IF MoreToRead(resource', r)
     THEN pc' = "following" /\ subject' = r /\ then' = "next"
     ELSE UNCHANGED <<pc, subject, then>>
  /\ UNCHANGED <<handle, server, breaks, closed, referenceCount, transaction, aborted>>

CloseRowSet(r) ==
  /\ Call
  /\ IsRowSet(r) /\ handle[r] > 0
  /\ \E h \in CloseRowSetOf(Now, r) : Become(h) /\ Count(h)
  /\ handle' = [handle EXCEPT ![r] = @ - 1]
  /\ UNCHANGED <<closed, transaction, pc, subject, then, aborted>>

(* checkTransactionPreserved *)
TransactionPreserved(r) ==
  IF resource[r].transactionId = 0 THEN autoCommit
  ELSE /\ resource[r].transactionId = transactionId
       /\ resource[r].started = transactionStarted
       /\ ~ autoCommit

EndCall == pc' = "idle" /\ subject' = NULL /\ then' = "none"

(* The exception handlers of next and prepareFollowing close the row set. *)
FollowingFails(h) ==
  /\ \E g \in CloseRemote(h, subject) : Become(g)
  /\ EndCall
  /\ UNCHANGED handle

(* The call ends when the row set has rows again or is at its end. *)
FollowingReturns(f) ==
  /\ IF then = "next"
     THEN resource' = f /\ UNCHANGED handle
     ELSE \E q \in Active :
            /\ IsQuery(q) /\ resource[q].lastRowSet = subject
            /\ GiveHandle(f, subject, q, then = "fetch")
  /\ EndCall

Follow ==
  /\ pc = "following"
  /\ UNCHANGED <<closed, referenceCount, transaction, stack, aborted, calls>>

(* The transaction has ended, or the end of a lost row set is reached. *)
CannotFollow ==
  /\ Follow
  /\ ~ TransactionPreserved(subject) \/ resource[subject].lost
  /\ FollowingFails(Now)

(* Mutant: what follows the rows of a result that was lost is not missed. *)
LostUnnoticed(h, n) ==
  [h EXCEPT !.res[subject].rows = n, !.res[subject].remaining = 0,
            !.res[subject].connection = "none", !.server = @ \ {subject}]

(* The node closes the result with n more rows: it was lost by an update if *)
(* these are not all.                                                      *)
ResultClosed(h, n) ==
  [h EXCEPT !.res[subject].rows = n, !.res[subject].remaining = @ - n,
            !.res[subject].connection = "none", !.server = @ \ {subject},
            !.res[subject].lost = n < h.res[subject].remaining]

(* fetchFollowing and fetchRowSet. *)
FetchFollowing ==
  /\ Follow
  /\ TransactionPreserved(subject)
  /\ ~ resource[subject].lost
  /\ LET r == resource[subject]
         forgotten == [Now EXCEPT !.res[subject].connection = "none"]
     IN
     /\ r.remaining > 0
     /\ \/ /\ r.connection = "current"    \* some of the rows
           /\ \E n \in 1 .. r.remaining - 1 :
                FollowingReturns([resource EXCEPT ![subject].rows = n,
                                                  ![subject].remaining = @ - n])
           /\ UNCHANGED <<server, breaks>>
        \/ /\ r.connection = "current"    \* all that the node has
           /\ \E n \in 0 .. r.remaining :
                LET h == ResultClosed(Now, n) IN
                IF n = 0 THEN FollowingFails(h)
                ELSE /\ FollowingReturns(h.res)
                     /\ server' = h.server /\ UNCHANGED breaks
        \/ /\ r.connection = "current"    \* the row set is not found there
           /\ FollowingFails([forgotten EXCEPT !.server = @ \ {subject}])
        \/ /\ r.connection = "current"
           /\ \E h \in Broken(forgotten) : FollowingFails(h)
        \/ /\ r.connection = "old"
           /\ FollowingFails(forgotten)

(* executeFollowing: the query again, until there is a row or the end.      *)
(* PartialExecutionStatus::inherit refuses an answer without progress.     *)
ExecuteFollowing ==
  /\ Follow
  /\ TransactionPreserved(subject)
  /\ resource[subject].remaining = 0
  /\ LET status == resource[subject].status IN
     \/ \E next \in status + 1 .. MaxStatus \cup {0}, n \in 0 .. 1 :
          LET f == [resource EXCEPT ![subject].rows = n, ![subject].unread = n,
                                     ![subject].status = next] IN
          /\ IF n = 0 /\ next # 0
             THEN resource' = f /\ UNCHANGED <<handle, pc, subject, then>>
             ELSE FollowingReturns(f)
          /\ UNCHANGED <<server, breaks>>
     \/ FollowingFails(Now)           \* no progress, or an error
     \/ \E h \in Broken(Now) : FollowingFails(h)

-----------------------------------------------------------------------------
(* The calls on the transaction. *)

(* A row is put or locked. *)
StartTransaction ==
  /\ Call
  /\ ~ autoCommit /\ ~ closed /\ ~ transactionStarted
  /\ transactionStarted' = TRUE
  /\ UNCHANGED <<heap, handle, closed, referenceCount, autoCommit, transactionId,
                 pc, subject, then, aborted>>

Commit ==
  /\ Call
  /\ ~ autoCommit /\ ~ closed /\ transactionStarted
  /\ transactionId' = transactionId + 1
  /\ transactionStarted' = FALSE
  /\ UNCHANGED <<heap, handle, closed, referenceCount, autoCommit, pc, subject,
                 then, aborted>>

(* setAutoCommit, which commits. *)
SetAutoCommit ==
  /\ Call
  /\ ~ closed
  /\ autoCommit' = ~ autoCommit
  /\ transactionStarted' = FALSE
  /\ transactionId' = IF transactionStarted THEN transactionId + 1 ELSE transactionId
  /\ UNCHANGED <<heap, handle, closed, referenceCount, pc, subject, then, aborted>>

-----------------------------------------------------------------------------
(* closeSubResources.  A frame is an iteration: where it stands, and whether *)
(* it is silent.                                                           *)

After(h, a) ==
  LET later == {b \in Address : h.res[b] # NULL /\ b > a}
  IN IF later = {} THEN NULL ELSE Min(later)

Top == stack[Len(stack)]
Below == SubSeq(stack, 1, Len(stack) - 1)

CloseSubResources(silent, what) ==
  /\ pc' = "closing" /\ then' = what
  /\ stack' = <<[at |-> After(Now, 0), silent |-> silent]>>
  /\ UNCHANGED subject

(* abort, whatever becomes of its statement. *)
Abort ==
  /\ pc = "idle" /\ calls < MaxCalls
  /\ ~ autoCommit /\ ~ closed /\ transactionStarted
  /\ calls' = calls + 1
  /\ transactionId' = transactionId + 1
  /\ transactionStarted' = FALSE
  /\ aborted' = aborted \cup {transactionId}
  /\ CloseSubResources(TRUE, "abort")
  /\ UNCHANGED <<heap, handle, closed, referenceCount, autoCommit>>

(* GSContainerTag::close and closeRemote. *)
CloseContainer(allRelated) ==
  /\ pc = "idle" /\ ~ closed
  /\ CloseSubResources(FALSE, IF allRelated THEN "closeAll" ELSE "close")
  /\ UNCHANGED <<heap, handle, closed, referenceCount, transaction, aborted, calls>>

(* Mutant: a row set that was read before the transaction began stays. *)
NotStarted(a) == then = "abort" /\ ~ resource[a].started

(* GSRowSetTag::closeRemote for an abort: a row set of no transaction stays. *)
TransactionalOnly(a) == then = "abort" /\ resource[a].transactionId = 0

Advance(frames, h) ==
  [frames EXCEPT ![Len(frames)].at = After(h, @)]

Iterate ==
  /\ pc = "closing"
  /\ stack # <<>> /\ Top.at \in Active
  /\ UNCHANGED <<handle, closed, transaction, subject, then, pc, aborted, calls>>

(* A query is closed but for an abort, and its row set with it. *)
IterateQuery ==
  /\ Iterate
  /\ IsQuery(Top.at)
  /\ IF then = "abort"
     THEN /\ stack' = Advance(stack, Now)
          /\ UNCHANGED <<heap, referenceCount>>
     ELSE \E h \in ClearLastRowSet([Now EXCEPT !.res[Top.at].closed = TRUE], Top.at) :
            /\ Become(h) /\ Count(h)
            /\ stack' = Advance(stack, h)

(* Mutant: the exception ends the iteration. *)
GiveUp(h) == <<>>

(* The exception handler closes all that is left in an iteration of its own. *)
Recurse(h) == Append(stack, [at |-> After(h, 0), silent |-> TRUE])

IterateRowSet ==
  /\ Iterate
  /\ IsRowSet(Top.at)
  /\ IF TransactionalOnly(Top.at)
     THEN /\ stack' = Advance(stack, Now)
          /\ UNCHANGED <<heap, referenceCount>>
     ELSE \E h \in CloseRemote(Now, Top.at) :
            /\ Become(h) /\ Count(h)
            /\ stack' = IF h.ok THEN Advance(stack, h) ELSE Recurse(h)

(* An iteration is at its end.  The one it was begun by goes on if it is     *)
(* silent, and throws otherwise.                                           *)
EndOfIteration ==
  /\ pc = "closing"
  /\ stack # <<>> /\ Top.at = NULL
  /\ IF Below = <<>> \/ (~ Below[Len(Below)].silent)
     THEN stack' = <<>>
     ELSE \/ /\ Below[Len(Below)].at \in Active
             /\ stack' = Advance(Below, Now)
          \/ /\ Below[Len(Below)].at \notin Active   \* the memory is not its own
             /\ \E at \in Active \cup {NULL} :
                  stack' = [Below EXCEPT ![Len(Below)].at = at]
  /\ UNCHANGED <<heap, handle, closed, referenceCount, transaction, subject, then,
                 pc, aborted, calls>>

(* The memory is not its own, and the process is terminated. *)
Crash ==
  /\ pc = "closing"
  /\ stack # <<>> /\ Top.at = NULL
  /\ Below # <<>> /\ Below[Len(Below)].silent
  /\ Below[Len(Below)].at \notin Active
  /\ pc' = "crashed"
  /\ UNCHANGED <<heap, handle, closed, referenceCount, transaction, subject, then,
                 stack, aborted, calls>>

AbortReturns ==
  /\ pc = "closing" /\ stack = <<>> /\ then = "abort"
  /\ EndCall
  /\ UNCHANGED <<heap, handle, closed, referenceCount, transaction, stack, aborted,
                 calls>>

(* The container is closed; its own reference goes, or the loop begins. *)
ContainerCloses ==
  /\ pc = "closing" /\ stack = <<>> /\ then # "abort"
  /\ closed' = TRUE
  /\ IF then = "closeAll" /\ Active # {}
     THEN /\ pc' = "releasing"
          /\ UNCHANGED <<subject, then, referenceCount>>
     ELSE /\ EndCall
          /\ referenceCount' = referenceCount - 1
  /\ UNCHANGED <<heap, handle, transaction, stack, aborted, calls>>

(* The loop of close(allRelated): the last resource is closed, until there  *)
(* is none or one that remains.  Each close is for one handle.             *)
ReleaseLast ==
  /\ pc = "releasing"
  /\ LET a == Max(Active) IN
     \E h \in IF IsQuery(a)
              THEN {[g EXCEPT !.res[a] = NULL] : g \in ClearLastRowSet(Now, a)}
              ELSE CloseRowSetOf(Now, a) :
       LET left == {b \in Address : h.res[b] # NULL}
           ends == left = {} \/ Cardinality(left) = Cardinality(Active)
       IN /\ Become(h)
          /\ handle' = [handle EXCEPT ![a] = @ - 1]
          /\ referenceCount' = referenceCount + Cardinality(left)
                                 - Cardinality(Active) - (IF ends THEN 1 ELSE 0)
          /\ IF ends THEN EndCall ELSE UNCHANGED <<pc, subject, then>>
  /\ UNCHANGED <<closed, transaction, stack, aborted, calls>>

(* The connection fails between two statements. *)
ConnectionFails ==
  /\ pc = "idle"
  /\ \E h \in Broken(Now) : Become(h)
  /\ UNCHANGED <<handle, closed, referenceCount, transaction, control, aborted, calls>>

-----------------------------------------------------------------------------
(* The application has closed the container, or there is none any more. *)
Terminated ==
  /\ pc = "crashed" \/ (pc = "idle" /\ closed)
  /\ UNCHANGED vars

Continue ==
  \/ CannotFollow \/ FetchFollowing \/ ExecuteFollowing
  \/ IterateQuery \/ IterateRowSet \/ EndOfIteration \/ Crash
  \/ AbortReturns \/ ContainerCloses \/ ReleaseLast

Next ==
  \/ Continue
  \/ NewQuery
  \/ \E q \in Address, mode \in Mode :
       FetchAll(q, mode) \/ \E forUpdate \in BOOLEAN : Fetch(q, mode, forUpdate)
  \/ \E q \in Address : GetRowSet(q) \/ CloseQuery(q)
  \/ \E r \in Address : NextRow(r) \/ CloseRowSet(r)
  \/ StartTransaction \/ Commit \/ SetAutoCommit \/ Abort
  \/ \E allRelated \in BOOLEAN : CloseContainer(allRelated)
  \/ ConnectionFails
  \/ Terminated

Spec == Init /\ [][Next]_vars

-----------------------------------------------------------------------------
(* Every variable has its type. *)
TypeOK ==
  /\ \A a \in Address : resource[a] = NULL \/ resource[a] \in Query \cup RowSet
  /\ handle \in [Address -> Nat]
  /\ server \in SUBSET Address
  /\ closed \in BOOLEAN /\ referenceCount \in Nat
  /\ autoCommit \in BOOLEAN /\ transactionId \in Nat \ {0}
  /\ transactionStarted \in BOOLEAN
  /\ pc \in {"idle", "following", "closing", "releasing", "crashed"}
  /\ subject \in Address \cup {NULL}
  /\ then \in {"none", "fetch", "getRowSet", "next", "abort", "close", "closeAll"}
  /\ stack \in Seq([at : Address \cup {NULL}, silent : BOOLEAN])
  /\ aborted \in SUBSET Nat /\ calls \in Nat /\ breaks \in Nat

Holders(r) == {q \in Address : IsQuery(q) /\ resource[q].lastRowSet = r}

(* The counts that decide who deletes a row set or the container are exact: *)
(* what the application has a handle of is there, a row set has a reference *)
(* for each handle and one for the query it is the last of, a query never   *)
(* refers to a row set that is gone, and the container has one for each     *)
(* resource and one of the application.  Every variable has its type.      *)
ReferencesExact ==
  /\ TypeOK
  /\ \A a \in Address : handle[a] > 0 => a \in Active
  /\ \A r \in Address : IsRowSet(r) =>
       resource[r].refs = handle[r] + Cardinality(Holders(r))
  /\ \A q \in Address : IsQuery(q) =>
       resource[q].lastRowSet = NULL \/ IsRowSet(resource[q].lastRowSet)
  /\ referenceCount = Cardinality(Active)
                         + (IF closed /\ pc # "releasing" THEN 0 ELSE 1)

(* What is open has one owner, however reading on or closing has failed: a  *)
(* row set that is open is the last one of a query, and of one query (a new *)
(* result ends the one before, gridstore.h of gsFetch), and what the node   *)
(* keeps of a result belongs to a row set that is open and knows the        *)
(* connection to close it by.                                              *)
OpenResultsOwned ==
  /\ \A r \in Address :
       IsRowSet(r) /\ ~ resource[r].closed => Cardinality(Holders(r)) = 1
  /\ \A r \in server :
       /\ IsRowSet(r) /\ ~ resource[r].closed
       /\ resource[r].connection = "current"

(* When an open row set says that there is no next row, the application has *)
(* had all the rows of the result; whatever is lost ends in an exception    *)
(* and a row set that is closed.                                           *)
RowsComplete ==
  pc = "idle" =>
    \A r \in Address :
      IsRowSet(r) /\ ~ resource[r].closed /\ handle[r] > 0 /\ resource[r].rows = 0
        => resource[r].unread = 0 /\ resource[r].status = 0

(* After an abort no row set of that transaction gives a row, also when     *)
(* closing some of them fails.                                             *)
AbortedUnreadable ==
  pc = "idle" =>
    \A r \in Address :
      IsRowSet(r) /\ resource[r].transactionId \in aborted => resource[r].closed

(* A container that is closed has no row set open and leaves nothing on the *)
(* node, also when closing some of them fails.                             *)
ClosedHoldsNothing ==
  pc = "idle" /\ closed =>
    /\ server = {}
    /\ \A r \in Address : IsRowSet(r) => resource[r].closed
=============================================================================
