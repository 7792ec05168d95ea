---------------------------- MODULE MemberProvider ----------------------------
(***************************************************************************)
(* The members of a cluster in PROVIDER mode: updateNotificationMember of  *)
(* the resolver (client.cpp) asks ServiceAddressResolver for them          *)
(* (service_address.cpp), which sends an HTTP request over a socket that   *)
(* does not block and takes the answer as it comes in parts (http.cpp).    *)
(* When the request fails the members of an earlier one are used.  Then    *)
(* updateConnectionAndClusterInfo takes the next of them in turn.          *)
(***************************************************************************)
EXTENDS Integers, FiniteSets

CONSTANTS
  Lists,            \* the lists of members that the provider may answer
  Timeout           \* providerTimeoutMillis_, in sleeps between two checks

ASSUME ProviderAssumption ==
  /\ \A list \in Lists : IsFiniteSet(list)
  /\ Timeout \in Nat

VARIABLES
  exchange, elapsed, outcome,     \* updateNotificationMember
  selected, memberCount,    \* lastSelectedMember_, of so many members
  entryList, updated,       \* ServiceAddressResolver: the members, and the pair
                            \* updated_: ever, and by the present request
  socket, wrote, received,  \* ProviderContext: what it has sent and read
  reply,                    \* the provider: what it answers,
  sent, closed,             \* how much of it, and whether it has closed
  given                     \* history: the lists it has answered completely

resolver == <<selected, memberCount>>
entries == <<entryList, updated>>
request == <<socket, wrote, received>>
provider == <<reply, sent, closed, given>>
providerVars == <<exchange, elapsed, outcome, resolver, entries, request, provider>>

(* How far an answer has come: a part of the first line, the line, the     *)
(* other headers with some of the content, and all of it.                  *)
Part == 0 .. 4
FirstLine == 2
Headers == 3
Complete == 4

(* What tells where the content ends: its length or the chunks, which are  *)
(* of version 1.1, or that the provider closes the connection.             *)
Reply == {a \in [version : {10, 11}, framing : {"length", "chunked", "close"},
                  success : BOOLEAN, list : Lists] :
             a.framing = "chunked" => a.version = 11}

ProviderInit ==
  /\ exchange = "idle" /\ elapsed = 0 /\ outcome = "none"
  /\ selected = -1 /\ memberCount = 0
  /\ entryList = {} /\ updated = [ever |-> FALSE, present |-> FALSE]
  /\ socket = "closed" /\ wrote = FALSE /\ received = 0
  /\ reply \in Reply /\ sent = 0 /\ closed = FALSE /\ given = {}

-----------------------------------------------------------------------------
(* The provider and the network. *)

ProviderAccepts ==
  /\ socket = "connecting"
  /\ socket' = "open"
  /\ UNCHANGED <<exchange, elapsed, outcome, resolver, entries, wrote, received,
                 provider>>

(* It refuses the connection, or resets it. *)
Reset ==
  /\ socket \in {"connecting", "open"}
  /\ socket' = "reset"
  /\ UNCHANGED <<exchange, elapsed, outcome, resolver, entries, wrote, received,
                 provider>>

ProviderSends ==
  /\ socket = "open" /\ wrote /\ ~ closed /\ sent < Complete
  /\ sent' \in sent + 1 .. Complete
  /\ given' = IF sent' = Complete /\ reply.success
              THEN given \cup {reply.list} ELSE given
  /\ UNCHANGED <<exchange, elapsed, outcome, resolver, entries, request, reply, closed>>

(* It closes the connection, after the whole answer or before. *)
ProviderCloses ==
  /\ socket = "open" /\ ~ closed
  /\ closed' = TRUE
  /\ UNCHANGED <<exchange, elapsed, outcome, resolver, entries, request, reply, sent, given>>

-----------------------------------------------------------------------------
(* HttpResponse::parse *)

(* Mutant: a message that ends too early is waited for. *)
WaitForMore(eof) == "more"

ExpectMore(eof) == IF eof THEN "invalid" ELSE "more"

(* The content is taken once it is known to be complete.  An answer that   *)
(* ends with the connection is waited for only up to version 1.0: later it *)
(* is taken as far as it has come, which is no list.                       *)
Parse(a, part, eof) ==
  CASE part < FirstLine -> "more"
    [] part = FirstLine -> ExpectMore(eof)
    [] part = Headers /\ a.framing # "close" -> ExpectMore(eof)
    [] part = Headers /\ a.framing = "close" ->
         IF a.version = 10 /\ ~ eof THEN "more" ELSE "invalid"
    [] part = Complete ->
         IF a.framing = "close" /\ a.version = 10 /\ ~ eof THEN "more" ELSE "parsed"

-----------------------------------------------------------------------------
(* updateNotificationMember *)

CloseSocket == socket' = "closed"

(* Mutant: the mark of the last request stays. *)
StillUpdated == updated

Outdated == [updated EXCEPT !.present = FALSE]

(* update: whatever is left of an earlier request is thrown away.  The     *)
(* socket connects while the call goes on, or at once.                     *)
Update ==
  /\ exchange = "idle"
  /\ updated' = Outdated
  /\ reply' \in Reply /\ sent' = 0 /\ closed' = FALSE
  /\ socket' \in {"connecting", "open"}
  /\ wrote' = FALSE /\ received' = 0
  /\ exchange' = "check" /\ elapsed' = 0 /\ outcome' = "none"
  /\ UNCHANGED <<resolver, entryList, given>>

Later == IF elapsed <= Timeout THEN elapsed + 1 ELSE elapsed

(* A check that reads nothing: it is made again after a sleep, however     *)
(* often it has been.  The time-out is looked at after a check that reads. *)
NothingRead == elapsed' = Later /\ UNCHANGED <<exchange, outcome>>

(* The call fails, or goes on with the members of an earlier one. *)
Fails ==
  /\ IF updated.ever THEN outcome' = "fallback" /\ exchange' = "select"
                     ELSE outcome' = "error" /\ exchange' = "idle"
  /\ UNCHANGED elapsed

(* checkUpdated before there is an answer: the socket has not connected,   *)
(* or not taken the whole request.                                         *)
CheckConnecting ==
  /\ exchange = "check" /\ ~ updated.present
  /\ socket = "connecting" \/ (socket = "open" /\ ~ wrote)
  /\ NothingRead
  /\ UNCHANGED <<resolver, entries, request, provider>>

CheckWrites ==
  /\ exchange = "check" /\ ~ updated.present /\ socket = "open" /\ ~ wrote
  /\ wrote' = TRUE
  /\ UNCHANGED <<exchange, elapsed, outcome, resolver, entries, socket, received,
                 provider>>

CheckFails ==
  /\ exchange = "check" /\ ~ updated.present /\ socket = "reset"
  /\ CloseSocket
  /\ Fails
  /\ UNCHANGED <<resolver, entries, wrote, received, provider>>

Eof == closed

(* checkSuccess and importFrom: there is a list, and it is not empty. *)
UsableReply(a) == a.success /\ a.list # {}

(* checkUpdated with the request sent: it reads what has come and parses   *)
(* all of it from the start.                                               *)
CheckReads ==
  /\ exchange = "check" /\ ~ updated.present /\ socket = "open" /\ wrote
  /\ received' = sent
  /\ LET result == Parse(reply, sent, Eof) IN
     \/ /\ result = "more"
        /\ IF sent = received THEN NothingRead
           ELSE IF elapsed > Timeout THEN Fails
           ELSE elapsed' = Later /\ UNCHANGED <<exchange, outcome>>
        /\ UNCHANGED <<entries, socket>>
     \/ /\ result = "invalid" \/ (result = "parsed" /\ ~ UsableReply(reply))
        /\ CloseSocket
        /\ Fails
        /\ UNCHANGED entries
     \/ /\ result = "parsed" /\ UsableReply(reply)
        /\ CloseSocket
        /\ entryList' = reply.list
        /\ updated' = [ever |-> TRUE, present |-> TRUE]
        /\ UNCHANGED <<exchange, elapsed, outcome>>
  /\ UNCHANGED <<resolver, wrote, provider>>

(* The call returns: the list is complete. *)
Updated ==
  /\ exchange = "check" /\ updated.present
  /\ outcome' = "ok" /\ exchange' = "select"
  /\ UNCHANGED <<elapsed, resolver, entries, request, provider>>

-----------------------------------------------------------------------------
(* updateConnectionAndClusterInfo: the first member is any, then each is   *)
(* followed by the next.                                                   *)

MemberAt(index, count) == IF index >= count THEN 0 ELSE index

TakeMember ==
  LET count == Cardinality(entryList) IN
  /\ exchange = "select"
  /\ IF selected < 0
     THEN selected' \in 0 .. count - 1
     ELSE selected' = MemberAt(selected + 1, count)
  /\ memberCount' = count
  /\ exchange' = "idle"
  /\ UNCHANGED <<elapsed, outcome, entries, request, provider>>

-----------------------------------------------------------------------------
Check ==
  CheckConnecting \/ CheckWrites \/ CheckFails \/ CheckReads \/ Updated

ProviderNext ==
  \/ Update \/ Check \/ TakeMember
  \/ ProviderAccepts \/ Reset \/ ProviderSends \/ ProviderCloses

ProviderSpec == ProviderInit /\ [][ProviderNext]_providerVars

(* The thread of the call goes on.  The provider need not do anything: it   *)
(* may stop at any point of its answer, with the connection open.           *)
FairProvider == ProviderSpec /\ WF_providerVars(Check)

-----------------------------------------------------------------------------
ProviderTypeOK ==
  /\ exchange \in {"idle", "check", "select"} /\ elapsed \in 0 .. Timeout + 1
  /\ outcome \in {"none", "ok", "fallback", "error"}
  /\ selected \in Int /\ memberCount \in Nat
  /\ entryList \in Lists \cup {{}}
  /\ updated \in [ever : BOOLEAN, present : BOOLEAN]
  /\ socket \in {"closed", "connecting", "open", "reset"}
  /\ wrote \in BOOLEAN /\ received \in 0 .. sent
  /\ reply \in Reply /\ sent \in Part /\ closed \in BOOLEAN
  /\ given \subseteq Lists

(* The members are those of one complete answer that the provider has      *)
(* given, never of a part of one or of an error; there are members as soon *)
(* as a call has succeeded; a call that succeeds has those of its own      *)
(* request, whatever an earlier one has left; and the member that is taken *)
(* in turn is one of them, also when the list has become shorter.          *)
MembersGiven ==
  /\ ProviderTypeOK
  /\ updated.ever <=> entryList # {}
  /\ entryList \in given \cup {{}}
  /\ outcome = "ok" => entryList = reply.list
  /\ exchange = "idle" /\ outcome \in {"ok", "fallback"} =>
       memberCount = Cardinality(entryList) /\ selected \in 0 .. memberCount - 1

(* What has happened decides how the call ends: the connection is reset; it *)
(* is closed after the first line of the answer; the answer is complete and *)
(* tells where it ends; or some of it comes after the time-out.             *)
AnswerOver ==
  \/ socket = "reset"
  \/ /\ socket = "open"
     /\ \/ closed /\ sent >= FirstLine
        \/ sent = Complete /\ reply.framing # "close"
        \/ elapsed > Timeout /\ received < sent

(* A call ends once its answer is over, be it good, cut short or too late,  *)
(* and whatever the provider does afterwards.  Without that it may wait for *)
(* ever, and hold the resolver: the provider stays silent or stops within   *)
(* its answer with the connection open, where the time-out is not looked    *)
(* at, or it closes the connection before the first line is complete.       *)
AnsweredCallEnds == (exchange = "check" /\ AnswerOver) ~> exchange # "check"
=============================================================================
