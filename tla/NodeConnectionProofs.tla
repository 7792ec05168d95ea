------------------------- MODULE NodeConnectionProofs -------------------------
(***************************************************************************)
(* The safety properties of NodeConnection for any ids, time-outs and      *)
(* number of requests.  The argument is about the requests whose reply can *)
(* still be read: one that has the type and id of the statement, or of its *)
(* heartbeat, is the statement, or its heartbeat.  For GET and CONNECT     *)
(* that is because the connection numbers them upwards; for a PUT, whose   *)
(* id comes from its session, because a connection that gives one up is    *)
(* deleted.                                                                *)
(***************************************************************************)
EXTENDS NodeConnection, TLAPS

(* The bodies that have arrived, and the requests in flight. *)
Bodies == {i \in 1 .. Len(inbox) : inbox[i].part = "body"}
Replies == {inbox[i].reply : i \in Bodies}
InFlight == outstanding \cup {reply.to : reply \in Replies}

(* Heads and bodies come in pairs, of which the first may have been read    *)
(* in part; and no request has two replies.                                 *)
SocketInv ==
  /\ \A i \in 1 .. Len(inbox) :
       /\ inbox[i].part = "head" =>
            i + 1 \in Bodies /\ inbox[i + 1].reply = inbox[i].reply
       /\ inbox[i].part = "rest" => i = 1
  /\ \A i, j \in Bodies : inbox[i].reply.to = inbox[j].reply.to => i = j
  /\ \A i \in Bodies : inbox[i].reply.to \notin outstanding

BodyNext == inbox # <<>> /\ Head(inbox).part = "body"

(* GET and CONNECT have ids of their own. *)
Known == InFlight \cup {own, beat, NoRequest}

IdsDiffer ==
  /\ \A r \in Known : r.number <= requests /\ (r.type # "PUT" => r.id <= statementId)
  /\ \A r, s \in Known : r.type # "PUT" /\ r.type = s.type /\ r.id = s.id => r = s

(* The reply to a PUT has been read, or its connection is gone, before the  *)
(* next statement.                                                          *)
PutsEnd == \A r \in InFlight : r.type = "PUT" => r = own /\ pc # "idle"

Replied ==
  \/ pc \in {"lateHead", "lateBody"}
  \/ pc \in {"idle", "deleted"} /\ outcome.result \in {"success", "error", "deny"}

(* What the client reads and keeps of the reply to the statement is what    *)
(* the node has said, and there is no other.                                *)
OwnAnswered ==
  /\ \A reply \in Replies : reply.to = own => reply.result = answer
  /\ Replied => own \notin InFlight
  /\ pc \in {"lateHead", "lateBody"} =>
       saved = [to |-> own, result |-> answer] /\ answer # "deny"

(* Where the client is. *)
CallInv ==
  /\ pc \in {"body", "beatBody", "lateBody"} => BodyNext
  /\ pc = "deleted" => failed
  /\ beat.type = "CONNECT"

(* The requests whose reply is due as long as nothing has failed. *)
Due ==
  IF pc = "idle" THEN {}
  ELSE IF pc \in {"beatHead", "beatBody"} THEN {own, beat}
  ELSE IF pc \in {"lateHead", "lateBody"} THEN {beat} ELSE {own}

NothingElse ==
  ~ failed =>
    /\ InFlight \subseteq Due
    /\ \A i \in 1 .. Len(inbox) : inbox[i].part # "rest"

IInv ==
  /\ TypeOK /\ SocketInv /\ IdsDiffer /\ PutsEnd /\ OwnAnswered /\ CallInv
  /\ NothingElse /\ OwnReply

-----------------------------------------------------------------------------
(* What the steps have in common.  Nothing comes into the socket; and what  *)
(* has come is read in order.                                               *)
Shrinks ==
  /\ inbox' \in Seq(Part) /\ SocketInv'
  /\ outstanding' \subseteq outstanding /\ Replies' \subseteq Replies

NoLateRest ==
  \A j \in 1 .. Len(inbox') : \E i \in 1 .. Len(inbox) : inbox'[j] = inbox[i]

GivesUp ==
  /\ pc \notin {"idle", "deleted"}
  /\ Break /\ Shrinks
  /\ requests' \in Nat /\ requests' >= requests
  /\ statementId' \in statementId .. requests'
  /\ responseUnacceptable' \in BOOLEAN
  /\ UNCHANGED <<shortTimeout, own, closed, answer>>

Ends ==
  /\ pc \in {"body", "beatBody", "lateBody"}
  /\ Conclude([to |-> own, result |-> answer])
  /\ Shrinks /\ NoLateRest
  /\ own \notin InFlight' /\ (~ failed' => InFlight' = {})
  /\ UNCHANGED <<object, own, closed, requests, answer>>

(* The call goes on, with what is still due. *)
Continues ==
  /\ \/ pc = "wait" /\ pc' = "body" /\ BodyNext' /\ UNCHANGED saved
     \/ pc = "beatHead" /\ pc' = "beatBody" /\ BodyNext' /\ UNCHANGED saved
     \/ pc = "lateHead" /\ pc' = "lateBody" /\ BodyNext' /\ UNCHANGED saved
     \/ pc = "wait" /\ pc' = "beat" /\ UNCHANGED saved
     \/ /\ pc = "beatBody" /\ pc' = "wait" /\ beat \notin InFlight'
        /\ UNCHANGED saved
     \/ /\ pc = "beatBody" /\ pc' = "lateHead" /\ own \notin InFlight'
        /\ saved' = [to |-> own, result |-> answer] /\ answer # "deny"
  /\ Shrinks /\ NoLateRest
  /\ UNCHANGED <<object, own, beat, outcome, closed, requests, history>>

(* A request is sent, with a number of its own. *)
Sends(request) ==
  /\ request \in Request /\ request.number = requests + 1
  /\ outstanding' = outstanding \cup {request}
  /\ requests' = requests + 1
  /\ UNCHANGED <<inbox, closed, responseUnacceptable>>

-----------------------------------------------------------------------------
(* The socket. *)

LEMMA InboxParts ==
  ASSUME TypeOK
  PROVE  /\ inbox \in Seq(Part) /\ Len(inbox) \in Nat
         /\ \A i \in 1 .. Len(inbox) :
              /\ inbox[i] \in Part
              /\ inbox[i].part \in {"head", "body", "rest"}
              /\ inbox[i].reply.to \in Request
              /\ inbox[i].reply.result \in {"none", "success", "error", "deny"}
              /\ inbox[i].reply = [to |-> inbox[i].reply.to, result |-> inbox[i].reply.result]
         /\ Bodies \subseteq 1 .. Len(inbox)
         /\ InFlight \subseteq Request
         /\ inbox # <<>> => Len(inbox) > 0 /\ Head(inbox) = inbox[1]
  <1>1. inbox \in Seq(Part) /\ Len(inbox) \in Nat
    BY DEF TypeOK
  <1>2. \A i \in 1 .. Len(inbox) : inbox[i] \in Part
    BY <1>1
  <1>3. \A i \in 1 .. Len(inbox) :
              /\ inbox[i].part \in {"head", "body", "rest"}
              /\ inbox[i].reply.to \in Request
              /\ inbox[i].reply.result \in {"none", "success", "error", "deny"}
              /\ inbox[i].reply = [to |-> inbox[i].reply.to, result |-> inbox[i].reply.result]
    BY <1>2 DEF Part
  <1>4. Bodies \subseteq 1 .. Len(inbox)
    BY DEF Bodies
  <1>5. InFlight \subseteq Request
    <2>1. \A reply \in Replies : reply.to \in Request
      BY <1>3, <1>4 DEF Replies
    <2>2. outstanding \subseteq Request
      BY DEF TypeOK
    <2> QED BY <2>1, <2>2 DEF InFlight
  <1>6. inbox # <<>> => Len(inbox) > 0 /\ Head(inbox) = inbox[1]
    BY <1>1
  <1> QED BY <1>1, <1>2, <1>3, <1>4, <1>5, <1>6

LEMMA FlightShrinks ==
  ASSUME Shrinks
  PROVE  InFlight' \subseteq InFlight
  BY DEF Shrinks, InFlight

(* The next part is read. *)
LEMMA TakePart ==
  ASSUME TypeOK, SocketInv, inbox # <<>>, inbox' = Tail(inbox), UNCHANGED outstanding
  PROVE  /\ Shrinks /\ NoLateRest
         /\ Head(inbox).part = "head" => BodyNext'
         /\ Head(inbox).part = "body" => Arrived \in Replies /\ Arrived.to \notin InFlight'
  <1>1. /\ Len(inbox) \in Nat /\ Len(inbox) > 0 /\ Head(inbox) = inbox[1]
        /\ inbox' \in Seq(Part) /\ Len(inbox') = Len(inbox) - 1
        /\ \A i \in 1 .. Len(inbox') : inbox'[i] = inbox[i + 1]
    BY InboxParts
  <1>2. Bodies' = {i \in 1 .. Len(inbox') : i + 1 \in Bodies}
    BY <1>1 DEF Bodies
  <1>3. Replies' \subseteq Replies
    BY <1>1, <1>2 DEF Replies, Bodies
  <1>4. SocketInv'
    <2>1. ASSUME NEW i \in 1 .. Len(inbox')
          PROVE  /\ inbox'[i].part = "head" =>
                      i + 1 \in Bodies' /\ inbox'[i + 1].reply = inbox'[i].reply
                 /\ inbox'[i].part = "rest" => i = 1
      <3>1. i + 1 \in 1 .. Len(inbox) /\ inbox'[i] = inbox[i + 1] /\ i + 1 # 1
        BY <1>1
      <3>2. ASSUME inbox'[i].part = "head"
            PROVE  i + 1 \in Bodies' /\ inbox'[i + 1].reply = inbox'[i].reply
        <4>1. i + 1 + 1 \in Bodies /\ inbox[i + 1 + 1].reply = inbox[i + 1].reply
          BY <3>1, <3>2 DEF SocketInv
        <4>2. i + 1 \in 1 .. Len(inbox')
          BY <1>1, <4>1 DEF Bodies
        <4> QED BY <1>1, <1>2, <3>1, <4>1, <4>2
      <3> QED BY <3>1, <3>2 DEF SocketInv
    <2>2. \A i, j \in Bodies' : inbox'[i].reply.to = inbox'[j].reply.to => i = j
      BY <1>1, <1>2 DEF SocketInv
    <2>3. \A i \in Bodies' : inbox'[i].reply.to \notin outstanding'
      BY <1>1, <1>2 DEF SocketInv
    <2> QED BY <2>1, <2>2, <2>3 DEF SocketInv
  <1>5. ASSUME Head(inbox).part = "head"
        PROVE  BodyNext'
    <2>1. 2 \in Bodies
      BY <1>1, <1>5 DEF SocketInv
    <2>2. Len(inbox') > 0 /\ inbox'[1].part = "body"
      BY <1>1, <2>1 DEF Bodies
    <2>3. \A seq \in Seq(Part) : Len(seq) > 0 => seq # <<>> /\ Head(seq) = seq[1]
      OBVIOUS
    <2> QED BY <1>1, <2>2, <2>3 DEF BodyNext
  <1>6. ASSUME Head(inbox).part = "body"
        PROVE  Arrived \in Replies /\ Arrived.to \notin InFlight'
    <2>1. 1 \in Bodies /\ Arrived = inbox[1].reply
      BY <1>1, <1>6 DEF Bodies, Arrived
    <2>2. \A i \in Bodies' : inbox'[i].reply.to # inbox[1].reply.to
      BY <1>1, <1>2, <2>1 DEF SocketInv
    <2>3. Arrived.to \notin outstanding'
      BY <2>1 DEF SocketInv
    <2> QED BY <2>1, <2>2, <2>3 DEF InFlight, Replies
  <1> QED BY <1>1, <1>3, <1>4, <1>5, <1>6 DEF Shrinks, NoLateRest

(* What does not come in time. *)
LEMMA LatePart ==
  ASSUME TypeOK, SocketInv,
         \/ NothingComes
         \/ SomethingComes
         \/ UNCHANGED inbox /\ outstanding' \subseteq outstanding
         \/ inbox # <<>> /\ inbox' = <<Rest>> \o Tail(inbox) /\ UNCHANGED outstanding
  PROVE  Shrinks
  <1>0. Rest \in Part /\ Rest.part = "rest"
    BY DEF Rest, Part, NoReply, NoRequest, Request
  <1>1. CASE UNCHANGED inbox /\ outstanding' \subseteq outstanding
    <2>1. Bodies' = Bodies /\ Replies' = Replies
      BY <1>1 DEF Bodies, Replies
    <2>2. SocketInv'
      BY <1>1, <2>1 DEF SocketInv
    <2> QED BY <1>1, <2>1, <2>2, InboxParts DEF Shrinks
  <1>2. CASE SomethingComes
    <2>1. inbox' = <<Rest>> /\ Len(inbox') = 1 /\ inbox'[1] = Rest
      BY <1>2 DEF SomethingComes
    <2>2. Bodies' = {} /\ Replies' = {}
      BY <1>0, <2>1 DEF Bodies, Replies
    <2>3. SocketInv'
      BY <1>0, <2>1, <2>2 DEF SocketInv
    <2> QED BY <1>0, <1>2, <2>1, <2>2, <2>3 DEF Shrinks, SomethingComes
  <1>3. CASE inbox # <<>> /\ inbox' = <<Rest>> \o Tail(inbox) /\ UNCHANGED outstanding
    <2>1. /\ Len(inbox) \in Nat /\ Len(inbox) > 0
          /\ Tail(inbox) \in Seq(Part) /\ Len(Tail(inbox)) = Len(inbox) - 1
          /\ \A i \in 1 .. Len(Tail(inbox)) : Tail(inbox)[i] = inbox[i + 1]
      BY <1>3, InboxParts
    <2>2. /\ inbox' \in Seq(Part) /\ Len(inbox') = Len(inbox)
          /\ inbox'[1] = Rest
          /\ \A i \in 2 .. Len(inbox) : inbox'[i] = inbox[i]
      <3>1. <<Rest>> \in Seq(Part) /\ Len(<<Rest>>) = 1 /\ <<Rest>>[1] = Rest
        BY <1>0
      <3>2. /\ inbox' \in Seq(Part) /\ Len(inbox') = 1 + Len(Tail(inbox))
            /\ \A i \in 1 .. 1 + Len(Tail(inbox)) :
                 inbox'[i] = IF i <= 1 THEN <<Rest>>[i] ELSE Tail(inbox)[i - 1]
        BY <1>3, <2>1, <3>1
      <3> QED BY <2>1, <3>1, <3>2
    <2>3. Bodies' = Bodies \ {1}
      BY <1>0, <2>1, <2>2 DEF Bodies
    <2>4. Replies' \subseteq Replies
      BY <2>1, <2>2, <2>3 DEF Replies, Bodies
    <2>5. SocketInv'
      <3>1. \A i \in 1 .. Len(inbox') :
              /\ inbox'[i].part = "head" =>
                   i + 1 \in Bodies' /\ inbox'[i + 1].reply = inbox'[i].reply
              /\ inbox'[i].part = "rest" => i = 1
        <4> TAKE i \in 1 .. Len(inbox')
        <4>1. CASE i = 1
          BY <1>0, <2>2, <4>1
        <4>2. CASE i # 1
          <5>1. i \in 2 .. Len(inbox) /\ inbox'[i] = inbox[i]
            BY <2>1, <2>2, <4>2
          <5>2. i + 1 \in Bodies => i + 1 \in Bodies' /\ inbox'[i + 1] = inbox[i + 1]
            BY <2>1, <2>2, <2>3, <5>1 DEF Bodies
          <5> QED BY <2>1, <5>1, <5>2 DEF SocketInv
        <4> QED BY <4>1, <4>2
      <3>2. \A i \in Bodies' : i \in Bodies /\ inbox'[i] = inbox[i]
        BY <2>1, <2>2, <2>3 DEF Bodies
      <3>3. \A i, j \in Bodies' : inbox'[i].reply.to = inbox'[j].reply.to => i = j
        BY <3>2 DEF SocketInv
      <3>4. \A i \in Bodies' : inbox'[i].reply.to \notin outstanding'
        BY <1>3, <3>2 DEF SocketInv
      <3> QED BY <3>1, <3>3, <3>4 DEF SocketInv
    <2> QED BY <1>3, <2>2, <2>4, <2>5 DEF Shrinks
  <1> QED BY <1>1, <1>2, <1>3 DEF NothingComes

LEMMA ArrivedReply ==
  ASSUME IInv, BodyNext
  PROVE  /\ Arrived \in Replies
         /\ Matches(Arrived, own) => Arrived = [to |-> own, result |-> answer]
         /\ Matches(Arrived, beat) => Arrived.to = beat
  <1> USE DEF IInv
  <1>1. /\ Arrived \in Replies
        /\ Arrived = [to |-> Arrived.to, result |-> Arrived.result]
    BY InboxParts DEF BodyNext, Arrived, Replies, Bodies
  <1>2. Arrived.to \in InFlight
    BY <1>1 DEF InFlight
  <1>3. Matches(Arrived, own) => Arrived.to = own
    BY <1>2 DEF Matches, IdsDiffer, Known, PutsEnd
  <1>4. Matches(Arrived, beat) => Arrived.to = beat
    BY <1>2 DEF Matches, IdsDiffer, Known, CallInv
  <1>5. Arrived.to = own => Arrived.result = answer
    BY <1>1 DEF OwnAnswered
  <1> QED BY <1>1, <1>3, <1>4, <1>5

(* A request that is sent is in flight. *)
LEMMA SendsRequest ==
  ASSUME IInv, NEW request, Sends(request)
  PROVE  /\ SocketInv' /\ Replies' = Replies
         /\ InFlight' = InFlight \cup {request} /\ request \notin Known
  <1> USE DEF IInv
  <1>1. request \notin Known
    <2>1. requests \in Nat
      BY DEF TypeOK
    <2> QED BY <2>1 DEF Sends, IdsDiffer
  <1>2. Bodies' = Bodies /\ Replies' = Replies
    BY DEF Sends, Bodies, Replies
  <1>3. \A i \in Bodies : inbox[i].reply.to # request
    BY <1>1 DEF Known, InFlight, Replies
  <1>4. SocketInv'
    BY <1>2, <1>3 DEF SocketInv, Sends
  <1> QED BY <1>1, <1>2, <1>4 DEF Sends, InFlight

(* The node replies. *)
LEMMA NodeReplies ==
  ASSUME IInv, Reply
  PROVE  \E r \in outstanding, result \in {"success", "error", "deny"} :
           /\ Replies' = Replies \cup {[to |-> r, result |-> result]}
           /\ answer' = IF r = own THEN result ELSE answer
           /\ inbox' \in Seq(Part) /\ SocketInv'
           /\ outstanding' \subseteq outstanding /\ InFlight' = InFlight
           /\ BodyNext => BodyNext'
           /\ \A j \in 1 .. Len(inbox') : inbox'[j].part = "rest" =>
                \E i \in 1 .. Len(inbox) : inbox[i].part = "rest"
  <1> USE DEF IInv
  <1>1. PICK r \in outstanding, result \in {"success", "error", "deny"} :
          LET reply == [to |-> r, result |-> result] IN
          /\ outstanding' = outstanding \ {r}
          /\ answer' = IF r = own THEN result ELSE answer
          /\ inbox' = inbox \o <<[part |-> "head", reply |-> reply],
                                 [part |-> "body", reply |-> reply]>>
    BY DEF Reply, Results
  <1> DEFINE reply == [to |-> r, result |-> result]
             head == [part |-> "head", reply |-> reply]
             body == [part |-> "body", reply |-> reply]
             n == Len(inbox)
  <1>2. /\ head \in Part /\ body \in Part /\ head.part = "head" /\ body.part = "body"
        /\ head.reply = reply /\ body.reply = reply
    BY DEF Part, TypeOK
  <1> HIDE DEF head, body
  <1>3. /\ n \in Nat /\ inbox' \in Seq(Part) /\ Len(inbox') = n + 2
        /\ \A i \in 1 .. n : inbox'[i] = inbox[i]
        /\ inbox'[n + 1] = head /\ inbox'[n + 2] = body
    <2>1. inbox \in Seq(Part) /\ <<head, body>> \in Seq(Part) /\ inbox' = inbox \o <<head, body>>
      BY <1>1, <1>2 DEF TypeOK, head, body
    <2> QED BY <2>1
  <1>4. Bodies \subseteq 1 .. n /\ Bodies' = Bodies \cup {n + 2}
    BY <1>2, <1>3 DEF Bodies
  <1>5. \A i \in Bodies : inbox'[i] = inbox[i] /\ inbox[i].reply.to # r
    BY <1>3, <1>4 DEF SocketInv
  <1>6. Replies' = Replies \cup {reply}
    <2>1. \A i \in Bodies' : inbox'[i].reply \in Replies \cup {reply}
      BY <1>2, <1>3, <1>4, <1>5 DEF Replies
    <2>2. \A i \in Bodies : i \in Bodies' /\ inbox'[i].reply = inbox[i].reply
      BY <1>4, <1>5
    <2>3. n + 2 \in Bodies' /\ inbox'[n + 2].reply = reply
      BY <1>2, <1>3, <1>4
    <2> HIDE DEF reply, n
    <2> QED BY <2>1, <2>2, <2>3 DEF Replies
  <1>7. SocketInv'
    <2>1. ASSUME NEW i \in 1 .. Len(inbox')
          PROVE  /\ inbox'[i].part = "head" =>
                      i + 1 \in Bodies' /\ inbox'[i + 1].reply = inbox'[i].reply
                 /\ inbox'[i].part = "rest" => i = 1
      <3>1. CASE i \in 1 .. n
        <4>1. inbox'[i] = inbox[i] /\ (inbox[i].part = "rest" => i = 1)
          BY <1>3, <3>1 DEF SocketInv
        <4>2. inbox[i].part = "head" => i + 1 \in Bodies /\ inbox[i + 1].reply = inbox[i].reply
          BY <3>1 DEF SocketInv
        <4> QED BY <1>4, <1>5, <4>1, <4>2
      <3>2. CASE i = n + 1
        BY <1>2, <1>3, <1>4, <3>2
      <3>3. CASE i = n + 2
        BY <1>2, <1>3, <3>3
      <3> QED BY <1>3, <3>1, <3>2, <3>3
    <2>2. \A i, j \in Bodies' : inbox'[i].reply.to = inbox'[j].reply.to => i = j
      <3>1. \A i, j \in Bodies : inbox[i].reply.to = inbox[j].reply.to => i = j
        BY DEF SocketInv
      <3>2. inbox'[n + 2].reply.to = r
        BY <1>2, <1>3
      <3> QED BY <1>4, <1>5, <3>1, <3>2
    <2>3. \A i \in Bodies' : inbox'[i].reply.to \notin outstanding'
      BY <1>1, <1>2, <1>3, <1>4, <1>5 DEF SocketInv
    <2> QED BY <2>1, <2>2, <2>3 DEF SocketInv
  <1>8. InFlight' = InFlight
    BY <1>1, <1>6 DEF InFlight
  <1>9. BodyNext => BodyNext'
    <2>1. \A seq \in Seq(Part) : Len(seq) > 0 => seq # <<>> /\ Head(seq) = seq[1]
      OBVIOUS
    <2>2. n > 0 => inbox'[1] = inbox[1]
      BY <1>3
    <2> QED BY <1>3, <2>1, <2>2, InboxParts DEF BodyNext
  <1>10. \A j \in 1 .. Len(inbox') : inbox'[j].part = "rest" =>
                \E i \in 1 .. Len(inbox) : inbox[i].part = "rest"
    BY <1>2, <1>3
  <1> QED BY <1>1, <1>3, <1>6, <1>7, <1>8, <1>9, <1>10

-----------------------------------------------------------------------------
(* A statement is sent, or found to have no connection. *)
Begins(request) ==
  /\ pc = "idle"
  /\ request \in Request /\ request.number = requests + 1 /\ requests' = requests + 1
  /\ \/ request.type = "GET" /\ request.id = statementId + 1 /\ statementId' = request.id
     \/ request.type = "PUT" /\ UNCHANGED statementId
  /\ own' = request /\ answer' = "none" /\ UNCHANGED shortTimeout
  /\ \/ Sends(request) /\ GoOn("wait") /\ UNCHANGED heartbeat
     \/ GiveUp(request, Broken) /\ Shrinks /\ UNCHANGED <<responseUnacceptable, closed>>

(* A heartbeat is sent. *)
Beats(request) ==
  /\ pc = "beat"
  /\ request.type = "CONNECT" /\ request.id = statementId + 1 /\ statementId' = request.id
  /\ Sends(request) /\ beat' = request
  /\ GoOn("beatHead")
  /\ UNCHANGED <<shortTimeout, own, saved, answer>>

LEMMA ReadHeadSplit ==
  ASSUME IInv, NEW label, NEW next, ReadHead(label, next),
         label \in {"wait", "beatHead", "lateHead"},
         label = "wait" => next = "body", label = "beatHead" => next = "beatBody",
         label = "lateHead" => next = "lateBody"
  PROVE  GivesUp \/ Continues
  <1> USE DEF IInv
  <1>1. /\ Shrinks /\ NoLateRest
        /\ Head(inbox).part = "head" => BodyNext'
    BY TakePart DEF ReadHead
  <1>2. requests \in Nat /\ statementId \in 0 .. requests
    BY DEF TypeOK
  <1>3. CASE Head(inbox).part = "head"
    BY <1>1, <1>3 DEF ReadHead, GoOn, Continues, heartbeat, object, history
  <1>4. CASE Head(inbox).part # "head"
    BY <1>1, <1>2, <1>4 DEF ReadHead, GivesUp, object, TypeOK
  <1> QED BY <1>3, <1>4

LEMMA ReadReplySplit ==
  ASSUME IInv, ReadReply \/ ReadFirst \/ ReadLate
  PROVE  GivesUp \/ Ends \/ Continues
  <1> USE DEF IInv
  <1>1. BodyNext /\ inbox # <<>>
    BY DEF ReadReply, ReadFirst, ReadLate, ReadBody, CallInv, BodyNext
  <1>2. /\ Shrinks /\ NoLateRest /\ Arrived.to \notin InFlight'
        /\ InFlight' \subseteq InFlight
    BY <1>1, TakePart, FlightShrinks
       DEF ReadReply, ReadFirst, ReadLate, ReadBody, BodyNext
  <1>3. UNCHANGED <<object, own, closed, requests, answer>>
    BY DEF ReadReply, ReadFirst, ReadLate, ReadBody
  <1>4. ASSUME Break, pc \in {"body", "beatBody", "lateBody"}
        PROVE  GivesUp
    <2>1. requests \in Nat /\ statementId \in 0 .. requests
      BY DEF TypeOK
    <2> QED BY <1>2, <1>3, <1>4, <2>1 DEF GivesUp, object, TypeOK
  <1>5. CASE ReadReply
    <2>1. CASE Matches(Arrived, own)
      <3>1. Arrived = [to |-> own, result |-> answer] /\ own \notin InFlight'
        BY <1>1, <1>2, <2>1, ArrivedReply
      <3>2. ~ failed' => InFlight' = {}
        BY <1>2, <1>5, <2>1, <3>1
           DEF ReadReply, ReadBody, Conclude, GiveUp, Finish, NothingElse, Due
      <3>3. pc = "body" /\ Conclude(Arrived)
        BY <1>5, <2>1 DEF ReadReply, ReadBody
      <3>4. Conclude([to |-> own, result |-> answer])
        BY <3>1, <3>3
      <3> QED BY <1>2, <1>3, <3>1, <3>2, <3>3, <3>4 DEF Ends
    <2>2. CASE ~ Matches(Arrived, own)
      BY <1>4, <1>5, <2>2 DEF ReadReply, ReadBody
    <2> QED BY <2>1, <2>2
  <1>6. CASE ReadFirst
    <2>0. pc = "beatBody"
      BY <1>6 DEF ReadFirst, ReadBody
    <2>1. CASE Answered
      <3>1. beat \notin InFlight'
        BY <1>1, <1>2, <2>1, ArrivedReply DEF Answered
      <3> QED BY <1>2, <1>3, <1>6, <2>0, <2>1, <3>1
          DEF ReadFirst, GoOn, Continues, heartbeat, history
    <2>2. CASE ~ Answered /\ Matches(Arrived, own)
      <3>1. Arrived = [to |-> own, result |-> answer] /\ own \notin InFlight'
        BY <1>1, <1>2, <2>2, ArrivedReply
      <3>2. KeepReply
        BY <1>6, <2>2 DEF ReadFirst
      <3>3. CASE Arrived.result = "deny"
        <4>1. GiveUp(own, Arrived) /\ answer = "deny"
          BY <3>1, <3>2, <3>3 DEF KeepReply
        <4>2. GiveUp(own, [to |-> own, result |-> answer])
          BY <3>1, <4>1
        <4>3. Conclude([to |-> own, result |-> answer]) /\ failed'
          BY <4>1, <4>2 DEF Conclude, GiveUp
        <4> QED BY <1>2, <1>3, <2>0, <3>1, <4>3 DEF Ends
      <3>4. CASE Arrived.result # "deny"
        <4>1. answer # "deny" /\ saved' = [to |-> own, result |-> answer]
          BY <3>1, <3>2, <3>4 DEF KeepReply
        <4>2. GoOn("lateHead") /\ UNCHANGED beat
          BY <3>2, <3>4 DEF KeepReply
        <4> QED BY <1>2, <1>3, <2>0, <3>1, <4>1, <4>2 DEF Continues, GoOn, history
      <3> QED BY <3>3, <3>4
    <2>3. CASE ~ Answered /\ ~ Matches(Arrived, own)
      BY <1>4, <1>6, <2>0, <2>3 DEF ReadFirst
    <2> QED BY <2>1, <2>2, <2>3
  <1>7. CASE ReadLate
    <2>0. pc = "lateBody"
      BY <1>7 DEF ReadLate, ReadBody
    <2>1. CASE Answered
      <3>1. beat \notin InFlight' /\ own \notin InFlight'
        BY <1>1, <1>2, <2>0, <2>1, ArrivedReply DEF Answered, OwnAnswered, Replied
      <3>2. Finish(saved) /\ saved = [to |-> own, result |-> answer] /\ answer # "deny"
        BY <1>7, <2>0, <2>1 DEF ReadLate, OwnAnswered
      <3>3. ~ failed' => InFlight' = {}
        BY <1>2, <2>0, <3>1, <3>2 DEF Finish, NothingElse, Due
      <3>4. Finish([to |-> own, result |-> answer])
        BY <3>2
      <3>5. Conclude([to |-> own, result |-> answer])
        BY <3>2, <3>4 DEF Conclude
      <3> QED BY <1>2, <1>3, <2>0, <3>1, <3>3, <3>5 DEF Ends
    <2>2. CASE ~ Answered
      BY <1>4, <1>7, <2>0, <2>2 DEF ReadLate
    <2> QED BY <2>1, <2>2
  <1> QED BY <1>5, <1>6, <1>7

LEMMA LateSplit ==
  ASSUME IInv, ReplyLate \/ BodyLate \/ TimeOut \/ HeartbeatLate
  PROVE  GivesUp \/ Continues
  <1> USE DEF IInv
  <1>0. /\ requests \in Nat /\ statementId \in 0 .. requests
        /\ responseUnacceptable \in BOOLEAN /\ TRUE \in BOOLEAN /\ closed \in BOOLEAN
    BY DEF TypeOK
  <1>1. CASE ReplyLate
    <2>1. Shrinks
      BY <1>1, LatePart DEF ReplyLate
    <2>2. CASE Break
      <3>1. responseUnacceptable' \in BOOLEAN
        BY <1>0, <1>1 DEF ReplyLate, NothingComes, SomethingComes
      <3> QED BY <1>0, <1>1, <2>1, <2>2, <3>1 DEF ReplyLate, GivesUp
    <2>3. CASE NothingComes /\ GoOn("beat") /\ UNCHANGED heartbeat
      <3>1. NoLateRest
        BY <2>3 DEF NothingComes, NoLateRest
      <3> QED BY <1>1, <2>1, <2>3, <3>1
          DEF ReplyLate, Continues, GoOn, object, heartbeat, history, NothingComes
    <2> QED BY <1>1, <2>2, <2>3 DEF ReplyLate
  <1>2. CASE BodyLate
    <2>1. inbox # <<>>
      BY <1>2 DEF BodyLate, CallInv, BodyNext
    <2>2. Shrinks
      BY <1>2, <2>1, LatePart DEF BodyLate
    <2>3. responseUnacceptable' \in BOOLEAN
      BY <1>0, <1>2 DEF BodyLate
    <2> QED BY <1>0, <1>2, <2>2, <2>3 DEF BodyLate, GivesUp
  <1>3. CASE TimeOut
    <2>1. Shrinks
      BY <1>3, LatePart DEF TimeOut, node
    <2> QED BY <1>0, <1>3, <2>1 DEF TimeOut, GivesUp, object, node
  <1>4. CASE HeartbeatLate
    <2>1. Shrinks
      BY <1>4, LatePart DEF HeartbeatLate
    <2>2. responseUnacceptable' \in BOOLEAN
      BY <1>0, <1>4 DEF HeartbeatLate, NothingComes, SomethingComes
    <2> QED BY <1>0, <1>4, <2>1, <2>2 DEF HeartbeatLate, GivesUp
  <1> QED BY <1>1, <1>2, <1>3, <1>4

LEMMA SendSplit ==
  ASSUME IInv, Get \/ (\E id \in ChannelId : Put(id)) \/ SendHeartbeat
  PROVE  GivesUp \/ \E request : Begins(request) \/ Beats(request)
  <1> USE DEF IInv
  <1>0. /\ requests \in Nat /\ statementId \in 0 .. requests
        /\ responseUnacceptable \in BOOLEAN /\ closed \in BOOLEAN
    BY DEF TypeOK
  <1>1. ASSUME NEW type \in {"GET", "PUT"}, NEW id \in Nat, Execute(type, id),
               type = "GET" => id = statementId + 1
        PROVE  \E request : Begins(request)
    <2> DEFINE request == [type |-> type, id |-> id, number |-> requests + 1]
    <2>1. /\ request \in Request /\ request.number = requests + 1
          /\ request.type = type /\ request.id = id
      BY <1>0 DEF Request
    <2>2. /\ pc = "idle" /\ requests' = requests + 1
          /\ statementId' = IF type = "GET" THEN id ELSE statementId
          /\ own' = request /\ answer' = "none"
          /\ UNCHANGED <<responseUnacceptable, shortTimeout, inbox, closed>>
          /\ \/ /\ outstanding' = outstanding \cup {request}
                /\ GoOn("wait") /\ UNCHANGED heartbeat
             \/ GiveUp(request, Broken) /\ UNCHANGED outstanding
      BY <1>1 DEF Execute
    <2> HIDE DEF request
    <2>3. UNCHANGED outstanding => Shrinks
      BY <2>2, LatePart
    <2>4. outstanding' = outstanding \cup {request} => Sends(request)
      BY <2>1, <2>2 DEF Sends
    <2> QED BY <1>1, <2>1, <2>2, <2>3, <2>4 DEF Begins
  <1>2. CASE Get
    BY <1>0, <1>1, <1>2 DEF Get
  <1>3. CASE \E id \in ChannelId : Put(id)
    BY <1>1, <1>3, ConnectionAssumption DEF Put
  <1>4. CASE SendHeartbeat
    <2> DEFINE request == [type |-> "CONNECT", id |-> statementId + 1,
                           number |-> requests + 1]
    <2>1. /\ request \in Request /\ request.number = requests + 1
          /\ request.type = "CONNECT" /\ request.id = statementId + 1
      BY <1>0 DEF Request
    <2>2. /\ pc = "beat"
          /\ requests' = requests + 1 /\ statementId' = request.id
          /\ UNCHANGED <<responseUnacceptable, shortTimeout, own, inbox, closed, answer>>
          /\ \/ /\ beat' = request /\ outstanding' = outstanding \cup {request}
                /\ GoOn("beatHead") /\ UNCHANGED saved
             \/ Break /\ UNCHANGED outstanding
      BY <1>0, <1>4 DEF SendHeartbeat
    <2> HIDE DEF request
    <2>3. UNCHANGED outstanding => Shrinks
      BY <2>2, LatePart
    <2>4. outstanding' = outstanding \cup {request} => Sends(request)
      BY <2>1, <2>2 DEF Sends
    <2>5. requests' \in Nat /\ requests' >= requests /\ statementId' \in statementId .. requests'
      BY <1>0, <2>1, <2>2
    <2>6. CASE Break /\ UNCHANGED outstanding
      BY <1>0, <2>2, <2>3, <2>5, <2>6 DEF GivesUp
    <2>7. CASE beat' = request /\ outstanding' = outstanding \cup {request} /\ GoOn("beatHead")
      BY <2>1, <2>2, <2>4, <2>7 DEF Beats, Break, GiveUp, GoOn
    <2> QED BY <2>2, <2>6, <2>7
  <1> QED BY <1>2, <1>3, <1>4

LEMMA NextSplit ==
  ASSUME IInv, Next
  PROVE  \/ \E request : Begins(request) \/ Beats(request)
         \/ GivesUp \/ Ends \/ Continues \/ Reply \/ Close
  <1>1. CASE ReadReplyHead \/ ReadHeartbeatHead \/ ReadLateHead
    BY <1>1, ReadHeadSplit DEF ReadReplyHead, ReadHeartbeatHead, ReadLateHead
  <1> QED BY <1>1, ReadReplySplit, LateSplit, SendSplit DEF Next, Client

-----------------------------------------------------------------------------
(* Each part of the invariant is kept. *)

LEMMA SocketStep ==
  ASSUME IInv, [Next]_vars
  PROVE  SocketInv' /\ inbox' \in Seq(Part)
  <1> USE DEF IInv
  <1>1. CASE \E request : Begins(request) \/ Beats(request)
    BY <1>1, SendsRequest DEF Begins, Beats, Shrinks, Sends, TypeOK
  <1>2. CASE GivesUp \/ Ends \/ Continues
    BY <1>2 DEF GivesUp, Ends, Continues, Shrinks
  <1>3. CASE Reply
    BY <1>3, NodeReplies
  <1>4. CASE Close
    BY <1>4, LatePart DEF Close, Shrinks
  <1>5. CASE UNCHANGED vars
    BY <1>5, LatePart DEF vars, node, Shrinks
  <1> QED BY <1>1, <1>2, <1>3, <1>4, <1>5, NextSplit

LEMMA RepliesTyped ==
  /\ NoReply.to \in Request /\ Broken.to \in Request
  /\ NoReply.result = "none" /\ Broken.result = "connection"
  /\ NoRequest \in Request /\ NoRequest.type = "CONNECT"
  BY DEF NoReply, Broken, NoRequest, Request

LEMMA TypeStep ==
  ASSUME IInv, [Next]_vars
  PROVE  TypeOK'
  <1> USE DEF IInv
  <1>0. /\ requests \in Nat /\ statementId \in 0 .. requests
    BY DEF TypeOK
  <1>1. inbox' \in Seq(Part)
    BY SocketStep
  <1>2. ASSUME NEW request, Begins(request)
        PROVE  TypeOK'
    <2>1. CASE Sends(request) /\ GoOn("wait") /\ UNCHANGED heartbeat
      BY <1>0, <1>1, <1>2, <2>1 DEF Begins, Sends, GoOn, heartbeat, TypeOK
    <2>2. CASE GiveUp(request, Broken) /\ Shrinks /\ UNCHANGED <<responseUnacceptable, closed>>
      BY <1>0, <1>1, <1>2, <2>2, RepliesTyped DEF Begins, GiveUp, Clear, Shrinks, TypeOK
    <2> QED BY <1>2, <2>1, <2>2 DEF Begins
  <1>3. ASSUME NEW request, Beats(request)
        PROVE  TypeOK'
    BY <1>0, <1>1, <1>3 DEF Beats, Sends, GoOn, TypeOK
  <1>4. CASE GivesUp
    BY <1>0, <1>1, <1>4, RepliesTyped DEF GivesUp, Break, GiveUp, Clear, Shrinks, TypeOK
  <1>5. CASE Ends
    <2> DEFINE reply == [to |-> own, result |-> answer]
    <2>1. /\ reply.to \in Request
          /\ reply.result \in {"none", "success", "error", "deny", "connection"}
      BY DEF TypeOK
    <2>2. Conclude(reply) /\ UNCHANGED <<statementId, responseUnacceptable, shortTimeout, own, closed, requests, answer>>
      BY <1>5 DEF Ends, object
    <2>3. /\ pc' \in {"idle", "deleted"} /\ outcome' = reply /\ Clear
          /\ failed' \in BOOLEAN
      BY <2>2 DEF Conclude, GiveUp, Finish, TypeOK
    <2> HIDE DEF reply
    <2> QED BY <1>0, <1>1, <1>5, <2>1, <2>2, <2>3, RepliesTyped
        DEF Ends, Clear, Shrinks, TypeOK
  <1>6. CASE Continues
    <2>1. /\ saved'.to \in Request
          /\ saved'.result \in {"none", "success", "error", "deny", "connection"}
      BY <1>6 DEF Continues, TypeOK
    <2> QED BY <1>0, <1>1, <1>6, <2>1 DEF Continues, Shrinks, object, history, TypeOK
  <1>7. CASE Reply
    <2>1. outstanding' \subseteq outstanding /\ answer' \in {"none", "success", "error", "deny"}
      BY <1>7, NodeReplies DEF TypeOK
    <2> QED BY <1>1, <1>7, <2>1 DEF Reply, object, call, heartbeat, TypeOK
  <1>8. CASE Close
    BY <1>1, <1>8 DEF Close, object, call, heartbeat, history, TypeOK
  <1>9. CASE UNCHANGED vars
    BY <1>9 DEF vars, object, call, heartbeat, node, history, TypeOK
  <1> QED BY <1>2, <1>3, <1>4, <1>5, <1>6, <1>7, <1>8, <1>9, NextSplit

(* The requests that are known are those that were, and one that is new. *)
LEMMA KnownStep ==
  ASSUME IInv, [Next]_vars
  PROVE  \/ \E request : /\ Begins(request) \/ Beats(request)
                         /\ request.number = requests + 1 /\ requests' = requests + 1
                         /\ Known' \subseteq Known \cup {request}
         \/ /\ Known' \subseteq Known /\ requests' >= requests
            /\ statementId' >= statementId
  <1> USE DEF IInv
  <1>0. /\ requests \in Nat /\ statementId \in Nat
        /\ requests >= requests /\ statementId >= statementId
    BY DEF TypeOK
  <1>1. ASSUME NEW request, Begins(request)
        PROVE  /\ request.number = requests + 1 /\ requests' = requests + 1
               /\ Known' \subseteq Known \cup {request}
    <2>1. InFlight' \subseteq InFlight \cup {request}
      BY <1>1, SendsRequest, FlightShrinks DEF Begins
    <2> QED BY <1>1, <2>1 DEF Begins, Known, heartbeat, GiveUp, Clear
  <1>2. ASSUME NEW request, Beats(request)
        PROVE  /\ request.number = requests + 1 /\ requests' = requests + 1
               /\ Known' \subseteq Known \cup {request}
    <2>1. InFlight' \subseteq InFlight \cup {request}
      BY <1>2, SendsRequest DEF Beats
    <2> QED BY <1>2, <2>1 DEF Beats, Sends, Known
  <1>3. CASE GivesUp
    BY <1>0, <1>3, FlightShrinks DEF GivesUp, Break, GiveUp, Clear, Known
  <1>4. CASE Ends
    BY <1>0, <1>4, FlightShrinks DEF Ends, Conclude, GiveUp, Finish, Clear, Known, object
  <1>5. CASE Continues
    BY <1>0, <1>5, FlightShrinks DEF Continues, Known, object
  <1>6. CASE Reply
    BY <1>0, <1>6, NodeReplies DEF Reply, Known, object, call, heartbeat
  <1>7. CASE Close
    BY <1>0, <1>7, FlightShrinks, LatePart DEF Close, Known, object, call, heartbeat
  <1>8. CASE UNCHANGED vars
    BY <1>0, <1>8, FlightShrinks, LatePart DEF vars, Known, object, call, heartbeat, node
  <1> QED BY <1>1, <1>2, <1>3, <1>4, <1>5, <1>6, <1>7, <1>8, NextSplit

LEMMA IdsDifferStep ==
  ASSUME IInv, [Next]_vars
  PROVE  IdsDiffer'
  <1> USE DEF IInv
  <1>0. /\ requests \in Nat /\ statementId \in Nat
        /\ statementId' \in Nat /\ requests' \in Nat
        /\ Known \subseteq Request
    <2>1. TypeOK'
      BY TypeStep
    <2> QED BY <2>1, InboxParts, RepliesTyped DEF TypeOK, Known
  <1>1. ASSUME NEW request, Begins(request) \/ Beats(request),
               request.number = requests + 1, requests' = requests + 1,
               Known' \subseteq Known \cup {request}
        PROVE  IdsDiffer'
    <2>1. /\ request.type # "PUT" => request.id = statementId + 1 /\ statementId' = request.id
          /\ statementId' >= statementId
      BY <1>0, <1>1 DEF Begins, Beats
    <2>2. \A r \in Known : r.number <= requests /\ (r.type # "PUT" => r.id <= statementId)
                           /\ r.number \in Nat /\ r.id \in Nat
      BY <1>0 DEF IdsDiffer, Request
    <2>3. \A r \in Known \cup {request} :
            r.number <= requests' /\ (r.type # "PUT" => r.id <= statementId')
      BY <1>0, <1>1, <2>1, <2>2
    <2>4. \A r, s \in Known \cup {request} :
            r.type # "PUT" /\ r.type = s.type /\ r.id = s.id => r = s
      BY <1>0, <2>1, <2>2 DEF IdsDiffer
    <2> QED BY <1>1, <2>3, <2>4 DEF IdsDiffer
  <1>2. ASSUME Known' \subseteq Known, requests' >= requests, statementId' >= statementId
        PROVE  IdsDiffer'
    <2>1. \A r \in Known : r.number \in Nat /\ r.id \in Nat
      BY <1>0 DEF Request
    <2> QED BY <1>0, <1>2, <2>1 DEF IdsDiffer
  <1> QED BY <1>1, <1>2, KnownStep

LEMMA PutsEndStep ==
  ASSUME IInv, [Next]_vars
  PROVE  PutsEnd'
  <1> USE DEF IInv, PutsEnd
  <1>1. ASSUME NEW request, Begins(request)
        PROVE  PutsEnd'
    <2>1. \A r \in InFlight : r.type # "PUT"
      BY <1>1 DEF Begins
    <2>2. CASE Sends(request) /\ GoOn("wait")
      BY <1>1, <2>1, <2>2, SendsRequest DEF Begins, GoOn
    <2>3. CASE Shrinks
      BY <2>1, <2>3, FlightShrinks
    <2> QED BY <1>1, <2>2, <2>3 DEF Begins
  <1>2. ASSUME NEW request, Beats(request)
        PROVE  PutsEnd'
    BY <1>2, SendsRequest DEF Beats, GoOn
  <1>3. CASE GivesUp
    BY <1>3, FlightShrinks DEF GivesUp, Break, GiveUp, Gone
  <1>4. CASE Ends
    BY <1>4, FlightShrinks DEF Ends
  <1>5. CASE Continues
    BY <1>5, FlightShrinks DEF Continues
  <1>6. CASE Reply
    BY <1>6, NodeReplies DEF Reply, call
  <1>7. CASE Close \/ UNCHANGED vars
    <2>1. InFlight' \subseteq InFlight
      BY <1>7, FlightShrinks, LatePart DEF Close, vars, node
    <2> QED BY <1>7, <2>1 DEF Close, call, vars
  <1> QED BY <1>1, <1>2, <1>3, <1>4, <1>5, <1>6, <1>7, NextSplit

LEMMA OwnAnsweredStep ==
  ASSUME IInv, [Next]_vars
  PROVE  OwnAnswered'
  <1> USE DEF IInv, OwnAnswered
  <1>1. ASSUME NEW request, Begins(request)
        PROVE  OwnAnswered'
    <2>1. request \notin Known
      BY <1>1, InboxParts DEF Begins, IdsDiffer, TypeOK
    <2>2. Replies' \subseteq Replies
      BY <1>1, SendsRequest DEF Begins, Shrinks
    <2>3. \A reply \in Replies' : reply.to # own'
      BY <1>1, <2>1, <2>2 DEF Begins, Known, InFlight
    <2>4. ~ Replied' /\ pc' \notin {"lateHead", "lateBody"}
      BY <1>1, RepliesTyped DEF Begins, GoOn, GiveUp, Replied
    <2> QED BY <2>3, <2>4
  <1>2. ASSUME NEW request, Beats(request)
        PROVE  OwnAnswered'
    BY <1>2, SendsRequest DEF Beats, GoOn, Replied
  <1>3. CASE GivesUp
    <2>1. ~ Replied' /\ pc' \notin {"lateHead", "lateBody"}
      BY <1>3, RepliesTyped DEF GivesUp, Break, GiveUp, Replied
    <2> QED BY <1>3, <2>1 DEF GivesUp, Shrinks
  <1>4. CASE Ends
    BY <1>4 DEF Ends, Shrinks, Conclude, GiveUp, Finish
  <1>5. CASE Continues
    <2>1. /\ \A reply \in Replies' : reply.to = own' => reply.result = answer'
          /\ UNCHANGED <<own, answer>>
      BY <1>5 DEF Continues, Shrinks, history
    <2>2. pc' \in {"lateHead", "lateBody"} =>
            /\ own \notin InFlight' /\ saved' = [to |-> own, result |-> answer]
            /\ answer # "deny"
      BY <1>5, FlightShrinks DEF Continues, Replied
    <2>3. pc' \notin {"idle", "deleted"}
      BY <1>5 DEF Continues
    <2> QED BY <2>1, <2>2, <2>3 DEF Replied
  <1>6. CASE Reply
    <2>1. PICK r \in outstanding, result \in {"success", "error", "deny"} :
            /\ Replies' = Replies \cup {[to |-> r, result |-> result]}
            /\ answer' = IF r = own THEN result ELSE answer
            /\ InFlight' = InFlight
      BY <1>6, NodeReplies
    <2>2. UNCHANGED <<own, pc, outcome, saved>>
      BY <1>6 DEF Reply, call, heartbeat
    <2>3. \A reply \in Replies : reply.to # r
      BY DEF Replies, SocketInv
    <2>4. Replied => r # own
      BY DEF InFlight
    <2>5. Replied' <=> Replied
      BY <2>2 DEF Replied
    <2>6. pc \in {"lateHead", "lateBody"} => Replied
      BY DEF Replied
    <2> QED BY <2>1, <2>2, <2>3, <2>4, <2>5, <2>6
  <1>7. CASE Close \/ UNCHANGED vars
    <2>1. InFlight' \subseteq InFlight /\ Replies' \subseteq Replies
      BY <1>7, FlightShrinks, LatePart DEF Close, vars, node, Shrinks
    <2> QED BY <1>7, <2>1 DEF Close, call, heartbeat, history, vars, Replied
  <1> QED BY <1>1, <1>2, <1>3, <1>4, <1>5, <1>6, <1>7, NextSplit

LEMMA CallStep ==
  ASSUME IInv, [Next]_vars
  PROVE  CallInv'
  <1> USE DEF IInv, CallInv
  <1>1. CASE \E request : Begins(request) \/ Beats(request)
    BY <1>1, RepliesTyped
       DEF Begins, Beats, GoOn, GiveUp, Clear, heartbeat
  <1>2. CASE GivesUp
    BY <1>2, RepliesTyped DEF GivesUp, Break, GiveUp, Clear
  <1>3. CASE Ends
    BY <1>3, RepliesTyped DEF Ends, Conclude, Finish, GiveUp, Clear
  <1>4. CASE Continues
    BY <1>4 DEF Continues
  <1>5. CASE Reply
    BY <1>5, NodeReplies DEF Reply, call, heartbeat
  <1>6. CASE Close \/ UNCHANGED vars
    BY <1>6 DEF Close, call, heartbeat, history, vars, node, BodyNext
  <1> QED BY <1>1, <1>2, <1>3, <1>4, <1>5, <1>6, NextSplit

LEMMA NothingElseStep ==
  ASSUME IInv, [Next]_vars
  PROVE  NothingElse'
  <1> USE DEF IInv, NothingElse
  <1>1. ASSUME NEW request, Begins(request), ~ failed'
        PROVE  NothingElse'
    <2>1. Sends(request) /\ GoOn("wait") /\ pc = "idle" /\ own' = request
      BY <1>1 DEF Begins, GiveUp
    <2> QED BY <2>1, SendsRequest DEF GoOn, Due, Sends
  <1>2. ASSUME NEW request, Beats(request)
        PROVE  NothingElse'
    <2>1. InFlight' = InFlight \cup {request}
      BY <1>2, SendsRequest DEF Beats
    <2> QED BY <1>2, <2>1 DEF Beats, Sends, GoOn, Due
  <1>3. CASE GivesUp
    BY <1>3 DEF GivesUp, Break, GiveUp
  <1>4. CASE Ends
    BY <1>4 DEF Ends, Conclude, GiveUp, Finish, NoLateRest
  <1>5. CASE Continues
    <2>1. InFlight' \subseteq InFlight
      BY <1>5, FlightShrinks DEF Continues
    <2>2. ~ failed => InFlight' \subseteq Due'
      BY <1>5, <2>1 DEF Continues, Due
    <2> QED BY <1>5, <2>2 DEF Continues, NoLateRest, history
  <1>6. CASE Reply
    <2>1. Due' = Due
      BY <1>6 DEF Reply, call, heartbeat, Due
    <2> QED BY <1>6, <2>1, NodeReplies DEF Reply
  <1>7. CASE Close \/ UNCHANGED vars
    <2>1. InFlight' \subseteq InFlight /\ Due' = Due /\ UNCHANGED <<inbox, failed>>
      BY <1>7, FlightShrinks, LatePart
         DEF Close, vars, node, call, heartbeat, history, Due
    <2> QED BY <2>1
  <1> QED BY <1>1, <1>2, <1>3, <1>4, <1>5, <1>6, <1>7, NextSplit

LEMMA OwnReplyStep ==
  ASSUME IInv, [Next]_vars
  PROVE  OwnReply'
  <1> USE DEF IInv, OwnReply
  <1>1. CASE \E request : Begins(request) \/ Beats(request)
    BY <1>1, RepliesTyped DEF Begins, Beats, GoOn, GiveUp
  <1>2. CASE GivesUp
    BY <1>2, RepliesTyped DEF GivesUp, Break, GiveUp
  <1>3. CASE Ends
    BY <1>3 DEF Ends, Conclude, Finish, GiveUp
  <1>4. CASE Continues
    BY <1>4 DEF Continues
  <1>5. CASE Reply
    <2>1. PICK r \in outstanding, result \in {"success", "error", "deny"} :
            answer' = IF r = own THEN result ELSE answer
      BY <1>5, NodeReplies
    <2>2. Replied => r # own
      BY DEF OwnAnswered, InFlight
    <2> QED BY <1>5, <2>1, <2>2 DEF Reply, call, Replied
  <1>6. CASE Close \/ UNCHANGED vars
    BY <1>6 DEF Close, call, history, vars
  <1> QED BY <1>1, <1>2, <1>3, <1>4, <1>5, <1>6, NextSplit

LEMMA InitIInv == Init => IInv
  <1> SUFFICES ASSUME Init PROVE IInv
    OBVIOUS
  <1>1. inbox = <<>> /\ inbox \in Seq(Part) /\ Len(inbox) = 0
    BY DEF Init
  <1>2. TypeOK
    <2>1. /\ statementId \in 0 .. requests /\ requests \in Nat
          /\ shortTimeout \in BOOLEAN
      BY DEF Init
    <2>2. /\ own \in Request /\ beat \in Request
          /\ \A reply \in {saved, outcome} : reply.to \in Request /\ reply.result = "none"
      BY RepliesTyped DEF Init
    <2>3. responseUnacceptable \in BOOLEAN /\ closed \in BOOLEAN /\ failed \in BOOLEAN
      BY DEF Init
    <2> QED BY <1>1, <2>1, <2>2, <2>3 DEF Init, TypeOK
  <1>3. Bodies = {} /\ Replies = {} /\ InFlight = {}
    BY <1>1 DEF Init, Bodies, Replies, InFlight
  <1>4. SocketInv /\ NothingElse
    BY <1>1, <1>3 DEF SocketInv, NothingElse
  <1>5. Known = {NoRequest} /\ NoRequest.number = 0 /\ NoRequest.id = 0
    BY <1>3 DEF Init, Known, NoRequest
  <1>6. IdsDiffer
    BY <1>5 DEF Init, IdsDiffer
  <1>7. CallInv
    BY RepliesTyped DEF Init, CallInv
  <1> QED BY <1>2, <1>3, <1>4, <1>6, <1>7, RepliesTyped
      DEF Init, IInv, PutsEnd, OwnAnswered, Replied, OwnReply

LEMMA Inductive == Spec => []IInv
  <1>1. IInv /\ [Next]_vars => IInv'
    BY TypeStep, SocketStep, IdsDifferStep, PutsEndStep, OwnAnsweredStep, CallStep,
       NothingElseStep, OwnReplyStep DEF IInv
  <1> QED BY <1>1, InitIInv, PTL DEF Spec

-----------------------------------------------------------------------------
(* The variables of a NodeConnection keep their types, and the ids it has   *)
(* given are no more than the requests it has sent.                         *)
THEOREM ConnectionTypeCorrect == Spec => []TypeOK
  BY Inductive, PTL DEF IInv

(* executeStatementDirect gives its caller what the node has said to that   *)
(* statement, whatever replies to heartbeats or to statements given up come *)
(* before, after or in the place of it.                                     *)
THEOREM ConnectionOwnReply == Spec => []OwnReply
  BY Inductive, PTL DEF IInv

(* A connection that has never failed is in step with its node whenever no  *)
(* statement is under way: no reply is due, and none is left in the socket. *)
THEOREM ConnectionInSync == Spec => []InSync
  <1>1. IInv => InSync
    <2> SUFFICES ASSUME IInv PROVE InSync
      OBVIOUS
    <2> USE DEF IInv
    <2>1. ASSUME pc = "idle", ~ failed
          PROVE  outstanding = {} /\ inbox = <<>>
      <3>1. outstanding = {} /\ Replies = {}
        BY <2>1 DEF NothingElse, Due, InFlight
      <3>2. Bodies = {}
        BY <3>1 DEF Replies
      <3>3. ~ \E i \in 1 .. Len(inbox) : TRUE
        BY <2>1, <3>2, InboxParts DEF Bodies, SocketInv, NothingElse
      <3>4. Len(inbox) = 0
        BY <3>3, InboxParts
      <3> QED BY <3>1, <3>4, InboxParts
    <2> QED BY <2>1 DEF InSync
  <1> QED BY <1>1, Inductive, PTL
=============================================================================
