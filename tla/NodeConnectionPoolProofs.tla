---------------------- MODULE NodeConnectionPoolProofs ----------------------
(* Proofs about NodeConnectionPool, for any number of threads, addresses,   *)
(* connections and pool sizes.                                              *)
EXTENDS NodeConnectionPool, SequenceTheorems, FiniteSetTheorems, TLAPS

-----------------------------------------------------------------------------
(* Facts about sequences.                                                   *)

(* Removing one element keeps a sequence over the same set and shortens it  *)
(* by one: what pull does to addressQueue_.                                 *)
LEMMA RemoveAtProperties ==
  ASSUME NEW S, NEW s \in Seq(S), NEW k \in 1..Len(s)
  PROVE  /\ RemoveAt(s, k) \in Seq(S)
         /\ Len(RemoveAt(s, k)) = Len(s) - 1
<1>1. /\ SubSeq(s, 1, k - 1) \in Seq(S)
      /\ Len(SubSeq(s, 1, k - 1)) = k - 1
  BY SubSeqProperties, ElementOfSeq, LenProperties
<1>2. /\ SubSeq(s, k + 1, Len(s)) \in Seq(S)
      /\ Len(SubSeq(s, k + 1, Len(s))) = Len(s) - k
  BY SubSeqProperties, ElementOfSeq, LenProperties
<1>3. /\ SubSeq(s, 1, k - 1) \o SubSeq(s, k + 1, Len(s)) \in Seq(S)
      /\ Len(SubSeq(s, 1, k - 1) \o SubSeq(s, k + 1, Len(s)))
           = Len(SubSeq(s, 1, k - 1)) + Len(SubSeq(s, k + 1, Len(s)))
  BY <1>1, <1>2, ConcatProperties, Zenon
<1>4. Len(s) \in Nat /\ k \in Nat
  BY LenProperties
<1>5. RemoveAt(s, k) = SubSeq(s, 1, k - 1) \o SubSeq(s, k + 1, Len(s))
  BY DEF RemoveAt
<1>6. Len(RemoveAt(s, k)) = (k - 1) + (Len(s) - k)
  BY <1>1, <1>2, <1>3, <1>5, Zenon
<1>7. RemoveAt(s, k) \in Seq(S)
  BY <1>3, <1>5, Zenon
<1> QED
  BY <1>4, <1>6, <1>7

(* The front of a sequence is the sequence without its last element.        *)
LEMMA FrontProperties ==
  ASSUME NEW S, NEW s \in Seq(S), s # <<>>
  PROVE  /\ Front(s) \in Seq(S) /\ Len(Front(s)) = Len(s) - 1
         /\ DOMAIN Front(s) = 1..(Len(s) - 1)
         /\ \A i \in 1..(Len(s) - 1) : Front(s)[i] = s[i]
         /\ Last(s) \in S
         /\ Len(s) \in DOMAIN s
         /\ Last(s) = s[Len(s)]
<1>1. Len(s) \in Nat \ {0} /\ DOMAIN s = 1..Len(s)
  BY EmptySeq, LenProperties
<1>2. /\ SubSeq(s, 1, Len(s) - 1) \in Seq(S)
      /\ Len(SubSeq(s, 1, Len(s) - 1)) = Len(s) - 1
      /\ \A i \in 1..(Len(s) - 1) : SubSeq(s, 1, Len(s) - 1)[i] = s[i]
  BY <1>1, SubSeqProperties, ElementOfSeq
<1> QED
  BY <1>1, <1>2, LenProperties, ElementOfSeq DEF Front, Last

-----------------------------------------------------------------------------
(* The inductive invariant: the properties the runs check, and where the    *)
(* threads stand inside their calls.                                        *)

(* Only the thread inside the mutex is in adjustSize; a connection being    *)
(* logged in on belongs to its thread; and a thread has something in its    *)
(* local list only while it deletes what is there.                          *)
ThreadInv(t) ==
  /\ pc[t] = "adjust" => mutex = t
  /\ pc[t] = "login" => current[t] \in held[t]
  /\ pc[t] # "delete" => connectionList[t] = {}

ThreadsInv == \A t \in Thread : ThreadInv(t)

IInv == TypeOK /\ SingleOwner /\ ThreadsInv /\ SizeBounded /\ EvictedHasCollector

(* Popping the newest idle connection of an address leaves every other one  *)
(* where it was.                                                            *)
LEMMA PopIdle ==
  ASSUME TypeOK, IdleOnce, NEW a \in Address, connectionMap[a] # <<>>,
         connectionMap' = [connectionMap EXCEPT ![a] = Front(connectionMap[a])]
  PROVE  /\ connectionMap' \in [Address -> Seq(Connection)]
         /\ Last(connectionMap[a]) \in Connection
         /\ \E n \in DOMAIN connectionMap[a] :
              connectionMap[a][n] = Last(connectionMap[a])
         /\ \A b \in Address : \A i \in DOMAIN connectionMap'[b] :
              /\ i \in DOMAIN connectionMap[b]
              /\ connectionMap'[b][i] = connectionMap[b][i]
              /\ connectionMap'[b][i] # Last(connectionMap[a])
         /\ \A b \in Address : \A i \in DOMAIN connectionMap[b] :
              connectionMap[b][i] # Last(connectionMap[a])
                => i \in DOMAIN connectionMap'[b]
<1> DEFINE list == connectionMap[a]
<1>1. list \in Seq(Connection)
  BY DEF TypeOK
<1>2. /\ Front(list) \in Seq(Connection)
      /\ DOMAIN Front(list) = 1..(Len(list) - 1)
      /\ \A i \in 1..(Len(list) - 1) : Front(list)[i] = list[i]
      /\ Last(list) \in Connection
      /\ Len(list) \in DOMAIN list
      /\ Last(list) = list[Len(list)]
  BY <1>1, FrontProperties
<1>3. Len(list) \in Nat /\ DOMAIN list = 1..Len(list)
  BY <1>1, LenProperties
<1>4. connectionMap' \in [Address -> Seq(Connection)]
  BY <1>2 DEF TypeOK
<1>5. ASSUME NEW b \in Address, NEW i \in DOMAIN connectionMap'[b]
      PROVE  /\ i \in DOMAIN connectionMap[b]
             /\ connectionMap'[b][i] = connectionMap[b][i]
             /\ connectionMap'[b][i] # Last(list)
  <2>1. CASE b = a
    <3>1. connectionMap'[b] = Front(list)
      BY <2>1 DEF TypeOK
    <3>2. i \in 1..(Len(list) - 1)
      BY <1>2, <1>5, <3>1
    <3>3. i \in DOMAIN list /\ i # Len(list) /\ Front(list)[i] = list[i]
      BY <1>2, <1>3, <3>2
    <3>4. list[i] # list[Len(list)]
      BY <1>2, <3>3 DEF IdleOnce
    <3> QED
      BY <1>2, <2>1, <3>1, <3>3, <3>4
  <2>2. CASE b # a
    <3>1. connectionMap'[b] = connectionMap[b]
      BY <2>2 DEF TypeOK
    <3>2. connectionMap[b][i] # list[Len(list)]
      BY <1>2, <1>5, <2>2, <3>1 DEF IdleOnce
    <3> QED
      BY <1>2, <1>5, <3>1, <3>2
  <2> QED
    BY <2>1, <2>2
<1>6. ASSUME NEW b \in Address, NEW i \in DOMAIN connectionMap[b],
             connectionMap[b][i] # Last(list)
      PROVE  i \in DOMAIN connectionMap'[b]
  <2>1. CASE b = a
    <3>1. connectionMap'[b] = Front(list)
      BY <2>1 DEF TypeOK
    <3>2. i \in 1..(Len(list) - 1)
      BY <1>2, <1>3, <1>6, <2>1
    <3> QED
      BY <1>2, <3>1, <3>2
  <2>2. CASE b # a
    BY <2>2 DEF TypeOK
  <2> QED
    BY <2>1, <2>2
<1> QED
  BY <1>2, <1>4, <1>5, <1>6

(* Pushing a connection on the list of an address moves no other one.       *)
LEMMA PushIdle ==
  ASSUME TypeOK, NEW a \in Address, NEW c \in Connection,
         connectionMap' = [connectionMap EXCEPT ![a] = Append(connectionMap[a], c)]
  PROVE  /\ \A b \in Address : \A i \in DOMAIN connectionMap'[b] :
              \/ /\ i \in DOMAIN connectionMap[b]
                 /\ connectionMap'[b][i] = connectionMap[b][i]
              \/ /\ b = a
                 /\ i = Len(connectionMap[a]) + 1
                 /\ connectionMap'[b][i] = c
         /\ \A b \in Address : \A i \in DOMAIN connectionMap[b] :
              /\ i \in DOMAIN connectionMap'[b]
              /\ connectionMap'[b][i] = connectionMap[b][i]
         /\ \E n \in DOMAIN connectionMap'[a] : connectionMap'[a][n] = c
<1> DEFINE list == connectionMap[a]
<1>1. list \in Seq(Connection)
  BY DEF TypeOK
<1>2. /\ DOMAIN Append(list, c) = 1..(Len(list) + 1)
      /\ \A i \in 1..Len(list) : Append(list, c)[i] = list[i]
      /\ Append(list, c)[Len(list) + 1] = c
  BY <1>1, AppendProperties, LenProperties
<1>3. DOMAIN list = 1..Len(list) /\ Len(list) \in Nat
  BY <1>1, LenProperties
<1>4. \A b \in Address : connectionMap'[b] =
        IF b = a THEN Append(list, c) ELSE connectionMap[b]
  BY DEF TypeOK
<1>5. ASSUME NEW b \in Address, NEW i \in DOMAIN connectionMap'[b]
      PROVE  \/ /\ i \in DOMAIN connectionMap[b]
                /\ connectionMap'[b][i] = connectionMap[b][i]
             \/ /\ b = a
                /\ i = Len(list) + 1
                /\ connectionMap'[b][i] = c
  <2>1. CASE b # a
    BY <1>4, <2>1
  <2>2. CASE b = a
    <3>1. connectionMap'[b] = Append(list, c) /\ i \in 1..(Len(list) + 1)
      BY <1>2, <1>4, <2>2
    <3>2. CASE i = Len(list) + 1
      BY <1>2, <2>2, <3>1, <3>2
    <3>3. CASE i # Len(list) + 1
      <4>1. i \in 1..Len(list)
        BY <1>3, <3>1, <3>3
      <4> QED
        BY <1>2, <1>3, <2>2, <3>1, <4>1
    <3> QED
      BY <3>2, <3>3
  <2> QED
    BY <2>1, <2>2
<1>6. ASSUME NEW b \in Address, NEW i \in DOMAIN connectionMap[b]
      PROVE  /\ i \in DOMAIN connectionMap'[b]
             /\ connectionMap'[b][i] = connectionMap[b][i]
  <2>1. CASE b # a
    BY <1>4, <2>1
  <2>2. CASE b = a
    <3>1. i \in 1..Len(list) /\ i \in 1..(Len(list) + 1)
      BY <1>3, <2>2
    <3> QED
      BY <1>2, <1>4, <2>2, <3>1
  <2> QED
    BY <2>1, <2>2
<1>7. Len(list) + 1 \in DOMAIN connectionMap'[a]
  <2>1. connectionMap'[a] = Append(list, c)
    BY <1>4
  <2>2. Len(list) + 1 \in 1..(Len(list) + 1)
    BY <1>3
  <2> QED
    BY <1>2, <2>1, <2>2
<1>8. \E n \in DOMAIN connectionMap'[a] : connectionMap'[a][n] = c
  BY <1>2, <1>4, <1>7
<1> QED
  BY <1>5, <1>6, <1>8

-----------------------------------------------------------------------------
(* Type correctness.  Every case also uses the definition of TypeOK alone:  *)
(* no other part of the invariant is needed.                                *)
LEMMA TypeInit == Init => TypeOK
  BY PoolAssumption DEF Init, TypeOK

LEMMA TypeNext == TypeOK /\ [Next]_vars => TypeOK'
<1> SUFFICES ASSUME TypeOK, [Next]_vars PROVE TypeOK'
  OBVIOUS
<1> USE DEF Goto, shared, objects
<1>1. ASSUME NEW t \in Thread, NEW a \in Address, Pull(t, a)
      PROVE  TypeOK'
  <2>1. CASE PullNothing(t, a)
    BY <1>1, <2>1 DEF Pull, PullNothing, TypeOK
  <2>2. CASE PullConnection(t, a)
    <3>1. addressQueue' \in Seq(Address)
      BY <2>2, RemoveAtProperties, LenProperties DEF PullConnection, TypeOK
    <3>2. /\ Front(connectionMap[a]) \in Seq(Connection)
          /\ Last(connectionMap[a]) \in Connection
      BY <2>2, FrontProperties DEF PullConnection, TypeOK
    <3> QED
      BY <1>1, <2>2, <3>1, <3>2 DEF Pull, PullConnection, TypeOK
  <2> QED
    BY <1>1, <2>1, <2>2 DEF Pull
<1>2. ASSUME NEW t \in Thread, NEW a \in Address, SkipPool(t, a)
      PROVE  TypeOK'
  BY <1>2 DEF SkipPool, TypeOK
<1>3. ASSUME NEW t \in Thread, NEW c \in Connection, Add(t, c)
      PROVE  TypeOK'
  <2>1. RemoteAddress[c] \in Address
    BY PoolAssumption
  <2>2. Append(addressQueue, RemoteAddress[c]) \in Seq(Address)
    BY <2>1, AppendProperties DEF TypeOK
  <2>3. Append(connectionMap[RemoteAddress[c]], c) \in Seq(Connection)
    BY <2>1, AppendProperties DEF TypeOK
  <2> QED
    BY <1>3, <2>1, <2>2, <2>3 DEF Add, TypeOK
<1>4. ASSUME NEW t \in Thread, NEW c \in Connection, Discard(t, c)
      PROVE  TypeOK'
  BY <1>4 DEF Discard, TypeOK
<1>5. ASSUME NEW t \in Thread, NEW n \in MaxSizes, SetMaxSize(t, n)
      PROVE  TypeOK'
  BY <1>5, PoolAssumption DEF SetMaxSize, TypeOK
<1>6. ASSUME NEW t \in Thread, Clear(t)
      PROVE  TypeOK'
  <2>1. Idlers \subseteq Connection
    BY ElementOfSeq, LenProperties DEF Idlers, ToSet, TypeOK
  <2> QED
    BY <1>6, <2>1 DEF Clear, EmptyPool, TypeOK
<1>7. ASSUME NEW t \in Thread, Connect(t)
      PROVE  TypeOK'
  <2>1. PICK c \in Connection \ created :
          /\ created' = created \cup {c}
          /\ \/ /\ current' = [current EXCEPT ![t] = c]
                /\ held' = [held EXCEPT ![t] = @ \cup {c}]
                /\ pc' = [pc EXCEPT ![t] = "login"]
                /\ UNCHANGED deleted
             \/ /\ deleted' = deleted \cup {c}
                /\ pc' = [pc EXCEPT ![t] = "idle"]
                /\ UNCHANGED <<current, held>>
    BY <1>7 DEF Connect
  <2>2. /\ created' \in SUBSET Connection
        /\ deleted' \in SUBSET Connection
    BY <2>1 DEF TypeOK
  <2>3. /\ held' \in [Thread -> SUBSET Connection]
        /\ current' \in [Thread -> Connection \cup {NULL}]
    <3>1. CASE /\ current' = [current EXCEPT ![t] = c]
               /\ held' = [held EXCEPT ![t] = @ \cup {c}]
      BY <3>1 DEF TypeOK
    <3>2. CASE UNCHANGED <<current, held>>
      BY <3>2 DEF TypeOK
    <3> QED
      BY <2>1, <3>1, <3>2
  <2>6. ASSUME NEW u \in Thread, pc'[u] = "login"
        PROVE  current'[u] \in Connection
    BY <2>1, <2>6 DEF TypeOK
  <2>4. pc' \in [Thread -> {"idle", "connect", "login", "adjust", "collect",
                            "delete", "swapBack"}]
    BY <2>1 DEF TypeOK
  <2>5. destination' \in [Thread -> Address \cup {NULL}]
    BY <1>7 DEF Connect, TypeOK
  <2> QED
    BY <1>7, <2>2, <2>3, <2>6, <2>4, <2>5 DEF Connect, TypeOK
<1>8. ASSUME NEW t \in Thread, CannotConnect(t)
      PROVE  TypeOK'
  BY <1>8 DEF CannotConnect, TypeOK
<1>9. ASSUME NEW t \in Thread, Login(t)
      PROVE  TypeOK'
  <2>1. pc' \in [Thread -> {"idle", "connect", "login", "adjust", "collect",
                            "delete", "swapBack"}]
    BY <1>9 DEF Login, TypeOK
  <2>2. /\ current' \in [Thread -> Connection \cup {NULL}]
        /\ held' \in [Thread -> SUBSET Connection]
        /\ \A u \in Thread : pc'[u] = "login" => current'[u] \in Connection
    BY <1>9 DEF Login, TypeOK
  <2>3. deleted' \in SUBSET Connection
    BY <1>9 DEF Login, TypeOK
  <2> QED
    BY <1>9, <2>1, <2>2, <2>3 DEF Login, TypeOK
<1>10. ASSUME NEW t \in Thread, AdjustSize(t)
       PROVE  TypeOK'
  <2>1. addressQueue # <<>>
    BY <1>10, EmptySeq DEF AdjustSize, TypeOK
  <2>2. Head(addressQueue) \in Address /\ Tail(addressQueue) \in Seq(Address)
    BY <2>1, HeadTailProperties DEF TypeOK
  <2>3. CASE connectionMap[Head(addressQueue)] = <<>>
    BY <1>10, <2>2, <2>3 DEF AdjustSize, TypeOK
  <2>4. CASE connectionMap[Head(addressQueue)] # <<>>
    <3>1. /\ Front(connectionMap[Head(addressQueue)]) \in Seq(Connection)
          /\ Last(connectionMap[Head(addressQueue)]) \in Connection
      BY <2>2, <2>4, FrontProperties DEF TypeOK
    <3> QED
      BY <1>10, <2>2, <2>4, <3>1 DEF AdjustSize, TypeOK
  <2> QED
    BY <2>3, <2>4
<1>11. ASSUME NEW t \in Thread, Adjusted(t)
       PROVE  TypeOK'
  BY <1>11 DEF Adjusted, TypeOK
<1>12. ASSUME NEW t \in Thread, Collect(t)
       PROVE  TypeOK'
  BY <1>12 DEF Collect, TypeOK
<1>13. ASSUME NEW t \in Thread, Delete(t)
       PROVE  TypeOK'
  BY <1>13 DEF Delete, TypeOK
<1>14. ASSUME NEW t \in Thread, SwapBack(t)
       PROVE  TypeOK'
  BY <1>14 DEF SwapBack, TypeOK
<1>15. CASE UNCHANGED vars
  BY <1>15 DEF vars, TypeOK
<1> QED
  BY <1>1, <1>2, <1>3, <1>4, <1>5, <1>6, <1>7, <1>8, <1>9, <1>10, <1>11,
     <1>12, <1>13, <1>14, <1>15 DEF Next, Call, Continue

(* Every reachable state of the pool has its type. *)
THEOREM PoolTypeCorrect == Spec => []TypeOK
  BY TypeInit, TypeNext, PTL DEF Spec

-----------------------------------------------------------------------------
(* Where the threads stand, the size of the pool and the evicted            *)
(* connections.                                                             *)
LEMMA ThreadsNext ==
  TypeOK /\ ThreadsInv /\ [Next]_vars => ThreadsInv'
<1> SUFFICES ASSUME TypeOK, ThreadsInv, [Next]_vars, NEW u \in Thread
             PROVE  ThreadInv(u)'
  BY DEF ThreadsInv
<1> USE DEF Goto, shared, objects, ThreadInv
<1>1. CASE UNCHANGED vars
  BY <1>1 DEF vars, ThreadsInv
<1>2. ASSUME NEW t \in Thread, Call(t)
      PROVE  ThreadInv(u)'
  <2>1. ASSUME NEW a \in Address, Pull(t, a) PROVE ThreadInv(u)'
    <3>1. CASE PullNothing(t, a)
      BY <2>1, <3>1 DEF Pull, PullNothing, TypeOK, ThreadsInv
    <3>2. CASE PullConnection(t, a)
      BY <2>1, <3>2 DEF Pull, PullConnection, TypeOK, ThreadsInv
    <3> QED
      BY <2>1, <3>1, <3>2 DEF Pull
  <2>2. ASSUME NEW a \in Address, SkipPool(t, a) PROVE ThreadInv(u)'
    BY <2>2 DEF SkipPool, TypeOK, ThreadsInv
  <2>3. ASSUME NEW c \in Connection, Add(t, c) PROVE ThreadInv(u)'
    BY <2>3, PoolAssumption DEF Add, TypeOK, ThreadsInv
  <2>4. ASSUME NEW c \in Connection, Discard(t, c) PROVE ThreadInv(u)'
    BY <2>4 DEF Discard, TypeOK, ThreadsInv
  <2>5. ASSUME NEW n \in MaxSizes, SetMaxSize(t, n) PROVE ThreadInv(u)'
    BY <2>5, PoolAssumption DEF SetMaxSize, TypeOK, ThreadsInv
  <2>6. ASSUME Clear(t) PROVE ThreadInv(u)'
    BY <2>6 DEF Clear, EmptyPool, TypeOK, ThreadsInv
  <2> QED
    BY <1>2, <2>1, <2>2, <2>3, <2>4, <2>5, <2>6 DEF Call
<1>3. ASSUME NEW t \in Thread, Continue(t)
      PROVE  ThreadInv(u)'
  <2>1. ASSUME Connect(t) PROVE ThreadInv(u)'
    <3>1. PICK c \in Connection \ created :
            \/ /\ current' = [current EXCEPT ![t] = c]
               /\ held' = [held EXCEPT ![t] = @ \cup {c}]
               /\ pc' = [pc EXCEPT ![t] = "login"]
            \/ /\ pc' = [pc EXCEPT ![t] = "idle"]
               /\ UNCHANGED <<current, held>>
      BY <2>1 DEF Connect
    <3>2. CASE u = t
      <4>1. connectionList[t] = {} /\ UNCHANGED connectionList
        BY <2>1 DEF Connect, ThreadsInv
      <4>2. pc'[t] = "login" => current'[t] \in held'[t]
        BY <3>1 DEF TypeOK
      <4> QED
        BY <3>1, <3>2, <4>1, <4>2 DEF TypeOK
    <3>3. CASE u # t
      BY <2>1, <3>1, <3>3 DEF Connect, TypeOK, ThreadsInv
    <3> QED
      BY <3>2, <3>3
  <2>2. ASSUME CannotConnect(t) PROVE ThreadInv(u)'
    BY <2>2 DEF CannotConnect, TypeOK, ThreadsInv
  <2>3. ASSUME Login(t) PROVE ThreadInv(u)'
    BY <2>3 DEF Login, TypeOK, ThreadsInv
  <2>4. ASSUME AdjustSize(t) PROVE ThreadInv(u)'
    BY <2>4 DEF AdjustSize, TypeOK, ThreadsInv
  <2>5. ASSUME Adjusted(t) PROVE ThreadInv(u)'
    BY <2>5, PoolAssumption DEF Adjusted, TypeOK, ThreadsInv
  <2>6. ASSUME Collect(t) PROVE ThreadInv(u)'
    BY <2>6 DEF Collect, TypeOK, ThreadsInv
  <2>7. ASSUME Delete(t) PROVE ThreadInv(u)'
    BY <2>7 DEF Delete, TypeOK, ThreadsInv
  <2>8. ASSUME SwapBack(t) PROVE ThreadInv(u)'
    BY <2>8 DEF SwapBack, TypeOK, ThreadsInv
  <2> QED
    BY <1>3, <2>1, <2>2, <2>3, <2>4, <2>5, <2>6, <2>7, <2>8 DEF Continue
<1> QED
  BY <1>1, <1>2, <1>3 DEF Next

LEMMA SizeNext ==
  TypeOK /\ ThreadsInv /\ SizeBounded /\ [Next]_vars => SizeBounded'
<1> SUFFICES ASSUME TypeOK, ThreadsInv, SizeBounded, [Next]_vars
             PROVE  SizeBounded'
  OBVIOUS
<1> USE DEF Goto, shared, objects
<1>1. CASE UNCHANGED <<mutex, addressQueue, maxSize>>
  BY <1>1 DEF SizeBounded
<1>2. ASSUME NEW t \in Thread, NEW a \in Address,
             Pull(t, a), PullConnection(t, a)
      PROVE  SizeBounded'
  <2>1. Len(addressQueue') = Len(addressQueue) - 1 /\ Len(addressQueue) \in Nat
    BY <1>2, RemoveAtProperties, LenProperties DEF PullConnection, TypeOK
  <2> QED
    BY <1>2, <2>1 DEF Pull, PullConnection, TypeOK, SizeBounded
<1>3. ASSUME NEW t \in Thread, mutex' = t
      PROVE  SizeBounded'
  BY <1>3, PoolAssumption DEF SizeBounded
<1>4. ASSUME NEW t \in Thread, Clear(t)
      PROVE  SizeBounded'
  BY <1>4, EmptySeq DEF Clear, EmptyPool, TypeOK, SizeBounded
<1>5. ASSUME NEW t \in Thread, AdjustSize(t)
      PROVE  SizeBounded'
  BY <1>3, <1>5 DEF AdjustSize, ThreadsInv, ThreadInv
<1>6. ASSUME NEW t \in Thread, Adjusted(t)
      PROVE  SizeBounded'
  BY <1>6 DEF Adjusted, SizeBounded
<1>7. CASE UNCHANGED vars
  BY <1>1, <1>7 DEF vars
<1>8. ASSUME NEW t \in Thread, Call(t)
      PROVE  SizeBounded'
  BY <1>1, <1>2, <1>3, <1>4, <1>8
     DEF Call, Pull, PullNothing, SkipPool, Add, Discard, SetMaxSize
<1>9. ASSUME NEW t \in Thread, Continue(t)
      PROVE  SizeBounded'
  BY <1>1, <1>5, <1>6, <1>9
     DEF Continue, Connect, CannotConnect, Login, Collect, Delete, SwapBack
<1> QED
  BY <1>7, <1>8, <1>9 DEF Next

LEMMA CollectorNext ==
  TypeOK /\ ThreadsInv /\ EvictedHasCollector /\ [Next]_vars
    => EvictedHasCollector'
<1> SUFFICES ASSUME TypeOK, ThreadsInv, EvictedHasCollector, [Next]_vars,
                    exceededConnectionList' # {}
             PROVE  \E u \in Thread : pc'[u] \in {"adjust", "collect"}
  BY DEF EvictedHasCollector
<1> USE DEF Goto, shared, objects
<1>1. CASE UNCHANGED vars
  BY <1>1 DEF vars, EvictedHasCollector
(* The step of a thread that is at neither place keeps the list. *)
<1>2. ASSUME NEW t \in Thread, UNCHANGED exceededConnectionList,
             pc[t] \notin {"adjust", "collect"},
             \A u \in Thread \ {t} : pc'[u] = pc[u]
      PROVE  \E u \in Thread : pc'[u] \in {"adjust", "collect"}
  BY <1>2 DEF EvictedHasCollector
<1>3. ASSUME NEW t \in Thread, pc'[t] \in {"adjust", "collect"}
      PROVE  \E u \in Thread : pc'[u] \in {"adjust", "collect"}
  BY <1>3
<1>4. ASSUME NEW t \in Thread, Call(t)
      PROVE  \E u \in Thread : pc'[u] \in {"adjust", "collect"}
  <2>1. ASSUME NEW a \in Address, Pull(t, a) \/ SkipPool(t, a)
        PROVE  \E u \in Thread : pc'[u] \in {"adjust", "collect"}
    BY <1>2, <2>1 DEF Pull, PullNothing, PullConnection, SkipPool, TypeOK
  <2>2. ASSUME NEW c \in Connection, Discard(t, c)
        PROVE  \E u \in Thread : pc'[u] \in {"adjust", "collect"}
    BY <2>2 DEF Discard, EvictedHasCollector
  <2>3. ASSUME NEW c \in Connection, Add(t, c)
        PROVE  \E u \in Thread : pc'[u] \in {"adjust", "collect"}
    BY <1>3, <2>3 DEF Add, TypeOK
  <2>4. ASSUME NEW n \in MaxSizes, SetMaxSize(t, n)
        PROVE  \E u \in Thread : pc'[u] \in {"adjust", "collect"}
    BY <1>3, <2>4 DEF SetMaxSize, TypeOK
  <2>5. ASSUME Clear(t)
        PROVE  \E u \in Thread : pc'[u] \in {"adjust", "collect"}
    BY <1>3, <2>5 DEF Clear, EmptyPool, TypeOK
  <2> QED
    BY <1>4, <2>1, <2>2, <2>3, <2>4, <2>5 DEF Call
<1>5. ASSUME NEW t \in Thread, Continue(t)
      PROVE  \E u \in Thread : pc'[u] \in {"adjust", "collect"}
  <2>1. CASE Connect(t)
    BY <1>2, <2>1 DEF Connect, TypeOK
  <2>2. CASE CannotConnect(t)
    BY <1>2, <2>2 DEF CannotConnect, TypeOK
  <2>3. CASE Login(t)
    BY <1>2, <2>3 DEF Login, TypeOK
  <2>4. CASE AdjustSize(t)
    BY <1>3, <2>4 DEF AdjustSize, TypeOK
  <2>5. CASE Adjusted(t)
    BY <1>3, <2>5 DEF Adjusted, TypeOK
  <2>6. CASE Collect(t)
    BY <2>6 DEF Collect
  <2>7. CASE Delete(t)
    BY <1>2, <2>7 DEF Delete, TypeOK
  <2>8. CASE SwapBack(t)
    BY <2>8 DEF SwapBack, ThreadsInv, ThreadInv
  <2> QED
    BY <1>5, <2>1, <2>2, <2>3, <2>4, <2>5, <2>6, <2>7, <2>8 DEF Continue
<1> QED
  BY <1>1, <1>4, <1>5 DEF Next

-----------------------------------------------------------------------------
(* Ownership.  One lemma per way a connection changes hands.                *)

(* Nothing changes hands. *)
LEMMA OwnerUnchanged ==
  SingleOwner /\ UNCHANGED <<connectionMap, exceededConnectionList, held,
                             connectionList, objects>>
    => SingleOwner'
  BY DEF objects, SingleOwner, IdleOnce, HeldByOne, PlacesDisjoint

(* An idle connection is pulled by a thread. *)
LEMMA OwnerPull ==
  ASSUME TypeOK, SingleOwner, NEW t \in Thread, NEW a \in Address,
         Pull(t, a), PullConnection(t, a)
  PROVE  SingleOwner'
<1> DEFINE c == Last(connectionMap[a])
<1>1. /\ UNCHANGED <<exceededConnectionList, connectionList, created, deleted>>
      /\ connectionMap[a] # <<>>
      /\ connectionMap' = [connectionMap EXCEPT ![a] = Front(connectionMap[a])]
      /\ held' = [held EXCEPT ![t] = @ \cup {c}]
  BY DEF Pull, PullConnection, objects
<1>2. /\ connectionMap' \in [Address -> Seq(Connection)]
      /\ \E n \in DOMAIN connectionMap[a] : connectionMap[a][n] = c
      /\ \A b \in Address : \A i \in DOMAIN connectionMap'[b] :
           /\ i \in DOMAIN connectionMap[b]
           /\ connectionMap'[b][i] = connectionMap[b][i]
           /\ connectionMap'[b][i] # c
  BY <1>1, PopIdle DEF SingleOwner
<1>3. /\ c \in created \ (deleted \cup exceededConnectionList)
      /\ \A u \in Thread : c \notin held[u] \cup connectionList[u]
  BY <1>2 DEF SingleOwner, PlacesDisjoint
<1>4. \A u \in Thread : held'[u] = IF u = t THEN held[u] \cup {c} ELSE held[u]
  BY <1>1 DEF TypeOK
<1>5. IdleOnce'
  BY <1>2 DEF SingleOwner, IdleOnce
<1>6. HeldByOne'
  BY <1>1, <1>3, <1>4 DEF SingleOwner, HeldByOne
<1>7. PlacesDisjoint'
  BY <1>1, <1>2, <1>3, <1>4 DEF SingleOwner, PlacesDisjoint
<1> QED
  BY <1>5, <1>6, <1>7 DEF SingleOwner

(* A new connection is made, for the thread or in vain. *)
LEMMA OwnerConnect ==
  ASSUME TypeOK, SingleOwner, NEW t \in Thread, Connect(t)
  PROVE  SingleOwner'
<1>1. PICK c \in Connection \ created :
        /\ created' = created \cup {c}
        /\ \/ /\ held' = [held EXCEPT ![t] = @ \cup {c}]
              /\ UNCHANGED deleted
           \/ /\ deleted' = deleted \cup {c}
              /\ UNCHANGED held
  BY DEF Connect
<1>2. UNCHANGED <<connectionMap, exceededConnectionList, connectionList>>
  BY DEF Connect, shared
<1>3. /\ c \notin deleted \cup exceededConnectionList
      /\ \A u \in Thread : c \notin held[u] \cup connectionList[u]
      /\ \A b \in Address : \A i \in DOMAIN connectionMap[b] :
           connectionMap[b][i] # c
  BY <1>1 DEF SingleOwner, PlacesDisjoint
<1>4. IdleOnce'
  BY <1>2 DEF SingleOwner, IdleOnce
<1>5. CASE held' = [held EXCEPT ![t] = @ \cup {c}] /\ UNCHANGED deleted
  <2>1. \A u \in Thread :
          held'[u] = IF u = t THEN held[u] \cup {c} ELSE held[u]
    BY <1>5 DEF TypeOK
  <2>2. HeldByOne'
    BY <1>2, <1>3, <2>1 DEF SingleOwner, HeldByOne
  <2>3. PlacesDisjoint'
    BY <1>1, <1>2, <1>3, <1>5, <2>1 DEF SingleOwner, PlacesDisjoint
  <2> QED
    BY <1>4, <2>2, <2>3 DEF SingleOwner
<1>6. CASE deleted' = deleted \cup {c} /\ UNCHANGED held
  <2>1. HeldByOne'
    BY <1>2, <1>6 DEF SingleOwner, HeldByOne
  <2>2. PlacesDisjoint'
    BY <1>1, <1>2, <1>3, <1>6 DEF SingleOwner, PlacesDisjoint
  <2> QED
    BY <1>4, <2>1, <2>2 DEF SingleOwner
<1> QED
  BY <1>1, <1>5, <1>6

(* A thread deletes a connection it owns: a failed login, a broken one. *)
LEMMA OwnerDelete ==
  ASSUME TypeOK, SingleOwner, NEW t \in Thread, NEW c \in held[t],
         held' = [held EXCEPT ![t] = @ \ {c}], deleted' = deleted \cup {c},
         UNCHANGED <<connectionMap, exceededConnectionList, connectionList,
                     created>>
  PROVE  SingleOwner'
<1>1. \A u \in Thread : held'[u] = IF u = t THEN held[u] \ {c} ELSE held[u]
  BY DEF TypeOK
<1>2. IdleOnce'
  BY DEF SingleOwner, IdleOnce
<1>3. HeldByOne'
  BY <1>1 DEF SingleOwner, HeldByOne
<1>4. /\ c \in created \ exceededConnectionList
      /\ \A u \in Thread : c \notin connectionList[u]
      /\ \A u \in Thread : u # t => c \notin held[u]
      /\ \A b \in Address : \A i \in DOMAIN connectionMap[b] :
           connectionMap[b][i] # c
  BY DEF SingleOwner, HeldByOne, PlacesDisjoint
<1>5. PlacesDisjoint'
  BY <1>1, <1>4 DEF SingleOwner, PlacesDisjoint
<1> QED
  BY <1>2, <1>3, <1>5 DEF SingleOwner

(* A thread gives a connection it owns to the pool. *)
LEMMA OwnerAdd ==
  ASSUME TypeOK, SingleOwner, NEW t \in Thread, NEW c \in Connection, Add(t, c)
  PROVE  SingleOwner'
<1> DEFINE a == RemoteAddress[c]
<1>1. /\ UNCHANGED <<exceededConnectionList, connectionList, created, deleted>>
      /\ c \in held[t]
      /\ held' = [held EXCEPT ![t] = @ \ {c}]
      /\ connectionMap' = [connectionMap EXCEPT ![a] = Append(@, c)]
  BY DEF Add, objects
<1>2. a \in Address /\ connectionMap[a] \in Seq(Connection)
  BY PoolAssumption DEF TypeOK
<1>3. \A u \in Thread : held'[u] = IF u = t THEN held[u] \ {c} ELSE held[u]
  BY <1>1 DEF TypeOK
<1>4. /\ c \in created \ (deleted \cup exceededConnectionList)
      /\ \A u \in Thread : c \notin connectionList[u]
      /\ \A u \in Thread : u # t => c \notin held[u]
      /\ \A b \in Address : \A i \in DOMAIN connectionMap[b] :
           connectionMap[b][i] # c
  BY <1>1 DEF SingleOwner, HeldByOne, PlacesDisjoint
<1>5. \A b \in Address : \A i \in DOMAIN connectionMap'[b] :
        \/ /\ i \in DOMAIN connectionMap[b]
           /\ connectionMap'[b][i] = connectionMap[b][i]
        \/ /\ b = a
           /\ i = Len(connectionMap[a]) + 1
           /\ connectionMap'[b][i] = c
  BY <1>1, <1>2, PushIdle
<1>6. IdleOnce'
  BY <1>4, <1>5 DEF SingleOwner, IdleOnce
<1>7. HeldByOne'
  BY <1>1, <1>3 DEF SingleOwner, HeldByOne
<1>8. PlacesDisjoint'
  <2>1. ASSUME NEW b \in Address, NEW i \in DOMAIN connectionMap'[b]
        PROVE  /\ connectionMap'[b][i] \in created
               /\ connectionMap'[b][i] \notin exceededConnectionList \cup deleted
               /\ \A u \in Thread :
                    connectionMap'[b][i] \notin held'[u] \cup connectionList[u]
    <3>1. CASE connectionMap'[b][i] = c
      BY <1>3, <1>4, <3>1
    <3>2. CASE i \in DOMAIN connectionMap[b]
               /\ connectionMap'[b][i] = connectionMap[b][i]
      BY <1>3, <3>2 DEF SingleOwner, PlacesDisjoint
    <3> QED
      BY <1>5, <3>1, <3>2
  <2> QED
    BY <1>1, <1>3, <2>1 DEF SingleOwner, PlacesDisjoint
<1> QED
  BY <1>6, <1>7, <1>8 DEF SingleOwner

(* An idle connection is evicted. *)
LEMMA OwnerAdjustSize ==
  ASSUME TypeOK, SingleOwner, NEW t \in Thread, AdjustSize(t)
  PROVE  SingleOwner'
<1> DEFINE a == Head(addressQueue)
           c == Last(connectionMap[a])
<1>1. UNCHANGED <<held, connectionList, created, deleted>>
  BY DEF AdjustSize, objects
<1>2. CASE connectionMap[a] = <<>>
  BY <1>1, <1>2, OwnerUnchanged DEF AdjustSize, objects
<1>3. CASE connectionMap[a] # <<>>
  <2>1. addressQueue # <<>>
    BY EmptySeq DEF AdjustSize, TypeOK
  <2>2. a \in Address
    BY <2>1, HeadTailProperties DEF TypeOK
  <2>3. /\ connectionMap' = [connectionMap EXCEPT ![a] = Front(connectionMap[a])]
        /\ exceededConnectionList' = exceededConnectionList \cup {c}
    BY <1>3 DEF AdjustSize
  <2>4. /\ \E n \in DOMAIN connectionMap[a] : connectionMap[a][n] = c
        /\ \A b \in Address : \A i \in DOMAIN connectionMap'[b] :
             /\ i \in DOMAIN connectionMap[b]
             /\ connectionMap'[b][i] = connectionMap[b][i]
             /\ connectionMap'[b][i] # c
    BY <1>3, <2>2, <2>3, PopIdle DEF SingleOwner
  <2>5. /\ c \in created \ deleted
        /\ \A u \in Thread : c \notin held[u] \cup connectionList[u]
    BY <2>2, <2>4 DEF SingleOwner, PlacesDisjoint
  <2>6. IdleOnce'
    BY <2>4 DEF SingleOwner, IdleOnce
  <2>7. HeldByOne'
    BY <1>1 DEF SingleOwner, HeldByOne
  <2>8. PlacesDisjoint'
    BY <1>1, <2>3, <2>4, <2>5 DEF SingleOwner, PlacesDisjoint
  <2> QED
    BY <2>6, <2>7, <2>8 DEF SingleOwner
<1> QED
  BY <1>2, <1>3

(* The idle connections are those of the lists. *)
LEMMA IdlersElements ==
  \A c : c \in Idlers <=> \E a \in Address : \E i \in DOMAIN connectionMap[a] :
                            connectionMap[a][i] = c
  BY DEF Idlers, ToSet

(* Every idle connection is evicted. *)
LEMMA OwnerClear ==
  ASSUME TypeOK, SingleOwner, NEW t \in Thread, Clear(t)
  PROVE  SingleOwner'
<1>1. /\ UNCHANGED <<held, connectionList, created, deleted>>
      /\ exceededConnectionList' = exceededConnectionList \cup Idlers
      /\ connectionMap' = [a \in Address |-> <<>>]
  BY DEF Clear, EmptyPool, objects
<1>2. \A a \in Address : DOMAIN connectionMap'[a] = {}
  BY <1>1
<1>3. \A c \in Idlers :
        /\ c \in created \ deleted
        /\ \A u \in Thread : c \notin held[u] \cup connectionList[u]
  BY IdlersElements DEF SingleOwner, PlacesDisjoint
<1>4. IdleOnce'
  BY <1>2 DEF IdleOnce
<1>5. HeldByOne'
  BY <1>1 DEF SingleOwner, HeldByOne
<1>6. PlacesDisjoint'
  BY <1>1, <1>2, <1>3 DEF SingleOwner, PlacesDisjoint
<1> QED
  BY <1>4, <1>5, <1>6 DEF SingleOwner

(* A thread takes the evicted connections, deletes them, and forgets what   *)
(* was evicted since.                                                       *)
LEMMA OwnerClose ==
  ASSUME TypeOK, SingleOwner, ThreadsInv, NEW t \in Thread,
         Collect(t) \/ Delete(t) \/ SwapBack(t)
  PROVE  SingleOwner'
<1>1. CASE Collect(t)
  <2>1. /\ UNCHANGED <<connectionMap, held, created, deleted>>
        /\ exceededConnectionList' = {}
        /\ \A u \in Thread : connectionList'[u] =
             IF u = t THEN exceededConnectionList ELSE connectionList[u]
    BY <1>1 DEF Collect, objects, TypeOK
  <2>2. IdleOnce'
    BY <2>1 DEF SingleOwner, IdleOnce
  <2>3. HeldByOne'
    BY <2>1 DEF SingleOwner, HeldByOne, PlacesDisjoint
  <2>4. PlacesDisjoint'
    BY <2>1 DEF SingleOwner, PlacesDisjoint
  <2> QED
    BY <2>2, <2>3, <2>4 DEF SingleOwner
<1>2. CASE Delete(t)
  <2>1. PICK c \in connectionList[t] :
          /\ connectionList' = [connectionList EXCEPT ![t] = @ \ {c}]
          /\ deleted' = deleted \cup {c}
    BY <1>2 DEF Delete
  <2>2. /\ UNCHANGED <<connectionMap, exceededConnectionList, held, created>>
        /\ \A u \in Thread : connectionList'[u] =
             IF u = t THEN connectionList[u] \ {c} ELSE connectionList[u]
    BY <1>2, <2>1 DEF Delete, shared, TypeOK
  <2>3. IdleOnce'
    BY <2>2 DEF SingleOwner, IdleOnce
  <2>4. HeldByOne'
    BY <2>2 DEF SingleOwner, HeldByOne
  <2>5. /\ c \in created \ exceededConnectionList
        /\ \A u \in Thread : c \notin held[u]
        /\ \A u \in Thread : u # t => c \notin connectionList[u]
        /\ \A a \in Address : \A i \in DOMAIN connectionMap[a] :
             connectionMap[a][i] # c
    BY <2>1 DEF SingleOwner, HeldByOne, PlacesDisjoint
  <2>6. PlacesDisjoint'
    BY <2>1, <2>2, <2>5 DEF SingleOwner, PlacesDisjoint
  <2> QED
    BY <2>3, <2>4, <2>6 DEF SingleOwner
<1>3. CASE SwapBack(t)
  <2>1. /\ UNCHANGED <<connectionMap, held, created, deleted>>
        /\ exceededConnectionList' = {}
        /\ \A u \in Thread : connectionList'[u] =
             IF u = t THEN {} ELSE connectionList[u]
    BY <1>3 DEF SwapBack, objects, TypeOK, ThreadsInv, ThreadInv
  <2>2. IdleOnce'
    BY <2>1 DEF SingleOwner, IdleOnce
  <2>3. HeldByOne'
    BY <2>1 DEF SingleOwner, HeldByOne
  <2>4. PlacesDisjoint'
    BY <2>1 DEF SingleOwner, PlacesDisjoint
  <2> QED
    BY <2>2, <2>3, <2>4 DEF SingleOwner
<1> QED
  BY <1>1, <1>2, <1>3

LEMMA OwnerNext ==
  TypeOK /\ ThreadsInv /\ SingleOwner /\ [Next]_vars => SingleOwner'
<1> SUFFICES ASSUME TypeOK, ThreadsInv, SingleOwner, [Next]_vars
             PROVE  SingleOwner'
  OBVIOUS
<1>1. CASE UNCHANGED vars
  BY <1>1, OwnerUnchanged DEF vars, shared
<1>2. ASSUME NEW t \in Thread, Call(t)
      PROVE  SingleOwner'
  <2>1. ASSUME NEW a \in Address, Pull(t, a)
        PROVE  SingleOwner'
    BY <2>1, OwnerPull, OwnerUnchanged DEF Pull, PullNothing, shared
  <2>2. ASSUME NEW a \in Address, SkipPool(t, a)
        PROVE  SingleOwner'
    BY <2>2, OwnerUnchanged DEF SkipPool, shared
  <2>3. ASSUME NEW c \in Connection, Add(t, c)
        PROVE  SingleOwner'
    BY <2>3, OwnerAdd
  <2>4. ASSUME NEW c \in Connection, Discard(t, c)
        PROVE  SingleOwner'
    BY <2>4, OwnerDelete DEF Discard, shared
  <2>5. ASSUME NEW n \in MaxSizes, SetMaxSize(t, n)
        PROVE  SingleOwner'
    BY <2>5, OwnerUnchanged DEF SetMaxSize, shared
  <2>6. ASSUME Clear(t)
        PROVE  SingleOwner'
    BY <2>6, OwnerClear
  <2> QED
    BY <1>2, <2>1, <2>2, <2>3, <2>4, <2>5, <2>6 DEF Call
<1>3. ASSUME NEW t \in Thread, Continue(t)
      PROVE  SingleOwner'
  <2>1. CASE CannotConnect(t)
    BY <2>1, OwnerUnchanged DEF CannotConnect, shared
  <2>2. CASE Login(t)
    <3>1. current[t] \in held[t]
      BY <2>2 DEF Login, ThreadsInv, ThreadInv
    <3>2. UNCHANGED <<connectionMap, exceededConnectionList, connectionList, created>>
      BY <2>2 DEF Login, shared
    <3>3. CASE UNCHANGED <<held, deleted>>
      BY <3>2, <3>3, OwnerUnchanged DEF objects
    <3>4. CASE /\ held' = [held EXCEPT ![t] = @ \ {current[t]}]
               /\ deleted' = deleted \cup {current[t]}
      BY <3>1, <3>2, <3>4, OwnerDelete
    <3> QED
      BY <2>2, <3>3, <3>4 DEF Login
  <2>3. CASE Adjusted(t)
    BY <2>3, OwnerUnchanged DEF Adjusted
  <2> QED
    BY <1>3, <2>1, <2>2, <2>3, OwnerConnect, OwnerAdjustSize, OwnerClose
       DEF Continue
<1> QED
  BY <1>1, <1>2, <1>3 DEF Next

LEMMA IInvInit == Init => IInv
<1> SUFFICES ASSUME Init PROVE IInv
  OBVIOUS
<1>1. SingleOwner
  BY DEF Init, SingleOwner, IdleOnce, HeldByOne, PlacesDisjoint
<1>2. ThreadsInv
  BY DEF Init, ThreadsInv, ThreadInv
<1>3. SizeBounded /\ EvictedHasCollector
  BY EmptySeq, PoolAssumption DEF Init, SizeBounded, EvictedHasCollector
<1> QED
  BY TypeInit, <1>1, <1>2, <1>3 DEF IInv

LEMMA IInvNext == IInv /\ [Next]_vars => IInv'
  BY TypeNext, ThreadsNext, OwnerNext, SizeNext, CollectorNext DEF IInv

THEOREM PoolInvariant == Spec => []IInv
  BY IInvInit, IInvNext, PTL DEF Spec

(* A connection has one owner: the pool never lends a connection to two     *)
(* threads, lends one that it deletes, or deletes one twice.                *)
THEOREM PoolSingleOwner == Spec => []SingleOwner
<1>1. IInv => SingleOwner
  BY DEF IInv
<1> QED
  BY <1>1, PoolInvariant, PTL

(* The pool never keeps more connections than its maximum size.             *)
THEOREM PoolSizeBounded == Spec => []SizeBounded
<1>1. IInv => SizeBounded
  BY DEF IInv
<1> QED
  BY <1>1, PoolInvariant, PTL

(* Evicted connections always have a thread on its way to take them.        *)
THEOREM PoolEvictedHasCollector == Spec => []EvictedHasCollector
<1>1. IInv => EvictedHasCollector
  BY DEF IInv
<1> QED
  BY <1>1, PoolInvariant, PTL

-----------------------------------------------------------------------------
(* The pool implements ConnectionLifecycle: every step moves connections    *)
(* along the life cycle, or changes no life.                                *)

(* What pop and push do to the set of idle connections. *)
LEMMA PopIdlers ==
  ASSUME TypeOK, IdleOnce, NEW a \in Address, connectionMap[a] # <<>>,
         connectionMap' = [connectionMap EXCEPT ![a] = Front(connectionMap[a])]
  PROVE  /\ Last(connectionMap[a]) \in Idlers
         /\ Idlers' = Idlers \ {Last(connectionMap[a])}
<1>1. \A c : c \in Idlers' <=>
        \E b \in Address : \E i \in DOMAIN connectionMap'[b] :
          connectionMap'[b][i] = c
  BY DEF Idlers, ToSet
<1> DEFINE c == Last(connectionMap[a])
<1>2. /\ \E n \in DOMAIN connectionMap[a] : connectionMap[a][n] = c
      /\ \A b \in Address : \A i \in DOMAIN connectionMap'[b] :
           /\ i \in DOMAIN connectionMap[b]
           /\ connectionMap'[b][i] = connectionMap[b][i]
           /\ connectionMap'[b][i] # c
      /\ \A b \in Address : \A i \in DOMAIN connectionMap[b] :
           connectionMap[b][i] # c => i \in DOMAIN connectionMap'[b]
  BY PopIdle
<1> HIDE DEF c
<1>3. c \in Idlers
  BY <1>2, IdlersElements
<1>4. ASSUME NEW d \in Idlers'
      PROVE  d \in Idlers \ {c}
  <2>1. PICK b \in Address : \E i \in DOMAIN connectionMap'[b] :
                                connectionMap'[b][i] = d
    BY <1>1, <1>4
  <2> QED
    BY <1>2, <2>1, IdlersElements
<1>5. ASSUME NEW d \in Idlers, d # c
      PROVE  d \in Idlers'
  <2>1. PICK b \in Address : \E i \in DOMAIN connectionMap[b] :
                                connectionMap[b][i] = d
    BY <1>5, IdlersElements
  <2> QED
    BY <1>1, <1>2, <1>5, <2>1
<1> QED
  BY <1>3, <1>4, <1>5 DEF c

LEMMA PushIdlers ==
  ASSUME TypeOK, NEW a \in Address, NEW c \in Connection,
         connectionMap' = [connectionMap EXCEPT ![a] = Append(connectionMap[a], c)]
  PROVE  Idlers' = Idlers \cup {c}
<1>1. \A d : d \in Idlers' <=>
        \E b \in Address : \E i \in DOMAIN connectionMap'[b] :
          connectionMap'[b][i] = d
  BY DEF Idlers, ToSet
<1>2. ASSUME NEW d \in Idlers'
      PROVE  d \in Idlers \cup {c}
  <2>1. PICK b \in Address : \E i \in DOMAIN connectionMap'[b] :
                                connectionMap'[b][i] = d
    BY <1>1, <1>2
  <2> QED
    BY <2>1, PushIdle, IdlersElements
<1>3. ASSUME NEW d \in Idlers
      PROVE  d \in Idlers'
  <2>1. PICK b \in Address : \E i \in DOMAIN connectionMap[b] :
                                connectionMap[b][i] = d
    BY <1>3, IdlersElements
  <2> QED
    BY <1>1, <2>1, PushIdle
<1>4. c \in Idlers'
  <2>1. \E n \in DOMAIN connectionMap'[a] : connectionMap'[a][n] = c
    BY PushIdle
  <2> QED
    BY <1>1, <2>1
<1> QED
  BY <1>2, <1>3, <1>4

(* The phase of a connection follows from the place it is in. *)
LifeMatchesPlaces ==
  /\ \A c \in Connection \ created : Life(c) = [phase |-> "fresh"]
  /\ \A c \in deleted : Life(c) = [phase |-> "closed"]
  /\ \A t \in Thread : \A c \in held[t] :
       Life(c) = [phase |-> "inUse", by |-> t]
  /\ \A c \in Idlers : Life(c) = [phase |-> "idle"]
  /\ \A c \in created \ (deleted \cup Idlers) :
       (\A t \in Thread : c \notin held[t]) => Life(c) = [phase |-> "evicted"]

LEMMA LifeOfPlaces == SingleOwner => LifeMatchesPlaces
<1> SUFFICES ASSUME SingleOwner
             PROVE  LifeMatchesPlaces
  OBVIOUS
<1>1. \A c \in Connection \ created : Life(c) = [phase |-> "fresh"]
  BY DEF SingleOwner, PlacesDisjoint, Life
<1>2. \A c \in deleted : Life(c) = [phase |-> "closed"]
  BY DEF SingleOwner, PlacesDisjoint, Life
<1>3. ASSUME NEW t \in Thread, NEW c \in held[t]
      PROVE  Life(c) = [phase |-> "inUse", by |-> t]
  <2>1. c \in created \ deleted
    BY DEF SingleOwner, PlacesDisjoint
  <2>2. \A u \in Thread : c \in held[u] => u = t
    BY DEF SingleOwner, HeldByOne
  <2>3. (CHOOSE u \in Thread : c \in held[u]) = t
    BY <2>2
  <2> QED
    BY <2>1, <2>3 DEF Life
<1>4. ASSUME NEW c \in Idlers
      PROVE  Life(c) = [phase |-> "idle"]
  <2>1. c \in created \ deleted /\ \A t \in Thread : c \notin held[t]
    BY IdlersElements DEF SingleOwner, PlacesDisjoint
  <2> QED
    BY <2>1 DEF Life
<1>5. \A c \in created \ (deleted \cup Idlers) :
        (\A t \in Thread : c \notin held[t]) => Life(c) = [phase |-> "evicted"]
  BY DEF Life
<1> QED
  BY <1>1, <1>2, <1>3, <1>4, <1>5 DEF LifeMatchesPlaces

(* A step that moves the connections of S from phase p to phase q and       *)
(* leaves the others where they are is a step of the life cycle.            *)
Stays(c) ==
  /\ c \in created' <=> c \in created
  /\ c \in deleted' <=> c \in deleted
  /\ c \in Idlers' <=> c \in Idlers
  /\ \A t \in Thread : c \in held'[t] <=> c \in held[t]

LEMMA LifeStays ==
  ASSUME LifeMatchesPlaces, LifeMatchesPlaces', NEW c \in Connection, Stays(c)
  PROVE  Life(c)' = Life(c)
<1>1. CASE c \notin created
  BY <1>1 DEF LifeMatchesPlaces, Stays
<1>2. CASE c \in deleted
  BY <1>2 DEF LifeMatchesPlaces, Stays
<1>3. CASE \E t \in Thread : c \in held[t]
  BY <1>3 DEF LifeMatchesPlaces, Stays
<1>4. CASE c \in Idlers
  BY <1>4 DEF LifeMatchesPlaces, Stays
<1>5. CASE /\ c \in created \ (deleted \cup Idlers)
           /\ \A t \in Thread : c \notin held[t]
  BY <1>5 DEF LifeMatchesPlaces, Stays
<1> QED
  BY <1>1, <1>2, <1>3, <1>4, <1>5

LEMMA LifeMoves ==
  ASSUME LifeMatchesPlaces, LifeMatchesPlaces',
         NEW S \in SUBSET Connection, NEW p, NEW q,
         \A c \in S : Life(c) = p,
         \A c \in S : Life(c)' = q,
         \A c \in Connection \ S : Stays(c)
  PROVE  Lifecycle!Moves(S, p, q)
<1>1. \A c \in Connection \ S : Life(c)' = Life(c)
  BY LifeStays
<1> QED
  BY <1>1 DEF Lifecycle!Moves

LEMMA LifeUnchanged ==
  ASSUME LifeMatchesPlaces, LifeMatchesPlaces', \A c \in Connection : Stays(c)
  PROVE  UNCHANGED [c \in Connection |-> Life(c)]
<1>1. \A c \in Connection : Life(c)' = Life(c)
  BY LifeStays
<1> QED
  BY <1>1

LEMMA LifecycleInit == Init => Lifecycle!Init
  BY DEF Init, Life, Lifecycle!Init, Lifecycle!Fresh

(* A step that touches neither the idle lists nor the objects a thread has  *)
(* changes no life.                                                         *)
LEMMA LifeOfUntouched ==
  ASSUME LifeMatchesPlaces, LifeMatchesPlaces',
         UNCHANGED <<connectionMap, held, created, deleted>>
  PROVE  UNCHANGED [c \in Connection |-> Life(c)]
<1>1. Idlers' = Idlers
  BY DEF Idlers
<1> QED
  BY <1>1, LifeUnchanged DEF Stays

LEMMA LifeOfPull ==
  ASSUME IInv, LifeMatchesPlaces, LifeMatchesPlaces',
         NEW t \in Thread, NEW a \in Address, Pull(t, a), PullConnection(t, a)
  PROVE  \E c \in Connection : Lifecycle!Take(t, c)
<1>0. PICK c \in Connection : c = Last(connectionMap[a])
  BY FrontProperties DEF PullConnection, IInv, TypeOK
<1>1. /\ connectionMap[a] # <<>>
      /\ connectionMap' = [connectionMap EXCEPT ![a] = Front(connectionMap[a])]
      /\ held' = [held EXCEPT ![t] = @ \cup {c}]
      /\ UNCHANGED <<created, deleted>>
  BY <1>0 DEF Pull, PullConnection, objects
<1>2. c \in Idlers /\ Idlers' = Idlers \ {c}
  BY <1>0, <1>1, PopIdlers DEF IInv, SingleOwner
<1>3. \A u \in Thread : held'[u] = IF u = t THEN held[u] \cup {c} ELSE held[u]
  BY <1>1 DEF IInv, TypeOK
<1>4. \A d \in Connection \ {c} : Stays(d)
  BY <1>1, <1>2, <1>3 DEF Stays
<1>5. Life(c) = [phase |-> "idle"] /\ Life(c)' = [phase |-> "inUse", by |-> t]
  BY <1>2, <1>3 DEF LifeMatchesPlaces
<1>6. Lifecycle!Moves({c}, [phase |-> "idle"], [phase |-> "inUse", by |-> t])
  BY <1>2, <1>4, <1>5, LifeMoves
<1> QED
  BY <1>2, <1>6 DEF Lifecycle!Take, Lifecycle!Idle, Lifecycle!InUse

LEMMA LifeOfConnect ==
  ASSUME IInv, LifeMatchesPlaces, LifeMatchesPlaces', NEW t \in Thread, Connect(t)
  PROVE  \E c \in Connection : Lifecycle!Open(t, c) \/ Lifecycle!OpenFails(c)
<1>1. PICK c \in Connection \ created :
        /\ created' = created \cup {c}
        /\ \/ /\ held' = [held EXCEPT ![t] = @ \cup {c}]
              /\ UNCHANGED deleted
           \/ /\ deleted' = deleted \cup {c}
              /\ UNCHANGED held
  BY DEF Connect
<1>2. Idlers' = Idlers
  BY DEF Connect, shared, Idlers
<1>3. Life(c) = [phase |-> "fresh"]
  BY DEF LifeMatchesPlaces
<1>4. CASE held' = [held EXCEPT ![t] = @ \cup {c}] /\ UNCHANGED deleted
  <2>1. \A u \in Thread : held'[u] = IF u = t THEN held[u] \cup {c} ELSE held[u]
    BY <1>4 DEF IInv, TypeOK
  <2>2. \A d \in Connection \ {c} : Stays(d)
    BY <1>1, <1>2, <1>4, <2>1 DEF Stays
  <2>3. Life(c)' = [phase |-> "inUse", by |-> t]
    BY <2>1 DEF LifeMatchesPlaces
  <2>4. Lifecycle!Moves({c}, [phase |-> "fresh"], [phase |-> "inUse", by |-> t])
    BY <1>3, <2>2, <2>3, LifeMoves
  <2> QED
    BY <2>4 DEF Lifecycle!Open, Lifecycle!Fresh, Lifecycle!InUse
<1>5. CASE deleted' = deleted \cup {c} /\ UNCHANGED held
  <2>1. \A d \in Connection \ {c} : Stays(d)
    BY <1>1, <1>2, <1>5 DEF Stays
  <2>2. Life(c)' = [phase |-> "closed"]
    BY <1>5 DEF LifeMatchesPlaces
  <2>3. Lifecycle!Moves({c}, [phase |-> "fresh"], [phase |-> "closed"])
    BY <1>3, <2>1, <2>2, LifeMoves
  <2> QED
    BY <2>3 DEF Lifecycle!OpenFails, Lifecycle!Fresh, Lifecycle!Closed
<1> QED
  BY <1>1, <1>4, <1>5

LEMMA LifeOfDelete ==
  ASSUME IInv, LifeMatchesPlaces, LifeMatchesPlaces',
         NEW t \in Thread, NEW c \in held[t],
         held' = [held EXCEPT ![t] = @ \ {c}], deleted' = deleted \cup {c},
         UNCHANGED <<connectionMap, created>>
  PROVE  Lifecycle!Discard(t, c)
<1>1. Idlers' = Idlers /\ c \in Connection
  BY DEF Idlers, IInv, TypeOK
<1>2. \A u \in Thread : held'[u] = IF u = t THEN held[u] \ {c} ELSE held[u]
  BY DEF IInv, TypeOK
<1>3. \A d \in Connection \ {c} : Stays(d)
  BY <1>1, <1>2 DEF Stays
<1>4. Life(c) = [phase |-> "inUse", by |-> t] /\ Life(c)' = [phase |-> "closed"]
  BY DEF LifeMatchesPlaces
<1>5. Lifecycle!Moves({c}, [phase |-> "inUse", by |-> t], [phase |-> "closed"])
  BY <1>1, <1>3, <1>4, LifeMoves
<1> QED
  BY <1>5 DEF Lifecycle!Discard, Lifecycle!InUse, Lifecycle!Closed

LEMMA LifeOfAdd ==
  ASSUME IInv, LifeMatchesPlaces, LifeMatchesPlaces',
         NEW t \in Thread, NEW c \in Connection, Add(t, c)
  PROVE  Lifecycle!Give(t, c)
<1> DEFINE a == RemoteAddress[c]
<1>1. /\ c \in held[t]
      /\ held' = [held EXCEPT ![t] = @ \ {c}]
      /\ connectionMap' = [connectionMap EXCEPT ![a] = Append(connectionMap[a], c)]
      /\ UNCHANGED <<created, deleted>>
  BY DEF Add, objects
<1>2. Idlers' = Idlers \cup {c}
  <2>1. a \in Address
    BY PoolAssumption
  <2> QED
    BY <1>1, <2>1, PushIdlers DEF IInv
<1>3. \A u \in Thread : held'[u] = IF u = t THEN held[u] \ {c} ELSE held[u]
  BY <1>1 DEF IInv, TypeOK
<1> HIDE DEF a
<1>4. \A d \in Connection \ {c} : Stays(d)
  BY <1>1, <1>2, <1>3 DEF Stays
<1>5. Life(c) = [phase |-> "inUse", by |-> t] /\ Life(c)' = [phase |-> "idle"]
  <2>1. c \in Idlers'
    BY <1>2
  <2> QED
    BY <1>1, <2>1 DEF LifeMatchesPlaces
<1>6. Lifecycle!Moves({c}, [phase |-> "inUse", by |-> t], [phase |-> "idle"])
  BY <1>4, <1>5, LifeMoves
<1> QED
  BY <1>6 DEF Lifecycle!Give, Lifecycle!InUse, Lifecycle!Idle

LEMMA LifeOfAdjustSize ==
  ASSUME IInv, LifeMatchesPlaces, LifeMatchesPlaces',
         NEW t \in Thread, AdjustSize(t)
  PROVE  \/ \E S \in SUBSET Connection : Lifecycle!Evict(S)
         \/ UNCHANGED [c \in Connection |-> Life(c)]
<1>1. PICK a \in Address : a = Head(addressQueue)
  <2>1. addressQueue # <<>>
    BY EmptySeq DEF AdjustSize, IInv, TypeOK
  <2> QED
    BY <2>1, HeadTailProperties DEF IInv, TypeOK
<1>2. UNCHANGED <<held, connectionList, created, deleted>>
  BY DEF AdjustSize, objects
<1>3. CASE connectionMap[a] = <<>>
  BY <1>1, <1>2, <1>3, LifeOfUntouched DEF AdjustSize
<1>4. CASE connectionMap[a] # <<>>
  <2>1. PICK c \in Connection : c = Last(connectionMap[a])
    BY <1>4, FrontProperties DEF IInv, TypeOK
  <2>2. c \in Idlers /\ Idlers' = Idlers \ {c}
    BY <1>1, <1>4, <2>1, PopIdlers DEF AdjustSize, IInv, SingleOwner
  <2>3. /\ c \in created \ deleted
        /\ \A u \in Thread : c \notin held[u]
    BY <2>2, IdlersElements DEF IInv, SingleOwner, PlacesDisjoint
  <2>4. \A d \in Connection \ {c} : Stays(d)
    BY <1>2, <2>2 DEF Stays
  <2>5. Life(c) = [phase |-> "idle"]
    BY <2>2 DEF LifeMatchesPlaces
  <2>6. Life(c)' = [phase |-> "evicted"]
    BY <1>2, <2>2, <2>3 DEF LifeMatchesPlaces
  <2>7. Lifecycle!Moves({c}, [phase |-> "idle"], [phase |-> "evicted"])
    BY <2>4, <2>5, <2>6, LifeMoves
  <2> QED
    BY <2>7 DEF Lifecycle!Evict, Lifecycle!Idle, Lifecycle!Evicted
<1> QED
  BY <1>3, <1>4

LEMMA LifeOfClear ==
  ASSUME IInv, LifeMatchesPlaces, LifeMatchesPlaces', NEW t \in Thread, Clear(t)
  PROVE  \E S \in SUBSET Connection : Lifecycle!Evict(S)
<1>1. PICK S \in SUBSET Connection : S = Idlers
  BY IdlersElements, ElementOfSeq, LenProperties DEF IInv, TypeOK
<1>2. /\ UNCHANGED <<held, created, deleted>>
      /\ Idlers' = {}
  BY DEF Clear, EmptyPool, objects, Idlers, ToSet
<1>3. \A c \in S : /\ c \in created \ deleted
                   /\ \A u \in Thread : c \notin held[u]
  BY <1>1, IdlersElements DEF IInv, SingleOwner, PlacesDisjoint
<1>4. \A d \in Connection \ S : Stays(d)
  BY <1>1, <1>2 DEF Stays
<1>5. \A c \in S : Life(c) = [phase |-> "idle"]
  BY <1>1 DEF LifeMatchesPlaces
<1>6. \A c \in S : Life(c)' = [phase |-> "evicted"]
  BY <1>2, <1>3 DEF LifeMatchesPlaces
<1>7. Lifecycle!Moves(S, [phase |-> "idle"], [phase |-> "evicted"])
  BY <1>4, <1>5, <1>6, LifeMoves
<1> QED
  BY <1>7 DEF Lifecycle!Evict, Lifecycle!Idle, Lifecycle!Evicted

LEMMA LifeOfClose ==
  ASSUME IInv, LifeMatchesPlaces, LifeMatchesPlaces', NEW t \in Thread, Delete(t)
  PROVE  \E c \in Connection : Lifecycle!Close(c)
<1>1. PICK c \in connectionList[t] : deleted' = deleted \cup {c}
  BY DEF Delete
<1>2. UNCHANGED <<held, created>> /\ Idlers' = Idlers /\ c \in Connection
  BY DEF Delete, shared, Idlers, IInv, TypeOK
<1>3. /\ c \in created \ (deleted \cup Idlers)
      /\ \A u \in Thread : c \notin held[u]
  BY IdlersElements DEF IInv, SingleOwner, PlacesDisjoint
<1>4. \A d \in Connection \ {c} : Stays(d)
  BY <1>1, <1>2 DEF Stays
<1>5. Life(c) = [phase |-> "evicted"] /\ Life(c)' = [phase |-> "closed"]
  BY <1>1, <1>3 DEF LifeMatchesPlaces
<1>6. Lifecycle!Moves({c}, [phase |-> "evicted"], [phase |-> "closed"])
  BY <1>2, <1>4, <1>5, LifeMoves
<1> QED
  BY <1>2, <1>6 DEF Lifecycle!Close, Lifecycle!Evicted, Lifecycle!Closed

LEMMA LifecycleNext ==
  IInv /\ IInv' /\ [Next]_vars => [Lifecycle!Next]_([c \in Connection |-> Life(c)])
<1> SUFFICES ASSUME IInv, IInv', [Next]_vars
             PROVE  \/ Lifecycle!Next
                    \/ UNCHANGED [c \in Connection |-> Life(c)]
  OBVIOUS
<1>1. LifeMatchesPlaces
  BY LifeOfPlaces DEF IInv
<1>2. LifeMatchesPlaces'
  <2>1. (SingleOwner => LifeMatchesPlaces)'
    BY LifeOfPlaces, PTL
  <2> QED
    BY <2>1 DEF IInv
<1>3. CASE UNCHANGED vars
  BY <1>1, <1>2, <1>3, LifeOfUntouched DEF vars, shared, objects
<1>4. ASSUME NEW t \in Thread, Call(t)
      PROVE  Lifecycle!Next \/ UNCHANGED [c \in Connection |-> Life(c)]
  <2>1. ASSUME NEW a \in Address, Pull(t, a)
        PROVE  Lifecycle!Next \/ UNCHANGED [c \in Connection |-> Life(c)]
    <3>1. CASE PullNothing(t, a)
      BY <1>1, <1>2, <2>1, <3>1, LifeOfUntouched
         DEF Pull, PullNothing, shared, objects
    <3>2. CASE PullConnection(t, a)
      BY <1>1, <1>2, <2>1, <3>2, LifeOfPull DEF Lifecycle!Next
    <3> QED
      BY <2>1, <3>1, <3>2 DEF Pull
  <2>2. ASSUME NEW a \in Address, SkipPool(t, a)
        PROVE  UNCHANGED [c \in Connection |-> Life(c)]
    BY <1>1, <1>2, <2>2, LifeOfUntouched DEF SkipPool, shared, objects
  <2>3. ASSUME NEW c \in Connection, Add(t, c)
        PROVE  Lifecycle!Next
    BY <1>1, <1>2, <2>3, LifeOfAdd DEF Lifecycle!Next
  <2>4. ASSUME NEW c \in Connection, Discard(t, c)
        PROVE  Lifecycle!Next
    BY <1>1, <1>2, <2>4, LifeOfDelete DEF Discard, shared, Lifecycle!Next
  <2>5. ASSUME NEW n \in MaxSizes, SetMaxSize(t, n)
        PROVE  UNCHANGED [c \in Connection |-> Life(c)]
    BY <1>1, <1>2, <2>5, LifeOfUntouched DEF SetMaxSize, shared, objects
  <2>6. ASSUME Clear(t)
        PROVE  Lifecycle!Next
    BY <1>1, <1>2, <2>6, LifeOfClear DEF Lifecycle!Next
  <2> QED
    BY <1>4, <2>1, <2>2, <2>3, <2>4, <2>5, <2>6 DEF Call
<1>5. ASSUME NEW t \in Thread, Continue(t)
      PROVE  Lifecycle!Next \/ UNCHANGED [c \in Connection |-> Life(c)]
  <2>1. CASE Connect(t)
    BY <1>1, <1>2, <2>1, LifeOfConnect DEF Lifecycle!Next
  <2>2. CASE CannotConnect(t)
    BY <1>1, <1>2, <2>2, LifeOfUntouched DEF CannotConnect, shared, objects
  <2>3. CASE Login(t)
    <3>1. current[t] \in held[t]
      BY <2>3 DEF Login, IInv, ThreadsInv, ThreadInv
    <3>2. UNCHANGED <<connectionMap, created>>
      BY <2>3 DEF Login, shared
    <3>3. CASE UNCHANGED <<held, deleted>>
      BY <1>1, <1>2, <3>2, <3>3, LifeOfUntouched
    <3>4. CASE /\ held' = [held EXCEPT ![t] = @ \ {current[t]}]
               /\ deleted' = deleted \cup {current[t]}
      <4>1. PICK c \in held[t] : c = current[t]
        BY <3>1
      <4>2. Lifecycle!Discard(t, c)
        BY <1>1, <1>2, <3>2, <3>4, <4>1, LifeOfDelete
      <4>3. c \in Connection
        BY DEF IInv, TypeOK
      <4> QED
        BY <4>2, <4>3 DEF Lifecycle!Next
    <3> QED
      BY <2>3, <3>3, <3>4 DEF Login
  <2>4. CASE AdjustSize(t)
    BY <1>1, <1>2, <2>4, LifeOfAdjustSize DEF Lifecycle!Next
  <2>5. CASE Adjusted(t)
    BY <1>1, <1>2, <2>5, LifeOfUntouched DEF Adjusted, objects
  <2>6. CASE Collect(t)
    BY <1>1, <1>2, <2>6, LifeOfUntouched DEF Collect, objects
  <2>7. CASE Delete(t)
    BY <1>1, <1>2, <2>7, LifeOfClose DEF Lifecycle!Next
  <2>8. CASE SwapBack(t)
    BY <1>1, <1>2, <2>8, LifeOfUntouched DEF SwapBack, objects
  <2> QED
    BY <1>5, <2>1, <2>2, <2>3, <2>4, <2>5, <2>6, <2>7, <2>8 DEF Continue
<1> QED
  BY <1>3, <1>4, <1>5 DEF Next

(* Whatever the threads do, the pool treats every connection as the         *)
(* abstract life cycle allows.                                              *)
THEOREM PoolImplementsLifecycle == Spec => ImplementsLifecycle
  BY PoolInvariant, LifecycleInit, LifecycleNext, PTL
     DEF Spec, ImplementsLifecycle, Lifecycle!Spec

-----------------------------------------------------------------------------
(* The queue and the lists of idle connections.                             *)

Entries(queue, a) == {i \in DOMAIN queue : queue[i] = a}

LEMMA EntriesFinite ==
  ASSUME NEW S, NEW s \in Seq(S), NEW a
  PROVE  /\ Entries(s, a) \subseteq 1..Len(s)
         /\ IsFiniteSet(Entries(s, a)) /\ Cardinality(Entries(s, a)) \in Nat
<1>1. Entries(s, a) \in SUBSET (1..Len(s))
  BY LenProperties DEF Entries
<1>2. IsFiniteSet(1..Len(s))
  BY FS_Interval, LenProperties
<1>3. IsFiniteSet(Entries(s, a))
  BY <1>1, <1>2, FS_Subset
<1> QED
  BY <1>1, <1>3, FS_CardinalityType

(* One entry goes and the later ones move up, as in pull and adjustSize.    *)
Without(s, k, r) ==
  /\ Len(r) = Len(s) - 1
  /\ \A i \in 1..Len(r) : r[i] = IF i < k THEN s[i] ELSE s[i + 1]

LEMMA EntryRemoved ==
  ASSUME NEW S, NEW s \in Seq(S), NEW k \in 1..Len(s),
         NEW r \in Seq(S), Without(s, k, r),
         NEW a
  PROVE  Cardinality(Entries(r, a)) =
           IF s[k] = a THEN Cardinality(Entries(s, a)) - 1
           ELSE Cardinality(Entries(s, a))
<1>1. /\ Len(s) \in Nat /\ Len(r) \in Nat /\ k \in Nat
      /\ DOMAIN s = 1..Len(s) /\ DOMAIN r = 1..Len(r)
      /\ Len(r) = Len(s) - 1
      /\ \A i \in 1..Len(r) : r[i] = IF i < k THEN s[i] ELSE s[i + 1]
  BY LenProperties DEF Without
<1>2. IsFiniteSet(Entries(s, a)) /\ IsFiniteSet(Entries(r, a))
  BY EntriesFinite
<1> DEFINE rest == Entries(s, a) \ {k}
           f == [i \in Entries(r, a) |-> IF i < k THEN i ELSE i + 1]
<1>3. f \in Bijection(Entries(r, a), rest)
  <2>1. f \in [Entries(r, a) -> rest]
    BY <1>1 DEF Entries
  <2>2. \A i, j \in Entries(r, a) : f[i] = f[j] => i = j
    BY <1>1 DEF Entries
  <2>3. ASSUME NEW j \in rest
        PROVE  \E i \in Entries(r, a) : f[i] = j
    <3>1. CASE j < k
      <4>1. j \in Entries(r, a)
        BY <1>1, <3>1 DEF Entries
      <4> QED
        BY <3>1, <4>1
    <3>2. CASE j > k
      <4>1. j - 1 \in Entries(r, a) /\ ~ (j - 1 < k) /\ (j - 1) + 1 = j
        BY <1>1, <3>2 DEF Entries
      <4> QED
        BY <4>1
    <3>3. j \in Nat /\ j # k
      BY <1>1 DEF Entries
    <3> QED
      BY <1>1, <3>1, <3>2, <3>3
  <2> QED
    BY <2>1, <2>2, <2>3 DEF Bijection, Injection, IsInjective, Surjection
<1>4. ExistsBijection(Entries(r, a), rest)
  BY <1>3 DEF ExistsBijection
<1>5. Cardinality(rest) = Cardinality(Entries(r, a))
  BY <1>2, <1>4, FS_Bijection
<1>6. Cardinality(rest) = IF k \in Entries(s, a) THEN Cardinality(Entries(s, a)) - 1
                          ELSE Cardinality(Entries(s, a))
  BY <1>2, FS_RemoveElement
<1>7. k \in Entries(s, a) <=> s[k] = a
  BY <1>1 DEF Entries
<1> QED
  BY <1>5, <1>6, <1>7

LEMMA EntryAppended ==
  ASSUME NEW S, NEW s \in Seq(S), NEW b \in S, NEW a
  PROVE  Cardinality(Entries(Append(s, b), a)) =
           IF a = b THEN Cardinality(Entries(s, a)) + 1 ELSE Cardinality(Entries(s, a))
<1> DEFINE r == Append(s, b)
<1>1. /\ Len(s) \in Nat /\ DOMAIN s = 1..Len(s)
      /\ DOMAIN r = 1..(Len(s) + 1)
      /\ \A i \in 1..Len(s) : r[i] = s[i]
      /\ r[Len(s) + 1] = b
  BY AppendProperties, LenProperties
<1>2. IsFiniteSet(Entries(s, a)) /\ Len(s) + 1 \notin Entries(s, a)
  BY <1>1, EntriesFinite
<1> HIDE DEF r
<1>3. Entries(r, a) = IF a = b THEN Entries(s, a) \cup {Len(s) + 1} ELSE Entries(s, a)
  BY <1>1 DEF Entries
<1> QED
  BY <1>2, <1>3, FS_AddElement DEF r

(* What is left of the queue without one entry.                             *)
LEMMA RemoveAtElements ==
  ASSUME NEW S, NEW s \in Seq(S), NEW k \in 1..Len(s)
  PROVE  \A i \in 1..Len(RemoveAt(s, k)) :
           RemoveAt(s, k)[i] = IF i < k THEN s[i] ELSE s[i + 1]
<1> DEFINE front == SubSeq(s, 1, k - 1)
           back == SubSeq(s, k + 1, Len(s))
<1>1. Len(s) \in Nat /\ k \in Nat \ {0} /\ Len(RemoveAt(s, k)) = Len(s) - 1
  BY LenProperties, RemoveAtProperties
<1>2. /\ front \in Seq(S) /\ Len(front) = k - 1
      /\ \A i \in 1..(k - 1) : front[i] = s[i]
  BY <1>1, SubSeqProperties, ElementOfSeq, LenProperties
<1>3. /\ back \in Seq(S) /\ Len(back) = Len(s) - k
      /\ \A i \in 1..(Len(s) - k) : back[i] = s[i + k]
  BY <1>1, SubSeqProperties, ElementOfSeq, LenProperties
<1> HIDE DEF front, back
<1>4. \A i \in 1..(Len(front) + Len(back)) :
        (front \o back)[i] = IF i <= Len(front) THEN front[i] ELSE back[i - Len(front)]
  BY <1>2, <1>3, ConcatProperties
<1>5. ASSUME NEW i \in 1..(Len(s) - 1)
      PROVE  (front \o back)[i] = IF i < k THEN s[i] ELSE s[i + 1]
  <2>1. CASE i < k
    BY <1>1, <1>2, <1>3, <1>4, <2>1
  <2>2. CASE ~ i < k
    <3>1. /\ (front \o back)[i] = back[i - (k - 1)]
          /\ i - (k - 1) \in 1..(Len(s) - k) /\ i - (k - 1) + k = i + 1
      BY <1>1, <1>2, <1>3, <1>4, <2>2
    <3> QED
      BY <1>3, <2>2, <3>1
  <2> QED
    BY <2>1, <2>2
<1>6. RemoveAt(s, k) = front \o back
  BY DEF RemoveAt, front, back
<1> QED
  BY <1>1, <1>5, <1>6

(* Every entry stands for an idle connection to its address.                *)
QueueInv ==
  \A a \in Address :
    /\ Cardinality(Entries(addressQueue, a)) = Len(connectionMap[a])
    /\ \A i \in DOMAIN connectionMap[a] : RemoteAddress[connectionMap[a][i]] = a

(* An entry of an address goes, and with it the newest connection there.    *)
LEMMA QueuePop ==
  ASSUME TypeOK, SingleOwner, QueueInv, NEW a \in Address, NEW k \in 1..Len(addressQueue),
         addressQueue[k] = a, connectionMap[a] # <<>>,
         connectionMap' = [connectionMap EXCEPT ![a] = Front(connectionMap[a])],
         addressQueue' \in Seq(Address), Without(addressQueue, k, addressQueue')
  PROVE  QueueInv'
<1>1. ASSUME NEW b \in Address
      PROVE  Cardinality(Entries(addressQueue', b)) =
               IF b = a THEN Cardinality(Entries(addressQueue, b)) - 1
               ELSE Cardinality(Entries(addressQueue, b))
  BY EntryRemoved DEF TypeOK
<1>2. ASSUME NEW b \in Address
      PROVE  Len(connectionMap'[b]) =
               IF b = a THEN Len(connectionMap[b]) - 1 ELSE Len(connectionMap[b])
  <2>1. /\ connectionMap[a] \in Seq(Connection)
        /\ connectionMap'[b] = IF b = a THEN Front(connectionMap[a]) ELSE connectionMap[b]
    BY DEF TypeOK
  <2>2. Len(Front(connectionMap[a])) = Len(connectionMap[a]) - 1
    BY <2>1, FrontProperties
  <2>3. CASE b = a
    BY <2>1, <2>2, <2>3
  <2>4. CASE b # a
    BY <2>1, <2>4
  <2> QED
    BY <2>3, <2>4
<1>3. \A b \in Address : \A i \in DOMAIN connectionMap'[b] :
        i \in DOMAIN connectionMap[b] /\ connectionMap'[b][i] = connectionMap[b][i]
  BY PopIdle DEF SingleOwner
<1>4. \A b \in Address : Len(connectionMap[b]) \in Nat
  BY LenProperties DEF TypeOK
<1>5. ASSUME NEW b \in Address
      PROVE  Cardinality(Entries(addressQueue', b)) = Len(connectionMap'[b])
  BY <1>1, <1>2, <1>4 DEF QueueInv
<1>6. ASSUME NEW b \in Address, NEW i \in DOMAIN connectionMap'[b]
      PROVE  RemoteAddress[connectionMap'[b][i]] = b
  BY <1>3, <1>6 DEF QueueInv
<1> QED
  BY <1>5, <1>6 DEF QueueInv

LEMMA QueuePull ==
  ASSUME TypeOK, SingleOwner, QueueInv, NEW t \in Thread, NEW a \in Address,
         PullConnection(t, a)
  PROVE  QueueInv'
<1>1. PICK k \in DOMAIN addressQueue :
        addressQueue[k] = a /\ addressQueue' = RemoveAt(addressQueue, k)
  BY DEF PullConnection
<1>2. addressQueue \in Seq(Address) /\ k \in 1..Len(addressQueue)
  BY LenProperties DEF TypeOK
<1>3. addressQueue' \in Seq(Address) /\ Without(addressQueue, k, addressQueue')
  BY <1>1, <1>2, RemoveAtProperties, RemoveAtElements DEF Without
<1> QED
  BY <1>1, <1>2, <1>3, QueuePop DEF PullConnection

(* The branch of adjustSize on an empty list is dead.                       *)
LEMMA QueueAdjustSize ==
  ASSUME TypeOK, SingleOwner, QueueInv, NEW t \in Thread, AdjustSize(t)
  PROVE  QueueInv'
<1>1. addressQueue \in Seq(Address) /\ addressQueue # <<>>
  BY EmptySeq DEF AdjustSize, TypeOK
<1>2. PICK a \in Address : a = Head(addressQueue)
  BY <1>1, HeadTailProperties
<1>3. 1 \in 1..Len(addressQueue) /\ addressQueue[1] = a
  BY <1>1, <1>2, LenProperties, EmptySeq
<1>4. connectionMap[a] # <<>>
  <2>1. 1 \in Entries(addressQueue, a) /\ IsFiniteSet(Entries(addressQueue, a))
    BY <1>1, <1>3, LenProperties, EntriesFinite DEF Entries
  <2>2. Cardinality(Entries(addressQueue, a)) # 0
    BY <2>1, FS_EmptySet
  <2> QED
    BY <2>2, EmptySeq DEF QueueInv
<1>5. addressQueue' \in Seq(Address) /\ Without(addressQueue, 1, addressQueue')
  BY <1>1, HeadTailProperties, LenProperties DEF AdjustSize, Without
<1>6. connectionMap' = [connectionMap EXCEPT ![a] = Front(connectionMap[a])]
  BY <1>2, <1>4 DEF AdjustSize
<1> QED
  BY <1>3, <1>4, <1>5, <1>6, QueuePop

LEMMA QueueAdd ==
  ASSUME TypeOK, QueueInv, NEW t \in Thread, NEW c \in Connection, Add(t, c)
  PROVE  QueueInv'
<1>1. PICK a \in Address : a = RemoteAddress[c]
  BY PoolAssumption
<1>2. /\ addressQueue' = Append(addressQueue, a)
      /\ connectionMap' = [connectionMap EXCEPT ![a] = Append(connectionMap[a], c)]
  BY <1>1 DEF Add
<1>3. ASSUME NEW b \in Address
      PROVE  Cardinality(Entries(addressQueue', b)) = Len(connectionMap'[b])
  <2>1. Cardinality(Entries(addressQueue', b)) =
          IF b = a THEN Cardinality(Entries(addressQueue, b)) + 1
          ELSE Cardinality(Entries(addressQueue, b))
    BY <1>2, EntryAppended DEF TypeOK
  <2>2. Len(connectionMap'[b]) =
          IF b = a THEN Len(connectionMap[b]) + 1 ELSE Len(connectionMap[b])
    BY <1>2, AppendProperties DEF TypeOK
  <2> QED
    BY <2>1, <2>2 DEF QueueInv
<1>4. ASSUME NEW b \in Address, NEW i \in DOMAIN connectionMap'[b]
      PROVE  RemoteAddress[connectionMap'[b][i]] = b
  <2>1. \/ /\ i \in DOMAIN connectionMap[b]
           /\ connectionMap'[b][i] = connectionMap[b][i]
        \/ /\ b = a
           /\ connectionMap'[b][i] = c
    BY <1>2, <1>4, PushIdle
  <2> QED
    BY <1>1, <2>1 DEF QueueInv
<1> QED
  BY <1>3, <1>4 DEF QueueInv

LEMMA QueueNext ==
  TypeOK /\ SingleOwner /\ QueueInv /\ [Next]_vars => QueueInv'
<1> SUFFICES ASSUME TypeOK, SingleOwner, QueueInv, [Next]_vars
             PROVE  QueueInv'
  OBVIOUS
<1>1. CASE UNCHANGED <<addressQueue, connectionMap>>
  BY <1>1 DEF QueueInv
<1>2. ASSUME NEW t \in Thread, Clear(t) PROVE QueueInv'
  <2>1. /\ addressQueue' = <<>>
        /\ \A a \in Address : connectionMap'[a] = <<>>
    BY <1>2 DEF Clear, EmptyPool
  <2>2. \A a \in Address : Entries(addressQueue', a) = {}
    BY <2>1 DEF Entries
  <2> QED
    BY <2>1, <2>2, FS_EmptySet, EmptySeq DEF QueueInv
<1>3. ASSUME NEW t \in Thread, Call(t) PROVE QueueInv'
  BY <1>1, <1>2, <1>3, QueuePull, QueueAdd
     DEF Call, Pull, PullNothing, SkipPool, Discard, SetMaxSize, shared
<1>4. ASSUME NEW t \in Thread, Continue(t) PROVE QueueInv'
  BY <1>1, <1>4, QueueAdjustSize
     DEF Continue, Connect, CannotConnect, Login, Adjusted, Collect, Delete, SwapBack,
         shared
<1> QED
  BY <1>1, <1>3, <1>4 DEF Next, vars, shared

(* The queue has one entry for each idle connection of each address, so     *)
(* that pull and adjustSize find in the one what they found in the other;   *)
(* and an idle connection is entered under its own address.                 *)
THEOREM PoolQueueMatchesMap == Spec => []QueueMatchesMap
<1>1. Init => QueueInv
  <2> SUFFICES ASSUME Init PROVE QueueInv
    OBVIOUS
  <2>1. \A a \in Address : connectionMap[a] = <<>> /\ Entries(addressQueue, a) = {}
    BY DEF Init, Entries
  <2>2. Cardinality({}) = 0 /\ Len(<<>>) = 0 /\ DOMAIN <<>> = {}
    BY FS_EmptySet
  <2> QED
    BY <2>1, <2>2 DEF QueueInv
<1>2. IInv /\ QueueInv /\ [Next]_vars => QueueInv'
  BY QueueNext DEF IInv
<1>3. IInv /\ QueueInv => QueueMatchesMap
  BY DEF IInv, QueueInv, QueueMatchesMap, Entries, ToSet
<1> QED
  BY <1>1, <1>2, <1>3, PoolInvariant, PTL DEF Spec

-----------------------------------------------------------------------------
(* The connections that are lost.                                           *)

Reachable(c) ==
  \/ c \in deleted \cup Idlers \cup exceededConnectionList
  \/ \E t \in Thread : c \in held[t] \cup connectionList[t]

LEMMA OrphansUnreachable == \A c : c \in Orphans <=> c \in created /\ ~ Reachable(c)
  BY DEF Orphans, Reachable

(* No step but the second swap loses a connection.                          *)
LEMMA StaysReachable ==
  ASSUME IInv, [Next]_vars, NEW c \in created', Reachable(c) \/ c \notin created,
         \A t \in Thread : ~ SwapBack(t)
  PROVE  Reachable(c)'
<1>1. CASE UNCHANGED <<connectionMap, exceededConnectionList, held, connectionList, objects>>
  BY <1>1 DEF Reachable, Idlers, objects, IInv, SingleOwner, PlacesDisjoint
<1>2. ASSUME NEW t \in Thread, NEW a \in Address, Pull(t, a) PROVE Reachable(c)'
  <2>1. CASE PullNothing(t, a)
    BY <1>1, <1>2, <2>1 DEF Pull, PullNothing, shared
  <2>2. CASE PullConnection(t, a)
    <3>1. PICK d : d = Last(connectionMap[a])
      OBVIOUS
    <3>2. Idlers' = Idlers \ {d}
      BY <2>2, <3>1, PopIdlers DEF PullConnection, IInv, SingleOwner
    <3>3. \A u \in Thread : held'[u] = IF u = t THEN held[u] \cup {d} ELSE held[u]
      BY <2>2, <3>1 DEF PullConnection, IInv, TypeOK
    <3>4. UNCHANGED <<exceededConnectionList, connectionList, created, deleted>>
      BY <1>2, <2>2 DEF Pull, PullConnection, objects
    <3> QED
      BY <3>2, <3>3, <3>4 DEF Reachable
  <2> QED
    BY <1>2, <2>1, <2>2 DEF Pull
<1>3. ASSUME NEW t \in Thread, NEW d \in Connection, Add(t, d) PROVE Reachable(c)'
  <2>1. connectionMap' =
          [connectionMap EXCEPT ![RemoteAddress[d]] = Append(connectionMap[RemoteAddress[d]], d)]
    BY <1>3 DEF Add
  <2>2. Idlers' = Idlers \cup {d}
    BY <2>1, PushIdlers, PoolAssumption DEF IInv
  <2>3. \A u \in Thread : held'[u] = IF u = t THEN held[u] \ {d} ELSE held[u]
    BY <1>3 DEF Add, IInv, TypeOK
  <2> QED
    BY <1>3, <2>2, <2>3 DEF Add, objects, Reachable
<1>4. ASSUME NEW t \in Thread, NEW d, held' = [held EXCEPT ![t] = @ \ {d}],
             deleted' = deleted \cup {d},
             UNCHANGED <<connectionMap, exceededConnectionList, connectionList, created>>
      PROVE  Reachable(c)'
  <2>1. \A u \in Thread : held'[u] = IF u = t THEN held[u] \ {d} ELSE held[u]
    BY <1>4 DEF IInv, TypeOK
  <2> QED
    BY <1>4, <2>1 DEF Reachable, Idlers
<1>5. ASSUME NEW t \in Thread, Clear(t) PROVE Reachable(c)'
  BY <1>5 DEF Clear, EmptyPool, Reachable, objects
<1>6. ASSUME NEW t \in Thread, Connect(t) PROVE Reachable(c)'
  <2>1. PICK d \in Connection \ created :
          /\ created' = created \cup {d}
          /\ \/ /\ held' = [held EXCEPT ![t] = @ \cup {d}]
                /\ UNCHANGED deleted
             \/ /\ deleted' = deleted \cup {d}
                /\ UNCHANGED held
    BY <1>6 DEF Connect
  <2>2. UNCHANGED <<exceededConnectionList, connectionList>> /\ Idlers' = Idlers
    BY <1>6 DEF Connect, shared, Idlers
  <2>3. \A u \in Thread : held[u] \subseteq held'[u]
    BY <2>1 DEF IInv, TypeOK
  <2>4. d \in deleted' \/ d \in held'[t]
    BY <2>1 DEF IInv, TypeOK
  <2> QED
    BY <2>1, <2>2, <2>3, <2>4 DEF Reachable
<1>7. ASSUME NEW t \in Thread, AdjustSize(t) PROVE Reachable(c)'
  <2>1. PICK a \in Address : a = Head(addressQueue)
    <3>1. addressQueue # <<>>
      BY <1>7, EmptySeq DEF AdjustSize, IInv, TypeOK
    <3> QED
      BY <3>1, HeadTailProperties DEF IInv, TypeOK
  <2>2. UNCHANGED <<held, connectionList, created, deleted>>
    BY <1>7 DEF AdjustSize, objects
  <2>3. CASE connectionMap[a] = <<>>
    BY <1>1, <1>7, <2>1, <2>2, <2>3 DEF AdjustSize, objects
  <2>4. CASE connectionMap[a] # <<>>
    <3>1. Idlers' = Idlers \ {Last(connectionMap[a])}
      BY <1>7, <2>1, <2>4, PopIdlers DEF AdjustSize, IInv, SingleOwner
    <3>2. exceededConnectionList' = exceededConnectionList \cup {Last(connectionMap[a])}
      BY <1>7, <2>1, <2>4 DEF AdjustSize
    <3> QED
      BY <2>2, <3>1, <3>2 DEF Reachable
  <2> QED
    BY <2>3, <2>4
<1>8. ASSUME NEW t \in Thread, Collect(t) \/ Delete(t) PROVE Reachable(c)'
  <2>1. UNCHANGED <<held, created>> /\ Idlers' = Idlers
    BY <1>8 DEF Collect, Delete, shared, objects, Idlers
  <2>2. CASE Collect(t)
    <3>1. \A u \in Thread : connectionList'[u] =
            IF u = t THEN exceededConnectionList ELSE connectionList[u]
      BY <2>2 DEF Collect, IInv, TypeOK
    <3>2. connectionList[t] = {} /\ UNCHANGED deleted
      BY <2>2 DEF Collect, objects, IInv, ThreadsInv, ThreadInv
    <3> QED
      BY <2>1, <3>1, <3>2 DEF Reachable
  <2>3. CASE Delete(t)
    <3>1. PICK d : /\ connectionList' = [connectionList EXCEPT ![t] = @ \ {d}]
                   /\ deleted' = deleted \cup {d}
      BY <2>3 DEF Delete
    <3>2. \A u \in Thread : connectionList'[u] =
            IF u = t THEN connectionList[u] \ {d} ELSE connectionList[u]
      BY <3>1 DEF IInv, TypeOK
    <3> QED
      BY <2>1, <2>3, <3>1, <3>2 DEF Delete, shared, Reachable
  <2> QED
    BY <1>8, <2>2, <2>3
<1>9. CASE UNCHANGED vars
  BY <1>1, <1>9 DEF vars, shared
<1>10. ASSUME NEW t \in Thread, Call(t) PROVE Reachable(c)'
  BY <1>1, <1>2, <1>3, <1>4, <1>5, <1>10 DEF Call, SkipPool, Discard, SetMaxSize, shared
<1>11. ASSUME NEW t \in Thread, Continue(t) PROVE Reachable(c)'
  BY <1>1, <1>4, <1>6, <1>7, <1>8, <1>11
     DEF Continue, CannotConnect, Login, Adjusted, shared, objects
<1> QED
  BY <1>9, <1>10, <1>11 DEF Next

(* A connection is lost only when the second swap of                        *)
(* closeExceededConnections drops what another thread evicted meanwhile.    *)
THEOREM PoolOrphanedOnlyBySwapBack == Spec => OrphanedOnlyBySwapBack
<1> DEFINE Lost == \A c \in Orphans' \ Orphans :
                     c \in exceededConnectionList /\ \E t \in Thread : pc[t] = "swapBack"
<1>1. IInv /\ [Next]_vars => Lost
  <2> SUFFICES ASSUME IInv, [Next]_vars, NEW c \in Orphans', c \notin Orphans
               PROVE  c \in exceededConnectionList /\ \E t \in Thread : pc[t] = "swapBack"
    OBVIOUS
  <2>1. c \in created' /\ ~ Reachable(c)'
    BY DEF Orphans, Reachable
  <2>2. Reachable(c) \/ c \notin created
    BY OrphansUnreachable
  <2>3. PICK t \in Thread : SwapBack(t)
    BY <2>1, <2>2, StaysReachable
  <2>4. /\ pc[t] = "swapBack" /\ c \in created
        /\ UNCHANGED <<held, deleted>> /\ Idlers' = Idlers
        /\ \A u \in Thread \ {t} : connectionList'[u] = connectionList[u]
        /\ connectionList[t] = {}
    BY <2>1, <2>3 DEF SwapBack, objects, Idlers, IInv, TypeOK, ThreadsInv, ThreadInv
  <2> QED
    BY <2>1, <2>2, <2>4 DEF Reachable
<1> QED
  BY <1>1, PoolInvariant, PTL DEF Spec, OrphanedOnlyBySwapBack
=============================================================================
