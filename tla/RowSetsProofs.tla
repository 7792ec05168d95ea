--------------------------- MODULE RowSetsProofs ---------------------------
(***************************************************************************)
(* The safety properties of RowSets for any bounds.  The argument is about *)
(* who holds a row set: each handle of the application, and one query at   *)
(* most, as long as the row set is open.  Whatever closes resources goes   *)
(* through them by their addresses, and what it has passed stays closed.   *)
(***************************************************************************)
EXTENDS RowSets, FiniteSetTheorems, WellFoundedInduction, TLAPS

QueryIn(f, q) == f[q] # NULL /\ f[q].type = "query"
RowIn(f, r) == f[r] # NULL /\ f[r].type = "rowSet"
HeldBy(f, q, r) == QueryIn(f, q) /\ f[q].lastRowSet = r
Held(f, r) == \E q \in Address : HeldBy(f, q, r)

Resources == [Address -> Query \cup RowSet \cup {NULL}]

(* A query refers to a row set that is there, and no other query does. *)
LinksOK(f) ==
  /\ \A q \in Address : QueryIn(f, q) /\ f[q].lastRowSet # NULL =>
       f[q].lastRowSet \in Address /\ RowIn(f, f[q].lastRowSet)
  /\ \A p, q, r \in Address : HeldBy(f, p, r) /\ HeldBy(f, q, r) => p = q

(* The references of a row set are its handles and that of its query. *)
CountsOK(f, given) ==
  /\ \A a \in Address : given[a] > 0 => f[a] # NULL
  /\ \A q \in Address : QueryIn(f, q) => given[q] = 1
  /\ \A r \in Address : RowIn(f, r) /\ Held(f, r) => f[r].refs = given[r] + 1
  /\ \A r \in Address : RowIn(f, r) /\ ~ Held(f, r) => f[r].refs = given[r]

(* What is open is held by a query, and what the node keeps is open. *)
OwnedOK(f, kept) ==
  /\ \A r \in Address : RowIn(f, r) /\ ~ f[r].closed =>
       Held(f, r) /\ f[r].unread = f[r].rows + f[r].remaining
  /\ \A r \in kept : RowIn(f, r) /\ ~ f[r].closed /\ f[r].connection = "current"

HeapOK(f, given, kept) ==
  f \in Resources /\ LinksOK(f) /\ CountsOK(f, given) /\ OwnedOK(f, kept)

HeapInv == HeapOK(resource, handle, server)

(* What gsFetchAll has left for gsGetRowSet is there. *)
Shown(f) == \A q \in Address : QueryIn(f, q) /\ f[q].visible => f[q].lastRowSet # NULL

ShownInv == Shown(resource)

(* The iteration that closes resources has closed all before at. *)
Passed(f, what, at) ==
  \A a \in Address : at = NULL \/ a < at =>
    /\ RowIn(f, a) /\ (what = "abort" => f[a].transactionId # 0) => f[a].closed
    /\ QueryIn(f, a) /\ what # "abort" => f[a].lastRowSet = NULL

(* The row set that is read on has no row, and is open. *)
FollowInv ==
  pc = "following" =>
    /\ ~ closed /\ then \in {"fetch", "getRowSet", "next"}
    /\ subject \in Address /\ RowIn(resource, subject)
    /\ ~ resource[subject].closed /\ resource[subject].rows = 0

(* What the application has a handle of is read on, but for s. *)
Read(f, given, s) ==
  \A r \in Address \ {s} :
    RowIn(f, r) /\ ~ f[r].closed /\ given[r] > 0 => ~ MoreToRead(f, r)

ReadInv == Read(resource, handle, IF pc = "following" THEN subject ELSE NULL)

ClosingInv ==
  pc = "closing" =>
    /\ ~ closed /\ then \in {"abort", "close", "closeAll"}
    /\ stack = <<>> => Passed(resource, then, NULL)
    /\ stack # <<>> => Passed(resource, then, Top.at)

ClosedInv ==
  /\ closed => Passed(resource, "close", NULL) /\ pc \in {"idle", "releasing"}
  /\ pc = "releasing" => closed /\ Active # {}

(* The row sets of the transactions ts are closed. *)
Dead(f, ts) == \A r \in Address : RowIn(f, r) /\ f[r].transactionId \in ts => f[r].closed

AbortedInv ==
  /\ \A t \in aborted : t # 0 /\ t < transactionId
  /\ ~ (pc \in {"closing", "crashed"} /\ then = "abort") => Dead(resource, aborted)

CountInv ==
  referenceCount = Cardinality(Active) + (IF closed /\ pc # "releasing" THEN 0 ELSE 1)

IInv ==
  /\ TypeOK /\ HeapInv /\ ShownInv /\ FollowInv /\ ReadInv /\ ClosingInv /\ ClosedInv /\ AbortedInv
  /\ CountInv

-----------------------------------------------------------------------------
(* The operations on the heap. *)

HeapRecord == [res : Resources, server : SUBSET Address, breaks : Nat, ok : BOOLEAN]

(* At address a nothing has changed but the connection of a row set. *)
Same(f, g, a) ==
  \/ g[a] = f[a]
  \/ /\ RowIn(f, a) /\ RowIn(g, a)
     /\ g[a].refs = f[a].refs /\ g[a].closed = f[a].closed
     /\ g[a].rows = f[a].rows /\ g[a].remaining = f[a].remaining
     /\ g[a].status = f[a].status /\ g[a].unread = f[a].unread
     /\ g[a].transactionId = f[a].transactionId

(* What the node still keeps is of row sets that have not changed. *)
Keeps(f, kept, g, left) == \A k \in left : k \in kept /\ g[k] = f[k]

(* The row set r is closed, and the others are the same. *)
Shut(f, g, r) ==
  /\ RowIn(g, r) /\ g[r].closed
  /\ g[r].refs = f[r].refs /\ g[r].transactionId = f[r].transactionId
  /\ \A a \in Address \ {r} : Same(f, g, a)

(* It has lost a reference as well. *)
Released(f, g, r) ==
  /\ \/ f[r].refs = 1 /\ g[r] = NULL
     \/ /\ f[r].refs # 1 /\ RowIn(g, r) /\ g[r].closed
        /\ g[r].refs = f[r].refs - 1 /\ g[r].transactionId = f[r].transactionId
  /\ \A a \in Address \ {r} : Same(f, g, a)

(* The query q has given up its row set, which is closed. *)
Cleared(f, g, q) ==
  LET r == f[q].lastRowSet IN
  /\ QueryIn(g, q) /\ g[q].lastRowSet = NULL /\ ~ g[q].visible
  /\ r = NULL => \A a \in Address \ {q} : Same(f, g, a)
  /\ r # NULL =>
       /\ \/ f[r].refs = 1 /\ g[r] = NULL
          \/ /\ f[r].refs # 1 /\ RowIn(g, r) /\ g[r].closed
             /\ g[r].refs = f[r].refs - 1 /\ g[r].transactionId = f[r].transactionId
       /\ \A a \in Address \ {q, r} : Same(f, g, a)

LEMMA Kinds ==
  ASSUME NEW f \in Resources, NEW a \in Address
  PROVE  /\ QueryIn(f, a) <=> f[a] \in Query
         /\ RowIn(f, a) <=> f[a] \in RowSet
         /\ f[a] = NULL \/ QueryIn(f, a) \/ RowIn(f, a)
         /\ ~ (QueryIn(f, a) /\ RowIn(f, a))
  <1>1. f[a] \in Query \cup RowSet \cup {NULL}
    BY DEF Resources
  <1>2. NULL \notin Query /\ NULL \notin RowSet
    BY RowSetsAssumption
  <1> QED BY <1>1, <1>2 DEF QueryIn, RowIn, Query, RowSet

LEMMA ClosedRowSet ==
  ASSUME NEW x \in RowSet, NEW y, y = Closed(x)
  PROVE  /\ y \in RowSet /\ y.closed
         /\ y.refs = x.refs /\ y.transactionId = x.transactionId
  <1>1. 0 \in 0 .. MaxRows /\ 0 \in 0 .. MaxStatus /\ 0 \in Nat
    BY RowSetsAssumption
  <1>2. y = [x EXCEPT !.closed = TRUE, !.connection = "none", !.rows = 0,
                      !.remaining = 0, !.status = 0, !.lost = FALSE, !.unread = 0]
    BY DEF Closed
  <1> QED BY <1>1, <1>2 DEF RowSet

LEMMA BrokenEffect ==
  ASSUME NEW h \in HeapRecord, NEW g \in Broken(h)
  PROVE  /\ g \in HeapRecord /\ g.server = {}
         /\ \A a \in Address : Same(h.res, g.res, a)
  <1>1. g = [res |-> [a \in Address |->
                       IF Row(h, a) /\ h.res[a].connection = "current"
                       THEN [h.res[a] EXCEPT !.connection = "old"] ELSE h.res[a]],
             server |-> {}, breaks |-> h.breaks + 1, ok |-> FALSE]
    BY DEF Broken
  <1>2. ASSUME NEW a \in Address
        PROVE  Same(h.res, g.res, a) /\ g.res[a] \in Query \cup RowSet \cup {NULL}
    <2>0. h.res \in Resources
      BY DEF HeapRecord
    <2>1. CASE Row(h, a) /\ h.res[a].connection = "current"
      <3>1. RowIn(h.res, a)
        BY <2>1 DEF Row, RowIn
      <3>2. h.res[a] \in RowSet
        BY <2>0, <3>1, Kinds
      <3>3. g.res[a] = [h.res[a] EXCEPT !.connection = "old"]
        BY <1>1, <2>1
      <3>4. g.res[a] \in RowSet
        BY <3>2, <3>3 DEF RowSet
      <3>5. RowIn(g.res, a)
        BY <3>4, RowSetsAssumption DEF RowIn, RowSet
      <3> QED BY <3>1, <3>2, <3>3, <3>4, <3>5 DEF Same, RowSet
    <2>2. CASE ~ (Row(h, a) /\ h.res[a].connection = "current")
      <3>1. g.res[a] = h.res[a]
        BY <1>1, <2>2
      <3> QED BY <2>0, <3>1 DEF Same, Resources
    <2> QED BY <2>1, <2>2
  <1>3. g.res = [a \in Address |-> g.res[a]]
    BY <1>1
  <1>4. g.res \in Resources
    BY <1>2, <1>3 DEF Resources
  <1>5. PICK f : g = [res |-> f, server |-> {}, breaks |-> h.breaks + 1, ok |-> FALSE]
    BY <1>1
  <1>6. f \in Resources /\ h.breaks + 1 \in Nat
    BY <1>4, <1>5 DEF HeapRecord
  <1>7. g \in HeapRecord /\ g.server = {}
    BY <1>5, <1>6 DEF HeapRecord
  <1> QED BY <1>2, <1>7

LEMMA CloseRemoteEffect ==
  ASSUME NEW h \in HeapRecord, NEW r \in Address, RowIn(h.res, r),
         r \in h.server => ~ h.res[r].closed /\ h.res[r].connection = "current",
         NEW g \in CloseRemote(h, r)
  PROVE  /\ g \in HeapRecord
         /\ Shut(h.res, g.res, r) /\ Keeps(h.res, h.server, g.res, g.server)
         /\ r \notin g.server
  <1>0. h.res \in Resources /\ h.server \in SUBSET Address /\ h.res[r] \in RowSet
    BY Kinds DEF HeapRecord
  <1>1. CASE h.res[r].closed
    <2>1. g = [h EXCEPT !.ok = TRUE]
      BY <1>1 DEF CloseRemote
    <2>2. g.res = h.res /\ g.server = h.server /\ g \in HeapRecord
      BY <2>1 DEF HeapRecord
    <2> QED BY <1>1, <2>2 DEF Shut, Same, Keeps
  <1>2. CASE ~ h.res[r].closed
    <2>1. PICK c : c = [h EXCEPT !.res[r] = Closed(@)]
      OBVIOUS
    <2>2. /\ c.res = [h.res EXCEPT ![r] = Closed(h.res[r])] /\ c.server = h.server
          /\ c.breaks = h.breaks /\ c.ok = h.ok
      BY <2>1 DEF HeapRecord
    <2>3. c.res \in Resources
      <3>1. Closed(h.res[r]) \in RowSet
        BY <1>0, ClosedRowSet
      <3> QED BY <1>0, <2>2, <3>1 DEF Resources
    <2>4. c \in HeapRecord
      BY <2>1, <2>2, <2>3 DEF HeapRecord
    <2>5. Shut(h.res, c.res, r)
      <3>1. c.res[r] = Closed(h.res[r]) /\ \A a \in Address \ {r} : c.res[a] = h.res[a]
        BY <1>0, <2>2 DEF Resources
      <3>2. c.res[r] \in RowSet /\ c.res[r].closed /\ c.res[r].refs = h.res[r].refs
            /\ c.res[r].transactionId = h.res[r].transactionId
        BY <1>0, <3>1, ClosedRowSet
      <3> QED BY <2>3, <3>1, <3>2, Kinds DEF Shut, Same
    <2>6. CASE g = [c EXCEPT !.ok = TRUE] /\ r \notin h.server
      <3>1. g.res = c.res /\ g.server = h.server /\ g \in HeapRecord
        BY <2>2, <2>4, <2>6 DEF HeapRecord
      <3>2. \A k \in h.server : c.res[k] = h.res[k]
        BY <1>0, <2>2, <2>6 DEF Resources
      <3> QED BY <2>5, <2>6, <3>1, <3>2 DEF Shut, Keeps
    <2>7. CASE g = [c EXCEPT !.ok = FALSE] /\ r \notin h.server
      <3>1. g.res = c.res /\ g.server = h.server /\ g \in HeapRecord
        BY <2>2, <2>4, <2>7 DEF HeapRecord
      <3>2. \A k \in h.server : c.res[k] = h.res[k]
        BY <1>0, <2>2, <2>7 DEF Resources
      <3> QED BY <2>5, <2>7, <3>1, <3>2 DEF Shut, Keeps
    <2>8. CASE g = [c EXCEPT !.server = @ \ {r}, !.ok = TRUE]
      <3>1. g.res = c.res /\ g.server = h.server \ {r} /\ g \in HeapRecord
        BY <2>2, <2>4, <2>8 DEF HeapRecord
      <3>2. \A k \in h.server \ {r} : c.res[k] = h.res[k]
        BY <1>0, <2>2 DEF Resources
      <3> QED BY <2>5, <3>1, <3>2 DEF Shut, Keeps
    <2>9. CASE \E b \in Broken(h) : g = [b EXCEPT !.res[r] = Closed(@)]
      <3>1. PICK b \in Broken(h) : g = [b EXCEPT !.res[r] = Closed(@)]
        BY <2>9
      <3>2. /\ b \in HeapRecord /\ b.server = {}
            /\ \A a \in Address : Same(h.res, b.res, a)
        BY BrokenEffect
      <3>3. RowIn(b.res, r) /\ b.res \in Resources /\ b.res[r].refs = h.res[r].refs
            /\ b.res[r].transactionId = h.res[r].transactionId
        BY <3>2 DEF Same, HeapRecord, RowIn
      <3>4. b.res[r] \in RowSet
        BY <3>3, Kinds
      <3>5. PICK x : x = Closed(b.res[r])
        OBVIOUS
      <3>6. /\ x \in RowSet /\ x.closed /\ x.refs = h.res[r].refs
            /\ x.transactionId = h.res[r].transactionId
        BY <3>3, <3>4, <3>5, ClosedRowSet
      <3>7. g.res = [b.res EXCEPT ![r] = x] /\ g.server = {} /\ g.breaks = b.breaks
            /\ g = [b EXCEPT !.res = g.res]
        BY <3>1, <3>2, <3>5 DEF HeapRecord
      <3>8. g.res \in Resources /\ g.res[r] = x
            /\ \A a \in Address \ {r} : g.res[a] = b.res[a]
        BY <3>3, <3>6, <3>7 DEF Resources
      <3>9. g \in HeapRecord
        BY <3>2, <3>7, <3>8 DEF HeapRecord
      <3>10. RowIn(g.res, r)
        BY <3>6, <3>8, RowSetsAssumption DEF RowIn, RowSet
      <3>11. Shut(h.res, g.res, r)
        BY <3>2, <3>6, <3>8, <3>10 DEF Shut, Same, RowIn, QueryIn
      <3> QED BY <3>7, <3>9, <3>11 DEF Keeps
    <2>10. h.res[r].connection \in {"none", "current", "old"}
      BY <1>0 DEF RowSet
    <2>11. CASE h.res[r].connection = "none"
      BY <1>2, <2>1, <2>6, <2>11 DEF CloseRemote
    <2>12. CASE h.res[r].connection = "old"
      BY <1>2, <2>1, <2>7, <2>12 DEF CloseRemote
    <2>13. CASE h.res[r].connection = "current"
      BY <1>2, <2>1, <2>8, <2>9, <2>13 DEF CloseRemote
    <2> QED BY <2>10, <2>11, <2>12, <2>13
  <1> QED BY <1>1, <1>2

LEMMA RemoveReferenceEffect ==
  ASSUME NEW h \in HeapRecord, NEW r \in Address, RowIn(h.res, r),
         NEW g, g = RemoveReference(h, r)
  PROVE  /\ g \in HeapRecord /\ g.server = h.server
         /\ \A a \in Address \ {r} : g.res[a] = h.res[a]
         /\ h.res[r].refs = 1 => g.res[r] = NULL
         /\ h.res[r].refs # 1 =>
              /\ RowIn(g.res, r) /\ g.res[r].refs = h.res[r].refs - 1
              /\ g.res[r].closed = h.res[r].closed
              /\ g.res[r].transactionId = h.res[r].transactionId
  <1>0. h.res \in Resources /\ h.res[r] \in RowSet
    BY Kinds DEF HeapRecord
  <1>1. CASE h.res[r].refs = 1
    <2>1. g = [h EXCEPT !.res[r] = NULL]
      BY <1>1 DEF RemoveReference
    <2>2. g.res = [h.res EXCEPT ![r] = NULL] /\ g.server = h.server
          /\ g.breaks = h.breaks /\ g.ok = h.ok
      BY <2>1 DEF HeapRecord
    <2>3. g.res \in Resources
      BY <1>0, <2>2 DEF Resources
    <2> QED BY <1>0, <1>1, <2>1, <2>2, <2>3 DEF HeapRecord, Resources
  <1>2. CASE h.res[r].refs # 1
    <2>1. g = [h EXCEPT !.res[r].refs = @ - 1]
      BY <1>2 DEF RemoveReference
    <2>2. g.res = [h.res EXCEPT ![r].refs = h.res[r].refs - 1] /\ g.server = h.server
          /\ g.breaks = h.breaks /\ g.ok = h.ok
      BY <2>1 DEF HeapRecord
    <2>3. /\ g.res[r] = [h.res[r] EXCEPT !.refs = h.res[r].refs - 1]
          /\ \A a \in Address \ {r} : g.res[a] = h.res[a]
      BY <1>0, <2>2 DEF Resources
    <2>4. g.res[r] \in RowSet
      BY <1>0, <1>2, <2>3 DEF RowSet
    <2>5. g.res \in Resources
      BY <1>0, <2>2, <2>3, <2>4 DEF Resources
    <2>6. RowIn(g.res, r)
      BY <2>4, <2>5, Kinds
    <2>7. g \in HeapRecord
      BY <2>1, <2>2, <2>5 DEF HeapRecord
    <2> QED BY <1>0, <1>2, <2>2, <2>3, <2>6, <2>7 DEF RowSet
  <1> QED BY <1>1, <1>2

LEMMA CloseRowSetEffect ==
  ASSUME NEW h \in HeapRecord, NEW r \in Address, RowIn(h.res, r),
         r \in h.server => ~ h.res[r].closed /\ h.res[r].connection = "current",
         NEW g \in CloseRowSetOf(h, r)
  PROVE  /\ g \in HeapRecord
         /\ Released(h.res, g.res, r) /\ Keeps(h.res, h.server, g.res, g.server)
         /\ r \notin g.server
  <1>1. PICK c \in CloseRemote(h, r) : g = RemoveReference(c, r)
    BY DEF CloseRowSetOf
  <1>2. /\ c \in HeapRecord /\ r \notin c.server
        /\ Shut(h.res, c.res, r) /\ Keeps(h.res, h.server, c.res, c.server)
    BY CloseRemoteEffect
  <1>3. RowIn(c.res, r)
    BY <1>2 DEF Shut
  <1>4. /\ g \in HeapRecord /\ g.server = c.server
        /\ \A a \in Address \ {r} : g.res[a] = c.res[a]
        /\ c.res[r].refs = 1 => g.res[r] = NULL
        /\ c.res[r].refs # 1 =>
             /\ RowIn(g.res, r) /\ g.res[r].refs = c.res[r].refs - 1
             /\ g.res[r].closed = c.res[r].closed
             /\ g.res[r].transactionId = c.res[r].transactionId
    BY <1>1, <1>2, <1>3, RemoveReferenceEffect
  <1>5. \A a \in Address \ {r} : Same(h.res, g.res, a)
    BY <1>2, <1>4 DEF Shut, Same, RowIn
  <1>6. Released(h.res, g.res, r)
    BY <1>2, <1>4, <1>5 DEF Shut, Released
  <1>7. Keeps(h.res, h.server, g.res, g.server)
    BY <1>2, <1>4 DEF Keeps, HeapRecord
  <1> QED BY <1>2, <1>4, <1>6, <1>7

LEMMA ClearEffect ==
  ASSUME NEW h \in HeapRecord, NEW q \in Address, QueryIn(h.res, q),
         LinksOK(h.res), OwnedOK(h.res, h.server),
         NEW g \in ClearLastRowSet(h, q)
  PROVE  /\ g \in HeapRecord
         /\ Cleared(h.res, g.res, q) /\ Keeps(h.res, h.server, g.res, g.server)
         /\ h.res[q].lastRowSet # NULL => h.res[q].lastRowSet \notin g.server
  <1> DEFINE r == h.res[q].lastRowSet
  <1>0. h.res \in Resources /\ h.server \in SUBSET Address /\ h.res[q] \in Query
    BY Kinds DEF HeapRecord
  <1>1. PICK c : c = [h EXCEPT !.res[q].lastRowSet = NULL, !.res[q].visible = FALSE]
    OBVIOUS
  <1>2. /\ c.res = [h.res EXCEPT ![q].lastRowSet = NULL, ![q].visible = FALSE]
        /\ c.server = h.server /\ c.breaks = h.breaks /\ c.ok = h.ok
    BY <1>1 DEF HeapRecord
  <1>3. \A a \in Address \ {q} : c.res[a] = h.res[a]
    BY <1>0, <1>2 DEF Resources
  <1>4. c.res[q] \in Query /\ c.res[q].lastRowSet = NULL /\ c.res[q].visible = FALSE
    <2>1. c.res[q] = [h.res[q] EXCEPT !.lastRowSet = NULL, !.visible = FALSE]
      BY <1>0, <1>2 DEF Resources
    <2> QED BY <1>0, <2>1 DEF Query
  <1>5. c.res \in Resources
    BY <1>0, <1>2, <1>3, <1>4 DEF Resources
  <1>6. c \in HeapRecord
    BY <1>1, <1>2, <1>5 DEF HeapRecord
  <1>7. QueryIn(c.res, q)
    BY <1>4, <1>5, Kinds
  <1>8. q \notin h.server
    BY <1>0, Kinds DEF OwnedOK
  <1>9. \A k \in h.server : c.res[k] = h.res[k]
    BY <1>0, <1>3, <1>8
  <1>10. CASE r = NULL
    <2>1. g = c
      BY <1>1, <1>10 DEF ClearLastRowSet
    <2> QED BY <1>2, <1>3, <1>4, <1>6, <1>7, <1>9, <1>10, <2>1 DEF Cleared, Keeps, Same
  <1>11. CASE r # NULL
    <2>1. r \in Address /\ RowIn(h.res, r) /\ r # q
      BY <1>0, <1>11, Kinds DEF LinksOK
    <2>2. RowIn(c.res, r) /\ c.res[r] = h.res[r]
      BY <1>3, <2>1 DEF RowIn
    <2>3. r \in c.server => ~ c.res[r].closed /\ c.res[r].connection = "current"
      BY <1>2, <2>2 DEF OwnedOK
    <2>4. g \in CloseRowSetOf(c, r)
      BY <1>1, <1>11 DEF ClearLastRowSet
    <2>5. /\ g \in HeapRecord /\ r \notin g.server
          /\ Released(c.res, g.res, r) /\ Keeps(c.res, c.server, g.res, g.server)
      BY <1>6, <2>1, <2>2, <2>3, <2>4, CloseRowSetEffect
    <2>6. g.res[q] = c.res[q]
      BY <1>4, <1>5, <1>7, <2>1, <2>5, Kinds DEF Released, Same
    <2>7. QueryIn(g.res, q) /\ g.res[q].lastRowSet = NULL /\ ~ g.res[q].visible
      BY <1>4, <1>7, <2>6 DEF QueryIn
    <2>8. \A a \in Address \ {q, r} : Same(h.res, g.res, a)
      BY <1>3, <2>5 DEF Released, Same, RowIn
    <2>9. \/ h.res[r].refs = 1 /\ g.res[r] = NULL
          \/ /\ h.res[r].refs # 1 /\ RowIn(g.res, r) /\ g.res[r].closed
             /\ g.res[r].refs = h.res[r].refs - 1
             /\ g.res[r].transactionId = h.res[r].transactionId
      BY <2>2, <2>5 DEF Released
    <2>10. Cleared(h.res, g.res, q)
      BY <1>11, <2>7, <2>8, <2>9 DEF Cleared
    <2>11. Keeps(h.res, h.server, g.res, g.server)
      BY <1>2, <1>9, <2>5 DEF Keeps
    <2> QED BY <2>5, <2>10, <2>11
  <1> QED BY <1>10, <1>11

LEMMA SameKind ==
  ASSUME NEW f \in Resources, NEW g \in Resources, NEW a \in Address, Same(f, g, a)
  PROVE  /\ QueryIn(g, a) <=> QueryIn(f, a)
         /\ RowIn(g, a) <=> RowIn(f, a)
         /\ g[a] = NULL <=> f[a] = NULL
         /\ QueryIn(f, a) => g[a].lastRowSet = f[a].lastRowSet
         /\ RowIn(f, a) =>
              /\ g[a].refs = f[a].refs /\ g[a].closed = f[a].closed
              /\ g[a].rows = f[a].rows /\ g[a].remaining = f[a].remaining
              /\ g[a].status = f[a].status /\ g[a].unread = f[a].unread
              /\ g[a].transactionId = f[a].transactionId
  BY Kinds DEF Same, QueryIn, RowIn

(* Where the queries and their row sets are the same, so are the holders. *)
LEMMA SameHolders ==
  ASSUME NEW f \in Resources, NEW g \in Resources,
         \A a \in Address : QueryIn(g, a) <=> QueryIn(f, a),
         \A a \in Address : QueryIn(f, a) => g[a].lastRowSet = f[a].lastRowSet
  PROVE  \A q, r \in Address : HeldBy(g, q, r) <=> HeldBy(f, q, r)
  BY DEF HeldBy

(* The connection has failed. *)
LEMMA BrokenKeeps ==
  ASSUME NEW f, NEW given \in [Address -> Nat], NEW kept, HeapOK(f, given, kept),
         NEW g \in Resources, \A a \in Address : Same(f, g, a)
  PROVE  HeapOK(g, given, {})
  <1>1. f \in Resources /\ LinksOK(f) /\ CountsOK(f, given) /\ OwnedOK(f, kept)
    BY DEF HeapOK
  <1>2. \A q, r \in Address : HeldBy(g, q, r) <=> HeldBy(f, q, r)
    BY <1>1, SameKind, SameHolders
  <1>3. LinksOK(g)
    BY <1>1, <1>2, SameKind DEF LinksOK
  <1>4. \A r \in Address : Held(g, r) <=> Held(f, r)
    BY <1>2 DEF Held
  <1>5. CountsOK(g, given)
    BY <1>1, <1>4, SameKind DEF CountsOK
  <1>6. OwnedOK(g, {})
    BY <1>1, <1>4, SameKind DEF OwnedOK
  <1> QED BY <1>3, <1>5, <1>6 DEF HeapOK

(* A row set is closed. *)
LEMMA ShutKeeps ==
  ASSUME NEW f, NEW given \in [Address -> Nat], NEW kept, HeapOK(f, given, kept),
         kept \subseteq Address,
         NEW r \in Address, RowIn(f, r),
         NEW g \in Resources, NEW left, Shut(f, g, r), Keeps(f, kept, g, left), r \notin left
  PROVE  HeapOK(g, given, left)
  <1>1. f \in Resources /\ LinksOK(f) /\ CountsOK(f, given) /\ OwnedOK(f, kept)
    BY DEF HeapOK
  <1>2. /\ RowIn(g, r) /\ g[r].closed /\ g[r].refs = f[r].refs
        /\ \A a \in Address \ {r} : Same(f, g, a)
    BY DEF Shut
  <1>3. \A a \in Address :
          /\ QueryIn(g, a) <=> QueryIn(f, a)
          /\ RowIn(g, a) <=> RowIn(f, a)
          /\ g[a] = NULL <=> f[a] = NULL
          /\ QueryIn(f, a) => g[a].lastRowSet = f[a].lastRowSet
          /\ RowIn(f, a) => g[a].refs = f[a].refs
    <2> TAKE a \in Address
    <2>1. CASE a = r
      BY <1>1, <1>2, <2>1, Kinds DEF RowIn
    <2>2. CASE a # r
      BY <1>1, <1>2, <2>2, SameKind
    <2> QED BY <2>1, <2>2
  <1>4. \A q, p \in Address : HeldBy(g, q, p) <=> HeldBy(f, q, p)
    BY <1>1, <1>3, SameHolders
  <1>5. LinksOK(g)
    BY <1>1, <1>3, <1>4 DEF LinksOK
  <1>6. \A p \in Address : Held(g, p) <=> Held(f, p)
    BY <1>4 DEF Held
  <1>7. CountsOK(g, given)
    BY <1>1, <1>3, <1>6 DEF CountsOK
  <1>8. OwnedOK(g, left)
    <2>1. ASSUME NEW p \in Address, RowIn(g, p), ~ g[p].closed
          PROVE  Held(g, p) /\ g[p].unread = g[p].rows + g[p].remaining
      <3>1. p # r
        BY <1>2, <2>1
      <3> QED BY <1>1, <1>2, <1>3, <1>6, <2>1, <3>1, SameKind DEF OwnedOK
    <2>2. ASSUME NEW k \in left
          PROVE  RowIn(g, k) /\ ~ g[k].closed /\ g[k].connection = "current"
      BY <1>1, <2>2 DEF OwnedOK, Keeps, RowIn
    <2> QED BY <2>1, <2>2 DEF OwnedOK
  <1> QED BY <1>5, <1>7, <1>8 DEF HeapOK

(* A handle of a row set is closed. *)
LEMMA ReleaseKeeps ==
  ASSUME NEW f, NEW given \in [Address -> Nat], NEW kept, HeapOK(f, given, kept),
         kept \subseteq Address,
         NEW r \in Address, RowIn(f, r), given[r] > 0,
         NEW g \in Resources, NEW left, Released(f, g, r), Keeps(f, kept, g, left), r \notin left
  PROVE  HeapOK(g, [given EXCEPT ![r] = @ - 1], left)
  <1> DEFINE gave == [given EXCEPT ![r] = @ - 1]
  <1>1. f \in Resources /\ LinksOK(f) /\ CountsOK(f, given) /\ OwnedOK(f, kept)
    BY DEF HeapOK
  <1>2. \A a \in Address \ {r} : Same(f, g, a)
    BY DEF Released
  <1>3. gave[r] = given[r] - 1 /\ \A a \in Address \ {r} : gave[a] = given[a]
    OBVIOUS
  <1>4. f[r] \in RowSet /\ f[r].refs \in Nat \ {0}
    BY <1>1, Kinds DEF RowSet
  <1>5. CASE f[r].refs = 1 /\ g[r] = NULL
    <2>1. ~ Held(f, r) /\ given[r] = 1
      BY <1>1, <1>5 DEF CountsOK
    <2>2. \A q, p \in Address : HeldBy(g, q, p) <=> HeldBy(f, q, p)
      <3> TAKE q, p \in Address
      <3>1. CASE q = r
        BY <1>1, <1>5, <3>1, Kinds DEF HeldBy, QueryIn
      <3>2. CASE q # r
        BY <1>1, <1>2, <3>2, SameKind DEF HeldBy
      <3> QED BY <3>1, <3>2
    <2>3. LinksOK(g)
      <3>1. ASSUME NEW q \in Address, QueryIn(g, q), g[q].lastRowSet # NULL
            PROVE  g[q].lastRowSet \in Address /\ RowIn(g, g[q].lastRowSet)
        <4>1. q # r
          BY <1>5, <3>1 DEF QueryIn
        <4>2. QueryIn(f, q) /\ g[q].lastRowSet = f[q].lastRowSet
          BY <1>1, <1>2, <3>1, <4>1, SameKind
        <4>3. f[q].lastRowSet \in Address /\ RowIn(f, f[q].lastRowSet)
          BY <1>1, <3>1, <4>2 DEF LinksOK
        <4>4. f[q].lastRowSet # r
          BY <2>1, <4>2 DEF Held, HeldBy
        <4> QED BY <1>1, <1>2, <4>2, <4>3, <4>4, SameKind
      <3> QED BY <1>1, <2>2, <3>1 DEF LinksOK
    <2>4. \A p \in Address : Held(g, p) <=> Held(f, p)
      BY <2>2 DEF Held
    <2>5. CountsOK(g, gave)
      <3>1. ASSUME NEW a \in Address \ {r}
            PROVE  /\ gave[a] > 0 => g[a] # NULL
                   /\ QueryIn(g, a) => gave[a] = 1
                   /\ RowIn(g, a) /\ Held(g, a) => g[a].refs = gave[a] + 1
                   /\ RowIn(g, a) /\ ~ Held(g, a) => g[a].refs = gave[a]
        BY <1>1, <1>2, <1>3, <2>4, SameKind DEF CountsOK
      <3>2. gave[r] = 0 /\ ~ QueryIn(g, r) /\ ~ RowIn(g, r)
        BY <1>3, <1>5, <2>1 DEF QueryIn, RowIn
      <3> QED BY <3>1, <3>2 DEF CountsOK
    <2>6. OwnedOK(g, left)
      <3>1. ASSUME NEW p \in Address, RowIn(g, p), ~ g[p].closed
            PROVE  Held(g, p) /\ g[p].unread = g[p].rows + g[p].remaining
        <4>1. p # r
          BY <1>5, <3>1 DEF RowIn
        <4> QED BY <1>1, <1>2, <2>4, <3>1, <4>1, SameKind DEF OwnedOK
      <3>2. ASSUME NEW k \in left
            PROVE  RowIn(g, k) /\ ~ g[k].closed /\ g[k].connection = "current"
        BY <1>1, <3>2 DEF OwnedOK, Keeps, RowIn
      <3> QED BY <3>1, <3>2 DEF OwnedOK
    <2> QED BY <2>3, <2>5, <2>6 DEF HeapOK
  <1>6. CASE RowIn(g, r) /\ g[r].closed /\ g[r].refs = f[r].refs - 1
    <2>1. \A a \in Address :
            /\ QueryIn(g, a) <=> QueryIn(f, a)
            /\ RowIn(g, a) <=> RowIn(f, a)
            /\ g[a] = NULL <=> f[a] = NULL
            /\ QueryIn(f, a) => g[a].lastRowSet = f[a].lastRowSet
      <3> TAKE a \in Address
      <3>1. CASE a = r
        BY <1>1, <1>6, <3>1, Kinds DEF RowIn
      <3>2. CASE a # r
        BY <1>1, <1>2, <3>2, SameKind
      <3> QED BY <3>1, <3>2
    <2>2. \A q, p \in Address : HeldBy(g, q, p) <=> HeldBy(f, q, p)
      BY <1>1, <2>1, SameHolders
    <2>3. LinksOK(g)
      BY <1>1, <2>1, <2>2 DEF LinksOK
    <2>4. \A p \in Address : Held(g, p) <=> Held(f, p)
      BY <2>2 DEF Held
    <2>5. CountsOK(g, gave)
      <3>1. ASSUME NEW a \in Address \ {r}
            PROVE  /\ gave[a] > 0 => g[a] # NULL
                   /\ QueryIn(g, a) => gave[a] = 1
                   /\ RowIn(g, a) /\ Held(g, a) => g[a].refs = gave[a] + 1
                   /\ RowIn(g, a) /\ ~ Held(g, a) => g[a].refs = gave[a]
        BY <1>1, <1>2, <1>3, <2>4, SameKind DEF CountsOK
      <3>2. /\ g[r] # NULL /\ ~ QueryIn(g, r)
            /\ Held(g, r) => g[r].refs = gave[r] + 1
            /\ ~ Held(g, r) => g[r].refs = gave[r]
        BY <1>1, <1>3, <1>6, <2>1, <2>4, Kinds DEF CountsOK, RowIn
      <3> QED BY <3>1, <3>2 DEF CountsOK
    <2>6. OwnedOK(g, left)
      <3>1. ASSUME NEW p \in Address, RowIn(g, p), ~ g[p].closed
            PROVE  Held(g, p) /\ g[p].unread = g[p].rows + g[p].remaining
        <4>1. p # r
          BY <1>6, <3>1
        <4> QED BY <1>1, <1>2, <2>4, <3>1, <4>1, SameKind DEF OwnedOK
      <3>2. ASSUME NEW k \in left
            PROVE  RowIn(g, k) /\ ~ g[k].closed /\ g[k].connection = "current"
        BY <1>1, <3>2 DEF OwnedOK, Keeps, RowIn
      <3> QED BY <3>1, <3>2 DEF OwnedOK
    <2> QED BY <2>3, <2>5, <2>6 DEF HeapOK
  <1> QED BY <1>5, <1>6 DEF Released

(* The resources are the same but for the state of row sets and queries. *)
LEMMA AlikeKeeps ==
  ASSUME NEW f, NEW given \in [Address -> Nat], NEW kept, HeapOK(f, given, kept),
         NEW g \in Resources, NEW left,
         \A a \in Address :
           /\ QueryIn(g, a) <=> QueryIn(f, a)
           /\ RowIn(g, a) <=> RowIn(f, a)
           /\ QueryIn(f, a) => g[a].lastRowSet = f[a].lastRowSet
           /\ RowIn(f, a) => g[a].refs = f[a].refs
           /\ RowIn(g, a) /\ ~ g[a].closed =>
                ~ f[a].closed /\ g[a].unread = g[a].rows + g[a].remaining,
         \A k \in left : RowIn(g, k) /\ ~ g[k].closed /\ g[k].connection = "current"
  PROVE  HeapOK(g, given, left)
  <1>1. f \in Resources /\ LinksOK(f) /\ CountsOK(f, given) /\ OwnedOK(f, kept)
    BY DEF HeapOK
  <1>2. \A q, r \in Address : HeldBy(g, q, r) <=> HeldBy(f, q, r)
    BY <1>1, SameHolders
  <1>3. LinksOK(g)
    BY <1>1, <1>2 DEF LinksOK
  <1>4. \A r \in Address : Held(g, r) <=> Held(f, r)
    BY <1>2 DEF Held
  <1>5. CountsOK(g, given)
    <2>1. \A a \in Address : f[a] # NULL => g[a] # NULL
      BY <1>1, Kinds DEF QueryIn, RowIn
    <2> QED BY <1>1, <1>4, <2>1 DEF CountsOK
  <1>6. OwnedOK(g, left)
    BY <1>1, <1>4 DEF OwnedOK
  <1> QED BY <1>3, <1>5, <1>6 DEF HeapOK

(* A query gives up its row set. *)
LEMMA ClearKeeps ==
  ASSUME NEW f, NEW given \in [Address -> Nat], NEW kept, HeapOK(f, given, kept),
         NEW q \in Address, QueryIn(f, q),
         NEW g \in Resources, NEW left, Cleared(f, g, q), Keeps(f, kept, g, left),
         f[q].lastRowSet # NULL => f[q].lastRowSet \notin left
  PROVE  HeapOK(g, given, left)
  <1> DEFINE r == f[q].lastRowSet
  <1>1. f \in Resources /\ LinksOK(f) /\ CountsOK(f, given) /\ OwnedOK(f, kept)
    BY DEF HeapOK
  <1>2. QueryIn(g, q) /\ g[q].lastRowSet = NULL /\ ~ RowIn(g, q) /\ ~ RowIn(f, q)
    BY <1>1, Kinds DEF Cleared
  <1>3. NULL \notin Address
    BY RowSetsAssumption DEF Address
  <1>4. ASSUME NEW k \in left
        PROVE  RowIn(g, k) /\ ~ g[k].closed /\ g[k].connection = "current"
    BY <1>1, <1>4 DEF OwnedOK, Keeps, RowIn
  <1>5. CASE r = NULL
    <2>1. \A a \in Address \ {q} : Same(f, g, a)
      BY <1>5 DEF Cleared
    <2>2. \A a \in Address :
            /\ QueryIn(g, a) <=> QueryIn(f, a)
            /\ RowIn(g, a) <=> RowIn(f, a)
            /\ QueryIn(f, a) => g[a].lastRowSet = f[a].lastRowSet
            /\ RowIn(f, a) => g[a].refs = f[a].refs
            /\ RowIn(g, a) /\ ~ g[a].closed =>
                 ~ f[a].closed /\ g[a].unread = g[a].rows + g[a].remaining
      <3> TAKE a \in Address
      <3>1. CASE a = q
        BY <1>2, <1>5, <3>1
      <3>2. CASE a # q
        BY <1>1, <2>1, <3>2, SameKind DEF OwnedOK
      <3> QED BY <3>1, <3>2
    <2> QED BY <1>4, <2>2, AlikeKeeps
  <1>6. CASE r # NULL
    <2>1. r \in Address /\ RowIn(f, r) /\ r # q /\ HeldBy(f, q, r) /\ Held(f, r)
      BY <1>1, <1>2, <1>6 DEF LinksOK, HeldBy, Held
    <2>2. /\ \/ f[r].refs = 1 /\ g[r] = NULL
             \/ /\ f[r].refs # 1 /\ RowIn(g, r) /\ g[r].closed
                /\ g[r].refs = f[r].refs - 1
          /\ \A a \in Address \ {q, r} : Same(f, g, a)
      BY <1>6 DEF Cleared
    <2>3. f[r].refs = given[r] + 1 /\ ~ QueryIn(f, r)
      BY <1>1, <2>1, Kinds DEF CountsOK
    <2>4. ~ QueryIn(g, r)
      BY <2>1, <2>2, Kinds DEF QueryIn
    <2>5. \A p, s \in Address : HeldBy(g, p, s) <=> p # q /\ HeldBy(f, p, s)
      <3> TAKE p, s \in Address
      <3>1. CASE p = q
        BY <1>2, <1>3, <3>1 DEF HeldBy
      <3>2. CASE p = r
        BY <2>3, <2>4, <3>2 DEF HeldBy
      <3>3. CASE p # q /\ p # r
        BY <1>1, <2>2, <3>3, SameKind DEF HeldBy
      <3> QED BY <3>1, <3>2, <3>3
    <2>6. ~ Held(g, r)
      BY <1>1, <2>1, <2>5 DEF LinksOK, Held
    <2>7. \A s \in Address \ {r} : Held(g, s) <=> Held(f, s)
      <3> TAKE s \in Address \ {r}
      <3>1. ~ HeldBy(f, q, s)
        BY DEF HeldBy
      <3> QED BY <2>5, <3>1 DEF Held
    <2>8. LinksOK(g)
      <3>1. ASSUME NEW p \in Address, QueryIn(g, p), g[p].lastRowSet # NULL
            PROVE  g[p].lastRowSet \in Address /\ RowIn(g, g[p].lastRowSet)
        <4>1. p # q /\ p # r
          BY <1>2, <2>4, <3>1
        <4>2. QueryIn(f, p) /\ g[p].lastRowSet = f[p].lastRowSet
          BY <1>1, <2>2, <3>1, <4>1, SameKind
        <4>3. f[p].lastRowSet \in Address /\ RowIn(f, f[p].lastRowSet)
          BY <1>1, <3>1, <4>2 DEF LinksOK
        <4>4. f[p].lastRowSet # r
          BY <1>1, <2>1, <4>1, <4>2 DEF LinksOK, HeldBy
        <4>5. f[p].lastRowSet # q
          BY <1>2, <4>3
        <4> QED BY <1>1, <2>2, <4>2, <4>3, <4>4, <4>5, SameKind
      <3> QED BY <1>1, <2>5, <3>1 DEF LinksOK
    <2>9. CountsOK(g, given)
      <3>1. ASSUME NEW a \in Address \ {q, r}
            PROVE  /\ given[a] > 0 => g[a] # NULL
                   /\ QueryIn(g, a) => given[a] = 1
                   /\ RowIn(g, a) /\ Held(g, a) => g[a].refs = given[a] + 1
                   /\ RowIn(g, a) /\ ~ Held(g, a) => g[a].refs = given[a]
        BY <1>1, <2>2, <2>7, SameKind DEF CountsOK
      <3>2. given[q] = 1 /\ g[q] # NULL
        BY <1>1, <1>2 DEF CountsOK, QueryIn
      <3>3. /\ given[r] > 0 => g[r] # NULL
            /\ RowIn(g, r) => g[r].refs = given[r]
        BY <2>1, <2>2, <2>3 DEF RowIn
      <3> QED BY <1>2, <2>4, <2>6, <3>1, <3>2, <3>3 DEF CountsOK
    <2>10. OwnedOK(g, left)
      <3>1. ASSUME NEW p \in Address, RowIn(g, p), ~ g[p].closed
            PROVE  Held(g, p) /\ g[p].unread = g[p].rows + g[p].remaining
        <4>1. p # r /\ p # q
          BY <1>2, <2>2, <3>1 DEF RowIn
        <4> QED BY <1>1, <2>2, <2>7, <3>1, <4>1, SameKind DEF OwnedOK
      <3> QED BY <1>4, <3>1 DEF OwnedOK
    <2> QED BY <2>8, <2>9, <2>10 DEF HeapOK
  <1> QED BY <1>5, <1>6

(* A query that has no row set is deleted. *)
LEMMA DropKeeps ==
  ASSUME NEW f, NEW given \in [Address -> Nat], NEW kept, HeapOK(f, given, kept),
         NEW q \in Address, QueryIn(f, q), f[q].lastRowSet = NULL,
         NEW g \in Resources, g[q] = NULL, \A a \in Address \ {q} : g[a] = f[a],
         kept \subseteq Address,
         NEW gave \in [Address -> Nat], gave[q] = 0, \A a \in Address \ {q} : gave[a] = given[a]
  PROVE  HeapOK(g, gave, kept)
  <1>1. f \in Resources /\ LinksOK(f) /\ CountsOK(f, given) /\ OwnedOK(f, kept)
    BY DEF HeapOK
  <1>2. ~ QueryIn(g, q) /\ ~ RowIn(g, q) /\ ~ RowIn(f, q)
    BY <1>1, Kinds DEF QueryIn, RowIn
  <1>3. NULL \notin Address
    BY RowSetsAssumption DEF Address
  <1>4. \A a \in Address \ {q} : (QueryIn(g, a) <=> QueryIn(f, a)) /\ (RowIn(g, a) <=> RowIn(f, a))
    BY DEF QueryIn, RowIn
  <1>5. \A p, s \in Address : HeldBy(g, p, s) <=> HeldBy(f, p, s)
    <2> TAKE p, s \in Address
    <2>1. CASE p = q
      BY <1>2, <1>3, <2>1 DEF HeldBy
    <2>2. CASE p # q
      BY <1>4, <2>2 DEF HeldBy
    <2> QED BY <2>1, <2>2
  <1>6. \A s \in Address : Held(g, s) <=> Held(f, s)
    BY <1>5 DEF Held
  <1>7. LinksOK(g)
    BY <1>1, <1>2, <1>4, <1>5 DEF LinksOK
  <1>8. CountsOK(g, gave)
    <2>1. ASSUME NEW a \in Address \ {q}
          PROVE  /\ gave[a] > 0 => g[a] # NULL
                 /\ QueryIn(g, a) => gave[a] = 1
                 /\ RowIn(g, a) /\ Held(g, a) => g[a].refs = gave[a] + 1
                 /\ RowIn(g, a) /\ ~ Held(g, a) => g[a].refs = gave[a]
      BY <1>1, <1>4, <1>6 DEF CountsOK
    <2>2. ~ gave[q] > 0
      OBVIOUS
    <2> QED BY <1>2, <2>1, <2>2 DEF CountsOK
  <1>9. OwnedOK(g, kept)
    <2>1. \A r \in Address : RowIn(g, r) /\ ~ g[r].closed =>
            Held(g, r) /\ g[r].unread = g[r].rows + g[r].remaining
      BY <1>1, <1>2, <1>4, <1>6 DEF OwnedOK
    <2>2. \A r \in kept : RowIn(g, r) /\ ~ g[r].closed /\ g[r].connection = "current"
      <3> TAKE r \in kept
      <3>1. r # q /\ r \in Address
        BY <1>1, <1>2 DEF OwnedOK
      <3> QED BY <1>1, <1>4, <3>1 DEF OwnedOK
    <2> QED BY <2>1, <2>2 DEF OwnedOK
  <1> QED BY <1>7, <1>8, <1>9 DEF HeapOK

(* A new query. *)
LEMMA QueryKeeps ==
  ASSUME NEW f, NEW given \in [Address -> Nat], NEW kept, HeapOK(f, given, kept),
         NEW q \in Address, f[q] = NULL, kept \subseteq Address,
         NEW g \in Resources, QueryIn(g, q), g[q].lastRowSet = NULL,
         \A a \in Address \ {q} : g[a] = f[a],
         NEW gave \in [Address -> Nat], gave[q] = 1, \A a \in Address \ {q} : gave[a] = given[a]
  PROVE  HeapOK(g, gave, kept)
  <1>1. f \in Resources /\ LinksOK(f) /\ CountsOK(f, given) /\ OwnedOK(f, kept)
    BY DEF HeapOK
  <1>2. QueryIn(g, q) /\ ~ RowIn(g, q) /\ ~ RowIn(f, q) /\ ~ QueryIn(f, q) /\ g[q] # NULL
    BY <1>1, Kinds DEF QueryIn, RowIn
  <1>3. NULL \notin Address
    BY RowSetsAssumption DEF Address
  <1>4. \A a \in Address \ {q} : (QueryIn(g, a) <=> QueryIn(f, a)) /\ (RowIn(g, a) <=> RowIn(f, a))
    BY DEF QueryIn, RowIn
  <1>5. \A p, s \in Address : HeldBy(g, p, s) <=> HeldBy(f, p, s)
    <2> TAKE p, s \in Address
    <2>1. CASE p = q
      BY <1>2, <1>3, <2>1 DEF HeldBy
    <2>2. CASE p # q
      BY <1>4, <2>2 DEF HeldBy
    <2> QED BY <2>1, <2>2
  <1>6. \A s \in Address : Held(g, s) <=> Held(f, s)
    BY <1>5 DEF Held
  <1>7. LinksOK(g)
    BY <1>1, <1>2, <1>4, <1>5 DEF LinksOK
  <1>8. CountsOK(g, gave)
    <2>1. ASSUME NEW a \in Address \ {q}
          PROVE  /\ gave[a] > 0 => g[a] # NULL
                 /\ QueryIn(g, a) => gave[a] = 1
                 /\ RowIn(g, a) /\ Held(g, a) => g[a].refs = gave[a] + 1
                 /\ RowIn(g, a) /\ ~ Held(g, a) => g[a].refs = gave[a]
      BY <1>1, <1>4, <1>6 DEF CountsOK
    <2> QED BY <1>2, <2>1 DEF CountsOK
  <1>9. OwnedOK(g, kept)
    <2>1. \A r \in Address : RowIn(g, r) /\ ~ g[r].closed =>
            Held(g, r) /\ g[r].unread = g[r].rows + g[r].remaining
      BY <1>1, <1>2, <1>4, <1>6 DEF OwnedOK
    <2>2. \A r \in kept : RowIn(g, r) /\ ~ g[r].closed /\ g[r].connection = "current"
      <3> TAKE r \in kept
      <3>1. r # q /\ r \in Address
        BY <1>1, <1>2 DEF OwnedOK
      <3> QED BY <1>1, <1>4, <3>1 DEF OwnedOK
    <2> QED BY <2>1, <2>2 DEF OwnedOK
  <1> QED BY <1>7, <1>8, <1>9 DEF HeapOK

(* A query without a row set gets a new one. *)
LEMMA RowSetKeeps ==
  ASSUME NEW f, NEW given \in [Address -> Nat], NEW kept, HeapOK(f, given, kept),
         kept \subseteq Address,
         NEW q \in Address, QueryIn(f, q), f[q].lastRowSet = NULL,
         NEW r \in Address, f[r] = NULL,
         NEW g \in Resources, QueryIn(g, q), g[q].lastRowSet = r,
         RowIn(g, r), g[r].refs = 1, g[r].unread = g[r].rows + g[r].remaining,
         \A a \in Address \ {q, r} : g[a] = f[a],
         NEW left, left \subseteq kept \cup {r},
         r \in left => ~ g[r].closed /\ g[r].connection = "current"
  PROVE  HeapOK(g, given, left)
  <1>1. f \in Resources /\ LinksOK(f) /\ CountsOK(f, given) /\ OwnedOK(f, kept)
    BY DEF HeapOK
  <1>2. /\ q # r /\ ~ QueryIn(f, r) /\ ~ RowIn(f, r) /\ ~ RowIn(f, q)
        /\ ~ QueryIn(g, r) /\ ~ RowIn(g, q) /\ g[r] # NULL /\ g[q] # NULL
    BY <1>1, Kinds DEF QueryIn, RowIn
  <1>3. NULL \notin Address
    BY RowSetsAssumption DEF Address
  <1>4. \A a \in Address \ {q, r} :
          (QueryIn(g, a) <=> QueryIn(f, a)) /\ (RowIn(g, a) <=> RowIn(f, a))
    BY DEF QueryIn, RowIn
  <1>5. \A p \in Address : ~ HeldBy(f, p, r)
    BY <1>1, <1>2, <1>3 DEF LinksOK, HeldBy
  <1>6. \A p, s \in Address : HeldBy(g, p, s) <=> HeldBy(f, p, s) \/ (p = q /\ s = r)
    <2> TAKE p, s \in Address
    <2>1. CASE p = q
      BY <1>3, <2>1 DEF HeldBy
    <2>2. CASE p = r
      BY <1>2, <2>2 DEF HeldBy
    <2>3. CASE p # q /\ p # r
      BY <1>4, <2>3 DEF HeldBy
    <2> QED BY <2>1, <2>2, <2>3
  <1>7. Held(g, r) /\ \A s \in Address \ {r} : Held(g, s) <=> Held(f, s)
    BY <1>6 DEF Held
  <1>8. LinksOK(g)
    <2>1. ASSUME NEW p \in Address, QueryIn(g, p), g[p].lastRowSet # NULL
          PROVE  g[p].lastRowSet \in Address /\ RowIn(g, g[p].lastRowSet)
      <3>1. CASE p = q
        BY <3>1
      <3>2. CASE p # q
        <4>1. p # r
          BY <1>2, <2>1
        <4>2. QueryIn(f, p) /\ g[p].lastRowSet = f[p].lastRowSet
          BY <1>4, <2>1, <3>2, <4>1
        <4>3. f[p].lastRowSet \in Address /\ RowIn(f, f[p].lastRowSet)
          BY <1>1, <2>1, <4>2 DEF LinksOK
        <4>4. f[p].lastRowSet # r /\ f[p].lastRowSet # q
          BY <1>2, <4>3
        <4> QED BY <1>4, <4>2, <4>3, <4>4
      <3> QED BY <3>1, <3>2
    <2>2. ASSUME NEW p \in Address, NEW s \in Address, NEW t \in Address,
                 HeldBy(g, p, t), HeldBy(g, s, t)
          PROVE  p = s
      <3>1. CASE t = r
        BY <1>5, <1>6, <2>2, <3>1
      <3>2. CASE t # r
        BY <1>1, <1>6, <2>2, <3>2 DEF LinksOK
      <3> QED BY <3>1, <3>2
    <2> QED BY <2>1, <2>2 DEF LinksOK
  <1>9. CountsOK(g, given)
    <2>1. ASSUME NEW a \in Address \ {q, r}
          PROVE  /\ given[a] > 0 => g[a] # NULL
                 /\ QueryIn(g, a) => given[a] = 1
                 /\ RowIn(g, a) /\ Held(g, a) => g[a].refs = given[a] + 1
                 /\ RowIn(g, a) /\ ~ Held(g, a) => g[a].refs = given[a]
      BY <1>1, <1>4, <1>7 DEF CountsOK
    <2>2. given[q] = 1 /\ given[r] = 0
      BY <1>1 DEF CountsOK
    <2> QED BY <1>2, <1>7, <2>1, <2>2 DEF CountsOK
  <1>10. OwnedOK(g, left)
    <2>1. \A s \in Address : RowIn(g, s) /\ ~ g[s].closed =>
            Held(g, s) /\ g[s].unread = g[s].rows + g[s].remaining
      <3> TAKE s \in Address
      <3>1. CASE s = r
        BY <1>7, <3>1
      <3>2. CASE s # r
        BY <1>1, <1>2, <1>4, <1>7, <3>2 DEF OwnedOK
      <3> QED BY <3>1, <3>2
    <2>2. \A s \in left : RowIn(g, s) /\ ~ g[s].closed /\ g[s].connection = "current"
      <3> TAKE s \in left
      <3>1. CASE s = r
        BY <3>1
      <3>2. CASE s # r
        <4>1. s \in kept /\ s # q
          BY <1>1, <1>2, <3>2 DEF OwnedOK
        <4> QED BY <1>1, <1>4, <3>2, <4>1 DEF OwnedOK
      <3> QED BY <3>1, <3>2
    <2> QED BY <2>1, <2>2 DEF OwnedOK
  <1> QED BY <1>8, <1>9, <1>10 DEF HeapOK

(* The application gets a handle of the row set r of the query q. *)
Handed(f, g, q, r) ==
  /\ HeldBy(g, q, r) /\ RowIn(g, r) /\ g[r].refs = f[r].refs + 1
  /\ g[r].closed = f[r].closed /\ g[r].rows = f[r].rows
  /\ g[r].remaining = f[r].remaining /\ g[r].unread = f[r].unread
  /\ g[r].connection = f[r].connection
  /\ \A a \in Address \ {q, r} : g[a] = f[a]

OneMore(given, gave, r) ==
  gave[r] = given[r] + 1 /\ \A a \in Address \ {r} : gave[a] = given[a]

LEMMA HandleKeeps ==
  ASSUME NEW f, NEW given \in [Address -> Nat], NEW kept, HeapOK(f, given, kept),
         kept \subseteq Address,
         NEW q \in Address, NEW r \in Address, RowIn(f, r), HeldBy(f, q, r),
         NEW g \in Resources, Handed(f, g, q, r),
         NEW gave \in [Address -> Nat], OneMore(given, gave, r)
  PROVE  HeapOK(g, gave, kept)
  <1>1. f \in Resources /\ LinksOK(f) /\ CountsOK(f, given) /\ OwnedOK(f, kept)
    BY DEF HeapOK
  <1>2. gave[r] = given[r] + 1 /\ \A a \in Address \ {r} : gave[a] = given[a]
    BY DEF OneMore
  <1>0. /\ HeldBy(g, q, r) /\ RowIn(g, r) /\ g[r].refs = f[r].refs + 1
        /\ g[r].closed = f[r].closed /\ g[r].rows = f[r].rows
        /\ g[r].remaining = f[r].remaining /\ g[r].unread = f[r].unread
        /\ g[r].connection = f[r].connection
        /\ \A a \in Address \ {q, r} : g[a] = f[a]
    BY DEF Handed
  <1>3. QueryIn(f, q) /\ QueryIn(g, q) /\ f[q].lastRowSet = r /\ g[q].lastRowSet = r
    BY <1>0 DEF HeldBy
  <1>4. \A a \in Address :
          /\ QueryIn(g, a) <=> QueryIn(f, a)
          /\ RowIn(g, a) <=> RowIn(f, a)
          /\ g[a] = NULL <=> f[a] = NULL
          /\ QueryIn(f, a) => g[a].lastRowSet = f[a].lastRowSet
    <2> TAKE a \in Address
    <2>1. CASE a = q
      BY <1>0, <1>1, <1>3, <2>1, Kinds DEF QueryIn
    <2>2. CASE a = r
      BY <1>0, <1>1, <2>2, Kinds DEF RowIn
    <2>3. CASE a # q /\ a # r
      BY <1>0, <2>3 DEF QueryIn, RowIn
    <2> QED BY <1>0, <2>1, <2>2, <2>3
  <1>5. \A p, s \in Address : HeldBy(g, p, s) <=> HeldBy(f, p, s)
    BY <1>0, <1>1, <1>4, SameHolders
  <1>6. \A s \in Address : Held(g, s) <=> Held(f, s)
    BY <1>0, <1>5 DEF Held
  <1>7. LinksOK(g)
    BY <1>0, <1>1, <1>4, <1>5 DEF LinksOK
  <1>8. CountsOK(g, gave)
    <2>1. ASSUME NEW a \in Address \ {r}
          PROVE  /\ gave[a] > 0 => g[a] # NULL
                 /\ QueryIn(g, a) => gave[a] = 1
                 /\ RowIn(g, a) /\ Held(g, a) => g[a].refs = gave[a] + 1
                 /\ RowIn(g, a) /\ ~ Held(g, a) => g[a].refs = gave[a]
      <3>1. RowIn(g, a) => a # q
        BY <1>0, <1>3, Kinds
      <3> QED BY <1>0, <1>1, <1>2, <1>4, <1>6, <3>1 DEF CountsOK
    <2>2. Held(f, r)
      BY <1>0 DEF Held
    <2>3. gave[r] > 0 => g[r] # NULL
      BY <1>0 DEF RowIn
    <2>4. ~ QueryIn(g, r)
      BY <1>0, Kinds
    <2>5. g[r].refs = gave[r] + 1
      BY <1>0, <1>1, <1>2, <2>2 DEF CountsOK
    <2> QED BY <1>0, <1>6, <2>1, <2>2, <2>3, <2>4, <2>5 DEF CountsOK
  <1>9. OwnedOK(g, kept)
    <2>1. \A s \in Address : RowIn(g, s) => s # q
      BY <1>0, <1>3, Kinds
    <2>2. \A s \in Address : RowIn(g, s) /\ ~ g[s].closed =>
            Held(g, s) /\ g[s].unread = g[s].rows + g[s].remaining
      <3> TAKE s \in Address
      <3>1. CASE s = r
        BY <1>0, <1>1, <1>6, <3>1 DEF OwnedOK
      <3>2. CASE s # r
        BY <1>0, <1>1, <1>4, <1>6, <2>1, <3>2 DEF OwnedOK
      <3> QED BY <1>0, <3>1, <3>2
    <2>3. \A s \in kept : RowIn(g, s) /\ ~ g[s].closed /\ g[s].connection = "current"
      <3> TAKE s \in kept
      <3>1. s \in Address /\ RowIn(f, s) /\ ~ f[s].closed /\ f[s].connection = "current"
        BY <1>0, <1>1 DEF OwnedOK
      <3>2. RowIn(g, s) /\ s # q
        BY <1>0, <1>4, <2>1, <3>1
      <3> QED BY <1>0, <3>1, <3>2
    <2> QED BY <1>0, <2>2, <2>3 DEF OwnedOK
  <1> QED BY <1>0, <1>7, <1>8, <1>9 DEF HeapOK

-----------------------------------------------------------------------------
(* What closes resources only takes away. *)

(* From f to g some resources have gone, some row sets were closed, some    *)
(* queries have given up their row sets, and nothing else has changed.     *)
Shrinks(f, g) ==
  \A a \in Address :
    \/ g[a] = NULL
    \/ Same(f, g, a)
    \/ /\ RowIn(f, a) /\ RowIn(g, a) /\ g[a].closed
       /\ g[a].transactionId = f[a].transactionId
    \/ QueryIn(f, a) /\ QueryIn(g, a) /\ g[a].lastRowSet = NULL /\ ~ g[a].visible

LEMMA ShrinkCases ==
  ASSUME NEW f \in Resources, NEW g \in Resources, Shrinks(f, g), NEW a \in Address
  PROVE  /\ f[a] = NULL => g[a] = NULL
         /\ RowIn(g, a) => RowIn(f, a) /\ g[a].transactionId = f[a].transactionId
         /\ RowIn(g, a) /\ ~ g[a].closed =>
              /\ ~ f[a].closed /\ g[a].rows = f[a].rows
              /\ g[a].remaining = f[a].remaining /\ g[a].status = f[a].status
         /\ QueryIn(g, a) => QueryIn(f, a)
         /\ QueryIn(g, a) /\ g[a].lastRowSet # NULL =>
              g[a].lastRowSet = f[a].lastRowSet
         /\ QueryIn(g, a) /\ g[a].visible =>
              f[a].visible /\ g[a].lastRowSet = f[a].lastRowSet
  <1>1. CASE g[a] = NULL
    BY <1>1 DEF QueryIn, RowIn
  <1>2. CASE Same(f, g, a)
    <2>1. CASE g[a] = f[a]
      BY <2>1 DEF QueryIn, RowIn
    <2>2. CASE RowIn(f, a) /\ RowIn(g, a)
      <3>1. ~ QueryIn(g, a) /\ f[a] # NULL
        BY <2>2, Kinds DEF RowIn
      <3> QED BY <1>2, <2>2, <3>1, SameKind
    <2> QED BY <1>2, <2>1, <2>2 DEF Same
  <1>3. CASE RowIn(f, a) /\ RowIn(g, a) /\ g[a].closed
             /\ g[a].transactionId = f[a].transactionId
    <2>1. ~ QueryIn(g, a) /\ f[a] # NULL
      BY <1>3, Kinds DEF RowIn
    <2> QED BY <1>3, <2>1
  <1>4. CASE QueryIn(f, a) /\ QueryIn(g, a) /\ g[a].lastRowSet = NULL /\ ~ g[a].visible
    <2>1. ~ RowIn(g, a) /\ f[a] # NULL
      BY <1>4, Kinds DEF QueryIn
    <2> QED BY <1>4, <2>1
  <1> QED BY <1>1, <1>2, <1>3, <1>4 DEF Shrinks

LEMMA ShrinkTwice ==
  ASSUME NEW f \in Resources, NEW g \in Resources, NEW h \in Resources,
         Shrinks(f, g), Shrinks(g, h)
  PROVE  Shrinks(f, h)
  <1> SUFFICES ASSUME NEW a \in Address
               PROVE  \/ h[a] = NULL
                      \/ Same(f, h, a)
                      \/ /\ RowIn(f, a) /\ RowIn(h, a) /\ h[a].closed
                         /\ h[a].transactionId = f[a].transactionId
                      \/ /\ QueryIn(f, a) /\ QueryIn(h, a)
                         /\ h[a].lastRowSet = NULL /\ ~ h[a].visible
    BY DEF Shrinks
  <1>1. CASE h[a] = NULL
    BY <1>1
  <1>2. CASE RowIn(h, a)
    <2>1. /\ RowIn(g, a) /\ RowIn(f, a) /\ h[a].transactionId = f[a].transactionId
      BY <1>2, ShrinkCases
    <2>2. CASE h[a].closed
      BY <1>2, <2>1, <2>2
    <2>3. CASE ~ h[a].closed
      <3>1. ~ g[a].closed
        BY <1>2, <2>3, ShrinkCases
      <3>2. Same(f, g, a) /\ Same(g, h, a)
        BY <1>2, <2>1, <2>3, <3>1, Kinds DEF Shrinks, RowIn
      <3>3. Same(f, h, a)
        BY <1>2, <2>1, <3>2 DEF Same
      <3> QED BY <3>3
    <2> QED BY <2>2, <2>3
  <1>3. CASE QueryIn(h, a)
    <2>1. QueryIn(g, a) /\ QueryIn(f, a) /\ ~ RowIn(h, a) /\ ~ RowIn(g, a)
      BY <1>3, ShrinkCases, Kinds
    <2>2. h[a] = g[a] \/ (h[a].lastRowSet = NULL /\ ~ h[a].visible)
      <3>1. h[a] # NULL
        BY <1>3 DEF QueryIn
      <3>2. Same(g, h, a) => h[a] = g[a]
        BY <2>1 DEF Same
      <3>3. \/ h[a] = NULL
            \/ Same(g, h, a)
            \/ RowIn(g, a) /\ RowIn(h, a)
            \/ h[a].lastRowSet = NULL /\ ~ h[a].visible
        BY DEF Shrinks
      <3> QED BY <2>1, <3>1, <3>2, <3>3
    <2>3. g[a] = f[a] \/ (g[a].lastRowSet = NULL /\ ~ g[a].visible)
      <3>1. g[a] # NULL
        BY <2>1 DEF QueryIn
      <3>2. Same(f, g, a) => g[a] = f[a]
        BY <2>1 DEF Same
      <3>3. \/ g[a] = NULL
            \/ Same(f, g, a)
            \/ RowIn(f, a) /\ RowIn(g, a)
            \/ g[a].lastRowSet = NULL /\ ~ g[a].visible
        BY DEF Shrinks
      <3> QED BY <2>1, <3>1, <3>2, <3>3
    <2> QED BY <1>3, <2>1, <2>2, <2>3 DEF Same
  <1> QED BY <1>1, <1>2, <1>3, Kinds

LEMMA SmallerShrinks ==
  ASSUME NEW f \in Resources, NEW g \in Resources, NEW r \in Address
  PROVE  /\ (\A a \in Address : Same(f, g, a)) => Shrinks(f, g)
         /\ RowIn(f, r) /\ Shut(f, g, r) => Shrinks(f, g)
         /\ RowIn(f, r) /\ Released(f, g, r) => Shrinks(f, g)
         /\ g[r] = NULL /\ (\A a \in Address \ {r} : g[a] = f[a]) => Shrinks(f, g)
         /\ QueryIn(f, r) /\ Cleared(f, g, r) /\ LinksOK(f) => Shrinks(f, g)
  <1>1. (\A a \in Address : Same(f, g, a)) => Shrinks(f, g)
    BY DEF Shrinks
  <1>2. ASSUME RowIn(f, r), Shut(f, g, r)
        PROVE  Shrinks(f, g)
    BY <1>2 DEF Shrinks, Shut
  <1>3. ASSUME RowIn(f, r), Released(f, g, r)
        PROVE  Shrinks(f, g)
    BY <1>3 DEF Shrinks, Released
  <1>4. ASSUME g[r] = NULL, \A a \in Address \ {r} : g[a] = f[a]
        PROVE  Shrinks(f, g)
    BY <1>4 DEF Shrinks, Same
  <1>5. ASSUME QueryIn(f, r), Cleared(f, g, r), LinksOK(f)
        PROVE  Shrinks(f, g)
    <2>1. QueryIn(g, r) /\ g[r].lastRowSet = NULL /\ ~ g[r].visible
      BY <1>5 DEF Cleared
    <2>2. CASE f[r].lastRowSet = NULL
      BY <1>5, <2>1, <2>2 DEF Shrinks, Cleared
    <2>3. CASE f[r].lastRowSet # NULL
      <3>1. RowIn(f, f[r].lastRowSet)
        BY <1>5, <2>3 DEF LinksOK
      <3> QED BY <1>5, <2>1, <2>3, <3>1 DEF Shrinks, Cleared
    <2> QED BY <2>2, <2>3
  <1> QED BY <1>1, <1>2, <1>3, <1>4, <1>5

LEMMA ShrinkKeeps ==
  ASSUME NEW f \in Resources, NEW g \in Resources, Shrinks(f, g)
  PROVE  /\ Shown(f) => Shown(g)
         /\ \A what, at : Passed(f, what, at) => Passed(g, what, at)
         /\ \A ts : Dead(f, ts) => Dead(g, ts)
         /\ \A given, gave, s :
              Read(f, given, s) /\ (\A a \in Address : gave[a] > 0 => given[a] > 0)
                => Read(g, gave, s)
  <1>1. Shown(f) => Shown(g)
    BY ShrinkCases DEF Shown
  <1>2. ASSUME NEW what, NEW at, Passed(f, what, at)
        PROVE  Passed(g, what, at)
    <2> SUFFICES ASSUME NEW a \in Address, at = NULL \/ a < at
                 PROVE  /\ RowIn(g, a) /\ (what = "abort" => g[a].transactionId # 0) => g[a].closed
                        /\ QueryIn(g, a) /\ what # "abort" => g[a].lastRowSet = NULL
      BY DEF Passed
    <2>1. /\ RowIn(f, a) /\ (what = "abort" => f[a].transactionId # 0) => f[a].closed
          /\ QueryIn(f, a) /\ what # "abort" => f[a].lastRowSet = NULL
      BY <1>2 DEF Passed
    <2> QED BY <2>1, ShrinkCases
  <1>3. ASSUME NEW ts, Dead(f, ts)
        PROVE  Dead(g, ts)
    BY <1>3, ShrinkCases DEF Dead
  <1>4. ASSUME NEW given, NEW gave, NEW s, Read(f, given, s),
               \A a \in Address : gave[a] > 0 => given[a] > 0
        PROVE  Read(g, gave, s)
    BY <1>4, ShrinkCases DEF Read, MoreToRead
  <1> QED BY <1>1, <1>2, <1>3, <1>4

-----------------------------------------------------------------------------
(* The order of the resources, their number, and the iterations. *)

LEMMA MinInSet ==
  ASSUME NEW S \in SUBSET Nat, S # {}
  PROVE  Min(S) \in S /\ \A y \in S : Min(S) <= y
  <1> DEFINE UpTo(k) == S \cap 0 .. k
             T == {UpTo(k) : k \in S}
  <1>1. \A k \in S : UpTo(k) \in FiniteSubsetsOf(Nat)
    BY FS_BoundedSetOfNaturals DEF FiniteSubsetsOf
  <1>2. T \subseteq FiniteSubsetsOf(Nat) /\ T # {}
    BY <1>1
  <1>3. PICK U \in T : \A V \in T : <<V, U>> \notin StrictSubsetOrdering(Nat)
    <2> HIDE DEF T
    <2> QED BY <1>2, FS_StrictSubsetOrderingWellFounded, WFMin
  <1>4. PICK k \in S : U = UpTo(k)
    OBVIOUS
  <1>5. ASSUME NEW y \in S, y < k
        PROVE  FALSE
    <2>1. UpTo(y) \in SUBSET Nat /\ U \in SUBSET Nat /\ UpTo(y) \subseteq U
      BY <1>4, <1>5
    <2>2. k \notin UpTo(y) /\ k \in U
      BY <1>4, <1>5
    <2> HIDE DEF UpTo
    <2>3. <<UpTo(y), U>> \in StrictSubsetOrdering(Nat)
      BY <2>1, <2>2 DEF StrictSubsetOrdering
    <2> QED BY <1>3, <2>3
  <1>6. \A y \in S : k =< y
    BY <1>5
  <1> QED BY <1>6 DEF Min

LEMMA MaxInSet ==
  ASSUME NEW S \in SUBSET Address, S # {}
  PROVE  Max(S) \in S
  <1> DEFINE T == {MaxAddress - x : x \in S}
  <1>1. MaxAddress \in Nat /\ \A x \in S : x \in Nat /\ x <= MaxAddress
    BY RowSetsAssumption DEF Address
  <1>2. T \in SUBSET Nat /\ T # {}
    BY <1>1
  <1>3. Min(T) \in T /\ \A y \in T : Min(T) <= y
    BY <1>2, MinInSet
  <1>4. PICK x \in S : Min(T) = MaxAddress - x
    BY <1>3
  <1>5. \A y \in S : x >= y
    <2> TAKE y \in S
    <2>1. MaxAddress - x <= MaxAddress - y
      BY <1>3, <1>4
    <2> QED BY <1>1, <2>1
  <1> QED BY <1>5 DEF Max

LEMMA AfterEffect ==
  ASSUME NEW h, NEW a \in Nat, NEW n, n = After(h, a)
  PROVE  \/ n = NULL /\ \A b \in Address : b > a => h.res[b] = NULL
         \/ /\ n \in Address /\ n > a /\ h.res[n] # NULL
            /\ \A b \in Address : b > a /\ b < n => h.res[b] = NULL
  <1> DEFINE later == {b \in Address : h.res[b] # NULL /\ b > a}
  <1>1. n = IF later = {} THEN NULL ELSE Min(later)
    BY DEF After
  <1>2. CASE later = {}
    BY <1>1, <1>2
  <1>3. CASE later # {}
    <2>1. later \in SUBSET Nat
      BY RowSetsAssumption DEF Address
    <2>2. n \in later /\ \A y \in later : n <= y
      BY <1>1, <1>3, <2>1, MinInSet
    <2>3. ASSUME NEW b \in Address, b > a, b < n
          PROVE  h.res[b] = NULL
      <3>1. n \in Nat /\ b \in Nat
        BY <2>2, RowSetsAssumption DEF Address
      <3>2. b \notin later
        BY <2>2, <2>3, <3>1
      <3> QED BY <2>3, <3>2
    <2> QED BY <2>2, <2>3
  <1> QED BY <1>2, <1>3

(* An iteration that begins has passed nothing, and one that goes on has    *)
(* passed the resource it was at.                                          *)
LEMMA PassedFirst ==
  ASSUME NEW h, NEW n, n = After(h, 0), NEW what
  PROVE  n \in Address \cup {NULL} /\ Passed(h.res, what, n)
  <1>1. \/ n = NULL /\ \A b \in Address : b > 0 => h.res[b] = NULL
        \/ /\ n \in Address
           /\ \A b \in Address : b > 0 /\ b < n => h.res[b] = NULL
    BY AfterEffect
  <1>2. \A b \in Address : b > 0
    BY RowSetsAssumption DEF Address
  <1>3. \A b \in Address : n = NULL \/ b < n => h.res[b] = NULL
    <2>1. NULL \notin Address
      BY RowSetsAssumption DEF Address
    <2> QED BY <1>1, <1>2, <2>1
  <1> QED BY <1>1, <1>3 DEF Passed, RowIn, QueryIn

LEMMA PassedNext ==
  ASSUME NEW h, NEW what, NEW at \in Address, Passed(h.res, what, at),
         RowIn(h.res, at) /\ (what = "abort" => h.res[at].transactionId # 0)
           => h.res[at].closed,
         QueryIn(h.res, at) /\ what # "abort" => h.res[at].lastRowSet = NULL,
         NEW n, n = After(h, at)
  PROVE  n \in Address \cup {NULL} /\ Passed(h.res, what, n)
  <1>0. /\ NULL \notin Address
        /\ \A b \in Address : b \in Nat
    BY RowSetsAssumption DEF Address
  <1>1. \/ n = NULL /\ \A b \in Address : b > at => h.res[b] = NULL
        \/ /\ n \in Address /\ n > at
           /\ \A b \in Address : b > at /\ b < n => h.res[b] = NULL
    BY <1>0, AfterEffect
  <1>2. ASSUME NEW b \in Address, n = NULL \/ b < n
        PROVE  b < at \/ b = at \/ h.res[b] = NULL
    BY <1>0, <1>1, <1>2
  <1>3. ASSUME NEW b \in Address, n = NULL \/ b < n
        PROVE  /\ RowIn(h.res, b) /\ (what = "abort" => h.res[b].transactionId # 0)
                    => h.res[b].closed
               /\ QueryIn(h.res, b) /\ what # "abort" => h.res[b].lastRowSet = NULL
    <2>1. CASE b < at
      BY <2>1 DEF Passed
    <2>2. CASE b = at
      BY <2>2
    <2>3. CASE h.res[b] = NULL
      BY <2>3 DEF RowIn, QueryIn
    <2> QED BY <1>2, <1>3, <2>1, <2>2, <2>3
  <1> QED BY <1>1, <1>3 DEF Passed

Number(f) == Cardinality({a \in Address : f[a] # NULL})

LEMMA NumberType ==
  ASSUME NEW f
  PROVE  IsFiniteSet({a \in Address : f[a] # NULL}) /\ Number(f) \in Nat
  <1>1. IsFiniteSet(Address)
    BY FS_Interval, RowSetsAssumption DEF Address
  <1>2. {a \in Address : f[a] # NULL} \in SUBSET Address
    OBVIOUS
  <1>3. IsFiniteSet({a \in Address : f[a] # NULL})
    BY <1>1, <1>2, FS_Subset
  <1> QED BY <1>3, FS_CardinalityType DEF Number

LEMMA NumberAdded ==
  ASSUME NEW f \in [Address -> Query \cup RowSet \cup {NULL}], NEW a \in Address, f[a] = NULL,
         NEW x, x # NULL
  PROVE  Number([f EXCEPT ![a] = x]) = Number(f) + 1
  <1> DEFINE S == {b \in Address : f[b] # NULL}
  <1>1. {b \in Address : [f EXCEPT ![a] = x][b] # NULL} = S \cup {a}
    OBVIOUS
  <1>2. IsFiniteSet(S) /\ a \notin S
    BY NumberType
  <1> HIDE DEF S
  <1>3. Cardinality(S \cup {a}) = Cardinality(S) + 1
    BY <1>2, FS_AddElement
  <1> QED BY <1>1, <1>3 DEF Number, S

Frame == [at : Address \cup {NULL}, silent : BOOLEAN]

LEMMA StackMoved ==
  ASSUME NEW s \in Seq(Frame), s # <<>>, NEW n \in Address \cup {NULL},
         NEW t, t = [s EXCEPT ![Len(s)].at = n]
  PROVE  t \in Seq(Frame) /\ t # <<>> /\ t[Len(t)].at = n
  <1>1. Len(s) \in 1 .. Len(s) /\ DOMAIN s = 1 .. Len(s)
    OBVIOUS
  <1>2. PICK x : x = [s[Len(s)] EXCEPT !.at = n]
    OBVIOUS
  <1>3. s[Len(s)] \in Frame
    BY <1>1
  <1>4. x \in Frame /\ x.at = n
    BY <1>2, <1>3 DEF Frame
  <1>5. t = [s EXCEPT ![Len(s)] = x]
    BY <1>2
  <1>6. Len(t) = Len(s) /\ t[Len(s)] = x
    BY <1>1, <1>5
  <1> QED BY <1>1, <1>4, <1>5, <1>6

LEMMA StackPushed ==
  ASSUME NEW s \in Seq(Frame), NEW n \in Address \cup {NULL}, NEW b \in BOOLEAN,
         NEW t, t = Append(s, [at |-> n, silent |-> b])
  PROVE  t \in Seq(Frame) /\ t # <<>> /\ t[Len(t)].at = n
  <1>1. [at |-> n, silent |-> b] \in Frame
    BY DEF Frame
  <1> QED BY <1>1

LEMMA StackPopped ==
  ASSUME NEW s \in Seq(Frame), s # <<>>
  PROVE  SubSeq(s, 1, Len(s) - 1) \in Seq(Frame)
  OBVIOUS

-----------------------------------------------------------------------------
(* What the actions make of the heap. *)

LEMMA NowRecord ==
  ASSUME IInv
  PROVE  /\ Now \in HeapRecord /\ Now.res = resource /\ Now.server = server
         /\ Now.breaks = breaks
         /\ HeapOK(resource, handle, server) /\ resource \in Resources
         /\ LinksOK(resource) /\ CountsOK(resource, handle) /\ OwnedOK(resource, server)
         /\ handle \in [Address -> Nat] /\ server \in SUBSET Address
         /\ NULL \notin Address
  <1>1. HeapOK(resource, handle, server) /\ resource \in Resources
    BY DEF IInv, HeapInv, HeapOK
  <1>2. server \in SUBSET Address /\ breaks \in Nat /\ handle \in [Address -> Nat]
    BY DEF IInv, TypeOK
  <1>3. Now = [res |-> resource, server |-> server, breaks |-> breaks, ok |-> TRUE]
    BY DEF Now
  <1>4. Now \in HeapRecord /\ Now.res = resource /\ Now.server = server /\ Now.breaks = breaks
    BY <1>1, <1>2, <1>3 DEF HeapRecord
  <1>5. NULL \notin Address
    BY RowSetsAssumption DEF Address
  <1> QED BY <1>1, <1>2, <1>4, <1>5 DEF HeapOK

LEMMA ClearNow ==
  ASSUME IInv, NEW q \in Address, QueryIn(resource, q), NEW h \in ClearLastRowSet(Now, q)
  PROVE  /\ h \in HeapRecord /\ h.res \in Resources /\ h.server \in SUBSET Address
         /\ h.breaks \in Nat
         /\ HeapOK(h.res, handle, h.server) /\ Shrinks(resource, h.res)
         /\ QueryIn(h.res, q) /\ h.res[q].lastRowSet = NULL
  <1>1. /\ h \in HeapRecord /\ Cleared(resource, h.res, q)
        /\ Keeps(resource, server, h.res, h.server)
        /\ resource[q].lastRowSet # NULL => resource[q].lastRowSet \notin h.server
    BY NowRecord, ClearEffect
  <1>2. h.res \in Resources /\ h.server \in SUBSET Address /\ h.breaks \in Nat
    BY <1>1 DEF HeapRecord
  <1>3. HeapOK(h.res, handle, h.server)
    BY <1>1, <1>2, NowRecord, ClearKeeps
  <1>4. Shrinks(resource, h.res)
    BY <1>1, <1>2, NowRecord, SmallerShrinks
  <1> QED BY <1>1, <1>2, <1>3, <1>4 DEF Cleared

LEMMA BrokenHeap ==
  ASSUME NEW h \in HeapRecord, NEW given \in [Address -> Nat], HeapOK(h.res, given, h.server),
         NEW g \in Broken(h)
  PROVE  /\ g \in HeapRecord /\ g.res \in Resources /\ g.server \in SUBSET Address
         /\ g.breaks \in Nat
         /\ HeapOK(g.res, given, g.server) /\ Shrinks(h.res, g.res)
  <1>1. g \in HeapRecord /\ g.server = {} /\ \A a \in Address : Same(h.res, g.res, a)
    BY BrokenEffect
  <1>2. g.res \in Resources /\ h.res \in Resources /\ g.server \in SUBSET Address
        /\ g.breaks \in Nat
    BY <1>1 DEF HeapRecord
  <1>3. HeapOK(g.res, given, g.server)
    BY <1>1, <1>2, BrokenKeeps
  <1>4. Shrinks(h.res, g.res)
    BY <1>1 DEF Shrinks
  <1> QED BY <1>1, <1>2, <1>3, <1>4

LEMMA ShrinkStep ==
  ASSUME IInv, NEW h \in HeapRecord, Become(h), Shrinks(resource, h.res),
         handle' \in [Address -> Nat], HeapOK(h.res, handle', h.server),
         \A a \in Address : handle'[a] > 0 => handle[a] > 0
  PROVE  /\ resource' = h.res /\ resource' \in Resources
         /\ server' \in SUBSET Address /\ breaks' \in Nat
         /\ HeapInv' /\ ShownInv'
         /\ \A what, at : Passed(resource, what, at) => Passed(resource', what, at)
         /\ \A ts : Dead(resource, ts) => Dead(resource', ts)
         /\ \A s : Read(resource, handle, s) => Read(resource', handle', s)
  <1>1. /\ resource' = h.res /\ server' = h.server /\ breaks' = h.breaks
        /\ resource' \in Resources /\ server' \in SUBSET Address /\ breaks' \in Nat
    BY DEF Become, HeapRecord
  <1>2. HeapInv'
    BY <1>1 DEF HeapInv
  <1>3. Shown(resource)
    BY DEF IInv, ShownInv
  <1>4. /\ Shown(h.res)
        /\ \A what, at : Passed(resource, what, at) => Passed(h.res, what, at)
        /\ \A ts : Dead(resource, ts) => Dead(h.res, ts)
        /\ \A s : Read(resource, handle, s) => Read(h.res, handle', s)
    BY <1>1, <1>3, NowRecord, ShrinkKeeps
  <1>5. ShownInv'
    BY <1>1, <1>4 DEF ShownInv
  <1> QED BY <1>1, <1>2, <1>4, <1>5

LEMMA CountStep ==
  ASSUME IInv, NEW h, Count(h), resource' = h.res,
         (closed' /\ pc' # "releasing") <=> (closed /\ pc # "releasing")
  PROVE  CountInv' /\ referenceCount' \in Nat
  <1> DEFINE own == IF closed /\ pc # "releasing" THEN 0 ELSE 1
  <1>1. referenceCount = Number(resource) + own
    BY DEF IInv, CountInv, Number, Active
  <1>2. referenceCount' = referenceCount + Number(resource') - Number(resource)
    BY DEF Count, Number, Active
  <1>3. Number(resource) \in Nat /\ Number(resource') \in Nat /\ own \in Nat
    BY NumberType
  <1> HIDE DEF own
  <1>4. referenceCount' = Number(resource') + own
    BY <1>1, <1>2, <1>3
  <1>5. referenceCount' \in Nat
    BY <1>3, <1>4
  <1>6. own = IF closed' /\ pc' # "releasing" THEN 0 ELSE 1
    BY DEF own
  <1> QED BY <1>4, <1>5, <1>6 DEF CountInv, Number, Active

LEMMA RowSetsInit == Init => IInv
  <1> SUFFICES ASSUME Init
               PROVE  IInv
    OBVIOUS
  <1>1. /\ resource = [a \in Address |-> NULL] /\ handle = [a \in Address |-> 0]
        /\ server = {} /\ closed = FALSE /\ referenceCount = 1 /\ autoCommit \in BOOLEAN
        /\ transactionId = 1 /\ transactionStarted = FALSE /\ pc = "idle" /\ subject = NULL
        /\ then = "none" /\ stack = <<>> /\ aborted = {} /\ calls = 0 /\ breaks = 0
    BY DEF Init
  <1>2. TypeOK
    <2>1. handle \in [Address -> Nat] /\ \A a \in Address : resource[a] = NULL
      BY <1>1
    <2>2. stack \in Seq([at : Address \cup {NULL}, silent : BOOLEAN])
      BY <1>1
    <2>3. server \in SUBSET Address /\ aborted \in SUBSET Nat
      BY <1>1
    <2>4. closed \in BOOLEAN /\ autoCommit \in BOOLEAN /\ transactionStarted \in BOOLEAN
      BY <1>1
    <2>5. referenceCount \in Nat /\ transactionId \in Nat \ {0} /\ calls \in Nat /\ breaks \in Nat
      BY <1>1
    <2> QED BY <1>1, <2>1, <2>2, <2>3, <2>4, <2>5 DEF TypeOK
  <1>3. \A a \in Address : resource[a] = NULL /\ ~ QueryIn(resource, a) /\ ~ RowIn(resource, a)
    BY <1>1 DEF QueryIn, RowIn
  <1>4. HeapInv
    <2>1. resource \in Resources
      BY <1>1 DEF Resources
    <2>2. LinksOK(resource)
      BY <1>3 DEF LinksOK, HeldBy
    <2>3. CountsOK(resource, handle)
      BY <1>1, <1>3 DEF CountsOK
    <2>4. OwnedOK(resource, server)
      BY <1>1, <1>3 DEF OwnedOK
    <2> QED BY <2>1, <2>2, <2>3, <2>4 DEF HeapInv, HeapOK
  <1>5. ShownInv
    BY <1>3 DEF ShownInv, Shown
  <1>6. FollowInv /\ ClosingInv /\ ClosedInv
    BY <1>1 DEF FollowInv, ClosingInv, ClosedInv
  <1>7. ReadInv
    BY <1>3 DEF ReadInv, Read
  <1>8. AbortedInv
    BY <1>1, <1>3 DEF AbortedInv, Dead
  <1>9. CountInv
    <2>1. Active = {}
      BY <1>3 DEF Active
    <2> QED BY <1>1, <2>1, FS_EmptySet DEF CountInv
  <1> QED BY <1>2, <1>4, <1>5, <1>6, <1>7, <1>8, <1>9 DEF IInv

(* What a stutter leaves. *)
LEMMA StutterStep ==
  ASSUME IInv, UNCHANGED vars
  PROVE  IInv'
  BY DEF IInv, vars, heap, transaction, control, TypeOK, HeapInv, ShownInv, FollowInv, ReadInv,
         ClosingInv, ClosedInv, AbortedInv, CountInv, Top, Active

-----------------------------------------------------------------------------
(* Each action preserves the invariant. *)

LEMMA NewQueryStep ==
  ASSUME IInv, NewQuery
  PROVE  IInv'
  <1>1. PICK a \in Address \ Active :
          /\ resource' = [resource EXCEPT ![a] =
               [type |-> "query", lastRowSet |-> NULL, visible |-> FALSE, closed |-> FALSE]]
          /\ handle' = [handle EXCEPT ![a] = 1]
    BY DEF NewQuery
  <1>2. /\ pc = "idle" /\ ~ closed /\ referenceCount' = referenceCount + 1
        /\ server' = server /\ breaks' = breaks /\ closed' = closed
        /\ autoCommit' = autoCommit /\ transactionId' = transactionId
        /\ transactionStarted' = transactionStarted
        /\ pc' = pc /\ subject' = subject /\ then' = then /\ stack' = stack
        /\ aborted' = aborted /\ calls' = calls
    BY DEF NewQuery, transaction, control
  <1>3. PICK x : x = [type |-> "query", lastRowSet |-> NULL, visible |-> FALSE, closed |-> FALSE]
    OBVIOUS
  <1>4. x \in Query /\ x # NULL /\ x.lastRowSet = NULL /\ ~ x.visible /\ x.type = "query"
    <2>1. x \in Query /\ x.lastRowSet = NULL /\ ~ x.visible /\ x.type = "query"
      BY <1>3 DEF Query
    <2> QED BY <2>1, RowSetsAssumption
  <1>5. /\ resource' = [resource EXCEPT ![a] = x] /\ resource \in Resources
        /\ resource' \in Resources /\ resource[a] = NULL /\ resource'[a] = x
        /\ \A b \in Address \ {a} : resource'[b] = resource[b]
    BY <1>1, <1>3, <1>4, NowRecord DEF Resources, Active
  <1>6. /\ handle' \in [Address -> Nat] /\ handle'[a] = 1
        /\ \A b \in Address \ {a} : handle'[b] = handle[b]
    BY <1>1, NowRecord
  <1>7. QueryIn(resource', a) /\ ~ RowIn(resource', a)
    BY <1>4, <1>5 DEF QueryIn, RowIn
  <1>8. HeapInv'
    <2>1. PICK g, gave : g = resource' /\ gave = handle'
      OBVIOUS
    <2>2. HeapOK(resource, handle, server) /\ server \subseteq Address /\ handle \in [Address -> Nat]
      BY NowRecord
    <2>3. /\ g \in Resources /\ QueryIn(g, a) /\ g[a].lastRowSet = NULL
          /\ \A b \in Address \ {a} : g[b] = resource[b]
      BY <1>4, <1>5, <1>7, <2>1
    <2>4. gave \in [Address -> Nat] /\ gave[a] = 1 /\ \A b \in Address \ {a} : gave[b] = handle[b]
      BY <1>6, <2>1
    <2>5. HeapOK(g, gave, server)
      BY <1>5, <2>2, <2>3, <2>4, QueryKeeps
    <2> QED BY <1>2, <2>1, <2>5 DEF HeapInv
  <1>9. TypeOK'
    <2>1. referenceCount' \in Nat
      BY <1>2 DEF IInv, TypeOK
    <2> QED BY <1>2, <1>5, <1>6, <2>1 DEF IInv, TypeOK, Resources
  <1>10. \A b \in Address : RowIn(resource', b) => b # a /\ RowIn(resource, b)
    BY <1>5, <1>7 DEF RowIn
  <1>11. ShownInv'
    BY <1>4, <1>5 DEF IInv, ShownInv, Shown, QueryIn
  <1>12. FollowInv' /\ ClosingInv' /\ ClosedInv'
    BY <1>2 DEF FollowInv, ClosingInv, ClosedInv
  <1>13. ReadInv'
    BY <1>2, <1>5, <1>6, <1>10 DEF IInv, ReadInv, Read, MoreToRead
  <1>14. AbortedInv'
    <2>1. Dead(resource, aborted)
      BY <1>2 DEF IInv, AbortedInv
    <2>2. Dead(resource', aborted)
      BY <1>5, <1>10, <2>1 DEF Dead
    <2> QED BY <1>2, <2>2 DEF IInv, AbortedInv
  <1>15. CountInv'
    <2>1. Number(resource') = Number(resource) + 1
      BY <1>4, <1>5, NumberAdded DEF Resources
    <2>2. referenceCount = Number(resource) + 1
      BY <1>2 DEF IInv, CountInv, Number, Active
    <2>3. referenceCount' = Number(resource') + 1
      BY <1>2, <2>1, <2>2, NumberType
    <2> QED BY <1>2, <2>3 DEF CountInv, Number, Active
  <1> QED BY <1>8, <1>9, <1>11, <1>12, <1>13, <1>14, <1>15 DEF IInv

LEMMA TransactionStep ==
  ASSUME IInv, StartTransaction \/ Commit \/ SetAutoCommit
  PROVE  IInv'
  <1>1. /\ pc = "idle" /\ ~ closed /\ calls' = calls + 1
        /\ resource' = resource /\ server' = server /\ breaks' = breaks /\ handle' = handle
        /\ closed' = closed /\ referenceCount' = referenceCount
        /\ pc' = pc /\ subject' = subject /\ then' = then /\ stack' = stack /\ aborted' = aborted
    BY DEF StartTransaction, Commit, SetAutoCommit, Call, heap
  <1>2. transactionId \in Nat \ {0} /\ autoCommit \in BOOLEAN /\ transactionStarted \in BOOLEAN
        /\ calls \in Nat
    BY DEF IInv, TypeOK
  <1>3. transactionId' \in {transactionId, transactionId + 1}
    BY DEF StartTransaction, Commit, SetAutoCommit
  <1>4. autoCommit' \in BOOLEAN /\ transactionStarted' \in BOOLEAN
    BY <1>2 DEF StartTransaction, Commit, SetAutoCommit
  <1>5. transactionId' \in Nat \ {0} /\ calls' \in Nat
    BY <1>1, <1>2, <1>3
  <1>6. TypeOK'
    BY <1>1, <1>4, <1>5 DEF IInv, TypeOK
  <1>7. HeapInv' /\ ShownInv' /\ CountInv'
    BY <1>1 DEF IInv, HeapInv, ShownInv, CountInv, Active
  <1>8. FollowInv' /\ ClosingInv' /\ ClosedInv'
    BY <1>1 DEF FollowInv, ClosingInv, ClosedInv
  <1>9. ReadInv'
    BY <1>1 DEF IInv, ReadInv
  <1>10. AbortedInv'
    <2>1. aborted \in SUBSET Nat
      BY DEF IInv, TypeOK
    <2>2. \A t \in aborted' : t # 0 /\ t < transactionId'
      BY <1>1, <1>2, <1>3, <2>1 DEF IInv, AbortedInv
    <2>3. Dead(resource', aborted')
      BY <1>1 DEF IInv, AbortedInv
    <2> QED BY <2>2, <2>3 DEF AbortedInv
  <1> QED BY <1>6, <1>7, <1>8, <1>9, <1>10 DEF IInv

LEMMA ConnectionFailsStep ==
  ASSUME IInv, ConnectionFails
  PROVE  IInv'
  <1>1. PICK h \in Broken(Now) : Become(h)
    BY DEF ConnectionFails
  <1>2. /\ pc = "idle" /\ handle' = handle
        /\ closed' = closed /\ referenceCount' = referenceCount
        /\ autoCommit' = autoCommit /\ transactionId' = transactionId
        /\ transactionStarted' = transactionStarted
        /\ pc' = pc /\ subject' = subject /\ then' = then /\ stack' = stack
        /\ aborted' = aborted /\ calls' = calls
    BY DEF ConnectionFails, transaction, control
  <1>3. /\ h \in HeapRecord /\ h.res \in Resources /\ HeapOK(h.res, handle, h.server)
        /\ Shrinks(resource, h.res)
    BY NowRecord, BrokenHeap
  <1>4. /\ resource' = h.res /\ resource' \in Resources
        /\ server' \in SUBSET Address /\ breaks' \in Nat
        /\ HeapInv' /\ ShownInv'
        /\ \A what, at : Passed(resource, what, at) => Passed(resource', what, at)
        /\ \A ts : Dead(resource, ts) => Dead(resource', ts)
        /\ \A s : Read(resource, handle, s) => Read(resource', handle', s)
    BY <1>1, <1>2, <1>3, NowRecord, ShrinkStep
  <1>5. TypeOK'
    BY <1>2, <1>4 DEF IInv, TypeOK, Resources
  <1>6. FollowInv' /\ ClosingInv'
    BY <1>2 DEF FollowInv, ClosingInv
  <1>7. ClosedInv'
    BY <1>2, <1>4 DEF IInv, ClosedInv
  <1>8. ReadInv'
    BY <1>2, <1>4 DEF IInv, ReadInv
  <1>9. AbortedInv'
    BY <1>2, <1>4 DEF IInv, AbortedInv
  <1>10. CountInv'
    <2>1. \A a \in Address : resource'[a] = NULL <=> resource[a] = NULL
      <3>1. \A a \in Address : Same(resource, h.res, a)
        BY NowRecord, BrokenEffect
      <3> QED BY <1>3, <1>4, <3>1, NowRecord, SameKind
    <2>2. Active' = Active
      BY <2>1 DEF Active
    <2> QED BY <1>2, <2>2 DEF IInv, CountInv
  <1> QED BY <1>4, <1>5, <1>6, <1>7, <1>8, <1>9, <1>10 DEF IInv

LEMMA CloseQueryStep ==
  ASSUME IInv, NEW q \in Address, CloseQuery(q)
  PROVE  IInv'
  <1>1. /\ pc = "idle" /\ calls' = calls + 1 /\ stack' = stack
        /\ QueryIn(resource, q) /\ handle[q] > 0
        /\ handle' = [handle EXCEPT ![q] = 0]
        /\ closed' = closed /\ autoCommit' = autoCommit /\ transactionId' = transactionId
        /\ transactionStarted' = transactionStarted
        /\ pc' = pc /\ subject' = subject /\ then' = then /\ aborted' = aborted
    BY DEF CloseQuery, Call, IsQuery, QueryIn, transaction
  <1>2. PICK c \in ClearLastRowSet(Now, q) :
          LET g == [c EXCEPT !.res[q] = NULL] IN Become(g) /\ Count(g)
    BY DEF CloseQuery
  <1>3. /\ c \in HeapRecord /\ c.res \in Resources /\ c.server \in SUBSET Address
        /\ HeapOK(c.res, handle, c.server) /\ Shrinks(resource, c.res)
        /\ QueryIn(c.res, q) /\ c.res[q].lastRowSet = NULL
    BY <1>1, ClearNow
  <1>4. PICK g : g = [c EXCEPT !.res[q] = NULL]
    OBVIOUS
  <1>5. /\ g.res = [c.res EXCEPT ![q] = NULL] /\ g.server = c.server
        /\ g.breaks = c.breaks /\ g.ok = c.ok
    BY <1>3, <1>4 DEF HeapRecord
  <1>6. /\ g.res \in Resources /\ g.res[q] = NULL
        /\ \A a \in Address \ {q} : g.res[a] = c.res[a]
    BY <1>3, <1>5 DEF Resources
  <1>7. g \in HeapRecord
    BY <1>3, <1>4, <1>5, <1>6 DEF HeapRecord
  <1>8. /\ handle' \in [Address -> Nat] /\ handle'[q] = 0
        /\ \A a \in Address \ {q} : handle'[a] = handle[a]
    BY <1>1, NowRecord
  <1>9. HeapOK(g.res, handle', g.server)
    <2>1. PICK f, gave : f = g.res /\ gave = handle'
      OBVIOUS
    <2>2. handle \in [Address -> Nat] /\ g.server \subseteq Address
      BY <1>3, <1>5, NowRecord
    <2>3. HeapOK(c.res, handle, g.server)
      BY <1>3, <1>5
    <2>4. f \in Resources /\ f[q] = NULL /\ \A a \in Address \ {q} : f[a] = c.res[a]
      BY <1>6, <2>1
    <2>5. gave \in [Address -> Nat] /\ gave[q] = 0 /\ \A a \in Address \ {q} : gave[a] = handle[a]
      BY <1>8, <2>1
    <2>6. HeapOK(f, gave, g.server)
      BY <1>3, <2>2, <2>3, <2>4, <2>5, DropKeeps
    <2> QED BY <2>1, <2>6
  <1>10. Shrinks(resource, g.res)
    BY <1>3, <1>6, NowRecord, SmallerShrinks, ShrinkTwice
  <1>11. Become(g) /\ Count(g)
    BY <1>2, <1>4
  <1>12. \A a \in Address : handle'[a] > 0 => handle[a] > 0
    BY <1>8
  <1>13. /\ resource' = g.res /\ resource' \in Resources
         /\ server' \in SUBSET Address /\ breaks' \in Nat
         /\ HeapInv' /\ ShownInv'
         /\ \A what, at : Passed(resource, what, at) => Passed(resource', what, at)
         /\ \A ts : Dead(resource, ts) => Dead(resource', ts)
         /\ \A s : Read(resource, handle, s) => Read(resource', handle', s)
    BY <1>7, <1>8, <1>9, <1>10, <1>11, <1>12, ShrinkStep
  <1>14. CountInv' /\ referenceCount' \in Nat
    BY <1>1, <1>11, <1>13, CountStep
  <1>15. TypeOK'
    BY <1>1, <1>8, <1>13, <1>14 DEF IInv, TypeOK, Resources
  <1>16. FollowInv' /\ ClosingInv'
    BY <1>1 DEF FollowInv, ClosingInv
  <1>17. ClosedInv'
    BY <1>1, <1>13 DEF IInv, ClosedInv
  <1>18. ReadInv'
    BY <1>1, <1>13 DEF IInv, ReadInv
  <1>19. AbortedInv'
    BY <1>1, <1>13 DEF IInv, AbortedInv
  <1> QED BY <1>13, <1>14, <1>15, <1>16, <1>17, <1>18, <1>19 DEF IInv

LEMMA CloseRowSetStep ==
  ASSUME IInv, NEW r \in Address, CloseRowSet(r)
  PROVE  IInv'
  <1>1. /\ pc = "idle" /\ calls' = calls + 1 /\ stack' = stack
        /\ RowIn(resource, r) /\ handle[r] > 0
        /\ handle' = [handle EXCEPT ![r] = @ - 1]
        /\ closed' = closed /\ autoCommit' = autoCommit /\ transactionId' = transactionId
        /\ transactionStarted' = transactionStarted
        /\ pc' = pc /\ subject' = subject /\ then' = then /\ aborted' = aborted
    BY DEF CloseRowSet, Call, IsRowSet, RowIn, transaction
  <1>2. PICK h \in CloseRowSetOf(Now, r) : Become(h) /\ Count(h)
    BY DEF CloseRowSet
  <1>3. r \in server => ~ resource[r].closed /\ resource[r].connection = "current"
    BY NowRecord DEF OwnedOK
  <1>4. /\ h \in HeapRecord /\ r \notin h.server
        /\ Released(resource, h.res, r) /\ Keeps(resource, server, h.res, h.server)
    BY <1>1, <1>3, NowRecord, CloseRowSetEffect
  <1>5. h.res \in Resources
    BY <1>4 DEF HeapRecord
  <1>6. HeapOK(h.res, handle', h.server)
    BY <1>1, <1>4, <1>5, NowRecord, ReleaseKeeps
  <1>7. Shrinks(resource, h.res)
    BY <1>1, <1>4, <1>5, NowRecord, SmallerShrinks
  <1>8. handle' \in [Address -> Nat] /\ \A a \in Address : handle'[a] > 0 => handle[a] > 0
    BY <1>1, NowRecord
  <1>13. /\ resource' = h.res /\ resource' \in Resources
         /\ server' \in SUBSET Address /\ breaks' \in Nat
         /\ HeapInv' /\ ShownInv'
         /\ \A what, at : Passed(resource, what, at) => Passed(resource', what, at)
         /\ \A ts : Dead(resource, ts) => Dead(resource', ts)
         /\ \A s : Read(resource, handle, s) => Read(resource', handle', s)
    BY <1>2, <1>4, <1>6, <1>7, <1>8, ShrinkStep
  <1>14. CountInv' /\ referenceCount' \in Nat
    BY <1>1, <1>2, <1>13, CountStep
  <1>15. TypeOK'
    BY <1>1, <1>8, <1>13, <1>14 DEF IInv, TypeOK, Resources
  <1>16. FollowInv' /\ ClosingInv'
    BY <1>1 DEF FollowInv, ClosingInv
  <1>17. ClosedInv'
    BY <1>1, <1>13 DEF IInv, ClosedInv
  <1>18. ReadInv'
    BY <1>1, <1>13 DEF IInv, ReadInv
  <1>19. AbortedInv'
    BY <1>1, <1>13 DEF IInv, AbortedInv
  <1> QED BY <1>13, <1>14, <1>15, <1>16, <1>17, <1>18, <1>19 DEF IInv

LEMMA RowSetMade ==
  ASSUME NEW n \in 0 .. MaxRows, NEW m \in 0 .. MaxRows, NEW k \in 0 .. MaxStatus,
         NEW c \in {"none", "current", "old"}, NEW t \in Nat, NEW s \in BOOLEAN, NEW u \in Nat,
         NEW x, x = [type |-> "rowSet", refs |-> 1, closed |-> FALSE, rows |-> n,
                     remaining |-> m, status |-> k, connection |-> c, lost |-> FALSE,
                     transactionId |-> t, started |-> s, unread |-> u]
  PROVE  x \in RowSet
  BY DEF RowSet

(* The row set of a reply. *)
LEMMA NewRowSetType ==
  ASSUME IInv, NEW mode \in Mode, NEW reply \in Replies(mode), NEW started \in BOOLEAN,
         NEW x, x = NewRowSet(reply, started, 1)
  PROVE  /\ x \in RowSet /\ x.refs = 1 /\ ~ x.closed /\ x.unread = x.rows + x.remaining
         /\ reply.remaining > 0 => x.connection = "current"
         /\ x.transactionId \notin aborted
  <1>1. /\ reply.rows \in 0 .. MaxRows /\ reply.remaining \in 0 .. MaxRows
        /\ reply.status \in 0 .. MaxStatus
    <2>1. MaxRows \in Nat \ {0} /\ MaxStatus \in Nat
      BY RowSetsAssumption
    <2>2. CASE mode = "fetch"
      BY <2>1, <2>2 DEF Replies
    <2>3. CASE mode = "execute"
      BY <2>1, <2>3 DEF Replies
    <2> QED BY <2>2, <2>3 DEF Mode
  <1>2. transactionId \in Nat /\ autoCommit \in BOOLEAN /\ \A t \in aborted : t # 0 /\ t < transactionId
    BY DEF IInv, TypeOK, AbortedInv
  <1>3. PICK c, t : /\ c = (IF reply.remaining > 0 THEN "current" ELSE "none")
                    /\ t = (IF autoCommit THEN 0 ELSE transactionId)
    OBVIOUS
  <1>4. /\ c \in {"none", "current", "old"} /\ (reply.remaining > 0 => c = "current")
        /\ t \in Nat /\ t \notin aborted
    BY <1>2, <1>3
  <1>5. x = [type |-> "rowSet", refs |-> 1, closed |-> FALSE, rows |-> reply.rows,
             remaining |-> reply.remaining, status |-> reply.status,
             connection |-> c, lost |-> FALSE, transactionId |-> t,
             started |-> started, unread |-> reply.rows + reply.remaining]
    BY <1>3 DEF NewRowSet
  <1>6. reply.rows + reply.remaining \in Nat
    BY <1>1
  <1>7. x \in RowSet
    <2>1. PICK n, m, k, u : n = reply.rows /\ m = reply.remaining /\ k = reply.status
                            /\ u = reply.rows + reply.remaining
      OBVIOUS
    <2>2. x = [type |-> "rowSet", refs |-> 1, closed |-> FALSE, rows |-> n,
               remaining |-> m, status |-> k, connection |-> c, lost |-> FALSE,
               transactionId |-> t, started |-> started, unread |-> u]
      BY <1>5, <2>1
    <2>3. /\ n \in 0 .. MaxRows /\ m \in 0 .. MaxRows /\ k \in 0 .. MaxStatus /\ u \in Nat
          /\ c \in {"none", "current", "old"} /\ t \in Nat
      BY <1>1, <1>4, <1>6, <2>1
    <2> QED BY <2>2, <2>3, RowSetMade
  <1> QED BY <1>4, <1>5, <1>7

(* A query has been executed and has a row set. *)
LEMMA OpenedHeap ==
  ASSUME IInv, pc = "idle", NEW q \in Address, QueryIn(resource, q),
         NEW h \in ClearLastRowSet(Now, q), NEW a \in Address, h.res[a] = NULL,
         NEW x \in RowSet, x.refs = 1, ~ x.closed, x.unread = x.rows + x.remaining,
         x.transactionId \notin aborted,
         NEW f \in Resources, f[a] = x, QueryIn(f, q), f[q].lastRowSet = a,
         \A b \in Address \ {q, a} : f[b] = h.res[b],
         NEW left, left = h.server \/ (left = h.server \cup {a} /\ x.connection = "current")
  PROVE  /\ HeapOK(f, handle, left) /\ left \in SUBSET Address /\ Shown(f)
         /\ Read(f, handle, NULL) /\ Dead(f, aborted) /\ handle[a] = 0
         /\ RowIn(f, a) /\ HeldBy(f, q, a) /\ q # a
  <1>1. /\ h \in HeapRecord /\ h.res \in Resources /\ h.server \in SUBSET Address
        /\ HeapOK(h.res, handle, h.server) /\ Shrinks(resource, h.res)
        /\ QueryIn(h.res, q) /\ h.res[q].lastRowSet = NULL
    BY ClearNow
  <1>2. handle \in [Address -> Nat] /\ NULL \notin Address /\ resource \in Resources
    BY NowRecord
  <1>3. RowIn(f, a) /\ q # a
    BY <1>1, Kinds DEF QueryIn
  <1>4. CountsOK(h.res, handle) /\ OwnedOK(h.res, h.server)
    BY <1>1 DEF HeapOK
  <1>5. handle[a] = 0
    BY <1>2, <1>4 DEF CountsOK
  <1>6. a \notin h.server
    BY <1>4 DEF OwnedOK, RowIn
  <1>7. left \subseteq h.server \cup {a} /\ (a \in left => x.connection = "current")
    BY <1>6
  <1>8. HeapOK(f, handle, left)
    BY <1>1, <1>2, <1>3, <1>7, RowSetKeeps
  <1>9. left \in SUBSET Address
    BY <1>1, <1>7
  <1>10. Shown(resource) /\ Read(resource, handle, NULL) /\ Dead(resource, aborted)
    BY DEF IInv, ShownInv, ReadInv, AbortedInv
  <1>11. Shown(h.res) /\ Read(h.res, handle, NULL) /\ Dead(h.res, aborted)
    BY <1>1, <1>2, <1>10, ShrinkKeeps
  <1>12. \A b \in Address : b # a /\ QueryIn(f, b) => b = q \/ (QueryIn(h.res, b) /\ f[b] = h.res[b])
    BY DEF QueryIn
  <1>13. \A b \in Address : b # a /\ RowIn(f, b) => RowIn(h.res, b) /\ f[b] = h.res[b]
    <2>1. ~ RowIn(f, q)
      BY Kinds
    <2> QED BY <2>1 DEF RowIn
  <1>14. Shown(f)
    <2>1. ~ QueryIn(f, a)
      BY <1>3, Kinds
    <2> QED BY <1>2, <1>11, <1>12, <2>1 DEF Shown
  <1>15. Read(f, handle, NULL)
    BY <1>5, <1>11, <1>13 DEF Read, MoreToRead
  <1>16. Dead(f, aborted)
    BY <1>11, <1>13 DEF Dead
  <1> QED BY <1>3, <1>5, <1>8, <1>9, <1>14, <1>15, <1>16 DEF HeldBy

(* The application gets a handle of a row set that is read on. *)
Given(f, r, q, visible, g) == g = [f EXCEPT ![r].refs = @ + 1, ![q].visible = visible]

LEMMA GivenHeap ==
  ASSUME NEW f \in Resources, NEW given \in [Address -> Nat], NEW kept, kept \subseteq Address,
         HeapOK(f, given, kept), Shown(f), NEW ts, Dead(f, ts),
         NEW q \in Address, NEW r \in Address, RowIn(f, r), HeldBy(f, q, r),
         Read(f, given, r), ~ MoreToRead(f, r), NEW visible \in BOOLEAN,
         NEW g, Given(f, r, q, visible, g),
         NEW gave \in [Address -> Nat], OneMore(given, gave, r)
  PROVE  /\ g \in Resources /\ HeapOK(g, gave, kept) /\ Shown(g) /\ Dead(g, ts)
         /\ Read(g, gave, NULL)
         /\ \A a \in Address : g[a] = NULL <=> f[a] = NULL
  <1>1. QueryIn(f, q) /\ f[q].lastRowSet = r /\ f[q] \in Query /\ f[r] \in RowSet /\ q # r
    BY Kinds DEF HeldBy
  <1>2. PICK x, y : x = [f[r] EXCEPT !.refs = @ + 1] /\ y = [f[q] EXCEPT !.visible = visible]
    OBVIOUS
  <1>3. /\ x \in RowSet /\ x.refs = f[r].refs + 1 /\ x.closed = f[r].closed
        /\ x.rows = f[r].rows /\ x.remaining = f[r].remaining /\ x.status = f[r].status
        /\ x.unread = f[r].unread /\ x.connection = f[r].connection
        /\ x.transactionId = f[r].transactionId
    BY <1>1, <1>2 DEF RowSet
  <1>4. y \in Query /\ y.lastRowSet = r
    BY <1>1, <1>2 DEF Query
  <1>5. /\ g = [f EXCEPT ![r] = x, ![q] = y]
        /\ g[r] = x /\ g[q] = y /\ \A a \in Address \ {q, r} : g[a] = f[a]
    BY <1>1, <1>2 DEF Resources, Given
  <1>6. g \in Resources
    BY <1>3, <1>4, <1>5 DEF Resources
  <1>7. RowIn(g, r) /\ QueryIn(g, q) /\ HeldBy(g, q, r)
    BY <1>3, <1>4, <1>5, <1>6, Kinds DEF HeldBy
  <1>8. HeapOK(g, gave, kept)
    <2>1. /\ g[r].refs = f[r].refs + 1 /\ g[r].closed = f[r].closed
          /\ g[r].rows = f[r].rows /\ g[r].remaining = f[r].remaining
          /\ g[r].unread = f[r].unread /\ g[r].connection = f[r].connection
      BY <1>3, <1>5
    <2>2. Handed(f, g, q, r)
      BY <1>5, <1>7, <2>1 DEF Handed
    <2> QED BY <1>6, <2>2, HandleKeeps
  <1>10. ~ RowIn(g, q) /\ ~ QueryIn(g, r) /\ g[q] # NULL /\ g[r] # NULL /\ f[q] # NULL /\ f[r] # NULL
    BY <1>1, <1>6, <1>7, Kinds DEF RowIn, QueryIn
  <1>11. \A a \in Address : g[a] = NULL <=> f[a] = NULL
    BY <1>5, <1>10
  <1>12. \A a \in Address \ {r} : RowIn(g, a) => RowIn(f, a) /\ g[a] = f[a]
    BY <1>5, <1>10 DEF RowIn
  <1>13. \A a \in Address \ {q} : QueryIn(g, a) => QueryIn(f, a) /\ g[a] = f[a]
    BY <1>5, <1>10 DEF QueryIn
  <1>14. Shown(g)
    <2>1. r # NULL
      BY RowSetsAssumption DEF Address
    <2> QED BY <1>4, <1>5, <1>13, <2>1 DEF Shown
  <1>15. Dead(g, ts)
    BY <1>3, <1>5, <1>12 DEF Dead
  <1>16. Read(g, gave, NULL)
    <2>1. ~ MoreToRead(g, r)
      BY <1>3, <1>5 DEF MoreToRead
    <2> QED BY <1>12, <2>1 DEF Read, MoreToRead, OneMore
  <1> QED BY <1>6, <1>8, <1>11, <1>14, <1>15, <1>16

LEMMA CountOf ==
  ASSUME IInv, NEW h \in HeapRecord, NEW f, Count([h EXCEPT !.res = f]),
         \A a \in Address : resource'[a] = NULL <=> f[a] = NULL,
         (closed' /\ pc' # "releasing") <=> (closed /\ pc # "releasing")
  PROVE  CountInv' /\ referenceCount' \in Nat
  <1> DEFINE own == IF closed /\ pc # "releasing" THEN 0 ELSE 1
  <1>1. referenceCount = Number(resource) + own
    BY DEF IInv, CountInv, Number, Active
  <1>2. PICK k : k = [h EXCEPT !.res = f]
    OBVIOUS
  <1>3. k.res = f /\ Count(k)
    BY <1>2 DEF HeapRecord
  <1>4. {a \in Address : f[a] # NULL} = {a \in Address : resource'[a] # NULL}
    OBVIOUS
  <1>5. referenceCount' = referenceCount + Number(resource') - Number(resource)
    BY <1>3, <1>4 DEF Count, Number, Active
  <1>6. Number(resource) \in Nat /\ Number(resource') \in Nat /\ own \in Nat
    BY NumberType
  <1> HIDE DEF own
  <1>7. referenceCount' = Number(resource') + own
    BY <1>1, <1>5, <1>6
  <1>8. referenceCount' \in Nat
    BY <1>6, <1>7
  <1>9. own = IF closed' /\ pc' # "releasing" THEN 0 ELSE 1
    BY DEF own
  <1> QED BY <1>7, <1>8, <1>9 DEF CountInv, Number, Active

(* The query was not executed, and perhaps the connection has failed. *)
LEMMA NoResult ==
  ASSUME IInv, pc = "idle", NEW q \in Address, QueryIn(resource, q),
         NEW h \in ClearLastRowSet(Now, q), NEW g \in {h} \cup Broken(h), Become(g), Count(g),
         handle' = handle, closed' = closed, autoCommit' = autoCommit,
         transactionId' = transactionId, transactionStarted' = transactionStarted,
         pc' = pc, subject' = subject, then' = then, stack' = stack, aborted' = aborted,
         calls' = calls + 1
  PROVE  IInv'
  <1>1. /\ h \in HeapRecord /\ h.res \in Resources /\ HeapOK(h.res, handle, h.server)
        /\ Shrinks(resource, h.res)
    BY ClearNow
  <1>2. /\ g \in HeapRecord /\ g.res \in Resources /\ HeapOK(g.res, handle, g.server)
        /\ Shrinks(resource, g.res)
    <2>1. CASE g = h
      BY <1>1, <2>1
    <2>2. CASE g \in Broken(h)
      BY <1>1, <2>2, NowRecord, BrokenHeap, ShrinkTwice
    <2> QED BY <2>1, <2>2
  <1>3. /\ resource' = g.res /\ resource' \in Resources
        /\ server' \in SUBSET Address /\ breaks' \in Nat
        /\ HeapInv' /\ ShownInv'
        /\ \A what, at : Passed(resource, what, at) => Passed(resource', what, at)
        /\ \A ts : Dead(resource, ts) => Dead(resource', ts)
        /\ \A s : Read(resource, handle, s) => Read(resource', handle', s)
    BY <1>2, NowRecord, ShrinkStep
  <1>4. CountInv' /\ referenceCount' \in Nat
    BY <1>3, CountStep
  <1>5. TypeOK'
    BY <1>3, <1>4 DEF IInv, TypeOK, Resources
  <1>6. FollowInv' /\ ClosingInv'
    BY DEF FollowInv, ClosingInv
  <1>7. ClosedInv'
    BY <1>3 DEF IInv, ClosedInv
  <1>8. ReadInv'
    BY <1>3 DEF IInv, ReadInv
  <1>9. AbortedInv'
    BY <1>3 DEF IInv, AbortedInv
  <1> QED BY <1>3, <1>4, <1>5, <1>6, <1>7, <1>8, <1>9 DEF IInv

LEMMA FetchAllStep ==
  ASSUME IInv, NEW q \in Address, NEW mode \in Mode, FetchAll(q, mode)
  PROVE  IInv'
  <1>1. /\ pc = "idle" /\ calls' = calls + 1 /\ stack' = stack
        /\ QueryIn(resource, q) /\ handle[q] > 0 /\ ~ closed
        /\ handle' = handle
        /\ closed' = closed /\ autoCommit' = autoCommit /\ transactionId' = transactionId
        /\ transactionStarted' = transactionStarted
        /\ pc' = pc /\ subject' = subject /\ then' = then /\ aborted' = aborted
    BY DEF FetchAll, Call, IsQuery, QueryIn, transaction, Opened
  <1>2. PICK h \in ClearLastRowSet(Now, q) :
          \/ \E g \in {h} \cup Broken(h) : Become(g) /\ Count(g)
          \/ \E a \in {b \in Address : h.res[b] = NULL}, reply \in Replies(mode) :
               LET f == [h.res EXCEPT ![q].lastRowSet = a, ![q].visible = TRUE,
                           ![a] = NewRowSet(reply, transactionStarted, 1)]
               IN /\ resource' = f
                  /\ server' = IF reply.remaining > 0 THEN h.server \cup {a} ELSE h.server
                  /\ breaks' = h.breaks
                  /\ Count([h EXCEPT !.res = f])
    BY DEF FetchAll
  <1>3. CASE \E g \in {h} \cup Broken(h) : Become(g) /\ Count(g)
    BY <1>1, <1>3, NoResult
  <1>4. ASSUME NEW a \in {b \in Address : h.res[b] = NULL}, NEW reply \in Replies(mode),
               resource' = [h.res EXCEPT ![q].lastRowSet = a, ![q].visible = TRUE,
                              ![a] = NewRowSet(reply, transactionStarted, 1)],
               server' = IF reply.remaining > 0 THEN h.server \cup {a} ELSE h.server,
               breaks' = h.breaks,
               Count([h EXCEPT !.res = resource'])
        PROVE  IInv'
    <2>1. /\ h \in HeapRecord /\ h.res \in Resources /\ h.server \in SUBSET Address
          /\ h.breaks \in Nat /\ QueryIn(h.res, q)
      BY <1>1, ClearNow
    <2>2. PICK x : x = NewRowSet(reply, transactionStarted, 1)
      OBVIOUS
    <2>3. transactionStarted \in BOOLEAN /\ calls \in Nat
      BY DEF IInv, TypeOK
    <2>4. /\ x \in RowSet /\ x.refs = 1 /\ ~ x.closed /\ x.unread = x.rows + x.remaining
          /\ reply.remaining > 0 => x.connection = "current"
          /\ x.transactionId \notin aborted
      BY <2>2, <2>3, NewRowSetType
    <2>5. PICK f : f = resource'
      OBVIOUS
    <2>6. f = [h.res EXCEPT ![q].lastRowSet = a, ![q].visible = TRUE, ![a] = x]
      BY <1>4, <2>2, <2>5
    <2>7. /\ f \in Resources /\ f[a] = x /\ QueryIn(f, q) /\ f[q].lastRowSet = a
          /\ \A b \in Address \ {q, a} : f[b] = h.res[b]
      <3>1. a \in Address /\ h.res[a] = NULL /\ h.res[q] \in Query
        BY <2>1, Kinds
      <3>2. PICK w : w = [h.res[q] EXCEPT !.lastRowSet = a, !.visible = TRUE]
        OBVIOUS
      <3>3. w \in Query /\ w.lastRowSet = a
        BY <3>1, <3>2 DEF Query
      <3>4. q # a
        BY <2>1, <3>1 DEF QueryIn
      <3>5. f = [h.res EXCEPT ![q] = w, ![a] = x]
        BY <2>1, <2>6, <3>1, <3>2, <3>4 DEF Resources
      <3>6. f[a] = x /\ f[q] = w /\ \A b \in Address \ {q, a} : f[b] = h.res[b]
        BY <2>1, <3>1, <3>4, <3>5 DEF Resources
      <3>7. f \in Resources
        BY <2>1, <2>4, <3>3, <3>5 DEF Resources
      <3> QED BY <3>3, <3>6, <3>7, Kinds
    <2>8. server' = h.server \/ (server' = h.server \cup {a} /\ x.connection = "current")
      BY <1>4, <2>4
    <2>9. PICK left : left = server'
      OBVIOUS
    <2>10. /\ HeapOK(f, handle, left) /\ left \in SUBSET Address /\ Shown(f)
           /\ Read(f, handle, NULL) /\ Dead(f, aborted)
      BY <1>1, <2>4, <2>7, <2>8, <2>9, OpenedHeap
    <2>11. HeapInv' /\ ShownInv'
      BY <1>1, <2>5, <2>9, <2>10 DEF HeapInv, ShownInv
    <2>12. CountInv' /\ referenceCount' \in Nat
      BY <1>1, <1>4, <2>1, CountOf
    <2>13. TypeOK'
      <3>1. calls' \in Nat
        BY <1>1, <2>3
      <3> QED BY <1>1, <1>4, <2>1, <2>5, <2>7, <2>9, <2>10, <2>12, <3>1
              DEF IInv, TypeOK, Resources
    <2>14. FollowInv' /\ ClosingInv' /\ ClosedInv'
      BY <1>1 DEF FollowInv, ClosingInv, ClosedInv
    <2>15. ReadInv'
      BY <1>1, <2>5, <2>10 DEF ReadInv
    <2>16. AbortedInv'
      BY <1>1, <2>5, <2>10 DEF IInv, AbortedInv
    <2> QED BY <2>11, <2>12, <2>13, <2>14, <2>15, <2>16 DEF IInv
  <1>5. CASE \E a \in {b \in Address : h.res[b] = NULL}, reply \in Replies(mode) :
               LET f == [h.res EXCEPT ![q].lastRowSet = a, ![q].visible = TRUE,
                           ![a] = NewRowSet(reply, transactionStarted, 1)]
               IN /\ resource' = f
                  /\ server' = IF reply.remaining > 0 THEN h.server \cup {a} ELSE h.server
                  /\ breaks' = h.breaks
                  /\ Count([h EXCEPT !.res = f])
    <2>1. PICK a \in {b \in Address : h.res[b] = NULL}, reply \in Replies(mode) :
            /\ resource' = [h.res EXCEPT ![q].lastRowSet = a, ![q].visible = TRUE,
                              ![a] = NewRowSet(reply, transactionStarted, 1)]
            /\ server' = IF reply.remaining > 0 THEN h.server \cup {a} ELSE h.server
            /\ breaks' = h.breaks
            /\ Count([h EXCEPT !.res = [h.res EXCEPT ![q].lastRowSet = a, ![q].visible = TRUE,
                              ![a] = NewRowSet(reply, transactionStarted, 1)]])
      BY <1>5
    <2>2. Count([h EXCEPT !.res = resource'])
      BY <2>1
    <2> QED BY <1>4, <2>1, <2>2
  <1> QED BY <1>2, <1>3, <1>5

(* The query q was executed: its row set is read on first, or given. *)
Executed(h, q, a, x, f) ==
  /\ f = [h.res EXCEPT ![q].lastRowSet = a, ![a] = x]
  /\ Count([h EXCEPT !.res = f])

Delivered(f, a, q) ==
  IF MoreToRead(f, a)
  THEN /\ pc' = "following" /\ subject' = a /\ then' = "fetch"
       /\ resource' = f /\ handle' = handle
  ELSE /\ GiveHandle(f, a, q, TRUE)
       /\ pc' = pc /\ subject' = subject /\ then' = then

LEMMA Fetched ==
  ASSUME IInv, pc = "idle", ~ closed, calls' = calls + 1, stack' = stack, closed' = closed,
         aborted' = aborted, autoCommit' = autoCommit, transactionId' = transactionId,
         transactionStarted' \in BOOLEAN,
         NEW mode \in Mode, NEW q \in Address, QueryIn(resource, q),
         NEW h \in ClearLastRowSet(Now, q), NEW a \in Address, h.res[a] = NULL,
         NEW reply \in Replies(mode), NEW x, x = NewRowSet(reply, transactionStarted', 1),
         server' = IF reply.remaining > 0 THEN h.server \cup {a} ELSE h.server,
         breaks' = h.breaks, NEW f, Executed(h, q, a, x, f), Delivered(f, a, q)
  PROVE  IInv'
  <1>1. /\ h \in HeapRecord /\ h.res \in Resources /\ h.server \in SUBSET Address
        /\ h.breaks \in Nat /\ QueryIn(h.res, q)
    BY ClearNow
  <1>2. /\ x \in RowSet /\ x.refs = 1 /\ ~ x.closed /\ x.unread = x.rows + x.remaining
        /\ reply.remaining > 0 => x.connection = "current"
        /\ x.transactionId \notin aborted
    <2>1. PICK s \in BOOLEAN : s = transactionStarted'
      OBVIOUS
    <2>2. x = NewRowSet(reply, s, 1)
      BY <2>1
    <2> QED BY <2>2, NewRowSetType
  <1>3. /\ f \in Resources /\ f[a] = x /\ QueryIn(f, q) /\ f[q].lastRowSet = a
        /\ \A b \in Address \ {q, a} : f[b] = h.res[b]
    <2>1. h.res[q] \in Query
      BY <1>1, Kinds
    <2>2. PICK w : w = [h.res[q] EXCEPT !.lastRowSet = a]
      OBVIOUS
    <2>3. w \in Query /\ w.lastRowSet = a
      BY <2>1, <2>2 DEF Query
    <2>4. q # a
      BY <1>1 DEF QueryIn
    <2>5. f = [h.res EXCEPT ![q] = w, ![a] = x]
      BY <1>1, <2>2, <2>4 DEF Resources, Executed
    <2>6. f[a] = x /\ f[q] = w /\ \A b \in Address \ {q, a} : f[b] = h.res[b]
      BY <1>1, <2>4, <2>5 DEF Resources
    <2>7. f \in Resources
      BY <1>1, <1>2, <2>3, <2>5 DEF Resources
    <2> QED BY <2>3, <2>6, <2>7, Kinds
  <1>4. PICK left : left = server'
    OBVIOUS
  <1>5. left = h.server \/ (left = h.server \cup {a} /\ x.connection = "current")
    BY <1>2, <1>4
  <1>6. /\ HeapOK(f, handle, left) /\ left \in SUBSET Address /\ Shown(f)
        /\ Read(f, handle, NULL) /\ Dead(f, aborted) /\ handle[a] = 0
        /\ RowIn(f, a) /\ HeldBy(f, q, a) /\ q # a
    BY <1>2, <1>3, <1>5, OpenedHeap
  <1>7. breaks' \in Nat /\ calls' \in Nat /\ handle \in [Address -> Nat]
    BY <1>1 DEF IInv, TypeOK
  <1>8. CASE MoreToRead(f, a)
    <2>1. /\ pc' = "following" /\ subject' = a /\ then' = "fetch"
          /\ resource' = f /\ handle' = handle
      BY <1>8 DEF Delivered
    <2>2. HeapInv' /\ ShownInv'
      BY <1>4, <1>6, <2>1 DEF HeapInv, ShownInv
    <2>3. CountInv' /\ referenceCount' \in Nat
      <3>1. Count([h EXCEPT !.res = f])
        BY DEF Executed
      <3> QED BY <1>1, <2>1, <3>1, CountOf
    <2>4. TypeOK'
      BY <1>3, <1>4, <1>6, <1>7, <2>1, <2>3 DEF IInv, TypeOK, Resources
    <2>5. FollowInv'
      BY <1>2, <1>3, <1>6, <1>8, <2>1 DEF FollowInv, MoreToRead
    <2>6. ClosingInv' /\ ClosedInv'
      BY <2>1 DEF ClosingInv, ClosedInv
    <2>7. ReadInv'
      <3>1. Read(f, handle, a)
        BY <1>6, NowRecord DEF Read
      <3> QED BY <2>1, <3>1 DEF ReadInv
    <2>8. AbortedInv'
      BY <1>6, <2>1 DEF IInv, AbortedInv
    <2> QED BY <2>2, <2>3, <2>4, <2>5, <2>6, <2>7, <2>8 DEF IInv
  <1>9. CASE ~ MoreToRead(f, a)
    <2>1. /\ resource' = [f EXCEPT ![a].refs = @ + 1, ![q].visible = TRUE]
          /\ handle' = [handle EXCEPT ![a] = @ + 1]
          /\ pc' = pc /\ subject' = subject /\ then' = then
      BY <1>9 DEF GiveHandle, Delivered
    <2>2. Read(f, handle, a)
      BY <1>6, NowRecord DEF Read
    <2>3. PICK g, gave : g = resource' /\ gave = handle'
      OBVIOUS
    <2>4. /\ g \in Resources /\ HeapOK(g, gave, left) /\ Shown(g) /\ Dead(g, aborted)
          /\ Read(g, gave, NULL) /\ gave \in [Address -> Nat]
          /\ \A b \in Address : g[b] = NULL <=> f[b] = NULL
      <3>1. PICK visible \in BOOLEAN : visible = TRUE
        OBVIOUS
      <3>2. Given(f, a, q, visible, g)
        BY <2>1, <2>3, <3>1 DEF Given
      <3>3. gave \in [Address -> Nat] /\ OneMore(handle, gave, a)
        BY <1>7, <2>1, <2>3 DEF OneMore
      <3>4. left \subseteq Address /\ RowIn(f, a) /\ HeldBy(f, q, a)
        BY <1>6
      <3> QED BY <1>3, <1>6, <1>7, <1>9, <2>2, <3>2, <3>3, <3>4, GivenHeap
    <2>5. HeapInv' /\ ShownInv'
      BY <1>4, <2>3, <2>4 DEF HeapInv, ShownInv
    <2>6. CountInv' /\ referenceCount' \in Nat
      <3>1. Count([h EXCEPT !.res = f])
        BY DEF Executed
      <3>2. \A b \in Address : resource'[b] = NULL <=> f[b] = NULL
        BY <2>3, <2>4
      <3>3. pc' = pc /\ pc = "idle"
        BY <2>1
      <3> QED BY <1>1, <3>1, <3>2, <3>3, CountOf
    <2>7. TypeOK'
      BY <1>4, <1>6, <1>7, <2>1, <2>3, <2>4, <2>6 DEF IInv, TypeOK, Resources
    <2>8. FollowInv' /\ ClosingInv' /\ ClosedInv'
      BY <2>1 DEF FollowInv, ClosingInv, ClosedInv
    <2>9. ReadInv'
      BY <2>1, <2>3, <2>4 DEF ReadInv
    <2>10. AbortedInv'
      BY <2>1, <2>3, <2>4 DEF IInv, AbortedInv
    <2> QED BY <2>5, <2>6, <2>7, <2>8, <2>9, <2>10 DEF IInv
  <1> QED BY <1>8, <1>9

LEMMA FetchStep ==
  ASSUME IInv, NEW q \in Address, NEW mode \in Mode, NEW forUpdate \in BOOLEAN,
         Fetch(q, mode, forUpdate)
  PROVE  IInv'
  <1>1. /\ pc = "idle" /\ calls' = calls + 1 /\ stack' = stack
        /\ QueryIn(resource, q) /\ handle[q] > 0 /\ ~ closed
        /\ closed' = closed /\ aborted' = aborted
    BY DEF Fetch, Call, IsQuery, QueryIn, Opened
  <1>2. PICK h \in ClearLastRowSet(Now, q) :
     \/ /\ \E g \in {h} \cup Broken(h) : Become(g) /\ Count(g)
        /\ UNCHANGED <<handle, transaction, pc, subject, then>>
     \/ \E a \in {b \in Address : h.res[b] = NULL}, reply \in Replies(mode) :
          LET f == [h.res EXCEPT ![q].lastRowSet = a,
                      ![a] = NewRowSet(reply, transactionStarted \/ forUpdate, 1)]
          IN /\ transactionStarted' = (transactionStarted \/ forUpdate)
             /\ server' = IF reply.remaining > 0 THEN h.server \cup {a} ELSE h.server
             /\ breaks' = h.breaks
             /\ Count([h EXCEPT !.res = f])
             /\ IF MoreToRead(f, a)
                THEN /\ pc' = "following" /\ subject' = a /\ then' = "fetch"
                     /\ resource' = f /\ UNCHANGED handle
                ELSE /\ GiveHandle(f, a, q, TRUE)
                     /\ UNCHANGED <<pc, subject, then>>
             /\ UNCHANGED <<autoCommit, transactionId>>
    BY DEF Fetch
  <1>3. CASE /\ \E g \in {h} \cup Broken(h) : Become(g) /\ Count(g)
             /\ UNCHANGED <<handle, transaction, pc, subject, then>>
    <2>1. /\ handle' = handle /\ autoCommit' = autoCommit /\ transactionId' = transactionId
          /\ transactionStarted' = transactionStarted
          /\ pc' = pc /\ subject' = subject /\ then' = then
      BY <1>3 DEF transaction
    <2> QED BY <1>1, <1>3, <2>1, NoResult
  <1>4. CASE
     \E a \in {b \in Address : h.res[b] = NULL}, reply \in Replies(mode) :
          LET f == [h.res EXCEPT ![q].lastRowSet = a,
                      ![a] = NewRowSet(reply, transactionStarted \/ forUpdate, 1)]
          IN /\ transactionStarted' = (transactionStarted \/ forUpdate)
             /\ server' = IF reply.remaining > 0 THEN h.server \cup {a} ELSE h.server
             /\ breaks' = h.breaks
             /\ Count([h EXCEPT !.res = f])
             /\ IF MoreToRead(f, a)
                THEN /\ pc' = "following" /\ subject' = a /\ then' = "fetch"
                     /\ resource' = f /\ UNCHANGED handle
                ELSE /\ GiveHandle(f, a, q, TRUE)
                     /\ UNCHANGED <<pc, subject, then>>
             /\ UNCHANGED <<autoCommit, transactionId>>
    <2>1. PICK a \in {b \in Address : h.res[b] = NULL}, reply \in Replies(mode) :
             /\ transactionStarted' = (transactionStarted \/ forUpdate)
             /\ server' = IF reply.remaining > 0 THEN h.server \cup {a} ELSE h.server
             /\ breaks' = h.breaks
             /\ autoCommit' = autoCommit /\ transactionId' = transactionId
             /\ \E f, x :
                  /\ x = NewRowSet(reply, transactionStarted \/ forUpdate, 1)
                  /\ Executed(h, q, a, x, f) /\ Delivered(f, a, q)
      BY <1>4 DEF Executed, Delivered
    <2>2. PICK f, x :
                  /\ x = NewRowSet(reply, transactionStarted \/ forUpdate, 1)
                  /\ Executed(h, q, a, x, f) /\ Delivered(f, a, q)
      BY <2>1
    <2>3. x = NewRowSet(reply, transactionStarted', 1)
      BY <2>1, <2>2
    <2>4. transactionStarted' \in BOOLEAN
      BY <2>1 DEF IInv, TypeOK
    <2>5. a \in Address /\ h.res[a] = NULL
      OBVIOUS
    <2> QED BY <1>1, <2>1, <2>2, <2>3, <2>4, <2>5, Fetched
  <1> QED BY <1>2, <1>3, <1>4

(* The row set r has other rows, and no other resource has changed. *)
ReadOn(f, g, r) ==
  /\ RowIn(g, r) /\ g[r].refs = f[r].refs /\ ~ g[r].closed
  /\ g[r].transactionId = f[r].transactionId
  /\ g[r].unread = g[r].rows + g[r].remaining
  /\ \A a \in Address \ {r} : g[a] = f[a]

LEMMA ReadOnHeap ==
  ASSUME NEW f \in Resources, NEW given \in [Address -> Nat], NEW kept, kept \subseteq Address,
         HeapOK(f, given, kept), Shown(f), NEW ts, Dead(f, ts),
         NEW r \in Address, RowIn(f, r), ~ f[r].closed, Read(f, given, r),
         NEW g \in Resources, ReadOn(f, g, r),
         NEW left, left \subseteq kept, r \in left => g[r].connection = "current"
  PROVE  /\ HeapOK(g, given, left) /\ Shown(g) /\ Dead(g, ts) /\ Read(g, given, r)
         /\ \A a \in Address : g[a] = NULL <=> f[a] = NULL
  <1>1. /\ RowIn(g, r) /\ g[r].refs = f[r].refs /\ ~ g[r].closed
        /\ g[r].transactionId = f[r].transactionId
        /\ g[r].unread = g[r].rows + g[r].remaining
        /\ \A a \in Address \ {r} : g[a] = f[a]
    BY DEF ReadOn
  <1>2. OwnedOK(f, kept)
    BY DEF HeapOK
  <1>3. \A a \in Address :
          /\ QueryIn(g, a) <=> QueryIn(f, a)
          /\ RowIn(g, a) <=> RowIn(f, a)
          /\ g[a] = NULL <=> f[a] = NULL
          /\ QueryIn(f, a) => g[a] = f[a]
          /\ RowIn(f, a) => g[a].refs = f[a].refs /\ g[a].transactionId = f[a].transactionId
    <2> TAKE a \in Address
    <2>1. CASE a = r
      BY <1>1, <2>1, Kinds DEF RowIn
    <2>2. CASE a # r
      BY <1>1, <2>2 DEF RowIn, QueryIn
    <2> QED BY <2>1, <2>2
  <1>4. \A a \in Address : RowIn(g, a) /\ ~ g[a].closed =>
          ~ f[a].closed /\ g[a].unread = g[a].rows + g[a].remaining
    <2> TAKE a \in Address
    <2>1. CASE a = r
      BY <1>1, <2>1
    <2>2. CASE a # r
      BY <1>1, <1>2, <1>3, <2>2 DEF OwnedOK
    <2> QED BY <2>1, <2>2
  <1>5. \A k \in left : RowIn(g, k) /\ ~ g[k].closed /\ g[k].connection = "current"
    <2> TAKE k \in left
    <2>1. CASE k = r
      BY <1>1, <2>1
    <2>2. CASE k # r
      BY <1>1, <1>2, <1>3, <2>2 DEF OwnedOK
    <2> QED BY <2>1, <2>2
  <1>6. HeapOK(g, given, left)
    BY <1>3, <1>4, <1>5, AlikeKeeps
  <1>7. Shown(g)
    BY <1>3 DEF Shown
  <1>8. Dead(g, ts)
    <2>1. f[r].transactionId \notin ts
      BY DEF Dead
    <2> QED BY <1>1, <1>3, <2>1 DEF Dead
  <1>9. Read(g, given, r)
    BY <1>1, <1>3 DEF Read, MoreToRead
  <1> QED BY <1>3, <1>6, <1>7, <1>8, <1>9

LEMMA GetRowSetStep ==
  ASSUME IInv, NEW q \in Address, GetRowSet(q)
  PROVE  IInv'
  <1>1. PICK r : r = resource[q].lastRowSet
    OBVIOUS
  <1>2. /\ pc = "idle" /\ calls' = calls + 1 /\ stack' = stack
        /\ QueryIn(resource, q) /\ resource[q].visible /\ ~ closed
        /\ ~ resource[r].closed
        /\ IF MoreToRead(resource, r)
           THEN /\ pc' = "following" /\ subject' = r /\ then' = "getRowSet"
                /\ resource' = resource /\ handle' = handle
           ELSE /\ GiveHandle(resource, r, q, FALSE)
                /\ pc' = pc /\ subject' = subject /\ then' = then
        /\ server' = server /\ breaks' = breaks
        /\ closed' = closed /\ referenceCount' = referenceCount
        /\ autoCommit' = autoCommit /\ transactionId' = transactionId
        /\ transactionStarted' = transactionStarted /\ aborted' = aborted
    BY <1>1 DEF GetRowSet, Call, IsQuery, QueryIn, Opened, transaction
  <1>3. r # NULL
    BY <1>1, <1>2 DEF IInv, ShownInv, Shown
  <1>4. r \in Address /\ RowIn(resource, r) /\ HeldBy(resource, q, r)
    BY <1>1, <1>2, <1>3, NowRecord DEF LinksOK, HeldBy
  <1>5. Read(resource, handle, NULL) /\ Dead(resource, aborted) /\ Shown(resource)
    BY <1>2 DEF IInv, ReadInv, AbortedInv, ShownInv
  <1>6. Read(resource, handle, r)
    BY <1>5, NowRecord DEF Read
  <1>7. calls' \in Nat
    BY <1>2 DEF IInv, TypeOK
  <1>8. CASE MoreToRead(resource, r)
    <2>1. /\ pc' = "following" /\ subject' = r /\ then' = "getRowSet"
          /\ resource' = resource /\ handle' = handle
      BY <1>2, <1>8
    <2>2. HeapInv' /\ ShownInv' /\ CountInv'
      BY <1>2, <2>1 DEF IInv, HeapInv, ShownInv, CountInv, Active
    <2>3. TypeOK'
      BY <1>2, <1>4, <1>7, <2>1 DEF IInv, TypeOK
    <2>4. FollowInv'
      BY <1>2, <1>4, <1>8, <2>1 DEF FollowInv, MoreToRead
    <2>5. ClosingInv' /\ ClosedInv'
      BY <1>2, <2>1 DEF ClosingInv, ClosedInv
    <2>6. ReadInv'
      BY <1>6, <2>1 DEF ReadInv
    <2>7. AbortedInv'
      BY <1>2, <2>1 DEF IInv, AbortedInv
    <2> QED BY <2>2, <2>3, <2>4, <2>5, <2>6, <2>7 DEF IInv
  <1>9. CASE ~ MoreToRead(resource, r)
    <2>1. /\ resource' = [resource EXCEPT ![r].refs = @ + 1, ![q].visible = FALSE]
          /\ handle' = [handle EXCEPT ![r] = @ + 1]
          /\ pc' = pc /\ subject' = subject /\ then' = then
      BY <1>2, <1>9 DEF GiveHandle
    <2>2. PICK g, gave : g = resource' /\ gave = handle'
      OBVIOUS
    <2>3. gave \in [Address -> Nat] /\ OneMore(handle, gave, r)
      BY <1>4, <2>1, <2>2, NowRecord DEF OneMore
    <2>4. /\ g \in Resources /\ HeapOK(g, gave, server) /\ Shown(g) /\ Dead(g, aborted)
          /\ Read(g, gave, NULL)
          /\ \A b \in Address : g[b] = NULL <=> resource[b] = NULL
      <3>1. PICK visible \in BOOLEAN : visible = FALSE
        OBVIOUS
      <3>2. Given(resource, r, q, visible, g)
        BY <2>1, <2>2, <3>1 DEF Given
      <3>3. /\ HeapOK(resource, handle, server) /\ server \subseteq Address
            /\ handle \in [Address -> Nat] /\ resource \in Resources
        BY NowRecord
      <3> QED BY <1>4, <1>5, <1>6, <1>9, <2>3, <3>2, <3>3, GivenHeap
    <2>5. HeapInv' /\ ShownInv'
      BY <1>2, <2>2, <2>4 DEF HeapInv, ShownInv
    <2>6. CountInv'
      <3>1. Active' = Active
        BY <2>2, <2>4 DEF Active
      <3> QED BY <1>2, <2>1, <3>1 DEF IInv, CountInv
    <2>7. TypeOK'
      BY <1>2, <1>7, <2>1, <2>2, <2>3, <2>4 DEF IInv, TypeOK, Resources
    <2>8. FollowInv' /\ ClosingInv' /\ ClosedInv'
      BY <1>2, <2>1 DEF FollowInv, ClosingInv, ClosedInv
    <2>9. ReadInv'
      BY <1>2, <2>1, <2>2, <2>4 DEF ReadInv
    <2>10. AbortedInv'
      BY <1>2, <2>1, <2>2, <2>4 DEF IInv, AbortedInv
    <2> QED BY <2>5, <2>6, <2>7, <2>8, <2>9, <2>10 DEF IInv
  <1> QED BY <1>8, <1>9

LEMMA NextRowStep ==
  ASSUME IInv, NEW r \in Address, NextRow(r)
  PROVE  IInv'
  <1>1. /\ pc = "idle" /\ calls' = calls + 1 /\ stack' = stack
        /\ RowIn(resource, r) /\ handle[r] > 0 /\ ~ closed /\ ~ resource[r].closed
        /\ resource[r].rows > 0
        /\ resource' = [resource EXCEPT ![r].rows = @ - 1, ![r].unread = @ - 1]
        /\ IF MoreToRead(resource', r)
           THEN pc' = "following" /\ subject' = r /\ then' = "next"
           ELSE pc' = pc /\ subject' = subject /\ then' = then
        /\ handle' = handle /\ server' = server /\ breaks' = breaks
        /\ closed' = closed /\ referenceCount' = referenceCount
        /\ autoCommit' = autoCommit /\ transactionId' = transactionId
        /\ transactionStarted' = transactionStarted /\ aborted' = aborted
    BY DEF NextRow, Call, IsRowSet, RowIn, Opened, transaction
  <1>2. resource[r] \in RowSet /\ resource[r].unread = resource[r].rows + resource[r].remaining
    BY <1>1, NowRecord, Kinds DEF OwnedOK
  <1>3. PICK x : x = [resource[r] EXCEPT !.rows = @ - 1, !.unread = @ - 1]
    OBVIOUS
  <1>4. /\ x \in RowSet /\ x.refs = resource[r].refs /\ x.closed = resource[r].closed
        /\ x.rows = resource[r].rows - 1 /\ x.unread = resource[r].unread - 1
        /\ x.remaining = resource[r].remaining /\ x.connection = resource[r].connection
        /\ x.transactionId = resource[r].transactionId
    <2>1. /\ resource[r].rows \in 0 .. MaxRows /\ resource[r].remaining \in 0 .. MaxRows
          /\ MaxRows \in Nat
      BY <1>2, RowSetsAssumption DEF RowSet
    <2>2. PICK n, u : n = resource[r].rows - 1 /\ u = resource[r].unread - 1
      OBVIOUS
    <2>3. n \in 0 .. MaxRows /\ u \in Nat
      BY <1>1, <1>2, <2>1, <2>2
    <2>4. x = [resource[r] EXCEPT !.rows = n, !.unread = u]
      BY <1>3, <2>2
    <2> QED BY <1>2, <2>2, <2>3, <2>4 DEF RowSet
  <1>5. PICK g : g = resource'
    OBVIOUS
  <1>6. g = [resource EXCEPT ![r] = x]
    BY <1>1, <1>3, <1>5, NowRecord DEF Resources
  <1>7. g \in Resources /\ g[r] = x /\ \A a \in Address \ {r} : g[a] = resource[a]
    BY <1>4, <1>6, NowRecord DEF Resources
  <1>8. RowIn(g, r)
    BY <1>4, <1>7, Kinds
  <1>9. x.unread = x.rows + x.remaining
    BY <1>2, <1>4 DEF RowSet
  <1>10. ReadOn(resource, g, r)
    BY <1>1, <1>4, <1>7, <1>8, <1>9 DEF ReadOn
  <1>11. Read(resource, handle, NULL) /\ Dead(resource, aborted) /\ Shown(resource)
    BY <1>1 DEF IInv, ReadInv, AbortedInv, ShownInv
  <1>12. Read(resource, handle, r)
    BY <1>11, NowRecord DEF Read
  <1>13. r \in server => g[r].connection = "current"
    BY <1>4, <1>7, NowRecord DEF OwnedOK
  <1>14. /\ HeapOK(g, handle, server) /\ Shown(g) /\ Dead(g, aborted) /\ Read(g, handle, r)
         /\ \A a \in Address : g[a] = NULL <=> resource[a] = NULL
    BY <1>1, <1>7, <1>10, <1>11, <1>12, <1>13, NowRecord, ReadOnHeap
  <1>15. HeapInv' /\ ShownInv'
    BY <1>1, <1>5, <1>14 DEF HeapInv, ShownInv
  <1>16. calls' \in Nat
    BY <1>1 DEF IInv, TypeOK
  <1>17. Active' = Active
    BY <1>5, <1>14 DEF Active
  <1>18. CASE MoreToRead(g, r)
    <2>1. pc' = "following" /\ subject' = r /\ then' = "next"
      BY <1>1, <1>5, <1>18
    <2>2. TypeOK'
      BY <1>1, <1>5, <1>7, <1>16, <2>1 DEF IInv, TypeOK, Resources
    <2>3. FollowInv'
      BY <1>1, <1>4, <1>5, <1>7, <1>8, <1>18, <2>1 DEF FollowInv, MoreToRead
    <2>4. ClosingInv' /\ ClosedInv'
      BY <1>1, <2>1 DEF ClosingInv, ClosedInv
    <2>5. ReadInv'
      BY <1>1, <1>5, <1>14, <2>1 DEF ReadInv
    <2>6. AbortedInv'
      BY <1>1, <1>5, <1>14, <2>1 DEF IInv, AbortedInv
    <2>7. CountInv'
      BY <1>1, <1>17, <2>1 DEF IInv, CountInv
    <2> QED BY <1>15, <2>2, <2>3, <2>4, <2>5, <2>6, <2>7 DEF IInv
  <1>19. CASE ~ MoreToRead(g, r)
    <2>1. pc' = pc /\ subject' = subject /\ then' = then
      BY <1>1, <1>5, <1>19
    <2>2. TypeOK'
      BY <1>1, <1>5, <1>7, <1>16, <2>1 DEF IInv, TypeOK, Resources
    <2>3. FollowInv' /\ ClosingInv' /\ ClosedInv'
      BY <1>1, <2>1 DEF FollowInv, ClosingInv, ClosedInv
    <2>4. ReadInv'
      <3>1. Read(g, handle, NULL)
        BY <1>14, <1>19 DEF Read
      <3> QED BY <1>1, <1>5, <2>1, <3>1 DEF ReadInv
    <2>5. AbortedInv'
      BY <1>1, <1>5, <1>14, <2>1 DEF IInv, AbortedInv
    <2>6. CountInv'
      BY <1>1, <1>17, <2>1 DEF IInv, CountInv
    <2> QED BY <1>15, <2>2, <2>3, <2>4, <2>5, <2>6 DEF IInv
  <1> QED BY <1>18, <1>19

(* What the failure to read on may have made of the heap before the row set *)
(* is closed.                                                              *)
Failing(h) ==
  /\ h \in HeapRecord /\ RowIn(h.res, subject)
  /\ h.res[subject].refs = resource[subject].refs
  /\ h.res[subject].transactionId = resource[subject].transactionId
  /\ \A a \in Address \ {subject} : Same(resource, h.res, a)
  /\ \A k \in h.server \ {subject} : k \in server /\ h.res[k] = resource[k]
  /\ subject \in h.server =>
       ~ h.res[subject].closed /\ h.res[subject].connection = "current"

LEMMA FollowingFailsStep ==
  ASSUME IInv, Follow, NEW h, Failing(h), FollowingFails(h)
  PROVE  IInv'
  <1>1. /\ pc = "following" /\ pc' = "idle" /\ subject' = NULL /\ then' = "none"
        /\ stack' = stack /\ calls' = calls /\ handle' = handle
        /\ closed' = closed /\ referenceCount' = referenceCount
        /\ autoCommit' = autoCommit /\ transactionId' = transactionId
        /\ transactionStarted' = transactionStarted /\ aborted' = aborted
    BY DEF Follow, FollowingFails, EndCall, transaction
  <1>2. /\ ~ closed /\ subject \in Address /\ RowIn(resource, subject)
    BY <1>1 DEF IInv, FollowInv
  <1>3. PICK g \in CloseRemote(h, subject) : Become(g)
    BY DEF FollowingFails
  <1>4. /\ h \in HeapRecord /\ RowIn(h.res, subject) /\ h.res \in Resources
        /\ subject \in h.server => ~ h.res[subject].closed /\ h.res[subject].connection = "current"
    BY DEF Failing, HeapRecord
  <1>5. /\ g \in HeapRecord /\ Shut(h.res, g.res, subject)
        /\ Keeps(h.res, h.server, g.res, g.server) /\ subject \notin g.server
    BY <1>2, <1>4, CloseRemoteEffect
  <1>6. g.res \in Resources /\ g.server \in SUBSET Address
    BY <1>5 DEF HeapRecord
  <1>7. Shut(resource, g.res, subject)
    <2>1. ASSUME NEW a \in Address \ {subject}
          PROVE  Same(resource, g.res, a)
      <3>1. Same(resource, h.res, a) /\ Same(h.res, g.res, a)
        BY <1>5, <2>1 DEF Failing, Shut
      <3> QED BY <3>1 DEF Same, RowIn
    <2> QED BY <1>5, <2>1 DEF Failing, Shut
  <1>8. Keeps(resource, server, g.res, g.server)
    BY <1>5 DEF Keeps, Failing
  <1>9. HeapOK(g.res, handle, g.server)
    BY <1>2, <1>5, <1>6, <1>7, <1>8, NowRecord, ShutKeeps
  <1>10. Shrinks(resource, g.res)
    BY <1>2, <1>6, <1>7, NowRecord, SmallerShrinks
  <1>11. handle' \in [Address -> Nat] /\ \A a \in Address : handle'[a] > 0 => handle[a] > 0
    BY <1>1, NowRecord
  <1>12. HeapOK(g.res, handle', g.server)
    BY <1>1, <1>9
  <1>13. /\ resource' = g.res /\ resource' \in Resources
         /\ server' \in SUBSET Address /\ breaks' \in Nat
         /\ HeapInv' /\ ShownInv'
         /\ \A what, at : Passed(resource, what, at) => Passed(resource', what, at)
         /\ \A ts : Dead(resource, ts) => Dead(resource', ts)
         /\ \A s : Read(resource, handle, s) => Read(resource', handle', s)
    BY <1>3, <1>5, <1>10, <1>11, <1>12, ShrinkStep
  <1>14. CountInv'
    <2>1. \A a \in Address : g.res[a] = NULL <=> resource[a] = NULL
      <3> TAKE a \in Address
      <3>1. CASE a = subject
        BY <1>2, <1>7, <3>1 DEF Shut, RowIn
      <3>2. CASE a # subject
        BY <1>6, <1>7, <3>2, NowRecord, SameKind DEF Shut
      <3> QED BY <3>1, <3>2
    <2>2. Active' = Active
      BY <1>13, <2>1 DEF Active
    <2> QED BY <1>1, <1>2, <2>2 DEF IInv, CountInv
  <1>15. TypeOK'
    BY <1>1, <1>11, <1>13 DEF IInv, TypeOK, Resources
  <1>16. FollowInv' /\ ClosingInv'
    BY <1>1 DEF FollowInv, ClosingInv
  <1>17. ClosedInv'
    BY <1>1, <1>2 DEF ClosedInv
  <1>18. ReadInv'
    <2>1. Read(resource, handle, subject)
      BY <1>1 DEF IInv, ReadInv
    <2>2. Read(resource', handle', subject)
      BY <1>13, <2>1
    <2>3. resource'[subject].closed
      BY <1>7, <1>13 DEF Shut
    <2>4. Read(resource', handle', NULL)
      BY <2>2, <2>3 DEF Read
    <2> QED BY <1>1, <2>4 DEF ReadInv
  <1>19. AbortedInv'
    BY <1>1, <1>13 DEF IInv, AbortedInv
  <1> QED BY <1>13, <1>14, <1>15, <1>16, <1>17, <1>18, <1>19 DEF IInv

LEMMA FollowingReturnsStep ==
  ASSUME IInv, Follow, NEW f \in Resources, ReadOn(resource, f, subject),
         FollowingReturns(f), ~ MoreToRead(f, subject),
         server' \subseteq server, subject \in server' => f[subject].connection = "current",
         breaks' = breaks
  PROVE  IInv'
  <1>1. /\ pc = "following" /\ pc' = "idle" /\ subject' = NULL /\ then' = "none"
        /\ stack' = stack /\ calls' = calls
        /\ closed' = closed /\ referenceCount' = referenceCount
        /\ autoCommit' = autoCommit /\ transactionId' = transactionId
        /\ transactionStarted' = transactionStarted /\ aborted' = aborted
    BY DEF Follow, FollowingReturns, EndCall, transaction
  <1>2. /\ ~ closed /\ subject \in Address /\ RowIn(resource, subject)
        /\ ~ resource[subject].closed
    BY <1>1 DEF IInv, FollowInv
  <1>3. Read(resource, handle, subject) /\ Dead(resource, aborted) /\ Shown(resource)
    BY <1>1 DEF IInv, ReadInv, AbortedInv, ShownInv
  <1>4. PICK left : left = server'
    OBVIOUS
  <1>5. left \subseteq server /\ (subject \in left => f[subject].connection = "current")
        /\ server \subseteq Address /\ left \subseteq Address
    BY <1>4, NowRecord
  <1>6. /\ HeapOK(f, handle, left) /\ Shown(f) /\ Dead(f, aborted) /\ Read(f, handle, subject)
        /\ \A a \in Address : f[a] = NULL <=> resource[a] = NULL
    BY <1>2, <1>3, <1>5, NowRecord, ReadOnHeap
  <1>7. ASSUME NEW g \in Resources, g = resource', NEW gave \in [Address -> Nat], gave = handle',
               HeapOK(g, gave, left), Shown(g), Dead(g, aborted), Read(g, gave, NULL),
               \A a \in Address : g[a] = NULL <=> f[a] = NULL
        PROVE  IInv'
    <2>1. HeapInv' /\ ShownInv'
      BY <1>4, <1>7 DEF HeapInv, ShownInv
    <2>2. Active' = Active
      BY <1>6, <1>7 DEF Active
    <2>3. CountInv'
      BY <1>1, <1>2, <2>2 DEF IInv, CountInv
    <2>4. TypeOK'
      BY <1>1, <1>4, <1>5, <1>7 DEF IInv, TypeOK, Resources
    <2>5. FollowInv' /\ ClosingInv'
      BY <1>1 DEF FollowInv, ClosingInv
    <2>6. ClosedInv'
      BY <1>1, <1>2 DEF ClosedInv
    <2>7. ReadInv'
      BY <1>1, <1>7 DEF ReadInv
    <2>8. AbortedInv'
      BY <1>1, <1>7 DEF IInv, AbortedInv
    <2> QED BY <2>1, <2>3, <2>4, <2>5, <2>6, <2>7, <2>8 DEF IInv
  <1>8. CASE then = "next"
    <2>1. resource' = f /\ handle' = handle
      BY <1>8 DEF FollowingReturns
    <2>2. Read(f, handle, NULL)
      BY <1>6 DEF Read
    <2> QED BY <1>6, <1>7, <2>1, <2>2, NowRecord
  <1>9. CASE then # "next"
    <2>1. PICK q \in Active : /\ IsQuery(q) /\ resource[q].lastRowSet = subject
                              /\ GiveHandle(f, subject, q, then = "fetch")
      BY <1>9 DEF FollowingReturns
    <2>2. q \in Address /\ QueryIn(resource, q) /\ q # subject
      BY <1>2, <2>1, NowRecord, Kinds DEF Active, IsQuery, QueryIn
    <2>3. HeldBy(f, q, subject)
      BY <2>1, <2>2 DEF ReadOn, HeldBy, QueryIn
    <2>4. PICK visible \in BOOLEAN : visible = (then = "fetch")
      OBVIOUS
    <2>5. PICK g, gave : g = resource' /\ gave = handle'
      OBVIOUS
    <2>6. /\ Given(f, subject, q, visible, g)
          /\ gave = [handle EXCEPT ![subject] = @ + 1]
      BY <2>1, <2>4, <2>5 DEF Given, GiveHandle
    <2>7. gave \in [Address -> Nat] /\ OneMore(handle, gave, subject)
      BY <1>2, <2>6, NowRecord DEF OneMore
    <2>8. RowIn(f, subject)
      BY DEF ReadOn
    <2>9. /\ g \in Resources /\ HeapOK(g, gave, left) /\ Shown(g) /\ Dead(g, aborted)
          /\ Read(g, gave, NULL)
          /\ \A a \in Address : g[a] = NULL <=> f[a] = NULL
      <3>1. PICK r, ts, given : r = subject /\ ts = aborted /\ given = handle
        OBVIOUS
      <3>2. r \in Address /\ given \in [Address -> Nat] /\ left \subseteq Address
        BY <1>2, <1>5, <3>1, NowRecord
      <3>3. HeapOK(f, given, left) /\ Shown(f) /\ Dead(f, ts) /\ Read(f, given, r)
        BY <1>6, <3>1
      <3>4. RowIn(f, r) /\ HeldBy(f, q, r) /\ ~ MoreToRead(f, r) /\ q \in Address
        BY <2>2, <2>3, <2>8, <3>1
      <3>5. Given(f, r, q, visible, g) /\ gave \in [Address -> Nat] /\ OneMore(given, gave, r)
        BY <2>6, <2>7, <3>1
      <3>6. /\ g \in Resources /\ HeapOK(g, gave, left) /\ Shown(g) /\ Dead(g, ts)
            /\ Read(g, gave, NULL)
            /\ \A a \in Address : g[a] = NULL <=> f[a] = NULL
        BY <3>2, <3>3, <3>4, <3>5, GivenHeap
      <3> QED BY <3>1, <3>6
    <2> QED BY <1>7, <2>5, <2>7, <2>9
  <1> QED BY <1>8, <1>9

LEMMA CannotFollowStep ==
  ASSUME IInv, CannotFollow
  PROVE  IInv'
  <1>1. Follow /\ FollowingFails(Now) /\ pc = "following"
    BY DEF CannotFollow, Follow
  <1>2. subject \in Address /\ RowIn(resource, subject)
    BY <1>1 DEF IInv, FollowInv
  <1>3. Failing(Now)
    BY <1>2, NowRecord DEF Failing, Same, OwnedOK
  <1> QED BY <1>1, <1>3, FollowingFailsStep

LEMMA BrokenFailing ==
  ASSUME IInv, subject \in Address, RowIn(resource, subject), NEW h, Failing(h), h.res \in Resources,
         NEW g \in Broken(h)
  PROVE  Failing(g)
  <1>1. /\ h \in HeapRecord /\ RowIn(h.res, subject)
        /\ h.res[subject].refs = resource[subject].refs
        /\ h.res[subject].transactionId = resource[subject].transactionId
        /\ \A a \in Address \ {subject} : Same(resource, h.res, a)
    BY DEF Failing
  <1>2. g \in HeapRecord /\ g.server = {} /\ \A a \in Address : Same(h.res, g.res, a)
    BY <1>1, BrokenEffect
  <1>3. RowIn(g.res, subject) /\ g.res[subject].refs = resource[subject].refs
        /\ g.res[subject].transactionId = resource[subject].transactionId
    BY <1>1, <1>2 DEF Same, RowIn
  <1>4. ASSUME NEW a \in Address \ {subject}
        PROVE  Same(resource, g.res, a)
    <2>1. Same(resource, h.res, a) /\ Same(h.res, g.res, a)
      BY <1>1, <1>2, <1>4
    <2> QED BY <2>1 DEF Same, RowIn
  <1> QED BY <1>2, <1>3, <1>4 DEF Failing

(* The connection of the row set is forgotten, and the node may have         *)
(* forgotten the result.                                                   *)
ForgotBy(f, n, m, lost) ==
  f = [resource EXCEPT ![subject].rows = n, ![subject].remaining = m,
                       ![subject].connection = "none", ![subject].lost = lost]

LEMMA Forgotten ==
  ASSUME IInv, subject \in Address, RowIn(resource, subject),
         NEW n \in 0 .. MaxRows, NEW m \in 0 .. MaxRows, NEW lost \in BOOLEAN,
         NEW f, ForgotBy(f, n, m, lost)
  PROVE  /\ f \in Resources /\ RowIn(f, subject)
         /\ f[subject].refs = resource[subject].refs
         /\ f[subject].closed = resource[subject].closed
         /\ f[subject].transactionId = resource[subject].transactionId
         /\ f[subject].rows = n /\ f[subject].remaining = m
         /\ f[subject].unread = resource[subject].unread
         /\ f[subject].status = resource[subject].status
         /\ f[subject].connection = "none"
         /\ \A a \in Address \ {subject} : f[a] = resource[a]
  <1>1. resource[subject] \in RowSet
    BY NowRecord, Kinds
  <1>2. PICK x : x = [resource[subject] EXCEPT !.rows = n, !.remaining = m,
                        !.connection = "none", !.lost = lost]
    OBVIOUS
  <1>3. /\ x \in RowSet /\ x.refs = resource[subject].refs
        /\ x.closed = resource[subject].closed
        /\ x.transactionId = resource[subject].transactionId
        /\ x.rows = n /\ x.remaining = m /\ x.unread = resource[subject].unread
        /\ x.status = resource[subject].status /\ x.connection = "none"
    BY <1>1, <1>2 DEF RowSet
  <1>4. f = [resource EXCEPT ![subject] = x]
    BY <1>2, NowRecord DEF Resources, ForgotBy
  <1>5. f \in Resources /\ f[subject] = x /\ \A a \in Address \ {subject} : f[a] = resource[a]
    BY <1>3, <1>4, NowRecord DEF Resources
  <1>6. RowIn(f, subject)
    BY <1>3, <1>5, Kinds
  <1> QED BY <1>3, <1>5, <1>6

OnlyForgot(f) ==
  f = [resource EXCEPT ![subject].connection = "none"]

LEMMA OnlyForgotten ==
  ASSUME IInv, subject \in Address, RowIn(resource, subject),

         NEW f, OnlyForgot(f)
  PROVE  /\ f \in Resources /\ RowIn(f, subject)
         /\ f[subject].refs = resource[subject].refs
         /\ f[subject].closed = resource[subject].closed
         /\ f[subject].transactionId = resource[subject].transactionId
         /\ f[subject].rows = resource[subject].rows
         /\ f[subject].remaining = resource[subject].remaining
         /\ f[subject].unread = resource[subject].unread
         /\ f[subject].status = resource[subject].status
         /\ f[subject].connection = "none"
         /\ \A a \in Address \ {subject} : f[a] = resource[a]
  <1>1. resource[subject] \in RowSet
    BY NowRecord, Kinds
  <1>2. PICK x : x = [resource[subject] EXCEPT !.connection = "none"]
    OBVIOUS
  <1>3. /\ x \in RowSet /\ x.refs = resource[subject].refs
        /\ x.closed = resource[subject].closed
        /\ x.transactionId = resource[subject].transactionId
        /\ x.rows = resource[subject].rows
        /\ x.remaining = resource[subject].remaining
        /\ x.unread = resource[subject].unread
        /\ x.status = resource[subject].status
        /\ x.connection = "none"
    BY <1>1, <1>2 DEF RowSet
  <1>4. f = [resource EXCEPT ![subject] = x]
    BY <1>2, NowRecord DEF Resources, OnlyForgot
  <1>5. f \in Resources /\ f[subject] = x /\ \A a \in Address \ {subject} : f[a] = resource[a]
    BY <1>3, <1>4, NowRecord DEF Resources
  <1>6. RowIn(f, subject)
    BY <1>3, <1>5, Kinds
  <1> QED BY <1>3, <1>5, <1>6

(* The row set is given some of the rows that the node keeps. *)
SomeReadBy(f, n, m) ==
  f = [resource EXCEPT ![subject].rows = n, ![subject].remaining = m]

LEMMA SomeRead ==
  ASSUME IInv, subject \in Address, RowIn(resource, subject),
         NEW n \in 0 .. MaxRows, NEW m \in 0 .. MaxRows,
         NEW f, SomeReadBy(f, n, m)
  PROVE  /\ f \in Resources /\ RowIn(f, subject)
         /\ f[subject].refs = resource[subject].refs
         /\ f[subject].closed = resource[subject].closed
         /\ f[subject].transactionId = resource[subject].transactionId
         /\ f[subject].rows = n
         /\ f[subject].remaining = m
         /\ f[subject].unread = resource[subject].unread
         /\ f[subject].status = resource[subject].status
         /\ f[subject].connection = resource[subject].connection
         /\ \A a \in Address \ {subject} : f[a] = resource[a]
  <1>1. resource[subject] \in RowSet
    BY NowRecord, Kinds
  <1>2. PICK x : x = [resource[subject] EXCEPT !.rows = n, !.remaining = m]
    OBVIOUS
  <1>3. /\ x \in RowSet /\ x.refs = resource[subject].refs
        /\ x.closed = resource[subject].closed
        /\ x.transactionId = resource[subject].transactionId
        /\ x.rows = n
        /\ x.remaining = m
        /\ x.unread = resource[subject].unread
        /\ x.status = resource[subject].status
        /\ x.connection = resource[subject].connection
    BY <1>1, <1>2 DEF RowSet
  <1>4. f = [resource EXCEPT ![subject] = x]
    BY <1>2, NowRecord DEF Resources, SomeReadBy
  <1>5. f \in Resources /\ f[subject] = x /\ \A a \in Address \ {subject} : f[a] = resource[a]
    BY <1>3, <1>4, NowRecord DEF Resources
  <1>6. RowIn(f, subject)
    BY <1>3, <1>5, Kinds
  <1> QED BY <1>3, <1>5, <1>6

(* The query of the row set is executed again. *)
ExecutedBy(f, n, k) ==
  f = [resource EXCEPT ![subject].rows = n, ![subject].unread = n,
                       ![subject].status = k]

LEMMA ExecutedOn ==
  ASSUME IInv, subject \in Address, RowIn(resource, subject),
         NEW n \in 0 .. MaxRows, NEW k \in 0 .. MaxStatus,
         NEW f, ExecutedBy(f, n, k)
  PROVE  /\ f \in Resources /\ RowIn(f, subject)
         /\ f[subject].refs = resource[subject].refs
         /\ f[subject].closed = resource[subject].closed
         /\ f[subject].transactionId = resource[subject].transactionId
         /\ f[subject].rows = n
         /\ f[subject].remaining = resource[subject].remaining
         /\ f[subject].unread = n
         /\ f[subject].status = k
         /\ f[subject].connection = resource[subject].connection
         /\ \A a \in Address \ {subject} : f[a] = resource[a]
  <1>1. resource[subject] \in RowSet
    BY NowRecord, Kinds
  <1>2. PICK x : x = [resource[subject] EXCEPT !.rows = n, !.unread = n, !.status = k]
    OBVIOUS
  <1>3. /\ x \in RowSet /\ x.refs = resource[subject].refs
        /\ x.closed = resource[subject].closed
        /\ x.transactionId = resource[subject].transactionId
        /\ x.rows = n
        /\ x.remaining = resource[subject].remaining
        /\ x.unread = n
        /\ x.status = k
        /\ x.connection = resource[subject].connection
    <2>1. n \in Nat
      BY RowSetsAssumption
    <2> QED BY <1>1, <1>2, <2>1 DEF RowSet
  <1>4. f = [resource EXCEPT ![subject] = x]
    BY <1>2, NowRecord DEF Resources, ExecutedBy
  <1>5. f \in Resources /\ f[subject] = x /\ \A a \in Address \ {subject} : f[a] = resource[a]
    BY <1>3, <1>4, NowRecord DEF Resources
  <1>6. RowIn(f, subject)
    BY <1>3, <1>5, Kinds
  <1> QED BY <1>3, <1>5, <1>6

LEMMA FetchFollowingStep ==
  ASSUME IInv, FetchFollowing
  PROVE  IInv'
  <1>1. Follow /\ pc = "following"
    BY DEF FetchFollowing, Follow
  <1>2. /\ ~ closed /\ subject \in Address /\ RowIn(resource, subject)
        /\ ~ resource[subject].closed /\ resource[subject].rows = 0
    BY <1>1 DEF IInv, FollowInv
  <1>3. /\ resource[subject] \in RowSet
        /\ resource[subject].unread = resource[subject].rows + resource[subject].remaining
    BY <1>2, NowRecord, Kinds DEF OwnedOK
  <1>4. PICK m : m = resource[subject].remaining
    OBVIOUS
  <1>5. PICK c : c = [Now EXCEPT !.res[subject].connection = "none"]
    OBVIOUS
  <1>6. /\ m \in 0 .. MaxRows /\ MaxRows \in Nat /\ resource[subject].unread = m
    BY <1>2, <1>3, <1>4, RowSetsAssumption DEF RowSet
  <1>7. /\ m > 0
        /\ \/ /\ resource[subject].connection = "current"
              /\ \E n \in 1 .. m - 1 :
                   FollowingReturns([resource EXCEPT ![subject].rows = n,
                                                     ![subject].remaining = @ - n])
              /\ server' = server /\ breaks' = breaks
           \/ /\ resource[subject].connection = "current"
              /\ \E n \in 0 .. m :
                   IF n = 0 THEN FollowingFails(ResultClosed(Now, n))
                   ELSE /\ FollowingReturns(ResultClosed(Now, n).res)
                        /\ server' = ResultClosed(Now, n).server /\ breaks' = breaks
           \/ FollowingFails([c EXCEPT !.server = @ \ {subject}])
           \/ \E h \in Broken(c) : FollowingFails(h)
           \/ resource[subject].connection = "old" /\ FollowingFails(c)
    BY <1>4, <1>5 DEF FetchFollowing
  <1>8. /\ c.res = [resource EXCEPT ![subject].connection = "none"] /\ c.server = server
        /\ c.breaks = breaks /\ c.ok = Now.ok
    BY <1>5, NowRecord DEF HeapRecord
  <1>9. OnlyForgot(c.res)
    BY <1>8 DEF OnlyForgot
  <1>10. /\ c.res \in Resources /\ RowIn(c.res, subject)
         /\ c.res[subject].refs = resource[subject].refs
         /\ c.res[subject].closed = resource[subject].closed
         /\ c.res[subject].transactionId = resource[subject].transactionId
         /\ \A a \in Address \ {subject} : c.res[a] = resource[a]
    BY <1>2, <1>9, OnlyForgotten
  <1>11. c \in HeapRecord
    BY <1>5, <1>8, <1>10, NowRecord DEF HeapRecord
  <1>12. ASSUME NEW n \in 0 .. m, resource[subject].connection = "current",
                NEW h, h = ResultClosed(Now, n)
         PROVE  /\ h \in HeapRecord /\ h.server = server \ {subject}
                /\ h.res \in Resources /\ RowIn(h.res, subject)
                /\ h.res[subject].refs = resource[subject].refs
                /\ ~ h.res[subject].closed
                /\ h.res[subject].transactionId = resource[subject].transactionId
                /\ h.res[subject].rows = n
                /\ h.res[subject].unread = h.res[subject].rows + h.res[subject].remaining
                /\ \A a \in Address \ {subject} : h.res[a] = resource[a]
    <2>1. h = [Now EXCEPT !.res[subject].rows = n, !.res[subject].remaining = @ - n,
                 !.res[subject].connection = "none", !.server = @ \ {subject},
                 !.res[subject].lost = n < resource[subject].remaining]
      BY <1>12, NowRecord DEF ResultClosed
    <2>2. /\ h.res = [resource EXCEPT ![subject].rows = n, ![subject].remaining = @ - n,
                        ![subject].connection = "none",
                        ![subject].lost = n < resource[subject].remaining]
          /\ h.server = server \ {subject} /\ h.breaks = breaks /\ h.ok = Now.ok
      BY <2>1, NowRecord DEF HeapRecord
    <2>3. PICK k \in 0 .. MaxRows : k = m - n
      BY <1>6
    <2>4. PICK lost \in BOOLEAN : lost = (n < resource[subject].remaining)
      <3>1. CASE n < resource[subject].remaining
        <4>1. TRUE = (n < resource[subject].remaining)
          BY <3>1
        <4> QED BY <4>1
      <3>2. CASE ~ (n < resource[subject].remaining)
        <4>1. FALSE = (n < resource[subject].remaining)
          BY <3>2
        <4> QED BY <4>1
      <3> QED BY <3>1, <3>2
    <2>5. ForgotBy(h.res, n, k, lost)
      BY <1>2, <1>4, <2>2, <2>3, <2>4, NowRecord DEF ForgotBy, Resources
    <2>6. n \in 0 .. MaxRows
      BY <1>6
    <2>7. PICK f : f = h.res
      OBVIOUS
    <2>8. /\ f \in Resources /\ RowIn(f, subject)
          /\ f[subject].refs = resource[subject].refs
          /\ f[subject].closed = resource[subject].closed
          /\ f[subject].transactionId = resource[subject].transactionId
          /\ f[subject].rows = n /\ f[subject].remaining = k
          /\ f[subject].unread = resource[subject].unread
          /\ \A a \in Address \ {subject} : f[a] = resource[a]
      BY <1>2, <2>5, <2>6, <2>7, Forgotten
    <2>9. h \in HeapRecord
      BY <2>1, <2>2, <2>7, <2>8, NowRecord DEF HeapRecord
    <2>10. f[subject].unread = f[subject].rows + f[subject].remaining
      BY <1>6, <2>3, <2>8
    <2> QED BY <1>2, <2>2, <2>7, <2>8, <2>9, <2>10
  <1>13. CASE /\ resource[subject].connection = "current"
              /\ \E n \in 1 .. m - 1 :
                   FollowingReturns([resource EXCEPT ![subject].rows = n,
                                                     ![subject].remaining = @ - n])
              /\ server' = server /\ breaks' = breaks
    <2>1. PICK n \in 1 .. m - 1 :
             FollowingReturns([resource EXCEPT ![subject].rows = n,
                                               ![subject].remaining = @ - n])
      BY <1>13
    <2>2. PICK k \in 0 .. MaxRows : k = m - n
      BY <1>6
    <2>3. PICK f : f = [resource EXCEPT ![subject].rows = n, ![subject].remaining = @ - n]
      OBVIOUS
    <2>4. SomeReadBy(f, n, k)
      BY <1>2, <1>4, <2>2, <2>3, NowRecord DEF SomeReadBy, Resources
    <2>5. n \in 0 .. MaxRows
      BY <1>6
    <2>6. /\ f \in Resources /\ RowIn(f, subject)
          /\ f[subject].refs = resource[subject].refs
          /\ f[subject].closed = resource[subject].closed
          /\ f[subject].transactionId = resource[subject].transactionId
          /\ f[subject].rows = n /\ f[subject].remaining = k
          /\ f[subject].unread = resource[subject].unread
          /\ f[subject].connection = resource[subject].connection
          /\ \A a \in Address \ {subject} : f[a] = resource[a]
      BY <1>2, <2>4, <2>5, SomeRead
    <2>7. f[subject].unread = f[subject].rows + f[subject].remaining
      BY <1>6, <2>2, <2>6
    <2>8. ReadOn(resource, f, subject)
      BY <1>2, <2>6, <2>7 DEF ReadOn
    <2>9. ~ MoreToRead(f, subject)
      BY <2>6 DEF MoreToRead
    <2>10. FollowingReturns(f)
      BY <2>1, <2>3
    <2> QED BY <1>1, <1>13, <2>6, <2>8, <2>9, <2>10, FollowingReturnsStep
  <1>14. CASE /\ resource[subject].connection = "current"
              /\ \E n \in 0 .. m :
                   IF n = 0 THEN FollowingFails(ResultClosed(Now, n))
                   ELSE /\ FollowingReturns(ResultClosed(Now, n).res)
                        /\ server' = ResultClosed(Now, n).server /\ breaks' = breaks
    <2>1. PICK n \in 0 .. m :
             IF n = 0 THEN FollowingFails(ResultClosed(Now, n))
             ELSE /\ FollowingReturns(ResultClosed(Now, n).res)
                  /\ server' = ResultClosed(Now, n).server /\ breaks' = breaks
      BY <1>14
    <2>2. PICK h : h = ResultClosed(Now, n)
      OBVIOUS
    <2>3. /\ h \in HeapRecord /\ h.server = server \ {subject}
          /\ h.res \in Resources /\ RowIn(h.res, subject)
          /\ h.res[subject].refs = resource[subject].refs
          /\ ~ h.res[subject].closed
          /\ h.res[subject].transactionId = resource[subject].transactionId
          /\ h.res[subject].rows = n
          /\ h.res[subject].unread = h.res[subject].rows + h.res[subject].remaining
          /\ \A a \in Address \ {subject} : h.res[a] = resource[a]
      BY <1>12, <1>14, <2>2
    <2>4. CASE n = 0
      <3>1. FollowingFails(h)
        BY <2>1, <2>2, <2>4
      <3>2. Failing(h)
        BY <2>3, NowRecord DEF Failing, Same
      <3> QED BY <1>1, <3>1, <3>2, FollowingFailsStep
    <2>5. CASE n # 0
      <3>1. FollowingReturns(h.res) /\ server' = server \ {subject} /\ breaks' = breaks
        BY <2>1, <2>2, <2>3, <2>5
      <3>2. ReadOn(resource, h.res, subject) /\ ~ MoreToRead(h.res, subject)
        BY <2>3, <2>5 DEF ReadOn, MoreToRead
      <3>3. server' \subseteq server /\ subject \notin server'
        BY <3>1
      <3> QED BY <1>1, <2>3, <3>1, <3>2, <3>3, FollowingReturnsStep
    <2> QED BY <2>4, <2>5
  <1>15. CASE FollowingFails([c EXCEPT !.server = @ \ {subject}])
    <2>1. PICK h : h = [c EXCEPT !.server = @ \ {subject}]
      OBVIOUS
    <2>2. h.res = c.res /\ h.server = server \ {subject} /\ h \in HeapRecord
      BY <1>8, <1>11, <2>1 DEF HeapRecord
    <2>3. Failing(h)
      BY <1>10, <2>2, NowRecord DEF Failing, Same
    <2>4. FollowingFails(h)
      BY <1>15, <2>1
    <2> QED BY <1>1, <2>3, <2>4, FollowingFailsStep
  <1>16. CASE \E h \in Broken(c) : FollowingFails(h)
    <2>1. PICK h \in Broken(c) : FollowingFails(h)
      BY <1>16
    <2>2. h \in HeapRecord /\ h.server = {} /\ \A a \in Address : Same(c.res, h.res, a)
      BY <1>11, BrokenEffect
    <2>3. /\ RowIn(h.res, subject) /\ h.res[subject].refs = resource[subject].refs
          /\ h.res[subject].transactionId = resource[subject].transactionId
      BY <1>2, <1>10, <2>2 DEF Same, RowIn
    <2>4. \A a \in Address \ {subject} : Same(resource, h.res, a)
      BY <1>10, <2>2 DEF Same, RowIn
    <2>5. Failing(h)
      BY <2>2, <2>3, <2>4 DEF Failing
    <2> QED BY <1>1, <2>1, <2>5, FollowingFailsStep
  <1>17. CASE resource[subject].connection = "old" /\ FollowingFails(c)
    <2>1. subject \notin server
      BY <1>17, NowRecord DEF OwnedOK
    <2>2. Failing(c)
      BY <1>8, <1>10, <1>11, <2>1, NowRecord DEF Failing, Same
    <2> QED BY <1>1, <1>17, <2>2, FollowingFailsStep
  <1> QED BY <1>7, <1>13, <1>14, <1>15, <1>16, <1>17

LEMMA ExecuteFollowingStep ==
  ASSUME IInv, ExecuteFollowing
  PROVE  IInv'
  <1>1. /\ Follow /\ pc = "following"
        /\ closed' = closed /\ referenceCount' = referenceCount
        /\ autoCommit' = autoCommit /\ transactionId' = transactionId
        /\ transactionStarted' = transactionStarted
        /\ stack' = stack /\ aborted' = aborted /\ calls' = calls
        /\ resource[subject].remaining = 0
    BY DEF ExecuteFollowing, Follow, transaction
  <1>2. /\ ~ closed /\ subject \in Address /\ RowIn(resource, subject)
        /\ ~ resource[subject].closed /\ resource[subject].rows = 0
        /\ then \in {"fetch", "getRowSet", "next"}
    BY <1>1 DEF IInv, FollowInv
  <1>3. Failing(Now)
    BY <1>2, NowRecord DEF Failing, Same, OwnedOK
  <1>4. resource[subject].status \in 0 .. MaxStatus /\ MaxStatus \in Nat /\ MaxRows \in Nat \ {0}
    BY <1>2, NowRecord, Kinds, RowSetsAssumption DEF RowSet
  <1>5. \/ /\ \E k \in resource[subject].status + 1 .. MaxStatus \cup {0}, n \in 0 .. 1 :
                LET f == [resource EXCEPT ![subject].rows = n, ![subject].unread = n,
                                          ![subject].status = k] IN
                IF n = 0 /\ k # 0
                THEN /\ resource' = f /\ handle' = handle /\ pc' = pc
                     /\ subject' = subject /\ then' = then
                ELSE FollowingReturns(f)
           /\ server' = server /\ breaks' = breaks
        \/ FollowingFails(Now)
        \/ \E h \in Broken(Now) : FollowingFails(h)
    BY DEF ExecuteFollowing
  <1>6. CASE FollowingFails(Now)
    BY <1>1, <1>3, <1>6, FollowingFailsStep
  <1>7. CASE \E h \in Broken(Now) : FollowingFails(h)
    <2>1. PICK h \in Broken(Now) : FollowingFails(h)
      BY <1>7
    <2>2. Failing(h)
      BY <1>2, <1>3, NowRecord, BrokenFailing
    <2> QED BY <1>1, <2>1, <2>2, FollowingFailsStep
  <1>8. CASE /\ \E k \in resource[subject].status + 1 .. MaxStatus \cup {0}, n \in 0 .. 1 :
                  LET f == [resource EXCEPT ![subject].rows = n, ![subject].unread = n,
                                            ![subject].status = k] IN
                  IF n = 0 /\ k # 0
                  THEN /\ resource' = f /\ handle' = handle /\ pc' = pc
                       /\ subject' = subject /\ then' = then
                  ELSE FollowingReturns(f)
             /\ server' = server /\ breaks' = breaks
    <2>1. PICK k \in resource[subject].status + 1 .. MaxStatus \cup {0}, n \in 0 .. 1 :
             LET f == [resource EXCEPT ![subject].rows = n, ![subject].unread = n,
                                       ![subject].status = k] IN
             IF n = 0 /\ k # 0
             THEN /\ resource' = f /\ handle' = handle /\ pc' = pc
                  /\ subject' = subject /\ then' = then
             ELSE FollowingReturns(f)
      BY <1>8
    <2>2. PICK f : f = [resource EXCEPT ![subject].rows = n, ![subject].unread = n,
                                        ![subject].status = k]
      OBVIOUS
    <2>3. IF n = 0 /\ k # 0
          THEN /\ resource' = f /\ handle' = handle /\ pc' = pc
               /\ subject' = subject /\ then' = then
          ELSE FollowingReturns(f)
      BY <2>1, <2>2
    <2>4. ExecutedBy(f, n, k)
      BY <2>2 DEF ExecutedBy
    <2>5. n \in 0 .. MaxRows /\ k \in 0 .. MaxStatus /\ n \in Nat
      BY <1>4
    <2>6. /\ f \in Resources /\ RowIn(f, subject)
          /\ f[subject].refs = resource[subject].refs
          /\ f[subject].closed = resource[subject].closed
          /\ f[subject].transactionId = resource[subject].transactionId
          /\ f[subject].rows = n /\ f[subject].remaining = resource[subject].remaining
          /\ f[subject].unread = n /\ f[subject].status = k
          /\ f[subject].connection = resource[subject].connection
          /\ \A a \in Address \ {subject} : f[a] = resource[a]
      BY <1>2, <2>4, <2>5, ExecutedOn
    <2>7. f[subject].unread = f[subject].rows + f[subject].remaining
      BY <1>1, <2>5, <2>6
    <2>8. ReadOn(resource, f, subject)
      BY <1>2, <2>6, <2>7 DEF ReadOn
    <2>9. subject \in server => f[subject].connection = "current"
      BY <2>6, NowRecord DEF OwnedOK
    <2>10. CASE n = 0 /\ k # 0
      <3>1. /\ resource' = f /\ handle' = handle /\ pc' = pc
            /\ subject' = subject /\ then' = then
        BY <2>3, <2>10
      <3>2. Read(resource, handle, subject) /\ Dead(resource, aborted) /\ Shown(resource)
        BY <1>1 DEF IInv, ReadInv, AbortedInv, ShownInv
      <3>3. /\ HeapOK(f, handle, server) /\ Shown(f) /\ Dead(f, aborted)
            /\ Read(f, handle, subject)
            /\ \A a \in Address : f[a] = NULL <=> resource[a] = NULL
        BY <1>2, <2>6, <2>8, <2>9, <3>2, NowRecord, ReadOnHeap
      <3>4. HeapInv' /\ ShownInv'
        BY <1>8, <3>1, <3>3 DEF HeapInv, ShownInv
      <3>5. Active' = Active
        BY <3>1, <3>3 DEF Active
      <3>6. CountInv'
        BY <1>1, <3>1, <3>5 DEF IInv, CountInv
      <3>7. TypeOK'
        BY <1>1, <1>8, <2>6, <3>1 DEF IInv, TypeOK, Resources
      <3>8. FollowInv'
        BY <1>1, <1>2, <2>6, <2>10, <3>1 DEF FollowInv
      <3>9. ClosingInv' /\ ClosedInv'
        BY <1>1, <1>2, <3>1 DEF ClosingInv, ClosedInv
      <3>10. ReadInv'
        BY <1>1, <3>1, <3>3 DEF ReadInv
      <3>11. AbortedInv'
        BY <1>1, <3>1, <3>3 DEF IInv, AbortedInv
      <3> QED BY <3>4, <3>6, <3>7, <3>8, <3>9, <3>10, <3>11 DEF IInv
    <2>11. CASE ~ (n = 0 /\ k # 0)
      <3>1. FollowingReturns(f)
        BY <2>3, <2>11
      <3>2. ~ MoreToRead(f, subject)
        BY <1>1, <2>6, <2>11 DEF MoreToRead
      <3> QED BY <1>1, <1>8, <2>6, <2>8, <2>9, <3>1, <3>2, FollowingReturnsStep
    <2> QED BY <2>10, <2>11
  <1> QED BY <1>5, <1>6, <1>7, <1>8

-----------------------------------------------------------------------------
(* The actions of closeSubResources and of what comes after it. *)

LEMMA ClosingBegins ==
  ASSUME IInv, NEW silent \in BOOLEAN, NEW what \in {"abort", "close", "closeAll"},
         CloseSubResources(silent, what), ~ closed, closed' = closed, resource' = resource
  PROVE  /\ pc' = "closing" /\ then' = what /\ subject' = subject
         /\ stack' \in Seq(Frame) /\ ClosingInv' /\ ClosedInv' /\ FollowInv'
  <1>1. PICK n : n = After(Now, 0)
    OBVIOUS
  <1>2. PICK s : s = [at |-> n, silent |-> silent]
    OBVIOUS
  <1>3. pc' = "closing" /\ then' = what /\ subject' = subject /\ stack' = <<s>>
    BY <1>1, <1>2 DEF CloseSubResources
  <1>4. n \in Address \cup {NULL} /\ Passed(Now.res, what, n)
    BY <1>1, PassedFirst
  <1>5. s \in Frame /\ s.at = n
    BY <1>2, <1>4 DEF Frame
  <1>6. stack' \in Seq(Frame) /\ stack' # <<>> /\ stack'[Len(stack')].at = n
    BY <1>3, <1>5
  <1>7. Passed(resource', then', stack'[Len(stack')].at)
    BY <1>3, <1>4, <1>6, NowRecord
  <1>8. ClosingInv'
    BY <1>3, <1>6, <1>7 DEF ClosingInv, Top
  <1>9. ClosedInv' /\ FollowInv'
    BY <1>3 DEF ClosedInv, FollowInv
  <1> QED BY <1>3, <1>6, <1>8, <1>9

LEMMA AbortStep ==
  ASSUME IInv, Abort
  PROVE  IInv'
  <1>1. /\ pc = "idle" /\ ~ closed /\ calls' = calls + 1
        /\ transactionId' = transactionId + 1 /\ transactionStarted' = FALSE
        /\ aborted' = aborted \cup {transactionId}
        /\ CloseSubResources(TRUE, "abort")
        /\ resource' = resource /\ server' = server /\ breaks' = breaks /\ handle' = handle
        /\ closed' = closed /\ referenceCount' = referenceCount /\ autoCommit' = autoCommit
    BY DEF Abort, heap
  <1>2. /\ pc' = "closing" /\ then' = "abort" /\ subject' = subject
        /\ stack' \in Seq(Frame) /\ ClosingInv' /\ ClosedInv' /\ FollowInv'
    BY <1>1, ClosingBegins
  <1>3. HeapInv' /\ ShownInv'
    BY <1>1 DEF IInv, HeapInv, ShownInv
  <1>4. ReadInv'
    BY <1>1, <1>2 DEF IInv, ReadInv
  <1>5. CountInv'
    BY <1>1, <1>2 DEF IInv, CountInv, Active
  <1>6. AbortedInv'
    <2>1. transactionId \in Nat \ {0} /\ aborted \subseteq Nat
      BY DEF IInv, TypeOK
    <2>2. \A t \in aborted' : t # 0 /\ t < transactionId'
      BY <1>1, <2>1 DEF IInv, AbortedInv
    <2> QED BY <1>2, <2>2 DEF AbortedInv
  <1>7. TypeOK'
    <2>1. transactionId \in Nat \ {0} /\ aborted \subseteq Nat /\ calls \in Nat
      BY DEF IInv, TypeOK
    <2>2. transactionId' \in Nat \ {0} /\ aborted' \in SUBSET Nat /\ calls' \in Nat
      BY <1>1, <2>1
    <2>3. transactionStarted' \in BOOLEAN
      BY <1>1
    <2> QED BY <1>1, <1>2, <2>2, <2>3 DEF IInv, TypeOK, Frame
  <1> QED BY <1>2, <1>3, <1>4, <1>5, <1>6, <1>7 DEF IInv

LEMMA CloseContainerStep ==
  ASSUME IInv, NEW allRelated \in BOOLEAN, CloseContainer(allRelated)
  PROVE  IInv'
  <1>1. PICK what \in {"close", "closeAll"} : CloseSubResources(FALSE, what)
    BY DEF CloseContainer
  <1>2. /\ pc = "idle" /\ ~ closed /\ calls' = calls /\ aborted' = aborted
        /\ resource' = resource /\ server' = server /\ breaks' = breaks /\ handle' = handle
        /\ closed' = closed /\ referenceCount' = referenceCount /\ autoCommit' = autoCommit
        /\ transactionId' = transactionId /\ transactionStarted' = transactionStarted
    BY DEF CloseContainer, heap, transaction
  <1>3. /\ pc' = "closing" /\ then' = what /\ subject' = subject
        /\ stack' \in Seq(Frame) /\ ClosingInv' /\ ClosedInv' /\ FollowInv'
    BY <1>1, <1>2, ClosingBegins
  <1>4. HeapInv' /\ ShownInv'
    BY <1>2 DEF IInv, HeapInv, ShownInv
  <1>5. ReadInv'
    BY <1>2, <1>3 DEF IInv, ReadInv
  <1>6. CountInv'
    BY <1>2, <1>3 DEF IInv, CountInv, Active
  <1>7. AbortedInv'
    BY <1>2, <1>3 DEF IInv, AbortedInv
  <1>8. TypeOK'
    BY <1>2, <1>3 DEF IInv, TypeOK, Frame
  <1> QED BY <1>3, <1>4, <1>5, <1>6, <1>7, <1>8 DEF IInv

LEMMA Advanced ==
  ASSUME NEW s \in Seq(Frame), s # <<>>, NEW h, s[Len(s)].at \in Address,
         NEW t, t = Advance(s, h)
  PROVE  /\ t \in Seq(Frame) /\ t # <<>>
         /\ t[Len(t)].at = After(h, s[Len(s)].at)
         /\ t[Len(t)].at \in Address \cup {NULL}
  <1>1. Len(s) \in 1 .. Len(s) /\ DOMAIN s = 1 .. Len(s)
    OBVIOUS
  <1>2. PICK n : n = After(h, s[Len(s)].at)
    OBVIOUS
  <1>3. s[Len(s)].at \in Nat
    BY RowSetsAssumption DEF Address
  <1>4. n \in Address \cup {NULL}
    BY <1>2, <1>3, AfterEffect
  <1>5. t = [s EXCEPT ![Len(s)].at = n]
    BY <1>1, <1>2 DEF Advance
  <1>6. t \in Seq(Frame) /\ t # <<>> /\ t[Len(t)].at = n
    BY <1>4, <1>5, StackMoved
  <1> QED BY <1>2, <1>4, <1>6

(* The iteration goes on with the next resource. *)
LEMMA Advances ==
  ASSUME IInv, pc = "closing", stack # <<>>, Top.at \in Address,
         NEW h, stack' = Advance(stack, h), Passed(h.res, then, Top.at),
         RowIn(h.res, Top.at) /\ (then = "abort" => h.res[Top.at].transactionId # 0)
           => h.res[Top.at].closed,
         QueryIn(h.res, Top.at) /\ then # "abort" => h.res[Top.at].lastRowSet = NULL,
         pc' = pc, then' = then, closed' = closed, resource' = h.res
  PROVE  stack' \in Seq(Frame) /\ ClosingInv'
  <1>1. stack \in Seq(Frame)
    BY DEF IInv, TypeOK, Frame
  <1>2. PICK a, t : a = Top.at /\ t = stack'
    OBVIOUS
  <1>3. a = stack[Len(stack)].at /\ a \in Address
    BY <1>2 DEF Top
  <1>4. /\ t \in Seq(Frame) /\ t # <<>> /\ t[Len(t)].at = After(h, a)
    BY <1>1, <1>2, <1>3, Advanced
  <1>5. PICK n : n = After(h, a)
    OBVIOUS
  <1>6. Passed(h.res, then, n)
    <2>1. /\ Passed(h.res, then, a)
          /\ RowIn(h.res, a) /\ (then = "abort" => h.res[a].transactionId # 0)
               => h.res[a].closed
          /\ QueryIn(h.res, a) /\ then # "abort" => h.res[a].lastRowSet = NULL
      BY <1>2
    <2> QED BY <1>3, <1>5, <2>1, PassedNext
  <1>7. Passed(resource', then', stack'[Len(stack')].at)
    BY <1>2, <1>4, <1>5, <1>6
  <1>8. ~ closed /\ then \in {"abort", "close", "closeAll"}
    BY DEF IInv, ClosingInv
  <1> QED BY <1>2, <1>4, <1>7, <1>8 DEF ClosingInv, Top

(* A resource is closed in an iteration: the heap becomes h, which has no    *)
(* more than there was, and the iterations are well formed.                *)
LEMMA Iterated ==
  ASSUME IInv, Iterate, NEW h \in HeapRecord, Become(h), Count(h),
         HeapOK(h.res, handle, h.server), Shrinks(resource, h.res),
         stack' \in Seq(Frame), ClosingInv'
  PROVE  IInv'
  <1>1. /\ pc = "closing" /\ pc' = pc /\ then' = then /\ subject' = subject
        /\ handle' = handle /\ closed' = closed /\ aborted' = aborted /\ calls' = calls
        /\ autoCommit' = autoCommit /\ transactionId' = transactionId
        /\ transactionStarted' = transactionStarted
    BY DEF Iterate, transaction
  <1>2. handle' \in [Address -> Nat] /\ \A a \in Address : handle'[a] > 0 => handle[a] > 0
    BY <1>1, NowRecord
  <1>3. HeapOK(h.res, handle', h.server)
    BY <1>1
  <1>4. /\ resource' = h.res /\ resource' \in Resources
        /\ server' \in SUBSET Address /\ breaks' \in Nat
        /\ HeapInv' /\ ShownInv'
        /\ \A what, at : Passed(resource, what, at) => Passed(resource', what, at)
        /\ \A ts : Dead(resource, ts) => Dead(resource', ts)
        /\ \A s : Read(resource, handle, s) => Read(resource', handle', s)
    BY <1>2, <1>3, ShrinkStep
  <1>5. CountInv' /\ referenceCount' \in Nat
    BY <1>1, <1>4, CountStep
  <1>6. TypeOK'
    BY <1>1, <1>2, <1>4, <1>5 DEF IInv, TypeOK, Resources, Frame
  <1>7. FollowInv'
    BY <1>1 DEF FollowInv
  <1>8. ClosedInv'
    BY <1>1 DEF IInv, ClosingInv, ClosedInv
  <1>9. ReadInv'
    BY <1>1, <1>4 DEF IInv, ReadInv
  <1>10. AbortedInv'
    BY <1>1, <1>4 DEF IInv, AbortedInv
  <1> QED BY <1>4, <1>5, <1>6, <1>7, <1>8, <1>9, <1>10 DEF IInv

(* What has been passed stays so. *)
LEMMA PassedStays ==
  ASSUME IInv, pc = "closing", stack # <<>>, NEW g \in Resources, Shrinks(resource, g)
  PROVE  Passed(g, then, Top.at)
  <1>1. Passed(resource, then, Top.at)
    BY DEF IInv, ClosingInv
  <1> QED BY <1>1, NowRecord, ShrinkKeeps

LEMMA StaysStep ==
  ASSUME IInv, Iterate, stack' = Advance(stack, Now), UNCHANGED <<heap, referenceCount>>,
         RowIn(resource, Top.at) /\ (then = "abort" => resource[Top.at].transactionId # 0)
           => resource[Top.at].closed,
         QueryIn(resource, Top.at) /\ then # "abort" => resource[Top.at].lastRowSet = NULL
  PROVE  IInv'
  <1>1. /\ pc = "closing" /\ pc' = pc /\ then' = then /\ subject' = subject
        /\ handle' = handle /\ closed' = closed /\ aborted' = aborted /\ calls' = calls
        /\ autoCommit' = autoCommit /\ transactionId' = transactionId
        /\ transactionStarted' = transactionStarted /\ referenceCount' = referenceCount
        /\ resource' = resource /\ server' = server /\ breaks' = breaks
        /\ stack # <<>> /\ Top.at \in Address
    BY DEF Iterate, transaction, heap, Active
  <1>2. Passed(resource, then, Top.at)
    BY <1>1 DEF IInv, ClosingInv
  <1>3. stack' \in Seq(Frame) /\ ClosingInv'
    BY <1>1, <1>2, NowRecord, Advances
  <1>4. HeapInv' /\ ShownInv'
    BY <1>1 DEF IInv, HeapInv, ShownInv
  <1>5. FollowInv' /\ ReadInv'
    BY <1>1 DEF IInv, FollowInv, ReadInv
  <1>6. ClosedInv'
    BY <1>1 DEF IInv, ClosedInv, Active
  <1>7. AbortedInv' /\ CountInv'
    BY <1>1 DEF IInv, AbortedInv, CountInv, Active
  <1>8. TypeOK'
    BY <1>1, <1>3 DEF IInv, TypeOK, Frame
  <1> QED BY <1>3, <1>4, <1>5, <1>6, <1>7, <1>8 DEF IInv

LEMMA IterateQueryStep ==
  ASSUME IInv, IterateQuery
  PROVE  IInv'
  <1>1. Iterate /\ pc = "closing" /\ stack # <<>> /\ Top.at \in Address
        /\ QueryIn(resource, Top.at)
    BY DEF IterateQuery, Iterate, Active, IsQuery, QueryIn
  <1>2. ~ RowIn(resource, Top.at)
    BY <1>1, NowRecord, Kinds
  <1>3. CASE then = "abort"
    <2>1. stack' = Advance(stack, Now) /\ UNCHANGED <<heap, referenceCount>>
      BY <1>3 DEF IterateQuery
    <2> QED BY <1>1, <1>2, <1>3, <2>1, StaysStep
  <1>4. CASE then # "abort"
    <2>1. PICK c : c = [Now EXCEPT !.res[Top.at].closed = TRUE]
      OBVIOUS
    <2>2. PICK h \in ClearLastRowSet(c, Top.at) :
            Become(h) /\ Count(h) /\ stack' = Advance(stack, h)
      BY <1>4, <2>1 DEF IterateQuery
    <2>3. PICK q : q = Top.at
      OBVIOUS
    <2>4. /\ c.res = [resource EXCEPT ![q].closed = TRUE] /\ c.server = server
          /\ c.breaks = breaks /\ c.ok = Now.ok
      BY <2>1, <2>3, NowRecord DEF HeapRecord
    <2>5. PICK x : x = [resource[q] EXCEPT !.closed = TRUE]
      OBVIOUS
    <2>6. resource[q] \in Query /\ q \in Address
      BY <1>1, <2>3, NowRecord, Kinds
    <2>7. x \in Query /\ x.lastRowSet = resource[q].lastRowSet
      BY <2>5, <2>6 DEF Query
    <2>8. /\ c.res \in Resources /\ c.res[q] = x
          /\ \A a \in Address \ {q} : c.res[a] = resource[a]
      BY <2>4, <2>5, <2>6, <2>7, NowRecord DEF Resources
    <2>9. c \in HeapRecord
      BY <2>1, <2>4, <2>8, NowRecord DEF HeapRecord
    <2>10. QueryIn(c.res, q) /\ ~ RowIn(c.res, q)
      BY <2>6, <2>7, <2>8, Kinds
    <2>11. HeapOK(c.res, handle, server)
      <3>1. \A a \in Address :
              /\ QueryIn(c.res, a) <=> QueryIn(resource, a)
              /\ RowIn(c.res, a) <=> RowIn(resource, a)
              /\ QueryIn(resource, a) => c.res[a].lastRowSet = resource[a].lastRowSet
              /\ RowIn(resource, a) => c.res[a] = resource[a]
        <4> TAKE a \in Address
        <4>1. CASE a = q
          BY <1>1, <1>2, <2>3, <2>7, <2>8, <2>10, <4>1
        <4>2. CASE a # q
          BY <2>8, <4>2 DEF QueryIn, RowIn
        <4> QED BY <4>1, <4>2
      <3>2. \A a \in Address :
              /\ RowIn(resource, a) => c.res[a].refs = resource[a].refs
              /\ RowIn(c.res, a) /\ ~ c.res[a].closed =>
                   ~ resource[a].closed /\ c.res[a].unread = c.res[a].rows + c.res[a].remaining
        BY <3>1, NowRecord DEF OwnedOK
      <3>3. \A k \in server : RowIn(c.res, k) /\ ~ c.res[k].closed /\ c.res[k].connection = "current"
        BY <3>1, NowRecord DEF OwnedOK
      <3> QED BY <2>8, <3>1, <3>2, <3>3, NowRecord, AlikeKeeps
    <2>12. LinksOK(c.res) /\ OwnedOK(c.res, c.server)
      BY <2>4, <2>11 DEF HeapOK
    <2>13. /\ h \in HeapRecord /\ Cleared(c.res, h.res, q)
           /\ Keeps(c.res, c.server, h.res, h.server)
           /\ c.res[q].lastRowSet # NULL => c.res[q].lastRowSet \notin h.server
      BY <2>2, <2>3, <2>6, <2>9, <2>10, <2>12, ClearEffect
    <2>14. h.res \in Resources
      BY <2>13 DEF HeapRecord
    <2>15. HeapOK(h.res, handle, h.server)
      BY <2>4, <2>6, <2>10, <2>11, <2>13, <2>14, NowRecord, ClearKeeps
    <2>16. QueryIn(h.res, q) /\ h.res[q].lastRowSet = NULL /\ ~ h.res[q].visible
      BY <2>13 DEF Cleared
    <2>17. Shrinks(resource, h.res)
      <3>1. Shrinks(c.res, h.res)
        BY <2>6, <2>8, <2>10, <2>12, <2>13, <2>14, SmallerShrinks
      <3> QED BY <1>1, <2>3, <2>8, <2>16, <3>1 DEF Shrinks, Same, RowIn, QueryIn
    <2>18. ~ RowIn(h.res, q)
      BY <2>6, <2>14, <2>16, Kinds
    <2>19. Passed(h.res, then, Top.at)
      BY <1>1, <2>14, <2>17, PassedStays
    <2>20. resource' = h.res /\ pc' = pc /\ then' = then /\ closed' = closed
      BY <1>1, <2>2 DEF Become, Iterate
    <2>21. stack' \in Seq(Frame) /\ ClosingInv'
      BY <1>1, <2>2, <2>3, <2>16, <2>18, <2>19, <2>20, Advances
    <2> QED BY <1>1, <2>2, <2>13, <2>15, <2>17, <2>21, Iterated
  <1> QED BY <1>3, <1>4

LEMMA IterateRowSetStep ==
  ASSUME IInv, IterateRowSet
  PROVE  IInv'
  <1>1. Iterate /\ pc = "closing" /\ stack # <<>> /\ Top.at \in Address
        /\ RowIn(resource, Top.at)
    BY DEF IterateRowSet, Iterate, Active, IsRowSet, RowIn
  <1>2. ~ QueryIn(resource, Top.at)
    BY <1>1, NowRecord, Kinds
  <1>3. CASE TransactionalOnly(Top.at)
    <2>1. stack' = Advance(stack, Now) /\ UNCHANGED <<heap, referenceCount>>
      BY <1>3 DEF IterateRowSet
    <2>2. then = "abort" /\ resource[Top.at].transactionId = 0
      BY <1>3 DEF TransactionalOnly
    <2> QED BY <1>1, <1>2, <2>1, <2>2, StaysStep
  <1>4. CASE ~ TransactionalOnly(Top.at)
    <2>1. PICK r : r = Top.at
      OBVIOUS
    <2>2. PICK h \in CloseRemote(Now, r) :
            /\ Become(h) /\ Count(h)
            /\ stack' = IF h.ok THEN Advance(stack, h) ELSE Recurse(h)
      BY <1>4, <2>1 DEF IterateRowSet
    <2>3. r \in Address /\ RowIn(resource, r)
      BY <1>1, <2>1
    <2>4. r \in server => ~ resource[r].closed /\ resource[r].connection = "current"
      BY NowRecord DEF OwnedOK
    <2>5. /\ h \in HeapRecord /\ r \notin h.server
          /\ Shut(resource, h.res, r) /\ Keeps(resource, server, h.res, h.server)
      BY <2>2, <2>3, <2>4, NowRecord, CloseRemoteEffect
    <2>6. h.res \in Resources
      BY <2>5 DEF HeapRecord
    <2>7. HeapOK(h.res, handle, h.server)
      BY <2>3, <2>5, <2>6, NowRecord, ShutKeeps
    <2>8. Shrinks(resource, h.res)
      BY <2>3, <2>5, <2>6, NowRecord, SmallerShrinks
    <2>9. RowIn(h.res, r) /\ h.res[r].closed
      BY <2>5 DEF Shut
    <2>10. ~ QueryIn(h.res, r)
      BY <2>3, <2>6, <2>9, Kinds
    <2>11. Passed(h.res, then, Top.at)
      BY <1>1, <2>6, <2>8, PassedStays
    <2>12. resource' = h.res /\ pc' = pc /\ then' = then /\ closed' = closed
      BY <1>1, <2>2 DEF Become, Iterate
    <2>13. stack' \in Seq(Frame) /\ ClosingInv'
      <3>1. CASE h.ok
        <4>1. stack' = Advance(stack, h)
          BY <2>2, <3>1
        <4> QED BY <1>1, <2>1, <2>9, <2>10, <2>11, <2>12, <4>1, Advances
      <3>2. CASE ~ h.ok
        <4>1. PICK n, t : n = After(h, 0) /\ t = stack'
          OBVIOUS
        <4>2. PICK b \in BOOLEAN : b = TRUE
          OBVIOUS
        <4>3. t = Append(stack, [at |-> n, silent |-> b])
          BY <2>2, <3>2, <4>1, <4>2 DEF Recurse
        <4>4. n \in Address \cup {NULL} /\ Passed(h.res, then, n)
          BY <4>1, PassedFirst
        <4>5. stack \in Seq(Frame)
          BY DEF IInv, TypeOK, Frame
        <4>6. t \in Seq(Frame) /\ t # <<>> /\ t[Len(t)].at = n
          BY <4>3, <4>4, <4>5, StackPushed
        <4>7. Passed(resource', then', stack'[Len(stack')].at)
          BY <2>12, <4>1, <4>4, <4>6
        <4>8. ~ closed /\ then \in {"abort", "close", "closeAll"}
          BY <1>1 DEF IInv, ClosingInv
        <4> QED BY <2>12, <4>1, <4>6, <4>7, <4>8 DEF ClosingInv, Top
      <3> QED BY <3>1, <3>2
    <2> QED BY <1>1, <2>2, <2>5, <2>7, <2>8, <2>13, Iterated
  <1> QED BY <1>3, <1>4

LEMMA EndOfIterationStep ==
  ASSUME IInv, EndOfIteration
  PROVE  IInv'
  <1>1. /\ pc = "closing" /\ pc' = pc /\ then' = then /\ subject' = subject
        /\ handle' = handle /\ closed' = closed /\ aborted' = aborted /\ calls' = calls
        /\ autoCommit' = autoCommit /\ transactionId' = transactionId
        /\ transactionStarted' = transactionStarted /\ referenceCount' = referenceCount
        /\ resource' = resource /\ server' = server /\ breaks' = breaks
        /\ stack # <<>> /\ Top.at = NULL
    BY DEF EndOfIteration, transaction, heap
  <1>2. stack \in Seq(Frame)
    BY DEF IInv, TypeOK, Frame
  <1>3. PICK s, t : s = Below /\ t = stack'
    OBVIOUS
  <1>4. s \in Seq(Frame)
    BY <1>1, <1>2, <1>3, StackPopped DEF Below
  <1>5. \/ t = <<>>
        \/ s # <<>> /\ s[Len(s)].at \in Active /\ t = Advance(s, Now)
        \/ s # <<>> /\ \E n \in Active \cup {NULL} : t = [s EXCEPT ![Len(s)].at = n]
    BY <1>3 DEF EndOfIteration
  <1>6. t \in Seq(Frame)
    <2>1. CASE t = <<>>
      BY <2>1
    <2>2. CASE s # <<>> /\ s[Len(s)].at \in Active /\ t = Advance(s, Now)
      BY <1>4, <2>2, Advanced DEF Active
    <2>3. CASE s # <<>> /\ \E n \in Active \cup {NULL} : t = [s EXCEPT ![Len(s)].at = n]
      <3>1. PICK n \in Active \cup {NULL} : t = [s EXCEPT ![Len(s)].at = n]
        BY <2>3
      <3>2. n \in Address \cup {NULL}
        BY DEF Active
      <3> QED BY <1>4, <2>3, <3>1, <3>2, StackMoved
    <2> QED BY <1>5, <2>1, <2>2, <2>3
  <1>7. Passed(resource, then, NULL)
    BY <1>1 DEF IInv, ClosingInv
  <1>8. \A at : Passed(resource, then, at)
    BY <1>7 DEF Passed
  <1>9. ClosingInv'
    <2>1. ~ closed /\ then \in {"abort", "close", "closeAll"}
      BY <1>1 DEF IInv, ClosingInv
    <2>2. Passed(resource', then', NULL)
      BY <1>1, <1>7
    <2>3. Passed(resource', then', stack'[Len(stack')].at)
      BY <1>1, <1>8
    <2> QED BY <1>1, <2>1, <2>2, <2>3 DEF ClosingInv, Top
  <1>10. HeapInv' /\ ShownInv'
    BY <1>1 DEF IInv, HeapInv, ShownInv
  <1>11. FollowInv' /\ ReadInv'
    BY <1>1 DEF IInv, FollowInv, ReadInv
  <1>12. ClosedInv'
    BY <1>1 DEF IInv, ClosedInv, Active
  <1>13. AbortedInv' /\ CountInv'
    BY <1>1 DEF IInv, AbortedInv, CountInv, Active
  <1>14. TypeOK'
    BY <1>1, <1>3, <1>6 DEF IInv, TypeOK, Frame
  <1> QED BY <1>9, <1>10, <1>11, <1>12, <1>13, <1>14 DEF IInv

LEMMA CrashStep ==
  ASSUME IInv, Crash
  PROVE  IInv'
  <1>1. /\ pc = "closing" /\ pc' = "crashed" /\ then' = then /\ subject' = subject
        /\ handle' = handle /\ closed' = closed /\ aborted' = aborted /\ calls' = calls
        /\ autoCommit' = autoCommit /\ transactionId' = transactionId
        /\ transactionStarted' = transactionStarted /\ referenceCount' = referenceCount
        /\ resource' = resource /\ server' = server /\ breaks' = breaks /\ stack' = stack
    BY DEF Crash, transaction, heap
  <1>2. ~ closed
    BY <1>1 DEF IInv, ClosingInv
  <1>3. HeapInv' /\ ShownInv'
    BY <1>1 DEF IInv, HeapInv, ShownInv
  <1>4. FollowInv' /\ ClosingInv' /\ ClosedInv'
    BY <1>1, <1>2 DEF FollowInv, ClosingInv, ClosedInv
  <1>5. ReadInv'
    BY <1>1 DEF IInv, ReadInv
  <1>6. AbortedInv' /\ CountInv'
    BY <1>1, <1>2 DEF IInv, AbortedInv, CountInv, Active
  <1>7. TypeOK'
    BY <1>1 DEF IInv, TypeOK
  <1> QED BY <1>3, <1>4, <1>5, <1>6, <1>7 DEF IInv

LEMMA AbortReturnsStep ==
  ASSUME IInv, AbortReturns
  PROVE  IInv'
  <1>1. /\ pc = "closing" /\ stack = <<>> /\ then = "abort"
        /\ pc' = "idle" /\ subject' = NULL /\ then' = "none"
        /\ handle' = handle /\ closed' = closed /\ aborted' = aborted /\ calls' = calls
        /\ autoCommit' = autoCommit /\ transactionId' = transactionId
        /\ transactionStarted' = transactionStarted /\ referenceCount' = referenceCount
        /\ resource' = resource /\ server' = server /\ breaks' = breaks /\ stack' = stack
    BY DEF AbortReturns, EndCall, transaction, heap
  <1>2. ~ closed /\ Passed(resource, "abort", NULL)
    BY <1>1 DEF IInv, ClosingInv
  <1>3. HeapInv' /\ ShownInv'
    BY <1>1 DEF IInv, HeapInv, ShownInv
  <1>4. FollowInv' /\ ClosingInv' /\ ClosedInv'
    BY <1>1, <1>2 DEF FollowInv, ClosingInv, ClosedInv
  <1>5. ReadInv'
    BY <1>1 DEF IInv, ReadInv
  <1>6. AbortedInv'
    <2>1. \A t \in aborted : t # 0 /\ t < transactionId
      BY DEF IInv, AbortedInv
    <2>2. Dead(resource, aborted)
      BY <1>2, <2>1 DEF Passed, Dead
    <2> QED BY <1>1, <2>1, <2>2 DEF AbortedInv
  <1>7. CountInv'
    BY <1>1, <1>2 DEF IInv, CountInv, Active
  <1>8. TypeOK'
    BY <1>1 DEF IInv, TypeOK
  <1> QED BY <1>3, <1>4, <1>5, <1>6, <1>7, <1>8 DEF IInv

LEMMA ContainerClosesStep ==
  ASSUME IInv, ContainerCloses
  PROVE  IInv'
  <1>1. /\ pc = "closing" /\ stack = <<>> /\ then # "abort" /\ closed' = TRUE
        /\ \/ /\ Active # {} /\ pc' = "releasing"
              /\ subject' = subject /\ then' = then /\ referenceCount' = referenceCount
           \/ /\ pc' = "idle" /\ subject' = NULL /\ then' = "none"
              /\ referenceCount' = referenceCount - 1
        /\ handle' = handle /\ aborted' = aborted /\ calls' = calls
        /\ autoCommit' = autoCommit /\ transactionId' = transactionId
        /\ transactionStarted' = transactionStarted
        /\ resource' = resource /\ server' = server /\ breaks' = breaks /\ stack' = stack
    BY DEF ContainerCloses, EndCall, transaction, heap
  <1>2. ~ closed /\ Passed(resource, then, NULL)
    BY <1>1 DEF IInv, ClosingInv
  <1>3. Passed(resource, "close", NULL)
    BY <1>1, <1>2 DEF Passed
  <1>4. HeapInv' /\ ShownInv'
    BY <1>1 DEF IInv, HeapInv, ShownInv
  <1>5. FollowInv' /\ ClosingInv'
    BY <1>1 DEF FollowInv, ClosingInv
  <1>6. ClosedInv'
    BY <1>1, <1>3 DEF ClosedInv, Active
  <1>7. ReadInv'
    BY <1>1 DEF IInv, ReadInv
  <1>8. AbortedInv'
    BY <1>1 DEF IInv, AbortedInv
  <1>9. CountInv' /\ referenceCount' \in Nat
    <2>1. referenceCount = Number(resource) + 1 /\ Number(resource) \in Nat
      BY <1>2, NumberType DEF IInv, CountInv, Number, Active
    <2>2. referenceCount' = Number(resource') + (IF pc' = "releasing" THEN 1 ELSE 0)
      BY <1>1, <2>1
    <2>3. referenceCount' \in Nat
      BY <1>1, <2>1
    <2> QED BY <1>1, <2>2, <2>3 DEF CountInv, Number, Active
  <1>10. TypeOK'
    BY <1>1, <1>9 DEF IInv, TypeOK
  <1> QED BY <1>4, <1>5, <1>6, <1>7, <1>8, <1>9, <1>10 DEF IInv

(* Every row set is closed and no query has one, so that the last resource  *)
(* has as many references as handles.                                      *)
LEMMA ReleaseLastStep ==
  ASSUME IInv, ReleaseLast
  PROVE  IInv'
  <1>1. /\ pc = "releasing" /\ closed' = closed /\ stack' = stack /\ aborted' = aborted
        /\ calls' = calls /\ autoCommit' = autoCommit /\ transactionId' = transactionId
        /\ transactionStarted' = transactionStarted
    BY DEF ReleaseLast, transaction
  <1>2. closed /\ Active # {} /\ Passed(resource, "close", NULL)
    BY <1>1 DEF IInv, ClosedInv
  <1>3. PICK a : a = Max(Active)
    OBVIOUS
  <1>4. a \in Address /\ a \in Active
    BY <1>2, <1>3, MaxInSet DEF Active
  <1>5. PICK h \in IF IsQuery(a)
                   THEN {[g EXCEPT !.res[a] = NULL] : g \in ClearLastRowSet(Now, a)}
                   ELSE CloseRowSetOf(Now, a) :
          LET left == {b \in Address : h.res[b] # NULL}
              ends == left = {} \/ Cardinality(left) = Cardinality(Active)
          IN /\ Become(h)
             /\ handle' = [handle EXCEPT ![a] = @ - 1]
             /\ referenceCount' = referenceCount + Cardinality(left)
                                    - Cardinality(Active) - (IF ends THEN 1 ELSE 0)
             /\ IF ends THEN EndCall ELSE UNCHANGED <<pc, subject, then>>
    BY <1>3 DEF ReleaseLast
  <1>6. PICK ends : ends = ({b \in Address : h.res[b] # NULL} = {}
                             \/ Number(h.res) = Number(resource))
    OBVIOUS
  <1>7. /\ Become(h) /\ handle' = [handle EXCEPT ![a] = @ - 1]
        /\ referenceCount' = referenceCount + Number(h.res) - Number(resource)
                               - (IF ends THEN 1 ELSE 0)
        /\ IF ends THEN EndCall ELSE pc' = pc /\ subject' = subject /\ then' = then
    BY <1>5, <1>6 DEF Number, Active
  <1>8. /\ h \in HeapRecord /\ h.res \in Resources /\ handle' \in [Address -> Nat]
        /\ HeapOK(h.res, handle', h.server) /\ Shrinks(resource, h.res)
        /\ \A b \in Address : handle'[b] > 0 => handle[b] > 0
    <2>1. CASE IsQuery(a)
      <3>1. QueryIn(resource, a)
        BY <2>1 DEF IsQuery, QueryIn
      <3>2. handle[a] = 1
        BY <1>4, <3>1, NowRecord DEF CountsOK
      <3>3. PICK c \in ClearLastRowSet(Now, a) : h = [c EXCEPT !.res[a] = NULL]
        BY <1>5, <2>1
      <3>4. /\ c \in HeapRecord /\ c.res \in Resources /\ c.server \in SUBSET Address
            /\ HeapOK(c.res, handle, c.server) /\ Shrinks(resource, c.res)
            /\ QueryIn(c.res, a) /\ c.res[a].lastRowSet = NULL
        BY <1>4, <3>1, ClearNow
      <3>5. /\ h.res = [c.res EXCEPT ![a] = NULL] /\ h.server = c.server
            /\ h.breaks = c.breaks /\ h.ok = c.ok
        BY <3>3, <3>4 DEF HeapRecord
      <3>6. /\ h.res \in Resources /\ h.res[a] = NULL
            /\ \A b \in Address \ {a} : h.res[b] = c.res[b]
        BY <1>4, <3>4, <3>5 DEF Resources
      <3>7. h \in HeapRecord
        BY <3>3, <3>4, <3>5, <3>6 DEF HeapRecord
      <3>8. /\ handle' \in [Address -> Nat] /\ handle'[a] = 0
            /\ \A b \in Address \ {a} : handle'[b] = handle[b]
        BY <1>4, <1>7, <3>2, NowRecord
      <3>9. HeapOK(h.res, handle', h.server)
        <4>1. PICK f, gave : f = h.res /\ gave = handle'
          OBVIOUS
        <4>2. handle \in [Address -> Nat] /\ h.server \subseteq Address
          BY <3>4, <3>5, NowRecord
        <4>3. HeapOK(c.res, handle, h.server)
          BY <3>4, <3>5
        <4>4. f \in Resources /\ f[a] = NULL /\ \A b \in Address \ {a} : f[b] = c.res[b]
          BY <3>6, <4>1
        <4>5. /\ gave \in [Address -> Nat] /\ gave[a] = 0
              /\ \A b \in Address \ {a} : gave[b] = handle[b]
          BY <3>8, <4>1
        <4>6. HeapOK(f, gave, h.server)
          BY <1>4, <3>4, <4>2, <4>3, <4>4, <4>5, DropKeeps
        <4> QED BY <4>1, <4>6
      <3>10. Shrinks(resource, h.res)
        BY <1>4, <3>4, <3>6, NowRecord, SmallerShrinks, ShrinkTwice
      <3> QED BY <3>6, <3>7, <3>8, <3>9, <3>10
    <2>2. CASE ~ IsQuery(a)
      <3>1. RowIn(resource, a)
        BY <1>4, <2>2, NowRecord, Kinds DEF IsQuery, QueryIn, Active
      <3>2. h \in CloseRowSetOf(Now, a)
        BY <1>5, <2>2
      <3>3. ~ Held(resource, a)
        <4>1. \A q \in Address : QueryIn(resource, q) => resource[q].lastRowSet = NULL
          BY <1>2 DEF Passed
        <4> QED BY <1>4, <4>1, NowRecord DEF Held, HeldBy
      <3>4. handle[a] > 0
        <4>1. resource[a].refs = handle[a]
          BY <1>4, <3>1, <3>3, NowRecord DEF CountsOK
        <4>2. resource[a].refs \in Nat \ {0}
          BY <1>4, <3>1, NowRecord, Kinds DEF RowSet
        <4> QED BY <4>1, <4>2
      <3>5. a \in server => ~ resource[a].closed /\ resource[a].connection = "current"
        BY NowRecord DEF OwnedOK
      <3>6. /\ h \in HeapRecord /\ a \notin h.server
            /\ Released(resource, h.res, a) /\ Keeps(resource, server, h.res, h.server)
        BY <1>4, <3>1, <3>2, <3>5, NowRecord, CloseRowSetEffect
      <3>7. h.res \in Resources
        BY <3>6 DEF HeapRecord
      <3>8. HeapOK(h.res, handle', h.server)
        BY <1>4, <1>7, <3>1, <3>4, <3>6, <3>7, NowRecord, ReleaseKeeps
      <3>9. Shrinks(resource, h.res)
        BY <1>4, <3>1, <3>6, <3>7, NowRecord, SmallerShrinks
      <3>10. handle' \in [Address -> Nat] /\ \A b \in Address : handle'[b] > 0 => handle[b] > 0
        BY <1>4, <1>7, <3>4, NowRecord
      <3> QED BY <3>6, <3>7, <3>8, <3>9, <3>10
    <2> QED BY <2>1, <2>2
  <1>9. /\ resource' = h.res /\ resource' \in Resources
        /\ server' \in SUBSET Address /\ breaks' \in Nat
        /\ HeapInv' /\ ShownInv'
        /\ \A what, at : Passed(resource, what, at) => Passed(resource', what, at)
        /\ \A ts : Dead(resource, ts) => Dead(resource', ts)
        /\ \A s : Read(resource, handle, s) => Read(resource', handle', s)
    BY <1>7, <1>8, ShrinkStep
  <1>10. CASE ends
    <2>1. pc' = "idle" /\ subject' = NULL /\ then' = "none"
      BY <1>7, <1>10 DEF EndCall
    <2>2. CountInv' /\ referenceCount' \in Nat
      <3>1. referenceCount = Number(resource) + 1
        BY <1>1 DEF IInv, CountInv, Number, Active
      <3>2. Number(resource) \in Nat /\ Number(h.res) \in Nat
        BY NumberType
      <3>3. referenceCount' = Number(resource')
        BY <1>7, <1>9, <1>10, <3>1, <3>2
      <3> QED BY <1>1, <1>2, <1>9, <2>1, <3>2, <3>3 DEF CountInv, Number, Active
    <2>3. TypeOK'
      BY <1>1, <1>8, <1>9, <2>1, <2>2 DEF IInv, TypeOK, Resources
    <2>4. FollowInv' /\ ClosingInv'
      BY <2>1 DEF FollowInv, ClosingInv
    <2>5. ClosedInv'
      BY <1>2, <1>9, <2>1 DEF ClosedInv
    <2>6. ReadInv'
      BY <1>1, <1>9, <2>1 DEF IInv, ReadInv
    <2>7. AbortedInv'
      BY <1>1, <1>9 DEF IInv, AbortedInv
    <2> QED BY <1>9, <2>2, <2>3, <2>4, <2>5, <2>6, <2>7 DEF IInv
  <1>11. CASE ~ ends
    <2>1. pc' = pc /\ subject' = subject /\ then' = then
      BY <1>7, <1>11
    <2>2. CountInv' /\ referenceCount' \in Nat
      <3>1. referenceCount = Number(resource) + 1
        BY <1>1 DEF IInv, CountInv, Number, Active
      <3>2. Number(resource) \in Nat /\ Number(h.res) \in Nat
        BY NumberType
      <3>3. referenceCount' = Number(resource') + 1
        BY <1>7, <1>9, <1>11, <3>1, <3>2
      <3> QED BY <1>1, <1>9, <2>1, <3>2, <3>3 DEF CountInv, Number, Active
    <2>3. TypeOK'
      BY <1>1, <1>8, <1>9, <2>1, <2>2 DEF IInv, TypeOK, Resources
    <2>4. FollowInv' /\ ClosingInv'
      BY <1>1, <2>1 DEF FollowInv, ClosingInv
    <2>5. ClosedInv'
      <3>1. Active' # {}
        BY <1>6, <1>9, <1>11 DEF Active
      <3> QED BY <1>1, <1>2, <1>9, <2>1, <3>1 DEF ClosedInv
    <2>6. ReadInv'
      BY <1>1, <1>9, <2>1 DEF IInv, ReadInv
    <2>7. AbortedInv'
      BY <1>1, <1>9, <2>1 DEF IInv, AbortedInv
    <2> QED BY <1>9, <2>2, <2>3, <2>4, <2>5, <2>6, <2>7 DEF IInv
  <1> QED BY <1>10, <1>11

LEMMA RowSetsStep ==
  ASSUME IInv, [Next]_vars
  PROVE  IInv'
  <1>1. CASE UNCHANGED vars
    BY <1>1, StutterStep
  <1>2. CASE Continue
    BY <1>2, CannotFollowStep, FetchFollowingStep, ExecuteFollowingStep, IterateQueryStep,
       IterateRowSetStep, EndOfIterationStep, CrashStep, AbortReturnsStep,
       ContainerClosesStep, ReleaseLastStep DEF Continue
  <1>3. CASE NewQuery
    BY <1>3, NewQueryStep
  <1>4. CASE \E q \in Address, mode \in Mode :
               FetchAll(q, mode) \/ \E forUpdate \in BOOLEAN : Fetch(q, mode, forUpdate)
    BY <1>4, FetchAllStep, FetchStep
  <1>5. CASE \E q \in Address : GetRowSet(q) \/ CloseQuery(q)
    BY <1>5, GetRowSetStep, CloseQueryStep
  <1>6. CASE \E r \in Address : NextRow(r) \/ CloseRowSet(r)
    BY <1>6, NextRowStep, CloseRowSetStep
  <1>7. CASE StartTransaction \/ Commit \/ SetAutoCommit
    BY <1>7, TransactionStep
  <1>8. CASE Abort
    BY <1>8, AbortStep
  <1>9. CASE \E allRelated \in BOOLEAN : CloseContainer(allRelated)
    BY <1>9, CloseContainerStep
  <1>10. CASE ConnectionFails
    BY <1>10, ConnectionFailsStep
  <1>11. CASE Terminated
    BY <1>11, StutterStep DEF Terminated
  <1> QED BY <1>1, <1>2, <1>3, <1>4, <1>5, <1>6, <1>7, <1>8, <1>9, <1>10, <1>11 DEF Next

-----------------------------------------------------------------------------
(* The inductive invariant, and what it says of the counts and the holders. *)

LEMMA RowSetsInductive == Spec => []IInv
  <1>1. IInv /\ [Next]_vars => IInv'
    BY RowSetsStep
  <1> QED BY <1>1, RowSetsInit, PTL DEF Spec

(* Its holder is one query, or none. *)
LEMMA HoldersCounted ==
  ASSUME IInv, NEW r \in Address
  PROVE  /\ Held(resource, r) => Cardinality(Holders(r)) = 1
         /\ ~ Held(resource, r) => Cardinality(Holders(r)) = 0
  <1>1. \A q \in Address : q \in Holders(r) <=> HeldBy(resource, q, r)
    BY DEF Holders, HeldBy, IsQuery, QueryIn
  <1>2. Holders(r) \subseteq Address
    BY DEF Holders
  <1>3. CASE Held(resource, r)
    <2>1. PICK q \in Address : HeldBy(resource, q, r)
      BY <1>3 DEF Held
    <2>2. \A p \in Address : HeldBy(resource, p, r) => p = q
      BY <2>1, NowRecord DEF LinksOK
    <2>3. Holders(r) = {q}
      BY <1>1, <1>2, <2>1, <2>2
    <2> QED BY <1>3, <2>3, FS_Singleton
  <1>4. CASE ~ Held(resource, r)
    <2>1. Holders(r) = {}
      BY <1>1, <1>2, <1>4 DEF Held
    <2> QED BY <1>4, <2>1, FS_EmptySet
  <1> QED BY <1>3, <1>4

-----------------------------------------------------------------------------
(* The properties, for any bounds and whatever fails. *)

(* The references of the row sets and of the container are what their       *)
(* holders amount to: the last one of close deletes the object, and none is *)
(* left with a pointer to it.                                              *)
THEOREM RowSetsReferencesExact == Spec => []ReferencesExact
  <1>1. ASSUME IInv
        PROVE  ReferencesExact
    <2>1. \A a \in Address : handle[a] > 0 => a \in Active
      BY <1>1, NowRecord DEF CountsOK, Active
    <2>2. ASSUME NEW r \in Address, IsRowSet(r)
          PROVE  resource[r].refs = handle[r] + Cardinality(Holders(r))
      <3>1. RowIn(resource, r) /\ handle[r] \in Nat
        BY <1>1, <2>2, NowRecord DEF IsRowSet, RowIn
      <3>2. CASE Held(resource, r)
        BY <1>1, <3>1, <3>2, HoldersCounted, NowRecord DEF CountsOK
      <3>3. CASE ~ Held(resource, r)
        BY <1>1, <3>1, <3>3, HoldersCounted, NowRecord DEF CountsOK
      <3> QED BY <3>2, <3>3
    <2>3. ASSUME NEW q \in Address, IsQuery(q)
          PROVE  resource[q].lastRowSet = NULL \/ IsRowSet(resource[q].lastRowSet)
      BY <1>1, <2>3, NowRecord DEF LinksOK, IsQuery, QueryIn, IsRowSet, RowIn
    <2> QED BY <1>1, <2>1, <2>2, <2>3 DEF ReferencesExact, IInv, CountInv
  <1> QED BY <1>1, RowSetsInductive, PTL

(* However reading on or closing has failed, a row set that is open is the  *)
(* last one of one query, and the node keeps nothing that is not the result *)
(* of an open row set that can close it.                                   *)
THEOREM RowSetsOpenResultsOwned == Spec => []OpenResultsOwned
  <1>1. ASSUME IInv
        PROVE  OpenResultsOwned
    <2>1. ASSUME NEW r \in Address, IsRowSet(r), ~ resource[r].closed
          PROVE  Cardinality(Holders(r)) = 1
      <3>1. Held(resource, r)
        BY <1>1, <2>1, NowRecord DEF OwnedOK, IsRowSet, RowIn
      <3> QED BY <1>1, <3>1, HoldersCounted
    <2>2. ASSUME NEW r \in server
          PROVE  /\ IsRowSet(r) /\ ~ resource[r].closed
                 /\ resource[r].connection = "current"
      BY <1>1, <2>2, NowRecord DEF OwnedOK, IsRowSet, RowIn
    <2> QED BY <2>1, <2>2 DEF OpenResultsOwned
  <1> QED BY <1>1, RowSetsInductive, PTL

(* An open row set that has no next row has given all of its result. *)
THEOREM RowSetsRowsComplete == Spec => []RowsComplete
  <1>1. ASSUME IInv
        PROVE  RowsComplete
    <2> SUFFICES ASSUME pc = "idle", NEW r \in Address, IsRowSet(r), ~ resource[r].closed,
                        handle[r] > 0, resource[r].rows = 0
                 PROVE  resource[r].unread = 0 /\ resource[r].status = 0
      BY DEF RowsComplete
    <2>1. RowIn(resource, r) /\ resource[r] \in RowSet
      BY <1>1, NowRecord, Kinds DEF IsRowSet, RowIn
    <2>2. Read(resource, handle, NULL)
      BY <1>1 DEF IInv, ReadInv
    <2>3. ~ MoreToRead(resource, r)
      BY <1>1, <2>1, <2>2, NowRecord DEF Read
    <2>4. resource[r].unread = resource[r].rows + resource[r].remaining
      BY <1>1, <2>1, NowRecord DEF OwnedOK
    <2>5. resource[r].remaining \in 0 .. MaxRows /\ MaxRows \in Nat
      BY <2>1, RowSetsAssumption DEF RowSet
    <2>6. ~ (resource[r].remaining > 0) /\ resource[r].status = 0
      BY <2>3 DEF MoreToRead
    <2> QED BY <2>4, <2>5, <2>6
  <1> QED BY <1>1, RowSetsInductive, PTL

(* After an abort no row set of its transaction gives a row, whichever of   *)
(* the closes has failed.                                                  *)
THEOREM RowSetsAbortedUnreadable == Spec => []AbortedUnreadable
  <1>1. ASSUME IInv
        PROVE  AbortedUnreadable
    BY <1>1 DEF IInv, AbortedInv, Dead, AbortedUnreadable, IsRowSet, RowIn
  <1> QED BY <1>1, RowSetsInductive, PTL

(* Closing a container leaves no row set open and nothing on the node,      *)
(* whichever of the closes has failed.                                     *)
THEOREM RowSetsClosedHoldsNothing == Spec => []ClosedHoldsNothing
  <1>1. ASSUME IInv
        PROVE  ClosedHoldsNothing
    <2> SUFFICES ASSUME pc = "idle", closed
                 PROVE  /\ server = {}
                        /\ \A r \in Address : IsRowSet(r) => resource[r].closed
      BY DEF ClosedHoldsNothing
    <2>1. Passed(resource, "close", NULL)
      BY <1>1 DEF IInv, ClosedInv
    <2>2. \A r \in Address : RowIn(resource, r) => resource[r].closed
      BY <2>1 DEF Passed
    <2>3. \A r \in server : r \in Address /\ RowIn(resource, r) /\ ~ resource[r].closed
      BY <1>1, NowRecord DEF OwnedOK
    <2> QED BY <2>2, <2>3 DEF IsRowSet, RowIn
  <1> QED BY <1>1, RowSetsInductive, PTL
=============================================================================
