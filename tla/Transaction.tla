----------------------------- MODULE Transaction -----------------------------
(***************************************************************************)
(* What a container promises an application that puts rows, whatever is    *)
(* sent again, refused or lost on the way.  A row is offered once.  As     *)
(* long as its transaction lasts it is doubtful, and acknowledged when the *)
(* call that puts it has returned.  The transaction becomes durable as a   *)
(* whole, its doubtful rows perhaps; when it has ended without, none of    *)
(* its rows ever does.  With automatic commit each row is a transaction.   *)
(***************************************************************************)
CONSTANT Row            \* the rows that the application may put

VARIABLES
  offered,              \* the rows it has put so far
  acknowledged,         \* those of the transaction whose calls have returned
  doubtful,             \* those of the transaction whose calls have not, or
                        \* have failed
  durable,              \* the rows that are durable
  answer                \* what the application is about to be told

vars == <<offered, acknowledged, doubtful, durable, answer>>
rows == <<offered, acknowledged, doubtful>>

Nothing == [told |-> "nothing"]
Committed == [told |-> "committed"]
Aborted == [told |-> "aborted"]
Read(R) == [told |-> "rows", rows |-> R]

Init ==
  /\ offered = {} /\ acknowledged = {} /\ doubtful = {} /\ durable = {}
  /\ answer = Nothing

(* S may be taken for the rows of the transaction. *)
Whole(S) == acknowledged \subseteq S /\ S \subseteq acknowledged \cup doubtful

Offer(u) ==
  /\ u \notin offered
  /\ offered' = offered \cup {u} /\ doubtful' = doubtful \cup {u}
  /\ UNCHANGED <<acknowledged, durable, answer>>

Acknowledge(u) ==
  /\ u \in doubtful
  /\ acknowledged' = acknowledged \cup {u} /\ doubtful' = doubtful \ {u}
  /\ UNCHANGED <<offered, durable, answer>>

(* The transaction becomes durable, and no part of it was before. *)
Commit(S) ==
  /\ Whole(S) /\ S \cap durable = {}
  /\ durable' = durable \cup S
  /\ answer' \in {Nothing, Committed}
  /\ UNCHANGED rows

(* What the application is told is true when it is told; the answer may    *)
(* also be lost.                                                           *)
Tell ==
  /\ \/ answer' = Nothing
     \/ answer' = Committed /\ acknowledged \subseteq durable
     \/ answer' = Aborted /\ (acknowledged \cup doubtful) \cap durable = {}
     \/ \E S \in SUBSET Row : answer' = Read(S) /\ Whole(S)
  /\ UNCHANGED <<rows, durable>>

(* The transaction is over, as the application is told or after a failure. *)
End ==
  /\ acknowledged' = {} /\ doubtful' = {} /\ answer' = Nothing
  /\ UNCHANGED <<offered, durable>>

Next ==
  \/ \E u \in Row : Offer(u) \/ Acknowledge(u)
  \/ \E S \in SUBSET Row : Commit(S)
  \/ Tell \/ End

Spec == Init /\ [][Next]_vars
=============================================================================
