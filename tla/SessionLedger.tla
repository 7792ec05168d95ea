---------------------------- MODULE SessionLedger ----------------------------
(***************************************************************************)
(* What becomes of the session numbers of one store, as its containers     *)
(* may rely on it.  A number is new, then it belongs to one container of   *)
(* the server for good: some handle of the container works in it, or it is *)
(* kept for the next one, and whoever gets it goes on with the statement   *)
(* after the last one.  A number that was given up is never used again.    *)
(***************************************************************************)
EXTENDS Integers

CONSTANTS SessionId, Container

VARIABLE session

New == [stage |-> "new"]
Gone == [stage |-> "gone"]

(* It is in use for the container, and the statements are counted. *)
Uses == [stage : {"held", "kept"}, container : Container, statement : Nat]

Init == session = [s \in SessionId |-> New]

(* The numbers are given in their order; a number may be given in vain. *)
Begin(s) ==
  /\ session[s] = New
  /\ session'[s].stage \in {"held", "gone"}
  /\ \A r \in SessionId : r < s => session[r] # New

(* A handle has the next statement executed, or tried to. *)
Count(s) ==
  /\ session[s].stage = "held"
  /\ session'[s] = [session[s] EXCEPT !.statement = @ + 1]

Keep(s) ==
  /\ session[s].stage = "held"
  /\ session'[s] = [session[s] EXCEPT !.stage = "kept"]

Take(s) ==
  /\ session[s].stage = "kept"
  /\ session'[s] = [session[s] EXCEPT !.stage = "held"]

GiveUp(s) == session[s] # New /\ session'[s] = Gone

Next ==
  /\ \E s \in SessionId :
       /\ Begin(s) \/ Count(s) \/ Keep(s) \/ Take(s) \/ GiveUp(s)
       /\ \A r \in SessionId \ {s} : GiveUp(r) \/ session'[r] = session[r]
  /\ session' \in [SessionId -> Uses \cup {New, Gone}]

Spec == Init /\ [][Next]_session
=============================================================================
