------------------------------ MODULE Directory ------------------------------
(***************************************************************************)
(* What the resolver of a channel promises the contexts that share it,     *)
(* whoever of them calls, reports or fails, and whatever the cluster does. *)
(* What it says of a partition is the last thing it has read, as it was at *)
(* one moment of the cluster.  It may forget that at any time, and a       *)
(* context that could not use an address is only told what was read after  *)
(* it was given that address.  A context learns the number of partitions   *)
(* once and for good.                                                      *)
(***************************************************************************)
EXTENDS Naturals

CONSTANTS Context, Node, Partition, NULL

VARIABLES
  placement,        \* where each partition is, in the cluster
  known,            \* where the directory has last read that it is, and when
  reads,            \* the number of times it has read so far
  answer,           \* the last address that each context was told, and when
                    \* it was read
  seen,             \* reads, when each context was told
  avoid,            \* reads, when it was told what it reported last
  count             \* the number of partitions each context has learned

vars == <<placement, known, reads, answer, seen, avoid, count>>

Unknown == [owner |-> NULL, backups |-> {}, stamp |-> 0]

Init ==
  /\ known = [p \in Partition |-> Unknown]
  /\ reads = 0
  /\ answer = [c \in Context |-> [address |-> NULL, stamp |-> 0]]
  /\ seen = [c \in Context |-> 0] /\ avoid = [c \in Context |-> 0]
  /\ count = [c \in Context |-> NULL]

(* The cluster moves partitions. *)
Move ==
  /\ placement' # placement
  /\ UNCHANGED <<known, reads, answer, seen, avoid, count>>

Read(p) ==
  /\ reads' = reads + 1
  /\ known' = [known EXCEPT ![p] =
       [owner |-> placement[p].owner, backups |-> placement[p].backups,
        stamp |-> reads']]
  /\ UNCHANGED <<placement, answer, seen, avoid, count>>

Forgetting ==
  \E S \in SUBSET Partition :
    known' = [p \in Partition |-> IF p \in S THEN Unknown ELSE known[p]]

Forget ==
  /\ Forgetting
  /\ UNCHANGED <<placement, reads, answer, seen, avoid, count>>

(* A context is told a node that has the partition. *)
Tell(c, p) ==
  /\ known[p].stamp > avoid[c]
  /\ \E address \in ({known[p].owner} \cup known[p].backups) \ {NULL} :
       answer' = [answer EXCEPT ![c] = [address |-> address, stamp |-> known[p].stamp]]
  /\ seen' = [seen EXCEPT ![c] = reads]
  /\ UNCHANGED <<placement, known, reads, avoid, count>>

(* The context could not use what it was told. *)
Report(c) ==
  /\ Forgetting
  /\ avoid' = [avoid EXCEPT ![c] = seen[c]]
  /\ UNCHANGED <<placement, reads, answer, seen, count>>

Learn(c) ==
  /\ count[c] = NULL
  /\ count' = [count EXCEPT ![c] = count'[c]] /\ count'[c] \in Nat \ {0}
  /\ UNCHANGED <<placement, known, reads, answer, seen, avoid>>

Next ==
  \/ Move \/ Forget
  \/ \E p \in Partition : Read(p)
  \/ \E c \in Context : Report(c) \/ Learn(c) \/ \E p \in Partition : Tell(c, p)

Spec == Init /\ [][Next]_vars
=============================================================================
