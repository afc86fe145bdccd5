---------------------------- MODULE PartitionLog ----------------------------
(***************************************************************************)
(* What a partition's log promises its callers, without files, segments,   *)
(* indexes or failures: records have consecutive offsets in the order of   *)
(* the Append calls, a record once stored stays, a caller is told the      *)
(* offset its own record has, and whenever the log is open it serves       *)
(* everything stored before it was opened.                                 *)
(*                                                                         *)
(* A record is stored before its Append is acknowledged, and the log may   *)
(* close between the two: then it is served although nobody was told.      *)
(***************************************************************************)
EXTENDS Integers

CONSTANT Ids  \* the numbers of the Append calls

VARIABLES
  log,      \* the stored records: offset and id
  visible,  \* the offset the next record will get, Shut while closed
  acked     \* offset and id of the acknowledged Appends

vars == <<log, visible, acked>>

Shut == -1

Init ==
  /\ log = {}
  /\ visible = Shut
  /\ acked = {}

Open ==
  /\ visible = Shut
  /\ visible' \in Nat
  /\ {r.off : r \in log} = 0 .. visible' - 1
  /\ UNCHANGED <<log, acked>>

Close ==
  /\ visible' = Shut
  /\ UNCHANGED <<log, acked>>

Store(id) ==
  /\ visible # Shut
  /\ \A r \in log : r.off < visible /\ r.id < id
  /\ log' = log \union {[off |-> visible, id |-> id]}
  /\ UNCHANGED <<visible, acked>>

Acknowledge ==
  /\ \E r \in log : r.off = visible /\ acked' = acked \union {r}
  /\ visible' = visible + 1
  /\ UNCHANGED log

Next == Open \/ Close \/ Acknowledge \/ \E id \in Ids : Store(id)

Spec == Init /\ [][Next]_vars
=============================================================================
