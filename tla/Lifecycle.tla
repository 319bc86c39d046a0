------------------------------ MODULE Lifecycle ------------------------------
(***************************************************************************)
(* What the quarantine store promises of a record, whatever the processes   *)
(* do that work on it: the file comes in once at most, leaves for good, is  *)
(* restored only after it has left, and a purged record never returns.      *)
(***************************************************************************)
CONSTANT Id

VARIABLE phase  \* of each record

Phases ==
  {"unused",    \* the id is not given out yet
   "coming",    \* there is a row, and a quarantine that may still move the file in
   "held",      \* a row and the file
   "left",      \* a row, and no file any more
   "restored",  \* a row that says so
   "doomed",    \* the row is gone while a quarantine may still move the file in
   "orphan",    \* a file that no row leads to
   "purged"}    \* neither

Init == phase = [i \in Id |-> "unused"]

Goes(i, from, to) == phase[i] = from /\ phase' = [phase EXCEPT ![i] = to]

Insert(i)   == Goes(i, "unused", "coming")
MoveIn(i)   == Goes(i, "coming", "held") \/ Goes(i, "doomed", "orphan")
GiveUp(i)   == Goes(i, "coming", "left") \/ Goes(i, "doomed", "purged")
MoveOut(i)  == Goes(i, "held", "left") \/ Goes(i, "orphan", "purged")
Restored(i) == Goes(i, "left", "restored")
Delete(i)   == \/ Goes(i, "coming", "doomed") \/ Goes(i, "held", "orphan")
               \/ Goes(i, "left", "purged") \/ Goes(i, "restored", "purged")

Next == \E i \in Id : \/ Insert(i) \/ MoveIn(i) \/ GiveUp(i)
                      \/ MoveOut(i) \/ Restored(i) \/ Delete(i)

Spec == Init /\ [][Next]_phase
=============================================================================
