---------------------------- MODULE PipelineProofs ----------------------------
(***************************************************************************)
(* Proofs about Detections by itself, for any number of reviews and scans, *)
(* and about Pipeline, where the event loop of Watcher drives its handler. *)
(***************************************************************************)
EXTENDS Pipeline, TLAPS, WellFoundedInduction

-----------------------------------------------------------------------------
(* Detections. *)

(* A row that nobody is about to resolve without a decision about the file   *)
(* that is there: no review stands at its UPDATE, and one that prompts for   *)
(* it has matched the very file.                                             *)
Safe(i, p) ==
  \A r \in Reviewer : review[r].pc # "idle" /\ Current(r) = i =>
    review[r].pc # "resolve" /\ (review[r].pc = "prompt" => <<r, p>> \in fresh)

(* A review that is at work is at the oldest of its rows.                    *)
LEMMA CurrentInTodo ==
  ASSUME TypeOK, NEW r \in Reviewer, review[r].todo # {}
  PROVE  Current(r) \in review[r].todo /\ Current(r) \in 1 .. MaxRow
<1> DEFINE T == review[r].todo
<1>1. T \in SUBSET (1 .. MaxRow) /\ MaxRow \in Nat BY DetectionsAssumption DEF TypeOK
<1>2. T \subseteq Nat /\ T # {} BY <1>1
<1>3. PICK x \in T : \A y \in T : ~ (<<y, x>> \in OpToRel(<, Nat))
  BY <1>2, NatLessThanWellFounded, WFMin, Zenon
<1>4. \A y \in T : x <= y
  <2> SUFFICES ASSUME NEW y \in T PROVE x <= y OBVIOUS
  <2>1. x \in Nat /\ y \in Nat BY <1>2
  <2>2. ~ (y < x) BY <1>3, <2>1 DEF OpToRel
  <2> QED BY <2>1, <2>2
<1>5. Min(T) \in T BY <1>4, Zenon DEF Min
<1> QED BY <1>1, <1>5 DEF Current

(* What a step leaves of the row a review is at.                             *)
LEMMA NextRowType ==
  ASSUME TypeOK, NEW r \in Reviewer, review[r].todo # {}, NextRow(r)
  PROVE  /\ review' \in [Reviewer -> [pc : {"idle", "scan", "prompt", "resolve"},
                              todo : SUBSET (1 .. MaxRow), resolution : Resolutions \cup {None}]]
         /\ \A q \in Reviewer : review'[q] # review[q] =>
              q = r /\ review'[q].pc \in {"idle", "scan"}
         /\ review'[r].todo \subseteq review[r].todo \ {Current(r)}
         /\ review'[r].pc \in {"idle", "scan"}
         /\ review'[r].pc # "idle" => review'[r].todo # {}
<1> DEFINE left == review[r].todo \ {Current(r)}
<1>1. review[r].todo \in SUBSET (1 .. MaxRow) BY DEF TypeOK
<1>2. left \in SUBSET (1 .. MaxRow) /\ left \subseteq review[r].todo \ {Current(r)} BY <1>1
<1>3. review' = [review EXCEPT ![r] =
        IF left = {} THEN NoReview ELSE [pc |-> "scan", todo |-> left, resolution |-> None]]
  BY DEF NextRow
<1> HIDE DEF left
<1> QED BY <1>2, <1>3 DEF TypeOK, NoReview

(* A review that goes on with its row keeps its list.                        *)
LEMMA StepType ==
  ASSUME TypeOK, NEW r \in Reviewer,
         NEW pc \in {"prompt", "resolve"}, NEW a \in Resolutions \cup {None}, OnRow(r, pc, a)
  PROVE  /\ review' \in [Reviewer -> [pc : {"idle", "scan", "prompt", "resolve"},
                              todo : SUBSET (1 .. MaxRow), resolution : Resolutions \cup {None}]]
         /\ \A q \in Reviewer : review'[q].todo = review[q].todo
         /\ \A q \in Reviewer \ {r} : review'[q] = review[q]
         /\ review'[r].pc = pc
<1>1. /\ review[r].todo \in SUBSET (1 .. MaxRow)
      /\ review' = [review EXCEPT ![r] = [pc |-> pc, todo |-> review[r].todo, resolution |-> a]]
  BY DEF TypeOK, OnRow
<1> QED BY <1>1 DEF TypeOK

(* The rows keep their type when one is added.                               *)
LEMMA AppendRow ==
  ASSUME NEW q \in Seq(Row), NEW e \in Row
  PROVE  /\ Append(q, e) \in Seq(Row) /\ Len(Append(q, e)) = Len(q) + 1
         /\ DOMAIN Append(q, e) = 1 .. Len(q) + 1
         /\ DOMAIN q = 1 .. Len(q)
         /\ Len(q) \in Nat
         /\ Append(q, e)[Len(q) + 1] = e
         /\ \A i \in DOMAIN q : Append(q, e)[i] = q[i]
OBVIOUS

(* Resolving a row changes neither its type nor the number of rows. *)
LEMMA ResolveRow ==
  ASSUME NEW q \in Seq(Row), NEW i \in DOMAIN q, NEW a \in Resolutions \cup {None}
  PROVE  /\ [q EXCEPT ![i].resolution = a] \in Seq(Row)
         /\ Len([q EXCEPT ![i].resolution = a]) = Len(q)
<1>0. q[i] \in Row OBVIOUS
<1>1. [q[i] EXCEPT !.resolution = a] \in Row
  <2>1. PICK old \in [path : Path, hash : Content, resolution : Resolutions \cup {None}] : q[i] = old
    BY <1>0 DEF Row
  <2>2. [old EXCEPT !.resolution = a] = [path |-> old.path, hash |-> old.hash, resolution |-> a]
    BY <2>1
  <2> QED BY <2>1, <2>2 DEF Row
<1>2. [q EXCEPT ![i].resolution = a] = [q EXCEPT ![i] = [q[i] EXCEPT !.resolution = a]] OBVIOUS
<1> QED BY <1>0, <1>1, <1>2

(* The rows that wait are rows there are.                                    *)
LEMMA PendingIds == ASSUME TypeOK PROVE Pending \subseteq DOMAIN rows /\ DOMAIN rows \subseteq 1 .. MaxRow
<1>1. rows \in Seq(Row) /\ Len(rows) <= MaxRow /\ MaxRow \in Nat BY DetectionsAssumption DEF TypeOK
<1>2. DOMAIN rows = 1 .. Len(rows) /\ Len(rows) \in Nat BY <1>1
<1> QED BY <1>1, <1>2 DEF Pending

(* What an answer, or its failure, does to the file keeps the types.         *)
LEMMA ActType ==
  ASSUME TypeOK, NEW proc \in Proc, NEW p \in Path,
         (\E a \in Answers : Act(proc, a, p)) \/ ActFails(proc, p)
  PROVE  /\ file'  \in [Path -> Content \cup {None}]
         /\ fresh' \in SUBSET (Proc \X Path) /\ fresh' \subseteq fresh
         /\ fate'  \in [Path -> {"new", "queued", "decided", "unread"}]
<1>2. CASE \E a \in Answers : Act(proc, a, p) BY <1>2 DEF Act, TypeOK
<1>3. CASE ActFails(proc, p) BY <1>3 DEF ActFails, TypeOK
<1> QED BY <1>2, <1>3

(* Every step keeps the types, and the reviews their rows.                   *)
TodoInv == /\ TypeOK
           /\ \A r \in Reviewer : /\ review[r].todo \subseteq DOMAIN rows
                                  /\ review[r].pc # "idle" => review[r].todo # {}
           /\ watch.pc = "enqueue" => watch.path \in Path /\ watch.hash \in Bad

(* A review keeps to the rows of its list, whatever step is taken.           *)
LEMMA TodoKept == ASSUME TodoInv, [Next]_vars PROVE TodoInv'
<1>1. TypeOK BY DEF TodoInv
<1>2. \A r \in Reviewer : review[r].todo \subseteq DOMAIN rows
  BY DEF TodoInv
<1>3. \A r \in Reviewer : review[r].pc # "idle" => review[r].todo # {}
  BY DEF TodoInv
<1>4. watch.pc = "enqueue" => watch.path \in Path /\ watch.hash \in Bad BY DEF TodoInv
<1>5. /\ rows \in Seq(Row) /\ DOMAIN rows = 1 .. Len(rows) /\ Len(rows) \in Nat
      /\ Bad \subseteq Content /\ MaxRow \in Nat
  BY <1>1, DetectionsAssumption DEF TypeOK
<1>6. \A r \in Reviewer : review[r].pc # "idle" =>
        /\ Current(r) \in review[r].todo /\ Current(r) \in DOMAIN rows
        /\ rows[Current(r)] \in Row
        /\ rows[Current(r)].path \in Path /\ rows[Current(r)].hash \in Content
  <2> SUFFICES ASSUME NEW r \in Reviewer, review[r].pc # "idle"
               PROVE  /\ Current(r) \in review[r].todo /\ Current(r) \in DOMAIN rows
                      /\ rows[Current(r)] \in Row
                      /\ rows[Current(r)].path \in Path /\ rows[Current(r)].hash \in Content
    OBVIOUS
  <2>1. Current(r) \in review[r].todo BY <1>1, <1>3, CurrentInTodo
  <2>2. Current(r) \in DOMAIN rows BY <2>1, <1>2
  <2>3. rows[Current(r)] \in Row BY <2>2, <1>5
  <2> QED BY <2>1, <2>2, <2>3 DEF Row
<1>7. CASE UNCHANGED vars BY <1>7 DEF vars, TodoInv, TypeOK
<1>8. ASSUME NEW p \in Path, WatchScan(p) PROVE TodoInv'
  BY <1>8, <1>1, <1>2, <1>3, <1>5 DEF WatchScan, TodoInv, TypeOK, Proc
<1>9. ASSUME NEW p \in Path, NEW c \in Content, Write(p, c) PROVE TodoInv'
  BY <1>9, <1>1, <1>2, <1>3, <1>4 DEF Write, TodoInv, TypeOK
<1>10. CASE Enqueue
  <2> DEFINE e == [path |-> watch.path, hash |-> watch.hash, resolution |-> None]
  <2>1. e \in Row BY <1>4, <1>5, <1>10 DEF Enqueue, Row
  <2>2. rows' = Append(rows, e) /\ Len(rows) < MaxRow BY <1>10 DEF Enqueue
  <2> HIDE DEF e
  <2>3. rows' \in Seq(Row) /\ Len(rows') <= MaxRow /\ DOMAIN rows \subseteq DOMAIN rows'
    BY <2>1, <2>2, <1>5, AppendRow
  <2>4. /\ UNCHANGED <<file, review, scan>> /\ watch' = Quiet
        /\ fresh' \in SUBSET (Proc \X Path)
        /\ fate' \in [Path -> {"new", "queued", "decided", "unread"}]
    BY <1>10, <1>1 DEF Enqueue, TypeOK
  <2> QED BY <2>3, <2>4, <1>1, <1>2, <1>3 DEF TodoInv, TypeOK, Quiet
<1>11. CASE EnqueueFails
  BY <1>11, <1>1, <1>2, <1>3 DEF EnqueueFails, Quiet, TodoInv, TypeOK
<1>12. ASSUME NEW r \in Reviewer, ListPending(r) PROVE TodoInv'
  <2>1. Pending \in SUBSET (1 .. MaxRow) /\ Pending # {} /\ Pending \subseteq DOMAIN rows
    BY <1>12, <1>1, PendingIds DEF ListPending
  <2>2. review' = [review EXCEPT ![r] = [pc |-> "scan", todo |-> Pending, resolution |-> None]]
        /\ UNCHANGED <<file, rows, watch, scan, fresh, fate>>
    BY <1>12 DEF ListPending
  <2> QED BY <2>1, <2>2, <1>1, <1>2, <1>3, <1>4 DEF TodoInv, TypeOK
<1>13. ASSUME NEW r \in Reviewer, Reverify(r) PROVE TodoInv'
  <2>1. review[r].pc = "scan" /\ rows[Current(r)].path \in Path BY <1>13, <1>6 DEF Reverify, At
  <2>2. /\ \/ OnRow(r, "prompt", None)
           \/ OnRow(r, "resolve", "skipped-stale")
        /\ fresh' \in SUBSET (Proc \X Path)
        /\ UNCHANGED <<file, rows, watch, scan, fate>>
    BY <1>13, <2>1, <1>1 DEF Reverify, TypeOK, Proc
  <2>3. "skipped-stale" \in Resolutions BY DEF Resolutions
  <2>4. /\ review' \in [Reviewer -> [pc : {"idle", "scan", "prompt", "resolve"},
                              todo : SUBSET (1 .. MaxRow), resolution : Resolutions \cup {None}]]
        /\ \A q \in Reviewer : review'[q].todo = review[q].todo
        /\ \A q \in Reviewer \ {r} : review'[q] = review[q]
    BY <1>1, <2>2, <2>3, StepType, Zenon
  <2> QED BY <2>1, <2>2, <2>4, <1>1, <1>2, <1>3, <1>4 DEF TodoInv, TypeOK
<1>14. ASSUME NEW r \in Reviewer, ReadError(r) PROVE TodoInv'
  <2>1. review[r].pc = "scan" /\ rows[Current(r)].path \in Path BY <1>14, <1>6 DEF ReadError, At
  <2>2. /\ OnRow(r, "resolve", "skipped-stale")
        /\ fate' \in [Path -> {"new", "queued", "decided", "unread"}]
        /\ UNCHANGED <<file, rows, watch, scan, fresh>>
    BY <1>14, <2>1, <1>1 DEF ReadError, TypeOK
  <2>3. "skipped-stale" \in Resolutions BY DEF Resolutions
  <2>4. /\ review' \in [Reviewer -> [pc : {"idle", "scan", "prompt", "resolve"},
                              todo : SUBSET (1 .. MaxRow), resolution : Resolutions \cup {None}]]
        /\ \A q \in Reviewer : review'[q].todo = review[q].todo
        /\ \A q \in Reviewer \ {r} : review'[q] = review[q]
    BY <1>1, <2>2, <2>3, StepType, Zenon
  <2> QED BY <2>1, <2>2, <2>4, <1>1, <1>2, <1>3, <1>4 DEF TodoInv, TypeOK
<1>15. ASSUME NEW r \in Reviewer, NEW a \in Answers, Answer(r, a) PROVE TodoInv'
  <2>1. /\ review[r].pc = "prompt" /\ r \in Proc
        /\ rows[Current(r)].path \in Path /\ rows[Current(r)].hash \in Content
    BY <1>15, <1>6 DEF Answer, At, Proc
  <2>2. Act(r, a, rows[Current(r)].path) BY <1>15 DEF Answer
  <2>3. /\ OnRow(r, "resolve", a)
        /\ UNCHANGED <<rows, watch, scan>>
    BY <1>15 DEF Answer
  <2>4. a \in Resolutions BY DEF Resolutions
  <2>5. /\ review' \in [Reviewer -> [pc : {"idle", "scan", "prompt", "resolve"},
                              todo : SUBSET (1 .. MaxRow), resolution : Resolutions \cup {None}]]
        /\ \A q \in Reviewer : review'[q].todo = review[q].todo
        /\ \A q \in Reviewer \ {r} : review'[q] = review[q]
    BY <1>1, <2>2, <2>3, <2>4, StepType, Zenon
  <2> QED BY <2>1, <2>2, <2>3, <2>5, <1>1, <1>2, <1>3, <1>4, ActType DEF TodoInv, TypeOK
<1>16. ASSUME NEW r \in Reviewer, AnswerFails(r) PROVE TodoInv'
  <2>1. /\ review[r].pc = "prompt" /\ r \in Proc
        /\ rows[Current(r)].path \in Path /\ rows[Current(r)].hash \in Content
    BY <1>16, <1>6 DEF AnswerFails, At, Proc
  <2>2. ActFails(r, rows[Current(r)].path) /\ NextRow(r) /\ UNCHANGED <<rows, watch, scan>>
    BY <1>16 DEF AnswerFails
  <2>3. /\ review' \in [Reviewer -> [pc : {"idle", "scan", "prompt", "resolve"},
                              todo : SUBSET (1 .. MaxRow), resolution : Resolutions \cup {None}]]
        /\ \A q \in Reviewer : review'[q] # review[q] => q = r
        /\ review'[r].todo \subseteq review[r].todo
        /\ review'[r].pc # "idle" => review'[r].todo # {}
    BY <2>1, <2>2, <1>1, <1>3, NextRowType
  <2>4. /\ file'  \in [Path -> Content \cup {None}]
        /\ fresh' \in SUBSET (Proc \X Path)
        /\ fate'  \in [Path -> {"new", "queued", "decided", "unread"}]
    BY <2>1, <2>2, <1>1, ActType
  <2>5. \A q \in Reviewer : /\ review'[q].todo \subseteq DOMAIN rows'
                            /\ review'[q].pc # "idle" => review'[q].todo # {}
    BY <2>2, <2>3, <1>2, <1>3
  <2> QED BY <2>2, <2>3, <2>4, <2>5, <1>1, <1>4 DEF TodoInv, TypeOK
<1>17. ASSUME NEW r \in Reviewer, Resolve(r) PROVE TodoInv'
  <2>1. review[r].pc = "resolve" /\ Current(r) \in DOMAIN rows /\ review[r].todo # {}
        /\ review[r].resolution \in Resolutions \cup {None}
    BY <1>17, <1>6, <1>3, <1>1 DEF Resolve, At, TypeOK
  <2>2. /\ rows' = [rows EXCEPT ![Current(r)].resolution = review[r].resolution]
        /\ NextRow(r) /\ UNCHANGED <<file, watch, scan, fresh, fate>>
    BY <1>17 DEF Resolve
  <2>3. rows' \in Seq(Row) /\ Len(rows') = Len(rows) /\ DOMAIN rows' = DOMAIN rows
    BY <2>1, <2>2, <1>5, ResolveRow
  <2>4. /\ review' \in [Reviewer -> [pc : {"idle", "scan", "prompt", "resolve"},
                              todo : SUBSET (1 .. MaxRow), resolution : Resolutions \cup {None}]]
        /\ \A q \in Reviewer : review'[q] # review[q] => q = r
        /\ review'[r].todo \subseteq review[r].todo
        /\ review'[r].pc # "idle" => review'[r].todo # {}
    BY <2>1, <2>2, <1>1, NextRowType, Zenon
  <2>5. \A q \in Reviewer : /\ review'[q].todo \subseteq DOMAIN rows'
                            /\ review'[q].pc # "idle" => review'[q].todo # {}
    BY <2>3, <2>4, <1>2, <1>3
  <2> QED BY <2>2, <2>3, <2>4, <2>5, <1>1, <1>4 DEF TodoInv, TypeOK
<1>18. ASSUME NEW r \in Reviewer, EndReview(r) PROVE TodoInv'
  BY <1>18, <1>1, <1>2, <1>3, <1>4 DEF EndReview, NoReview, TodoInv, TypeOK
<1>19. ASSUME NEW s \in Scanner, StartScan(s) PROVE TodoInv'
  BY <1>19, <1>1, <1>2, <1>3, <1>4 DEF StartScan, TodoInv, TypeOK
<1>20. ASSUME NEW s \in Scanner, EndScan(s) PROVE TodoInv'
  BY <1>20, <1>1, <1>2, <1>3, <1>4 DEF EndScan, NoScan, TodoInv, TypeOK
<1>21. ASSUME NEW s \in Scanner, NEW p \in Path, WalkFile(s, p) PROVE TodoInv'
  BY <1>21, <1>1, <1>2, <1>3, <1>4 DEF WalkFile, TodoInv, TypeOK, Proc
<1>22. ASSUME NEW s \in Scanner, NEW m \in scan[s].found, NextMatch(s, m)
       PROVE  scan' \in [Scanner -> [pc : {"idle", "walk", "prompt"}, walk : SUBSET Path,
                             found : SUBSET (Path \X Bad)]]
  BY <1>22, <1>1 DEF NextMatch, NoScan, TypeOK
<1>23. \A s \in Scanner : \A m \in scan[s].found : m[1] \in Path /\ m[2] \in Content /\ s \in Proc
  BY <1>1, <1>5 DEF TypeOK, Proc
<1>24. ASSUME NEW s \in Scanner, NEW m \in scan[s].found,
              (\E a \in Answers : AnswerScan(s, m, a)) \/ ScanFails(s, m)
       PROVE  TodoInv'
  <2>1. /\ (\E a \in Answers : Act(s, a, m[1])) \/ ActFails(s, m[1])
        /\ NextMatch(s, m) /\ UNCHANGED <<rows, watch, review>>
    BY <1>24 DEF AnswerScan, ScanFails
  <2> QED BY <2>1, <1>22, <1>23, <1>1, <1>2, <1>3, <1>4, ActType DEF TodoInv, TypeOK
<1> QED
  BY <1>7, <1>8, <1>9, <1>10, <1>11, <1>12, <1>13, <1>14, <1>15, <1>16, <1>17, <1>18, <1>19,
     <1>20, <1>21, <1>24 DEF Next, Review

(* A threat in the queue has a safe row; a fresh match of the watcher is of  *)
(* the file it is about to insert.                                           *)
QueueInv ==
  /\ TodoInv
  /\ \A p \in Path : <<"watch", p>> \in fresh =>
       watch.pc = "enqueue" /\ watch.path = p /\ file[p] = watch.hash
  /\ \A p \in Path : fate[p] = "queued" /\ file[p] \in Bad =>
       \E i \in RowsOn(p, file[p]) : Safe(i, p)

(* An answer, or its failure, leaves another path and the matches of others  *)
(* alone, or decides about the file.                                         *)
LEMMA ActDecides ==
  ASSUME TypeOK, NEW proc \in Proc, NEW p \in Path,
         (\E a \in Answers : Act(proc, a, p)) \/ ActFails(proc, p)
  PROVE  /\ fresh' \subseteq fresh
         /\ \A q \in Path : \/ fate'[q] = "decided" /\ \A x \in Proc : <<x, q>> \notin fresh'
                            \/ /\ file'[q] = file[q] /\ fate'[q] \in {fate[q], "decided"}
                               /\ \A x \in Proc \ {proc} : <<x, q>> \in fresh => <<x, q>> \in fresh'
         /\ ~ ActFails(proc, p) /\ <<proc, p>> \in fresh => fate'[p] = "decided"
<1>1. CASE \E a \in Answers : Act(proc, a, p)
  <2>1. PICK a \in Answers : Act(proc, a, p) BY <1>1
  <2>2. CASE a \in {"quarantine", "delete"} BY <2>1, <2>2 DEF Act, TypeOK
  <2>3. CASE a \notin {"quarantine", "delete"} BY <2>1, <2>3 DEF Act, TypeOK
  <2> QED BY <2>2, <2>3
<1>2. CASE ActFails(proc, p) BY <1>2 DEF ActFails, TypeOK
<1> QED BY <1>1, <1>2

(* A row stays safe when reviews at it, and their matches, stay.             *)
LEMMA SafeKept ==
  ASSUME NEW i, NEW p \in Path, Safe(i, p),
         \A r \in Reviewer : \/ review'[r].pc \in {"idle", "scan"}
                             \/ /\ review'[r] = review[r]
                                /\ <<r, p>> \in fresh => <<r, p>> \in fresh'
  PROVE  Safe(i, p)'
BY DEF Safe, Current

(* A safe row that is still there and pending is in the queue for the file.  *)
LEMMA RowKept ==
  ASSUME TodoInv, NEW p \in Path, NEW i \in RowsOn(p, file[p]),
         file'[p] = file[p], i \in DOMAIN rows', rows'[i] = rows[i]
  PROVE  i \in RowsOn(p, file[p])'
BY DEF RowsOn, Pending

(* Every step keeps a safe row for every threat in the queue.                *)
LEMMA QueueKept == ASSUME QueueInv, [Next]_vars PROVE QueueInv'
<1>1. TodoInv /\ TypeOK /\ TodoInv' /\ TypeOK' BY TodoKept DEF QueueInv, TodoInv
<1>2. \A p \in Path : <<"watch", p>> \in fresh =>
        watch.pc = "enqueue" /\ watch.path = p /\ file[p] = watch.hash
  BY DEF QueueInv
<1>3. \A p \in Path : fate[p] = "queued" /\ file[p] \in Bad =>
        \E i \in RowsOn(p, file[p]) : Safe(i, p)
  BY DEF QueueInv
<1>4. \A r \in Reviewer : r # "watch" /\ r \notin Scanner /\ r \in Proc
  BY DetectionsAssumption DEF Proc
<1>5. \A s \in Scanner : s # "watch" /\ s \notin Reviewer /\ s \in Proc
  BY DetectionsAssumption DEF Proc
<1>6. \A r \in Reviewer : review[r].pc # "idle" =>
        /\ Current(r) \in DOMAIN rows
        /\ rows[Current(r)].path \in Path /\ rows[Current(r)].hash \in Content
  <2> SUFFICES ASSUME NEW r \in Reviewer, review[r].pc # "idle"
               PROVE  /\ Current(r) \in DOMAIN rows
                      /\ rows[Current(r)].path \in Path /\ rows[Current(r)].hash \in Content
    OBVIOUS
  <2>1. Current(r) \in review[r].todo BY <1>1, CurrentInTodo DEF TodoInv
  <2>2. Current(r) \in DOMAIN rows BY <2>1, <1>1 DEF TodoInv
  <2>3. rows[Current(r)] \in Row BY <2>2, <1>1 DEF TypeOK
  <2> QED BY <2>2, <2>3 DEF Row
<1>7. ASSUME /\ \A p \in Path : <<"watch", p>> \in fresh' =>
                  watch'.pc = "enqueue" /\ watch'.path = p /\ file'[p] = watch'.hash,
             \A p \in Path : fate'[p] = "queued" /\ file'[p] \in Bad =>
               \E i \in RowsOn(p, file[p])' : Safe(i, p)'
      PROVE  QueueInv'
  BY <1>1, <1>7 DEF QueueInv
<1>8. ASSUME \A p \in Path : <<"watch", p>> \in fresh' => <<"watch", p>> \in fresh /\ file'[p] = file[p],
             watch' = watch,
             \A p \in Path : fate'[p] = "queued" =>
                /\ fate[p] = "queued" /\ file'[p] = file[p]
                /\ \A i \in RowsOn(p, file[p]) : Safe(i, p) =>
                     i \in DOMAIN rows' /\ rows'[i] = rows[i] /\ Safe(i, p)'
      PROVE  QueueInv'
  <2>1. \A p \in Path : fate'[p] = "queued" /\ file'[p] \in Bad =>
          \E i \in RowsOn(p, file[p])' : Safe(i, p)'
    <3> SUFFICES ASSUME NEW p \in Path, fate'[p] = "queued", file'[p] \in Bad
                 PROVE  \E i \in RowsOn(p, file[p])' : Safe(i, p)'
      OBVIOUS
    <3>1. PICK i \in RowsOn(p, file[p]) : Safe(i, p) BY <1>3, <1>8
    <3>2. file'[p] = file[p] /\ i \in DOMAIN rows' /\ rows'[i] = rows[i] /\ Safe(i, p)'
      BY <3>1, <1>8
    <3>3. i \in RowsOn(p, file[p])' BY <3>2, <1>1, RowKept
    <3> QED BY <3>2, <3>3
  <2> QED BY <2>1, <1>2, <1>7, <1>8
<1>r. \A p \in Path : RowsOn(p, file[p]) \subseteq DOMAIN rows BY DEF RowsOn, Pending
<1>9. CASE UNCHANGED vars BY <1>9, <1>8, <1>r, SafeKept DEF vars
<1>10. ASSUME NEW q \in Path, WatchScan(q) PROVE QueueInv'
  <2>1. /\ watch.pc = "idle"
        /\ watch' = [pc |-> "enqueue", path |-> q, hash |-> file[q]]
        /\ fresh' = fresh \cup {<<"watch", q>>}
        /\ UNCHANGED <<file, rows, review, scan, fate>>
    BY <1>10 DEF WatchScan
  <2>2. \A p \in Path : <<"watch", p>> \in fresh' => p = q BY <2>1, <1>2
  <2>3. ASSUME NEW p \in Path, fate'[p] = "queued", file'[p] \in Bad
        PROVE  \E i \in RowsOn(p, file[p])' : Safe(i, p)'
    <3>1. PICK i \in RowsOn(p, file[p]) : Safe(i, p) BY <1>3, <2>1, <2>3
    <3>2. Safe(i, p)' BY <3>1, <2>1, SafeKept
    <3>3. i \in RowsOn(p, file[p])' BY <3>1, <2>1, <1>1, <1>r, RowKept
    <3> QED BY <3>2, <3>3
  <2> QED BY <2>1, <2>2, <2>3, <1>7
<1>11. ASSUME NEW q \in Path, NEW c \in Content, Write(q, c) PROVE QueueInv'
  <2>1. /\ file' = [file EXCEPT ![q] = c] /\ fate' = [fate EXCEPT ![q] = "new"]
        /\ fresh' = {f \in fresh : f[2] # q}
        /\ UNCHANGED <<rows, watch, review, scan>>
    BY <1>11 DEF Write
  <2>2. \A p \in Path : <<"watch", p>> \in fresh' => <<"watch", p>> \in fresh /\ p # q BY <2>1
  <2>3. \A p \in Path : fate'[p] = "queued" => fate[p] = "queued" /\ p # q /\ file'[p] = file[p]
    BY <2>1, <1>1 DEF TypeOK
  <2>4. ASSUME NEW p \in Path, fate'[p] = "queued", NEW i \in RowsOn(p, file[p]), Safe(i, p)
        PROVE  Safe(i, p)'
    <3>1. \A r \in Reviewer : <<r, p>> \in fresh => <<r, p>> \in fresh' BY <2>1, <2>3, <2>4
    <3> QED BY <3>1, <2>1, <2>4, SafeKept
  <2>5. \A p \in Path : <<"watch", p>> \in fresh' => file'[p] = file[p]
    BY <2>1, <2>2, <1>1 DEF TypeOK
  <2> QED BY <2>1, <2>2, <2>3, <2>4, <2>5, <1>r, <1>8
<1>12. CASE Enqueue
  <2> DEFINE e == [path |-> watch.path, hash |-> watch.hash, resolution |-> None]
  <2>1. /\ watch.pc = "enqueue" /\ rows' = Append(rows, e) /\ watch' = Quiet
        /\ fate' = IF <<"watch", watch.path>> \in fresh /\ fate[watch.path] = "new"
                     THEN [fate EXCEPT ![watch.path] = "queued"] ELSE fate
        /\ fresh' = fresh \ {<<"watch", watch.path>>}
        /\ UNCHANGED <<file, review, scan>>
    BY <1>12 DEF Enqueue
  <2>2. watch.path \in Path /\ watch.hash \in Bad BY <2>1, <1>1 DEF TodoInv
  <2>3. e \in Row BY <2>2, DetectionsAssumption DEF Row
  <2>4. e.path = watch.path /\ e.hash = watch.hash /\ e.resolution = None OBVIOUS
  <2> HIDE DEF e
  <2>5. /\ DOMAIN rows' = 1 .. Len(rows) + 1 /\ DOMAIN rows = 1 .. Len(rows) /\ Len(rows) \in Nat
        /\ rows'[Len(rows) + 1] = e
        /\ \A i \in DOMAIN rows : i \in DOMAIN rows' /\ rows'[i] = rows[i]
    BY <2>1, <2>3, <1>1, AppendRow DEF TypeOK
  <2>6. \A p \in Path : <<"watch", p>> \notin fresh' BY <2>1, <1>2
  <2>7. ASSUME NEW p \in Path, fate'[p] = "queued", file'[p] \in Bad
        PROVE  \E i \in RowsOn(p, file[p])' : Safe(i, p)'
    <3>1. CASE fate[p] = "queued"
      <4>1. PICK i \in RowsOn(p, file[p]) : Safe(i, p) BY <3>1, <1>3, <2>1, <2>7
      <4>2. \A r \in Reviewer : <<r, p>> \in fresh => <<r, p>> \in fresh' BY <2>1, <1>4
      <4>3. Safe(i, p)' BY <4>1, <4>2, <2>1, SafeKept
      <4>4. i \in RowsOn(p, file[p])' BY <4>1, <2>1, <2>5, <1>1, <1>r, RowKept
      <4> QED BY <4>3, <4>4
    <3>2. CASE fate[p] # "queued"
      <4>0. PICK i : i = Len(rows) + 1 OBVIOUS
      <4>1. p = watch.path /\ file[p] = watch.hash
        BY <3>2, <2>1, <2>2, <2>7, <1>2, <1>1 DEF TypeOK
      <4>2. i \in RowsOn(p, file[p])'
        BY <4>0, <4>1, <2>1, <2>4, <2>5 DEF RowsOn, Pending
      <4>3. \A r \in Reviewer : review[r].pc # "idle" => Current(r) # i
        BY <4>0, <1>6, <2>5
      <4>4. Safe(i, p)' BY <4>3, <2>1 DEF Safe, Current
      <4> QED BY <4>2, <4>4
    <3> QED BY <3>1, <3>2
  <2> QED BY <2>1, <2>6, <2>7, <1>7
<1>13. CASE EnqueueFails
  <2>1. /\ watch' = Quiet /\ fresh' = fresh \ {<<"watch", watch.path>>}
        /\ UNCHANGED <<file, rows, review, scan, fate>>
    BY <1>13 DEF EnqueueFails
  <2>2. \A p \in Path : <<"watch", p>> \notin fresh' BY <2>1, <1>2
  <2>3. ASSUME NEW p \in Path, fate'[p] = "queued", file'[p] \in Bad
        PROVE  \E i \in RowsOn(p, file[p])' : Safe(i, p)'
    <3>1. PICK i \in RowsOn(p, file[p]) : Safe(i, p) BY <1>3, <2>1, <2>3
    <3>2. \A r \in Reviewer : <<r, p>> \in fresh => <<r, p>> \in fresh' BY <2>1, <1>4
    <3>3. Safe(i, p)' BY <3>1, <3>2, <2>1, SafeKept
    <3>4. i \in RowsOn(p, file[p])' BY <3>1, <2>1, <1>1, <1>r, RowKept
    <3> QED BY <3>3, <3>4
  <2> QED BY <2>2, <2>3, <1>7
<1>14. ASSUME NEW r \in Reviewer, ListPending(r) \/ EndReview(r) PROVE QueueInv'
  <2>1. /\ \A q \in Reviewer : review'[q] = review[q] \/ review'[q].pc \in {"idle", "scan"}
        /\ \A q \in Reviewer : \A p \in Path :
             <<q, p>> \in fresh => <<q, p>> \in fresh' \/ review'[q].pc = "idle"
        /\ fresh' \subseteq fresh
        /\ UNCHANGED <<file, rows, watch, scan, fate>>
    BY <1>14, <1>1 DEF ListPending, EndReview, NoReview, TypeOK
  <2>2. ASSUME NEW p \in Path, NEW i \in RowsOn(p, file[p]), Safe(i, p) PROVE Safe(i, p)'
    BY <2>1, <2>2, SafeKept
  <2> QED BY <2>1, <2>2, <1>r, <1>8
<1>15. ASSUME NEW r \in Reviewer, Reverify(r) PROVE QueueInv'
  <2> DEFINE row == rows[Current(r)]
  <2>1. review[r].pc = "scan" /\ row.path \in Path BY <1>15, <1>6 DEF Reverify, At
  <2>2. CASE file[row.path] \in Bad /\ file[row.path] = row.hash
    <3>1. /\ OnRow(r, "prompt", None) /\ fresh' = fresh \cup {<<r, row.path>>}
          /\ UNCHANGED <<file, rows, watch, scan, fate>>
      BY <1>15, <2>2 DEF Reverify
    <3>2. /\ \A q \in Reviewer : review'[q].todo = review[q].todo
          /\ \A q \in Reviewer \ {r} : review'[q] = review[q]
          /\ review'[r].pc = "prompt"
      BY <3>1, <1>1, StepType, Zenon
    <3>3. ASSUME NEW p \in Path, NEW i \in RowsOn(p, file[p]), Safe(i, p) PROVE Safe(i, p)'
      <4>1. Current(r) = i => row.path = p BY DEF RowsOn
      <4> QED BY <4>1, <3>1, <3>2, <3>3 DEF Safe, Current
    <3> QED BY <3>1, <3>3, <1>4, <1>r, <1>8
  <2>3. CASE ~ (file[row.path] \in Bad /\ file[row.path] = row.hash)
    <3>1. /\ OnRow(r, "resolve", "skipped-stale")
          /\ UNCHANGED <<file, rows, watch, scan, fate, fresh>>
      BY <1>15, <2>3 DEF Reverify
    <3>2. /\ \A q \in Reviewer : review'[q].todo = review[q].todo
          /\ \A q \in Reviewer \ {r} : review'[q] = review[q]
      BY <3>1, <1>1, StepType, Zenon DEF Resolutions
    <3>3. ASSUME NEW p \in Path, fate[p] = "queued", file[p] \in Bad
          PROVE  \E i \in RowsOn(p, file[p])' : Safe(i, p)'
      <4>1. PICK i \in RowsOn(p, file[p]) : Safe(i, p) BY <1>3, <3>3
      <4>2. Current(r) # i BY <2>3, <3>3 DEF RowsOn
      <4>3. Safe(i, p)' BY <4>1, <4>2, <3>1, <3>2 DEF Safe, Current
      <4>4. i \in RowsOn(p, file[p])' BY <4>1, <3>1, <1>1, <1>r, RowKept
      <4> QED BY <4>3, <4>4
    <3> QED BY <3>1, <3>3, <1>2, <1>7
  <2> QED BY <2>2, <2>3
<1>16. ASSUME NEW r \in Reviewer, ReadError(r) PROVE QueueInv'
  <2> DEFINE row == rows[Current(r)]
  <2>1. /\ OnRow(r, "resolve", "skipped-stale") /\ row.path \in Path
        /\ fate' = IF file[row.path] = row.hash THEN [fate EXCEPT ![row.path] = "unread"] ELSE fate
        /\ UNCHANGED <<file, rows, watch, scan, fresh>>
    BY <1>16, <1>6 DEF ReadError, At
  <2>2. /\ \A q \in Reviewer : review'[q].todo = review[q].todo
        /\ \A q \in Reviewer \ {r} : review'[q] = review[q]
    BY <2>1, <1>1, StepType, Zenon DEF Resolutions
  <2>3. \A p \in Path : fate'[p] = "queued" =>
          fate[p] = "queued" /\ ~ (row.path = p /\ row.hash = file[p])
    BY <2>1, <1>1 DEF TypeOK
  <2>4. ASSUME NEW p \in Path, fate'[p] = "queued", NEW i \in RowsOn(p, file[p]), Safe(i, p)
        PROVE  Safe(i, p)'
    <3>1. Current(r) # i BY <2>3, <2>4 DEF RowsOn
    <3> QED BY <3>1, <2>1, <2>2, <2>4 DEF Safe, Current
  <2> QED BY <2>1, <2>3, <2>4, <1>r, <1>8
<1>17. ASSUME NEW r \in Reviewer, NEW a \in Answers, Answer(r, a) PROVE QueueInv'
  <2> DEFINE row == rows[Current(r)]
  <2>1. /\ review[r].pc = "prompt" /\ Act(r, a, row.path) /\ OnRow(r, "resolve", a)
        /\ row.path \in Path /\ row.hash \in Content
        /\ UNCHANGED <<rows, watch, scan>>
    BY <1>17, <1>6 DEF Answer, At
  <2>2. /\ \A q \in Reviewer : review'[q].todo = review[q].todo
        /\ \A q \in Reviewer \ {r} : review'[q] = review[q]
    BY <2>1, <1>1, StepType, Zenon DEF Resolutions
  <2>3. /\ fresh' \subseteq fresh
        /\ \A q \in Path : \/ fate'[q] = "decided" /\ \A x \in Proc : <<x, q>> \notin fresh'
                           \/ /\ file'[q] = file[q] /\ fate'[q] \in {fate[q], "decided"}
                              /\ \A x \in Proc \ {r} : <<x, q>> \in fresh => <<x, q>> \in fresh'
    BY <2>1, <1>1, <1>4, ActDecides
  <2>4. <<r, row.path>> \in fresh => fate'[row.path] = "decided" BY <2>1, <1>1 DEF Act, TypeOK
  <2>5. ASSUME NEW p \in Path, fate'[p] = "queued", NEW i \in RowsOn(p, file[p]), Safe(i, p)
        PROVE  Safe(i, p)'
    <3>1. Current(r) # i BY <2>1, <2>4, <2>5 DEF RowsOn, Safe
    <3> QED BY <3>1, <2>2, <2>3, <2>5, <1>4 DEF Safe, Current
  <2>6. "watch" \in Proc BY DEF Proc
  <2> QED BY <2>1, <2>3, <2>5, <2>6, <1>r, <1>8
<1>18. ASSUME NEW r \in Reviewer, AnswerFails(r) PROVE QueueInv'
  <2> DEFINE row == rows[Current(r)]
  <2>1. /\ review[r].pc = "prompt" /\ ActFails(r, row.path) /\ NextRow(r)
        /\ row.path \in Path /\ row.hash \in Content
        /\ UNCHANGED <<rows, watch, scan>>
    BY <1>18, <1>6 DEF AnswerFails, At
  <2>2. \A q \in Reviewer : review'[q] # review[q] => q = r /\ review'[q].pc \in {"idle", "scan"}
    BY <2>1, <1>1, NextRowType DEF TodoInv
  <2>3. /\ fresh' \subseteq fresh
        /\ \A q \in Path : \/ fate'[q] = "decided" /\ \A x \in Proc : <<x, q>> \notin fresh'
                           \/ /\ file'[q] = file[q] /\ fate'[q] \in {fate[q], "decided"}
                              /\ \A x \in Proc \ {r} : <<x, q>> \in fresh => <<x, q>> \in fresh'
    BY <2>1, <1>1, <1>4, ActDecides
  <2>4. review'[r].pc \in {"idle", "scan"} BY <2>1, <1>1, NextRowType DEF TodoInv
  <2>5. ASSUME NEW p \in Path, fate'[p] = "queued", NEW i \in RowsOn(p, file[p]), Safe(i, p)
        PROVE  Safe(i, p)'
    <3>1. \A q \in Reviewer \ {r} : <<q, p>> \in fresh => <<q, p>> \in fresh' BY <2>3, <2>5, <1>4
    <3> QED BY <3>1, <2>2, <2>4, <2>5, SafeKept
  <2>6. "watch" \in Proc BY DEF Proc
  <2> QED BY <2>1, <2>3, <2>5, <2>6, <1>r, <1>8
<1>19. ASSUME NEW r \in Reviewer, Resolve(r) PROVE QueueInv'
  <2>1. /\ review[r].pc = "resolve"
        /\ rows' = [rows EXCEPT ![Current(r)].resolution = review[r].resolution]
        /\ NextRow(r) /\ UNCHANGED <<file, watch, scan, fresh, fate>>
    BY <1>19 DEF Resolve, At
  <2>2. \A q \in Reviewer : review'[q] # review[q] => q = r /\ review'[q].pc \in {"idle", "scan"}
    BY <2>1, <1>1, NextRowType DEF TodoInv
  <2>3. ASSUME NEW p \in Path, NEW i \in RowsOn(p, file[p]), Safe(i, p)
        PROVE  i \in DOMAIN rows' /\ rows'[i] = rows[i] /\ Safe(i, p)'
    <3>1. Current(r) # i BY <2>1, <2>3 DEF Safe
    <3>2. i \in DOMAIN rows' /\ rows'[i] = rows[i] BY <3>1, <2>1, <1>r
    <3>3. Safe(i, p)' BY <2>1, <2>2, <2>3, SafeKept
    <3> QED BY <3>2, <3>3
  <2> QED BY <2>1, <2>3, <1>8
<1>20. ASSUME NEW s \in Scanner,
              StartScan(s) \/ EndScan(s) \/ \E p \in Path : WalkFile(s, p)
       PROVE  QueueInv'
  <2>1. /\ UNCHANGED <<file, rows, watch, review, fate>>
        /\ \A x \in Proc \ {s} : \A p \in Path : <<x, p>> \in fresh' <=> <<x, p>> \in fresh
    BY <1>20, <1>5 DEF StartScan, EndScan, WalkFile
  <2>2. ASSUME NEW p \in Path, NEW i \in RowsOn(p, file[p]), Safe(i, p) PROVE Safe(i, p)'
    BY <2>1, <2>2, <1>4, SafeKept
  <2>3. "watch" \in Proc BY DEF Proc
  <2> QED BY <2>1, <2>2, <2>3, <1>5, <1>r, <1>8
<1>21. ASSUME NEW s \in Scanner, NEW m \in scan[s].found,
              (\E a \in Answers : AnswerScan(s, m, a)) \/ ScanFails(s, m)
       PROVE  QueueInv'
  <2>1. m[1] \in Path /\ m[2] \in Content BY <1>1, DetectionsAssumption DEF TypeOK
  <2>2. (\E a \in Answers : Act(s, a, m[1])) \/ ActFails(s, m[1]) BY <1>21 DEF AnswerScan, ScanFails
  <2>3. UNCHANGED <<rows, watch, review>> BY <1>21 DEF AnswerScan, ScanFails
  <2>4. /\ fresh' \subseteq fresh
        /\ \A q \in Path : \/ fate'[q] = "decided" /\ \A x \in Proc : <<x, q>> \notin fresh'
                           \/ /\ file'[q] = file[q] /\ fate'[q] \in {fate[q], "decided"}
                              /\ \A x \in Proc \ {s} : <<x, q>> \in fresh => <<x, q>> \in fresh'
    BY <2>1, <2>2, <1>1, <1>5, ActDecides
  <2>5. ASSUME NEW p \in Path, fate'[p] = "queued", NEW i \in RowsOn(p, file[p]), Safe(i, p)
        PROVE  Safe(i, p)'
    <3>1. \A r \in Reviewer : <<r, p>> \in fresh => <<r, p>> \in fresh' BY <2>4, <2>5, <1>4
    <3> QED BY <3>1, <2>3, <2>5, SafeKept
  <2>6. "watch" \in Proc BY DEF Proc
  <2> QED BY <2>3, <2>4, <2>5, <2>6, <1>r, <1>8
<1> QED
  BY <1>9, <1>10, <1>11, <1>12, <1>13, <1>14, <1>15, <1>16, <1>17, <1>18, <1>19, <1>20, <1>21
     DEF Next, Review

(* Nothing is queued at the start.                                           *)
LEMMA InitQueue == ASSUME Init PROVE QueueInv
<1>1. rows \in Seq(Row) /\ Len(rows) = 0 /\ DOMAIN rows = {} BY DEF Init
<1>2. TypeOK BY <1>1, DetectionsAssumption DEF Init, TypeOK, Quiet, NoReview, NoScan
<1>3. TodoInv BY <1>1, <1>2 DEF Init, TodoInv, Quiet, NoReview
<1> QED BY <1>3 DEF Init, QueueInv

(* The types, the first of the invariants of review_live.                    *)
THEOREM DetectionsTypeCorrect == Spec => []TypeOK
<1>1. Init => TodoInv BY InitQueue DEF QueueInv
<1>2. TodoInv /\ [Next]_vars => TodoInv' BY TodoKept
<1>3. TodoInv => TypeOK BY DEF TodoInv
<1> QED BY <1>1, <1>2, <1>3, PTL DEF Spec

(* However many reviews and scans run beside the watcher, and whatever they  *)
(* answer, a threat that was queued stays in the queue until it is decided.  *)
THEOREM ThreatsStayQueued == Spec => []NoThreatForgotten
<1>1. Init => QueueInv BY InitQueue
<1>2. QueueInv /\ [Next]_vars => QueueInv' BY QueueKept
<1>3. QueueInv => NoThreatForgotten BY DEF QueueInv, NoThreatForgotten
<1> QED BY <1>1, <1>2, <1>3, PTL DEF Spec

-----------------------------------------------------------------------------
(* Of a resolved row: no review takes it up, and one that writes it drops it. *)
Stands(i) ==
  /\ \A r \in Reviewer : i \in review'[r].todo => i \in review[r].todo
  /\ rows'[i] # rows[i] => \E r \in Reviewer : i \in review[r].todo /\ i \notin review'[r].todo

(* A review lists pending rows only, resolves the row it is at, and then     *)
(* leaves it; no other step touches a row.                                   *)
LEMMA StandsStep ==
  ASSUME TodoInv, [Next]_vars, NEW i \in DOMAIN rows, rows[i].resolution # None
  PROVE  Stands(i)
<1>1. TypeOK
  BY DEF TodoInv
<1>2. ASSUME \A r \in Reviewer : review'[r].todo \subseteq review[r].todo, rows'[i] = rows[i]
      PROVE  Stands(i)
  BY <1>2 DEF Stands
<1>3. CASE Enqueue
  <2> DEFINE e == [path |-> watch.path, hash |-> watch.hash, resolution |-> None]
  <2>1. e \in Row
    BY <1>3, DetectionsAssumption DEF Enqueue, Row, TodoInv
  <2>2. rows' = Append(rows, e) /\ review' = review BY <1>3 DEF Enqueue
  <2> HIDE DEF e
  <2>3. rows'[i] = rows[i] BY <2>1, <2>2, <1>1, AppendRow DEF TypeOK
  <2> QED BY <2>2, <2>3, <1>2
<1>4. ASSUME NEW r \in Reviewer, ListPending(r) PROVE Stands(i)
  <2>1. review' = [review EXCEPT ![r] = [pc |-> "scan", todo |-> Pending, resolution |-> None]]
        /\ rows' = rows
    BY <1>4 DEF ListPending
  <2>2. i \notin Pending BY DEF Pending
  <2> QED BY <2>1, <2>2, <1>1 DEF Stands, TypeOK
<1>5. ASSUME NEW r \in Reviewer, Resolve(r) PROVE Stands(i)
  <2>1. /\ review[r].todo # {} /\ NextRow(r)
        /\ rows' = [rows EXCEPT ![Current(r)].resolution = review[r].resolution]
    BY <1>5 DEF Resolve, At, TodoInv
  <2>2. Current(r) \in review[r].todo BY <2>1, <1>1, CurrentInTodo
  <2>3. review'[r].todo \subseteq review[r].todo \ {Current(r)} BY <2>1, <1>1, NextRowType
  <2>4. \A q \in Reviewer : review'[q] # review[q] => q = r BY <2>1, <1>1, NextRowType
  <2>5. i # Current(r) => rows'[i] = rows[i] BY <2>1
  <2>6. \A q \in Reviewer : review'[q].todo \subseteq review[q].todo BY <2>3, <2>4
  <2> QED BY <2>2, <2>3, <2>5, <2>6 DEF Stands
<1>6. ASSUME NEW r \in Reviewer,
             Reverify(r) \/ ReadError(r) \/ (\E a \in Answers : Answer(r, a))
      PROVE  rows' = rows /\ \A q \in Reviewer : review'[q].todo \subseteq review[q].todo
  <2>1. PICK pc \in {"prompt", "resolve"}, a \in Resolutions \cup {None} : OnRow(r, pc, a)
    BY <1>6 DEF Reverify, ReadError, Answer, Resolutions
  <2>2. \A q \in Reviewer : review'[q].todo = review[q].todo BY <2>1, <1>1, StepType
  <2> QED BY <2>2, <1>6 DEF Reverify, ReadError, Answer
<1>7. ASSUME NEW r \in Reviewer, AnswerFails(r)
      PROVE  rows' = rows /\ \A q \in Reviewer : review'[q].todo \subseteq review[q].todo
  <2>1. review[r].todo # {} /\ NextRow(r) /\ rows' = rows
    BY <1>7 DEF AnswerFails, At, TodoInv
  <2>2. \A q \in Reviewer : review'[q] # review[q] => q = r BY <2>1, <1>1, NextRowType
  <2>3. review'[r].todo \subseteq review[r].todo BY <2>1, <1>1, NextRowType
  <2> QED BY <2>1, <2>2, <2>3
<1>8. ASSUME NEW r \in Reviewer, EndReview(r)
      PROVE  rows' = rows /\ \A q \in Reviewer : review'[q].todo \subseteq review[q].todo
  BY <1>8, <1>1 DEF EndReview, NoReview, TypeOK
<1>9. ASSUME NEW p \in Path, WatchScan(p) \/ \E c \in Content : Write(p, c)
      PROVE  rows' = rows /\ review' = review
  BY <1>9 DEF WatchScan, Write
<1>10. CASE EnqueueFails BY <1>10, <1>2 DEF EnqueueFails
<1>11. ASSUME NEW s \in Scanner,
              \/ StartScan(s) \/ EndScan(s) \/ \E p \in Path : WalkFile(s, p)
              \/ \E m \in scan[s].found : (\E a \in Answers : AnswerScan(s, m, a)) \/ ScanFails(s, m)
       PROVE  rows' = rows /\ review' = review
  BY <1>11 DEF StartScan, EndScan, WalkFile, AnswerScan, ScanFails
<1>12. CASE UNCHANGED vars BY <1>12, <1>2 DEF vars
<1>13. CASE \E r \in Reviewer : Review(r) \/ ReadError(r) \/ AnswerFails(r) \/ EndReview(r)
  BY <1>13, <1>2, <1>4, <1>5, <1>6, <1>7, <1>8 DEF Review
<1>14. CASE \E p \in Path : WatchScan(p) \/ \E c \in Content : Write(p, c)
  BY <1>14, <1>2, <1>9
<1>15. CASE \E s \in Scanner : \/ StartScan(s) \/ EndScan(s)
                               \/ \E p \in Path : WalkFile(s, p)
                               \/ \E m \in scan[s].found : \/ \E a \in Answers : AnswerScan(s, m, a)
                                                           \/ ScanFails(s, m)
  BY <1>15, <1>2, <1>11
<1> QED BY <1>3, <1>10, <1>12, <1>13, <1>14, <1>15 DEF Next

(* However many reviews run at once: an answer in a row is replaced only by  *)
(* reviews that had listed the row before it was stored, and once by each.   *)
THEOREM AnswersStand == Spec => ResolutionIsFinal
<1>1. Init => TodoInv BY InitQueue DEF QueueInv
<1>2. TodoInv /\ [Next]_vars => TodoInv' BY TodoKept
<1>3. TodoInv /\ [Next]_vars =>
        [\A i \in DOMAIN rows : rows[i].resolution # None =>
           /\ Holders(i)' \subseteq Holders(i)
           /\ rows'[i] # rows[i] => Holders(i)' # Holders(i)]_vars
  <2>1. ASSUME NEW i, Stands(i)
        PROVE  /\ Holders(i)' \subseteq Holders(i)
               /\ rows'[i] # rows[i] => Holders(i)' # Holders(i)
    BY <2>1 DEF Stands, Holders
  <2> QED BY <2>1, StandsStep
<1> QED BY <1>1, <1>2, <1>3, PTL DEF Spec, ResolutionIsFinal

-----------------------------------------------------------------------------
(* The event loop inside Pipeline.  These are the steps of WatcherProofs,    *)
(* stated of the instance W: the prover cites no theorem of an instance.     *)

(* What Watcher assumes of the constants follows from what Pipeline assumes. *)
LEMMA QueueAssumption == None \notin Timer \cup Path /\ MaxQueue \in Nat
  BY DetectionsAssumption, PipelineAssumption

(* An event taken from the front announces one file; the rest stay announced. *)
LEMMA AfterHead ==
  ASSUME events \in Seq(W!Event), events # <<>>, events' = Tail(events),
         NEW p \in Path, W!Announced(p), Head(events) # [path |-> p, op |-> "write"]
  PROVE  W!Announced(p)'
<1>1. PICK i \in 1 .. Len(events) : events[i] = [path |-> p, op |-> "write"]
  BY DEF W!Announced
<1>2. i # 1
  BY <1>1
<1>3. i - 1 \in 1 .. Len(events') /\ events'[i - 1] = events[i]
  BY <1>1, <1>2
<1> QED BY <1>1, <1>3 DEF W!Announced

(* Appending to the queue announces what was announced before and the event. *)
LEMMA AfterAppend ==
  ASSUME events \in Seq(W!Event), NEW e \in W!Event, events' = Append(events, e)
  PROVE  /\ events' \in Seq(W!Event)
         /\ \A p \in Path : W!Announced(p) \/ e = [path |-> p, op |-> "write"] => W!Announced(p)'
  BY DEF W!Announced

(* Stopping the timer of a path touches no other timer. *)
LEMMA StoppedOne ==
  ASSUME NEW p
  PROVE  \A u \in Timer : W!Stopped(p)[u] = timer[u] \/ (u = pending[p] /\ W!Stopped(p)[u] = W!Unused)
<1> TAKE u \in Timer
<1>1. W!Stopped(p)[u] = IF u = pending[p] /\ timer[u].state = "armed" THEN W!Unused ELSE timer[u]
  BY DEF W!Stopped
<1> QED BY <1>1

(* At the start nothing is pending and no file is unscanned. *)
LEMMA LoopInit == W!Init => W!WatchInv
<1> SUFFICES ASSUME W!Init PROVE W!WatchInv
  OBVIOUS
<1>1. <<>> \in Seq(W!Event)
  OBVIOUS
<1> QED BY <1>1 DEF W!Init, W!WatchInv, W!TypeOK, W!PendingIsLive, W!NoLostWrite

(* Each action keeps the inductive invariant; one step for each. *)
LEMMA LoopNext == W!WatchInv /\ [W!Next]_W!vars => W!WatchInv'
<1> SUFFICES ASSUME W!WatchInv, [W!Next]_W!vars PROVE W!WatchInv'
  OBVIOUS
<1> USE QueueAssumption DEF W!WatchInv, W!TypeOK, W!PendingIsLive, W!NoLostWrite
<1>1. ASSUME NEW p \in Path, W!Write(p) PROVE W!WatchInv'
  <2>1. CASE Len(events) < MaxQueue
    <3>1. [path |-> p, op |-> "write"] \in W!Event /\ events' = Append(events, [path |-> p, op |-> "write"])
      BY <1>1, <2>1 DEF W!Write, W!Event, W!Op
    <3> QED BY <1>1, <2>1, <3>1, AfterAppend DEF W!Write, W!Timed
  <2>2. CASE ~(Len(events) < MaxQueue)
    BY <1>1, <2>2 DEF W!Write, W!Timed, W!Announced
  <2> QED BY <2>1, <2>2
<1>2. ASSUME NEW p \in Path, W!Touch(p) PROVE W!WatchInv'
  <2>1. [path |-> p, op |-> "other"] \in W!Event /\ events' = Append(events, [path |-> p, op |-> "other"])
    BY <1>2 DEF W!Touch, W!Event, W!Op
  <2> QED BY <1>2, <2>1, AfterAppend DEF W!Touch, W!Timed
<1>3. ASSUME NEW t \in Timer, W!Expire(t) PROVE W!WatchInv'
  <2>1. timer[t] \in [path : Path, state : {"armed", "firing"}]
    BY <1>3 DEF W!Expire, W!Unused
  <2>2. \A u \in Timer : timer'[u].path = timer[u].path
    BY <1>3 DEF W!Expire, W!Unused
  <2> QED BY <1>3, <2>1, <2>2 DEF W!Expire, W!Timed, W!Announced
<1>4. ASSUME W!IgnoreEvent PROVE W!WatchInv'
  <2>1. \A p \in Path : W!Announced(p) => W!Announced(p)'
    <3>1. \A p \in Path : Head(events) # [path |-> p, op |-> "write"]
      BY <1>4 DEF W!IgnoreEvent
    <3>2. events # <<>> /\ events' = Tail(events)
      BY <1>4 DEF W!IgnoreEvent
    <3> QED BY <3>1, <3>2, AfterHead
  <2> QED BY <1>4, <2>1 DEF W!IgnoreEvent, W!Timed
<1>5. ASSUME NEW t \in Timer, W!ArmTimer(t) PROVE W!WatchInv'
  <2> DEFINE p == Head(events).path
  <2>1. p \in Path /\ Head(events) = [path |-> p, op |-> "write"] /\ events' \in Seq(W!Event)
    <3>1. events \in Seq(W!Event) /\ events # <<>> /\ events' = Tail(events) /\ Head(events).op = "write"
      BY <1>5 DEF W!ArmTimer
    <3>2. Head(events) \in W!Event
      BY <3>1
    <3> QED BY <3>1, <3>2 DEF W!Event
  <2>2. /\ timer' = [W!Stopped(p) EXCEPT ![t] = [path |-> p, state |-> "armed"]]
        /\ pending' = [pending EXCEPT ![p] = t]
        /\ UNCHANGED <<dropped, error, loop, stop, unseen>>
        /\ timer[t] = W!Unused /\ events # <<>> /\ events' = Tail(events) /\ loop = W!Select
    BY <1>5 DEF W!ArmTimer
  <2> HIDE DEF p
  <2>3. /\ timer'[t] = [path |-> p, state |-> "armed"]
        /\ \A u \in Timer \ {t} : timer'[u] = timer[u] \/ (u = pending[p] /\ timer'[u] = W!Unused)
    <3>1. timer' = [u \in Timer |-> IF u = t THEN [path |-> p, state |-> "armed"] ELSE W!Stopped(p)[u]]
      BY <2>2 DEF W!Stopped
    <3>2. \A u \in Timer : W!Stopped(p)[u] = timer[u] \/ (u = pending[p] /\ W!Stopped(p)[u] = W!Unused)
      BY StoppedOne
    <3> QED BY <3>1, <3>2
  <2>4. W!TypeOK'
    BY <2>1, <2>2, <2>3 DEF W!Stopped
  <2>5. W!PendingIsLive'
    <3> SUFFICES ASSUME NEW q \in Path, pending'[q] # None PROVE timer'[pending'[q]].path = q
      OBVIOUS
    <3>1. CASE q = p
      BY <2>1, <2>2, <2>3, <3>1
    <3>2. CASE q # p
      <4>1. pending'[q] = pending[q] /\ pending[q] \in Timer /\ timer[pending[q]].path = q
        BY <2>2, <3>2
      <4>2. pending[q] # t
        BY <2>2, <4>1 DEF W!Unused
      <4>3. pending[q] # pending[p]
        BY <2>1, <3>2, <4>1
      <4> QED BY <2>3, <4>1, <4>2, <4>3
    <3> QED BY <3>1, <3>2
  <2>6. W!NoLostWrite'
    <3> SUFFICES ASSUME NEW q \in unseen PROVE W!Announced(q)' \/ W!Timed(q)' \/ q \in dropped
      BY <2>2 DEF W!Select
    <3>1. CASE q = p
      BY <2>3, <3>1 DEF W!Timed
    <3>2. CASE q # p /\ W!Announced(q)
      <4>1. Head(events) # [path |-> q, op |-> "write"]
        <5>1. [path |-> p, op |-> "write"].path = p /\ [path |-> q, op |-> "write"].path = q
          OBVIOUS
        <5> QED BY <2>1, <3>2, <5>1
      <4> QED BY <2>2, <3>2, <4>1, AfterHead
    <3>3. CASE q # p /\ W!Timed(q)
      <4>1. PICK u \in Timer : timer[u].path = q
        BY <3>3 DEF W!Timed
      <4>2. u # t /\ u # pending[p]
        BY <2>1, <2>2, <3>3, <4>1 DEF W!Unused
      <4> QED BY <2>3, <4>1, <4>2 DEF W!Timed
    <3> QED BY <2>2, <3>1, <3>2, <3>3 DEF W!Select
  <2> QED BY <2>4, <2>5, <2>6
<1>6. ASSUME NEW t \in Timer, W!RecvFire(t) PROVE W!WatchInv'
  <2>1. timer[t].path \in Path
    BY <1>6 DEF W!RecvFire, W!Unused
  <2>2. W!TypeOK'
    BY <1>6, <2>1 DEF W!RecvFire, W!Unused
  <2>3. W!PendingIsLive'
    BY <1>6, <2>1 DEF W!RecvFire
  <2>4. W!NoLostWrite'
    BY <1>6, <2>1 DEF W!RecvFire, W!Timed, W!Announced, W!Select
  <2> QED BY <2>2, <2>3, <2>4
<1>7. ASSUME W!RecvError \/ W!Stop PROVE W!WatchInv'
  BY <1>7 DEF W!RecvError, W!Stop, W!Timed, W!Announced
<1>8. ASSUME W!Return PROVE W!WatchInv'
  BY <1>8 DEF W!Return, W!Timed, W!Announced, W!Select, W!Returned
<1>9. ASSUME W!Scan PROVE W!WatchInv'
  BY <1>9 DEF W!Scan, W!Timed, W!Announced, W!Select, W!Returned
<1>10. ASSUME W!Report PROVE W!WatchInv'
  BY <1>10 DEF W!Report, W!Timed, W!Announced, W!Select, W!Returned
<1>11. ASSUME UNCHANGED W!vars PROVE W!WatchInv'
  BY <1>11 DEF W!vars, W!Timed, W!Announced
<1> QED BY <1>1, <1>2, <1>3, <1>4, <1>5, <1>6, <1>7, <1>8, <1>9, <1>10, <1>11 DEF W!Next

-----------------------------------------------------------------------------
(* The composition. *)

(* Pipeline starts where its parts start. *)
LEMMA PartsInit == PipeInit => W!Init /\ Init
  BY DEF PipeInit

(* The event that an answer causes, if it causes one, is a step of Watcher.  *)
LEMMA EventOfAnswer == Announce => [W!Next]_W!vars
  BY DEF Announce, watchVars, W!vars, W!Next

(* Every step is one of Watcher or leaves its variables alone, and one of    *)
(* Detections or leaves its variables alone.                                 *)
LEMMA PartsNext == W!WatchInv /\ [PipeNext]_pipeVars => [W!Next]_W!vars /\ [Next]_vars
<1> SUFFICES ASSUME W!WatchInv, [PipeNext]_pipeVars PROVE [W!Next]_W!vars /\ [Next]_vars
  OBVIOUS
<1>1. ASSUME NEW p \in Path, NEW c \in Content, WriteFile(p, c) PROVE W!Next /\ Next
  BY <1>1 DEF WriteFile, W!Next, Next
<1>2. CASE Loop
  BY <1>2 DEF Loop, W!Next
<1>3. CASE Scan
  <2>1. W!Next
    BY <1>3 DEF Scan, W!Next
  <2>2. CASE WatchScan(loop.path)
    <3>1. loop.path \in Path
      BY <1>3 DEF Scan, W!Scan, W!WatchInv, W!TypeOK, W!Select, W!Returned
    <3> QED BY <2>1, <2>2, <3>1 DEF Next
  <2> QED BY <1>3, <2>1, <2>2 DEF Scan
<1>4. CASE Report
  BY <1>4 DEF Report, W!Next, Next
<1>5. ASSUME NEW r \in Reviewer, Reviewing(r) \/ QuitReview(r) PROVE [W!Next]_W!vars /\ Next
  BY <1>5, EventOfAnswer DEF Reviewing, QuitReview, Next, watchVars, W!vars
<1>6. ASSUME NEW s \in Scanner, Scanning(s) PROVE [W!Next]_W!vars /\ Next
  BY <1>6, EventOfAnswer DEF Scanning, Next
<1>7. CASE UNCHANGED pipeVars
  BY <1>7 DEF pipeVars, watchVars, W!vars
<1> QED BY <1>1, <1>2, <1>3, <1>4, <1>5, <1>6, <1>7 DEF PipeNext

-----------------------------------------------------------------------------
(* A bad file has been written and not scanned since, waits for its INSERT,  *)
(* has been queued or decided about, or the code has printed that it gave up *)
(* on it.                                                                    *)
Traced(p) ==
  \/ p \in unseen \/ fate[p] # "new" \/ p \in missed \cup dropped
  \/ loop = [pc |-> "report", path |-> p] /\ <<"watch", p>> \in fresh

TraceInv == \A p \in Path : file[p] \in Bad => Traced(p)

(* What avtool review and avtool scan leave of a file that is bad after      *)
(* their step: it is the same file, its fate is not forgotten, and neither   *)
(* is the match of the watcher's handler.                                    *)
Untouched(p) ==
  /\ file'[p] = file[p]
  /\ fate[p] # "new" => fate'[p] # "new"
  /\ <<"watch", p>> \in fresh => <<"watch", p>> \in fresh'

(* An answer takes a file away, or its match with the one who answers.       *)
LEMMA ActLeaves ==
  ASSUME TypeOK, NEW proc \in Reviewer \cup Scanner, NEW q \in Path,
         ActFails(proc, q) \/ \E a \in Answers : Act(proc, a, q)
  PROVE  \A p \in Path : file'[p] \in Bad => Untouched(p)
<1>1. "watch" \notin Reviewer \cup Scanner /\ None \notin Bad
  BY DetectionsAssumption
<1>2. CASE ActFails(proc, q)
  BY <1>1, <1>2 DEF TypeOK, ActFails, Untouched
<1>3. CASE \E a \in Answers : Act(proc, a, q)
  BY <1>1, <1>3 DEF TypeOK, Act, Untouched
<1> QED BY <1>2, <1>3

(* So do all the steps of a review: its rows name paths.                     *)
LEMMA ReviewLeaves ==
  ASSUME TodoInv, NEW r \in Reviewer,
         Review(r) \/ ReadError(r) \/ AnswerFails(r) \/ EndReview(r)
  PROVE  \A p \in Path : file'[p] \in Bad => Untouched(p)
<1>1. r # "watch" /\ TypeOK
  BY DetectionsAssumption DEF TodoInv
<1>2. ASSUME At(r, "scan") \/ At(r, "prompt") PROVE rows[Current(r)].path \in Path
  <2>1. review[r].todo # {} /\ review[r].todo \subseteq DOMAIN rows
    BY <1>2 DEF At, TodoInv
  <2>2. Current(r) \in DOMAIN rows
    BY <1>1, <2>1, CurrentInTodo
  <2>3. rows[Current(r)] \in Row
    BY <1>1, <2>2 DEF TypeOK
  <2> QED BY <2>3 DEF Row
<1>3. CASE ListPending(r) \/ Resolve(r)
  BY <1>3 DEF ListPending, Resolve, Untouched
<1>4. CASE Reverify(r)
  BY <1>4 DEF Reverify, Untouched
<1>5. CASE ReadError(r)
  BY <1>1, <1>2, <1>5 DEF ReadError, Untouched, TypeOK
<1>6. CASE AnswerFails(r) \/ \E a \in Answers : Answer(r, a)
  <2>1. rows[Current(r)].path \in Path
    BY <1>2, <1>6 DEF AnswerFails, Answer
  <2>2. ActFails(r, rows[Current(r)].path) \/ \E a \in Answers : Act(r, a, rows[Current(r)].path)
    BY <1>6 DEF AnswerFails, Answer
  <2> QED BY <1>1, <2>1, <2>2, ActLeaves
<1>7. CASE EndReview(r)
  BY <1>1, <1>7 DEF EndReview, Untouched
<1> QED BY <1>3, <1>4, <1>5, <1>6, <1>7 DEF Review

(* And all the steps of a scan.                                              *)
LEMMA ScanLeaves ==
  ASSUME TypeOK, NEW s \in Scanner,
         \/ StartScan(s) \/ EndScan(s) \/ \E p \in Path : WalkFile(s, p)
         \/ \E m \in scan[s].found : ScanFails(s, m) \/ \E a \in Answers : AnswerScan(s, m, a)
  PROVE  \A p \in Path : file'[p] \in Bad => Untouched(p)
<1>1. s # "watch"
  BY DetectionsAssumption
<1>2. CASE StartScan(s)
  BY <1>2 DEF StartScan, Untouched
<1>3. CASE EndScan(s)
  BY <1>1, <1>3 DEF EndScan, Untouched
<1>4. CASE \E p \in Path : WalkFile(s, p)
  BY <1>4 DEF WalkFile, Untouched
<1>5. ASSUME NEW m \in scan[s].found, ScanFails(s, m) \/ \E a \in Answers : AnswerScan(s, m, a)
      PROVE  \A p \in Path : file'[p] \in Bad => Untouched(p)
  <2>1. m[1] \in Path
    BY DEF TypeOK
  <2>2. ActFails(s, m[1]) \/ \E a \in Answers : Act(s, a, m[1])
    BY <1>5 DEF ScanFails, AnswerScan
  <2> QED BY <2>1, <2>2, ActLeaves
<1> QED BY <1>2, <1>3, <1>4, <1>5

(* Every step keeps a bad file traced.  The handler inserts the match of the *)
(* file the loop is at: where a match is fresh, QueueInv says of which file. *)
LEMMA TraceKept ==
  W!WatchInv /\ QueueInv /\ TraceInv /\ [PipeNext]_pipeVars => TraceInv'
<1> SUFFICES ASSUME W!WatchInv, QueueInv, TraceInv, [PipeNext]_pipeVars,
                    NEW p \in Path, file'[p] \in Bad
             PROVE  Traced(p)'
  BY DEF TraceInv
<1>0. TypeOK /\ TodoInv /\ W!TypeOK
  BY DEF QueueInv, TodoInv, W!WatchInv
<1>1. file[p] \in Bad => Traced(p)
  BY DEF TraceInv
<1>2. ASSUME Untouched(p), UNCHANGED <<missed, unseen, dropped, loop>> PROVE Traced(p)'
  BY <1>1, <1>2 DEF Traced, Untouched
<1>3. ASSUME NEW q \in Path, NEW c \in Content, WriteFile(q, c) PROVE Traced(p)'
  <2>1. CASE p = q
    BY <1>3, <2>1 DEF WriteFile, W!Write, Traced
  <2>2. CASE p # q
    BY <1>0, <1>1, <1>3, <2>2 DEF WriteFile, Write, W!Write, Traced, TypeOK
  <2> QED BY <2>1, <2>2
<1>4. CASE Loop
  <2>1. unseen' = unseen /\ dropped' = dropped /\ (loop' = loop \/ loop.pc # "report")
    <3>1. ASSUME NEW q \in Path, W!Touch(q)
          PROVE  unseen' = unseen /\ dropped' = dropped /\ (loop' = loop \/ loop.pc # "report")
      BY <3>1 DEF W!Touch
    <3>2. ASSUME NEW t \in Timer, W!Expire(t) \/ W!ArmTimer(t) \/ W!RecvFire(t)
          PROVE  unseen' = unseen /\ dropped' = dropped /\ (loop' = loop \/ loop.pc # "report")
      BY <3>2 DEF W!Expire, W!ArmTimer, W!RecvFire, W!Select
    <3>3. CASE W!IgnoreEvent \/ W!RecvError \/ W!Return \/ W!Stop
      BY <3>3 DEF W!IgnoreEvent, W!RecvError, W!Return, W!Stop, W!Select
    <3> QED BY <1>4, <3>1, <3>2, <3>3 DEF Loop
  <2>2. UNCHANGED vars /\ missed' = missed
    BY <1>4 DEF Loop
  <2> QED BY <1>1, <2>1, <2>2 DEF Traced, vars
<1>5. CASE Scan
  <2>1. /\ loop.pc = "scan" /\ loop.path \in Path
        /\ unseen' = unseen \ {loop.path} /\ dropped' = dropped \ {loop.path}
        /\ loop' \in {W!Select, [loop EXCEPT !.pc = "report"]}
    BY <1>0, <1>5 DEF Scan, W!Scan, W!TypeOK, W!Select, W!Returned
  <2>2. CASE WatchScan(loop.path) /\ loop'.pc = "report" /\ missed' = missed
    <3>1. loop' = [pc |-> "report", path |-> loop.path]
      BY <1>0, <2>1, <2>2 DEF W!TypeOK, W!Select, W!Returned
    <3> QED BY <1>1, <2>1, <2>2, <3>1 DEF WatchScan, Traced
  <2>3. CASE UNCHANGED vars /\ missed' = IF file[loop.path] \in Bad THEN missed \cup {loop.path} ELSE missed
    BY <1>1, <2>1, <2>3 DEF vars, Traced
  <2> QED BY <1>5, <2>2, <2>3 DEF Scan
<1>6. CASE Report
  <2>1. UNCHANGED <<unseen, dropped>> /\ loop.pc = "report"
    BY <1>6 DEF Report, W!Report
  <2>2. CASE Enqueue /\ missed' = missed
    <3>1. <<"watch", p>> \in fresh => watch.path = p
      BY DEF QueueInv
    <3> QED BY <1>0, <1>1, <2>1, <2>2, <3>1 DEF Enqueue, Traced, TypeOK
  <2>3. CASE EnqueueFails /\ missed' = missed \cup {q \in Path : <<"watch", q>> \in fresh}
    BY <1>1, <2>1, <2>3 DEF EnqueueFails, Traced
  <2> QED BY <1>6, <2>2, <2>3 DEF Report
<1>7. ASSUME Announce PROVE UNCHANGED <<unseen, dropped, loop>>
  BY <1>7 DEF Announce, watchVars, W!Touch
<1>8. ASSUME NEW r \in Reviewer, Reviewing(r) \/ QuitReview(r) PROVE Traced(p)'
  <2>1. UNCHANGED <<missed, unseen, dropped, loop>>
    BY <1>7, <1>8 DEF Reviewing, QuitReview, watchVars
  <2>2. Untouched(p)
    BY <1>0, <1>8, ReviewLeaves DEF Reviewing, QuitReview
  <2> QED BY <1>2, <2>1, <2>2
<1>9. ASSUME NEW s \in Scanner, Scanning(s) PROVE Traced(p)'
  <2>1. UNCHANGED <<missed, unseen, dropped, loop>>
    BY <1>7, <1>9 DEF Scanning
  <2>2. Untouched(p)
    BY <1>0, <1>9, ScanLeaves DEF Scanning
  <2> QED BY <1>2, <2>1, <2>2
<1>10. CASE UNCHANGED pipeVars
  BY <1>1, <1>10 DEF pipeVars, vars, watchVars, Traced
<1> QED BY <1>3, <1>4, <1>5, <1>6, <1>8, <1>9, <1>10 DEF PipeNext

(* From the write to the decision no bad file slips through, however writes, *)
(* timers, the handler, reviews and scans interleave, but by what the code   *)
(* prints.                                                                   *)
THEOREM NoThreatSlips == PipeSpec => []NothingSlips
<1>1. PipeInit => W!WatchInv /\ QueueInv /\ TraceInv
  <2> SUFFICES ASSUME PipeInit PROVE W!WatchInv /\ QueueInv /\ TraceInv
    OBVIOUS
  <2>1. W!WatchInv /\ QueueInv
    BY PartsInit, LoopInit, InitQueue
  <2>2. TraceInv
    BY DEF PipeInit, TraceInv, Traced
  <2> QED BY <2>1, <2>2
<1>2. W!WatchInv /\ QueueInv /\ TraceInv /\ [PipeNext]_pipeVars => (W!WatchInv /\ QueueInv /\ TraceInv)'
  <2> SUFFICES ASSUME W!WatchInv, QueueInv, TraceInv, [PipeNext]_pipeVars
               PROVE  W!WatchInv' /\ QueueInv' /\ TraceInv'
    OBVIOUS
  <2>1. [W!Next]_W!vars /\ [Next]_vars
    BY PartsNext
  <2> QED BY <2>1, LoopNext, QueueKept, TraceKept
<1>3. W!WatchInv /\ QueueInv /\ TraceInv => NothingSlips
  <2> SUFFICES ASSUME W!WatchInv, QueueInv, TraceInv, NEW p \in Path, file[p] \in Bad
               PROVE  \/ OnItsWay(p)
                      \/ fate[p] = "queued" /\ RowsOn(p, file[p]) # {}
                      \/ fate[p] \in {"decided", "unread"}
                      \/ p \in missed \cup dropped
                      \/ p \in unseen /\ loop = W!Returned
    BY DEF NothingSlips
  <2>1. Traced(p)
    BY DEF TraceInv
  <2>2. CASE p \in unseen
    BY <2>2 DEF W!WatchInv, W!NoLostWrite, OnItsWay
  <2>3. CASE fate[p] # "new"
    <3>1. fate[p] \in {"queued", "decided", "unread"}
      BY <2>3 DEF QueueInv, TodoInv, TypeOK
    <3>2. fate[p] = "queued" => RowsOn(p, file[p]) # {}
      BY DEF QueueInv
    <3> QED BY <3>1, <3>2
  <2> QED BY <2>1, <2>2, <2>3 DEF Traced, OnItsWay
<1> QED BY <1>1, <1>2, <1>3, PTL DEF PipeSpec
=============================================================================
