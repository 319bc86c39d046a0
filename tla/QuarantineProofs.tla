--------------------------- MODULE QuarantineProofs ---------------------------
(***************************************************************************)
(* StoreInv is inductive: for any number of processes, paths, contents and *)
(* ids, in any mixture of devices, under any edits and any failures.  One  *)
(* lemma per action, one step per group of conjuncts it can disturb.       *)
(***************************************************************************)
EXTENDS Quarantine, TLAPS

(* Body names are names, no two records share one, and none is a user's path. *)
LEMMA Names ==
  /\ \A i \in Id, h \in Content : quarantineFileName(i, h) \in Name
  /\ \A i, j, g, h : quarantineFileName(i, h) = quarantineFileName(j, g) <=> i = j /\ h = g
  /\ \A n \in Name : n \notin Path
  BY QuarantineAssumption DEF Name, quarantineFileName

(* A move has a path at one end and its own body at the other. *)
LEMMA Ends ==
  ASSUME StoreInv, NEW p \in Proc, op[p].pc \in {"move", "create", "copy", "unlink", "finish"}
  PROVE  /\ BodyOf(op[p]) = quarantineFileName(op[p].id, op[p].hash)
         /\ BodyOf(op[p]) \in Loc /\ op[p].path \in Loc /\ BodyOf(op[p]) # op[p].path
         /\ \/ op[p].kind = "quarantine" /\ Src(op[p]) = op[p].path /\ Dst(op[p]) = BodyOf(op[p])
            \/ op[p].kind = "restore" /\ Src(op[p]) = BodyOf(op[p]) /\ Dst(op[p]) = op[p].path
  BY Names DEF StoreInv, OpShape, BodyOf, Src, Dst, Loc

(* A command that opens a file goes on with the rest of what it has read. *)
LEMMA Opened ==
  ASSUME NEW o \in Op, NEW j \in Inode
  PROVE  /\ [o EXCEPT !.pc = "create", !.in = j] \in Op
         /\ [o EXCEPT !.pc = "copy", !.out = j] \in Op
<1>1. [o EXCEPT !.pc = "create"] \in Op /\ [o EXCEPT !.pc = "copy"] \in Op
  BY DEF Op, Steps
<1> QED BY <1>1 DEF Op

LEMMA MatchStep ==
  ASSUME StoreInv, NEW p \in Proc, NEW f \in Path, Match(p, f)
  PROVE  StoreInv'
<1> USE QuarantineAssumption, Names DEF StoreInv, Types, OpShape, Match, Begin
<1>1. at' \in [Loc -> Inode \cup {None}] /\ data' \in [Inode -> Content \cup {Torn}] /\ exec' \in SUBSET Inode
  BY DEF Loc, BodyOf, Src, Dst
<1>2. rec' \in [Id -> Row \cup {None}] /\ nextId' \in 1 .. (MaxId + 1)
  BY DEF Row, Id
<1>3. op' \in [Proc -> Op]
  BY DEF Op, Kinds, Steps, Idle, Row
<1>4. OpShape'
  BY DEF Op, Idle, Row, BodyOf, Src, Dst
<1>5. IdsFresh'
  BY DEF IdsFresh, Op, Idle, Id, quarantineFileName, Name, Loc, BodyOf, Src, Dst
<1>6. (HashAgrees /\ OneMover)'
  BY DEF HashAgrees, OneMover, IdsFresh, Op, Idle, Row, Id
<1>7. (NotYetMovedIn /\ MovedOut /\ DestinationFree)'
  BY DEF NotYetMovedIn, MovedOut, DestinationFree, IdsFresh, HashAgrees, OneMover, Op, Idle, Row, Loc, BodyOf, Dst, Src
<1>8. RestoredBodyGone'
  BY DEF RestoredBodyGone, NotYetMovedIn, MovedOut, IdsFresh, HashAgrees, Row, Loc
<1> QED BY <1>1, <1>2, <1>3, <1>4, <1>5, <1>6, <1>7, <1>8

LEMMA DeleteFileStep ==
  ASSUME StoreInv, NEW p \in Proc, DeleteFile(p)
  PROVE  StoreInv'
<1> USE QuarantineAssumption, Names DEF StoreInv, Types, OpShape, DeleteFile, At, Return
<1>1. at' \in [Loc -> Inode \cup {None}] /\ data' \in [Inode -> Content \cup {Torn}] /\ exec' \in SUBSET Inode
  BY DEF Loc, BodyOf, Src, Dst
<1>2. rec' \in [Id -> Row \cup {None}] /\ nextId' \in 1 .. (MaxId + 1)
  BY DEF Row, Id
<1>3. op' \in [Proc -> Op]
  BY DEF Op, Kinds, Steps, Idle, Row
<1>4. OpShape'
  BY DEF Op, Idle, Row, BodyOf, Src, Dst
<1>5. IdsFresh'
  BY DEF IdsFresh, Op, Idle, Id, quarantineFileName, Name, Loc, BodyOf, Src, Dst
<1>6. (HashAgrees /\ OneMover)'
  BY DEF HashAgrees, OneMover, IdsFresh, Op, Idle, Row, Id
<1>7. (NotYetMovedIn /\ MovedOut /\ DestinationFree)'
  BY DEF NotYetMovedIn, MovedOut, DestinationFree, IdsFresh, HashAgrees, OneMover, Op, Idle, Row, Loc, BodyOf, Dst, Src
<1>8. RestoredBodyGone'
  BY DEF RestoredBodyGone, NotYetMovedIn, MovedOut, IdsFresh, HashAgrees, Row, Loc
<1> QED BY <1>1, <1>2, <1>3, <1>4, <1>5, <1>6, <1>7, <1>8

LEMMA InsertRowStep ==
  ASSUME StoreInv, NEW p \in Proc, InsertRow(p)
  PROVE  StoreInv'
<1> USE QuarantineAssumption, Names DEF StoreInv, Types, OpShape, InsertRow, At
<1> DEFINE o == [op[p] EXCEPT !.kind = "quarantine", !.pc = "move", !.id = nextId]
<1>1. nextId \in Id
  BY DEF Id
<1>2. o \in Op /\ o.kind = "quarantine" /\ o.pc = "move" /\ o.id = nextId /\ o.path = op[p].path /\ o.hash = op[p].hash
  <2>1. op[p] \in Op
    OBVIOUS
  <2> QED BY <2>1, <1>1 DEF Op, Kinds, Steps
<1>3. op' = [op EXCEPT ![p] = o]
  OBVIOUS
<1> HIDE DEF o
<1>4. Types'
  BY <1>1, <1>2, <1>3 DEF Row, Id
<1>5. OpShape'
  BY <1>1, <1>2, <1>3
<1>6. IdsFresh'
  BY <1>1, <1>2, <1>3 DEF IdsFresh, Id
<1>7. /\ \A q \in Proc : op'[q] = IF q = p THEN o ELSE op[q]
      /\ \A q \in Proc : op[q].id # nextId
      /\ \A h \in Content : at[quarantineFileName(nextId, h)] = None
  <2>1. nextId >= nextId
    OBVIOUS
  <2>2. /\ \A q \in Proc : op[q].id # nextId
        /\ \A h \in Content : at[<<nextId, h>>] = None
    BY <1>1, <2>1 DEF IdsFresh
  <2> QED BY <1>3, <2>2 DEF quarantineFileName
<1>8. /\ rec'[nextId] = [path |-> op[p].path, hash |-> op[p].hash, restored |-> FALSE]
      /\ \A i \in Id : i # nextId => rec'[i] = rec[i]
  BY <1>1
<1>9. HashAgrees' /\ OneMover'
  BY <1>1, <1>2, <1>7, <1>8 DEF HashAgrees, OneMover, Op
<1>10. NotYetMovedIn' /\ MovedOut' /\ DestinationFree'
  BY <1>1, <1>2, <1>7, <1>8 DEF NotYetMovedIn, MovedOut, DestinationFree, Op, BodyOf, Dst
<1>11. RestoredBodyGone'
  BY <1>1, <1>8 DEF RestoredBodyGone
<1> QED BY <1>4, <1>5, <1>6, <1>9, <1>10, <1>11

LEMMA RenameStep ==
  ASSUME StoreInv, NEW p \in Proc, Rename(p)
  PROVE  StoreInv'
<1> USE QuarantineAssumption, Names, Ends DEF StoreInv, Types, OpShape, Rename, At, Goto
<1>1. at' \in [Loc -> Inode \cup {None}] /\ data' \in [Inode -> Content \cup {Torn}] /\ exec' \in SUBSET Inode
  BY DEF Loc
<1>2. rec' \in [Id -> Row \cup {None}] /\ nextId' \in 1 .. (MaxId + 1)
  BY DEF Row, Id
<1>3. op' \in [Proc -> Op]
  BY DEF Op, Kinds, Steps, Idle, Row
<1>4. OpShape'
  BY DEF Op, Idle, Row
<1>5. IdsFresh'
  <2>1. \A n \in Name : n # BodyOf(op[p]) => at'[n] = at[n]
    BY DEF Loc
  <2>2. \A i \in Id, h \in Content : i >= nextId => <<i, h>> \in Name /\ <<i, h>> # BodyOf(op[p])
    BY DEF IdsFresh, Name, quarantineFileName
  <2>3. IdsFresh /\ rec' = rec /\ nextId' = nextId /\ \A q \in Proc : op'[q].id = op[q].id
    BY DEF Op
  <2> HIDE DEF StoreInv, Types, OpShape, Rename
  <2> QED BY <2>1, <2>2, <2>3 DEF IdsFresh
<1>6. (HashAgrees /\ OneMover)'
  BY DEF HashAgrees, OneMover, IdsFresh, Op, Idle, Row
<1>7. (NotYetMovedIn /\ MovedOut /\ DestinationFree)'
  BY DEF NotYetMovedIn, MovedOut, DestinationFree, IdsFresh, HashAgrees, OneMover, Op, Idle, Row, Loc, BodyOf, Dst, Src
<1>8. RestoredBodyGone'
  BY DEF RestoredBodyGone, NotYetMovedIn, MovedOut, IdsFresh, HashAgrees, Row, Loc
<1> QED BY <1>1, <1>2, <1>3, <1>4, <1>5, <1>6, <1>7, <1>8

LEMMA OpenSrcStep ==
  ASSUME StoreInv, NEW p \in Proc, OpenSrc(p)
  PROVE  StoreInv'
<1> USE QuarantineAssumption, Names, Ends DEF StoreInv, Types, OpShape, OpenSrc, At
<1>0. at[Src(op[p])] \in Inode
  OBVIOUS
<1>1. at' \in [Loc -> Inode \cup {None}] /\ data' \in [Inode -> Content \cup {Torn}] /\ exec' \in SUBSET Inode
  BY <1>0 DEF Loc
<1>2. rec' \in [Id -> Row \cup {None}] /\ nextId' \in 1 .. (MaxId + 1)
  BY <1>0 DEF Row, Id
<1>3. op' \in [Proc -> Op]
  <2>1. op' = [op EXCEPT ![p] = [op[p] EXCEPT !.pc = "create", !.in = at[Src(op[p])]]]
    OBVIOUS
  <2>2. [op[p] EXCEPT !.pc = "create", !.in = at[Src(op[p])]] \in Op
    BY <1>0, Opened
  <2> QED BY <2>1, <2>2
<1>4. OpShape'
  BY <1>0 DEF Op, Idle, Row
<1>5. IdsFresh'
  BY <1>0 DEF IdsFresh, Op, Idle, Id, quarantineFileName, Name, Loc
<1>6. (HashAgrees /\ OneMover)'
  BY <1>0 DEF HashAgrees, OneMover, IdsFresh, Op, Idle, Row
<1>7. (NotYetMovedIn /\ MovedOut /\ DestinationFree)'
  BY <1>0 DEF NotYetMovedIn, MovedOut, DestinationFree, IdsFresh, HashAgrees, OneMover, Op, Idle, Row, Loc, BodyOf, Dst, Src
<1>8. RestoredBodyGone'
  BY <1>0 DEF RestoredBodyGone, NotYetMovedIn, MovedOut, IdsFresh, HashAgrees, Row, Loc
<1> QED BY <1>1, <1>2, <1>3, <1>4, <1>5, <1>6, <1>7, <1>8

LEMMA CreateDstStep ==
  ASSUME StoreInv, NEW p \in Proc, CreateDst(p)
  PROVE  StoreInv'
<1> USE QuarantineAssumption, Names, Ends DEF StoreInv, Types, OpShape, At, Free
<1>0. at[Dst(op[p])] \in Inode \cup {None} /\ At(p, "create")
  BY DEF CreateDst
<1>1. PICK j \in IF at[Dst(op[p])] = None THEN Free ELSE {at[Dst(op[p])]} :
         /\ at'   = [at EXCEPT ![Dst(op[p])] = j]
         /\ data' = [data EXCEPT ![j] = Torn]
         /\ exec' = IF at[Dst(op[p])] = None THEN exec \ {j} ELSE exec
         /\ op'   = [op EXCEPT ![p] = [@ EXCEPT !.pc = "copy", !.out = j]]
         /\ UNCHANGED <<rec, nextId>>
  BY DEF CreateDst
<1>2. j \in Inode
  BY <1>0, <1>1
<1>3. op' = [op EXCEPT ![p] = [op[p] EXCEPT !.pc = "copy", !.out = j]]
  BY <1>1
<1>4. [op[p] EXCEPT !.pc = "copy", !.out = j] \in Op
  BY <1>2, Opened
<1>5. Types'
  BY <1>0, <1>1, <1>2, <1>3, <1>4
<1>6. OpShape'
  BY <1>0, <1>2, <1>3 DEF Op
<1>7. IdsFresh'
  BY <1>0, <1>1, <1>3 DEF IdsFresh, Op, Id, quarantineFileName, Name, Loc
<1>8. (HashAgrees /\ OneMover)'
  BY <1>0, <1>1, <1>3 DEF HashAgrees, OneMover, Op, Row
<1>9. (NotYetMovedIn /\ MovedOut /\ DestinationFree)'
  BY <1>0, <1>1, <1>3 DEF NotYetMovedIn, MovedOut, DestinationFree, HashAgrees, OneMover, Op, Row, Loc, BodyOf, Dst, Src
<1>10. RestoredBodyGone'
  BY <1>0, <1>1 DEF RestoredBodyGone, NotYetMovedIn, HashAgrees, Row, Loc
<1> QED BY <1>5, <1>6, <1>7, <1>8, <1>9, <1>10

LEMMA CopyDataStep ==
  ASSUME StoreInv, NEW p \in Proc, CopyData(p)
  PROVE  StoreInv'
<1> USE QuarantineAssumption, Names DEF StoreInv, Types, OpShape, CopyData, At, Goto
<1>1. at' \in [Loc -> Inode \cup {None}] /\ data' \in [Inode -> Content \cup {Torn}] /\ exec' \in SUBSET Inode
  BY DEF Loc, BodyOf, Src, Dst
<1>2. rec' \in [Id -> Row \cup {None}] /\ nextId' \in 1 .. (MaxId + 1)
  BY DEF Row, Id
<1>3. op' \in [Proc -> Op]
  BY DEF Op, Kinds, Steps, Idle, Row
<1>4. OpShape'
  BY DEF Op, Idle, Row, BodyOf, Src, Dst
<1>5. IdsFresh'
  BY DEF IdsFresh, Op, Idle, Id, quarantineFileName, Name, Loc, BodyOf, Src, Dst
<1>6. (HashAgrees /\ OneMover)'
  BY DEF HashAgrees, OneMover, IdsFresh, Op, Idle, Row, Id
<1>7. (NotYetMovedIn /\ MovedOut /\ DestinationFree)'
  BY DEF NotYetMovedIn, MovedOut, DestinationFree, IdsFresh, HashAgrees, OneMover, Op, Idle, Row, Loc, BodyOf, Dst, Src
<1>8. RestoredBodyGone'
  BY DEF RestoredBodyGone, NotYetMovedIn, MovedOut, IdsFresh, HashAgrees, Row, Loc
<1> QED BY <1>1, <1>2, <1>3, <1>4, <1>5, <1>6, <1>7, <1>8

LEMMA UnlinkSrcStep ==
  ASSUME StoreInv, NEW p \in Proc, UnlinkSrc(p)
  PROVE  StoreInv'
<1> USE QuarantineAssumption, Names, Ends DEF StoreInv, Types, OpShape, UnlinkSrc, At, Goto
<1>1. at' \in [Loc -> Inode \cup {None}] /\ data' \in [Inode -> Content \cup {Torn}] /\ exec' \in SUBSET Inode
  BY DEF Loc
<1>2. rec' \in [Id -> Row \cup {None}] /\ nextId' \in 1 .. (MaxId + 1)
  BY DEF Row, Id
<1>3. op' \in [Proc -> Op]
  <2>1. op' = [op EXCEPT ![p] = [op[p] EXCEPT !.pc = "finish"]]
    OBVIOUS
  <2>2. [op[p] EXCEPT !.pc = "finish"] \in Op
    BY DEF Op, Kinds, Steps
  <2> QED BY <2>1, <2>2
<1>4. OpShape'
  BY DEF Op, Idle, Row
<1>5. IdsFresh'
  BY DEF IdsFresh, Op, Idle, Id, quarantineFileName, Name, Loc
<1>6. (HashAgrees /\ OneMover)'
  BY DEF HashAgrees, OneMover, IdsFresh, Op, Idle, Row
<1>7. (NotYetMovedIn /\ MovedOut /\ DestinationFree)'
  BY DEF NotYetMovedIn, MovedOut, DestinationFree, IdsFresh, HashAgrees, OneMover, Op, Idle, Row, Loc, BodyOf, Dst, Src
<1>8. RestoredBodyGone'
  BY DEF RestoredBodyGone, NotYetMovedIn, MovedOut, IdsFresh, HashAgrees, Row, Loc
<1> QED BY <1>1, <1>2, <1>3, <1>4, <1>5, <1>6, <1>7, <1>8

LEMMA ChmodStep ==
  ASSUME StoreInv, NEW p \in Proc, Chmod(p)
  PROVE  StoreInv'
<1> USE QuarantineAssumption, Names DEF StoreInv, Types, OpShape, Chmod, At, Return
<1>1. at' \in [Loc -> Inode \cup {None}] /\ data' \in [Inode -> Content \cup {Torn}] /\ exec' \in SUBSET Inode
  BY DEF Loc, BodyOf, Src, Dst
<1>2. rec' \in [Id -> Row \cup {None}] /\ nextId' \in 1 .. (MaxId + 1)
  BY DEF Row, Id
<1>3. op' \in [Proc -> Op]
  BY DEF Op, Kinds, Steps, Idle, Row
<1>4. OpShape'
  BY DEF Op, Idle, Row, BodyOf, Src, Dst
<1>5. IdsFresh'
  BY DEF IdsFresh, Op, Idle, Id, quarantineFileName, Name, Loc, BodyOf, Src, Dst
<1>6. (HashAgrees /\ OneMover)'
  BY DEF HashAgrees, OneMover, IdsFresh, Op, Idle, Row, Id
<1>7. (NotYetMovedIn /\ MovedOut /\ DestinationFree)'
  BY DEF NotYetMovedIn, MovedOut, DestinationFree, IdsFresh, HashAgrees, OneMover, Op, Idle, Row, Loc, BodyOf, Dst, Src
<1>8. RestoredBodyGone'
  BY DEF RestoredBodyGone, NotYetMovedIn, MovedOut, IdsFresh, HashAgrees, Row, Loc
<1> QED BY <1>1, <1>2, <1>3, <1>4, <1>5, <1>6, <1>7, <1>8

LEMMA SelectRestoreStep ==
  ASSUME StoreInv, NEW p \in Proc, NEW i \in Id, SelectRestore(p, i)
  PROVE  StoreInv'
<1> USE QuarantineAssumption, Names DEF StoreInv, Types, OpShape, SelectRestore, Begin
<1>0. rec[i] \in Row
  OBVIOUS
<1>1. at' \in [Loc -> Inode \cup {None}] /\ data' \in [Inode -> Content \cup {Torn}] /\ exec' \in SUBSET Inode
  BY <1>0 DEF Loc, BodyOf, Src, Dst
<1>2. rec' \in [Id -> Row \cup {None}] /\ nextId' \in 1 .. (MaxId + 1)
  BY <1>0 DEF Row, Id
<1>3. op' \in [Proc -> Op]
  BY <1>0 DEF Op, Kinds, Steps, Idle, Row
<1>4. OpShape'
  BY <1>0 DEF Op, Idle, Row, BodyOf, Src, Dst
<1>5. IdsFresh'
  BY <1>0 DEF IdsFresh, Op, Idle, Id, quarantineFileName, Name, Loc, BodyOf, Src, Dst
<1>6. (HashAgrees /\ OneMover)'
  BY <1>0 DEF HashAgrees, OneMover, IdsFresh, Op, Idle, Row, Id
<1>7. (NotYetMovedIn /\ MovedOut /\ DestinationFree)'
  BY <1>0 DEF NotYetMovedIn, MovedOut, DestinationFree, IdsFresh, HashAgrees, OneMover, Op, Idle, Row, Loc, BodyOf, Dst, Src
<1>8. RestoredBodyGone'
  BY <1>0 DEF RestoredBodyGone, NotYetMovedIn, MovedOut, IdsFresh, HashAgrees, Row, Loc
<1> QED BY <1>1, <1>2, <1>3, <1>4, <1>5, <1>6, <1>7, <1>8

LEMMA MarkRestoredStep ==
  ASSUME StoreInv, NEW p \in Proc, MarkRestored(p)
  PROVE  StoreInv'
<1> USE QuarantineAssumption, Names DEF StoreInv, Types, OpShape, MarkRestored, At, Return
<1>0. op[p].id \in Id /\ rec[op[p].id] \in Row \cup {None}
  OBVIOUS
<1>1. at' \in [Loc -> Inode \cup {None}] /\ data' \in [Inode -> Content \cup {Torn}] /\ exec' \in SUBSET Inode
  BY <1>0 DEF Loc, BodyOf, Src, Dst
<1>2. rec' \in [Id -> Row \cup {None}] /\ nextId' \in 1 .. (MaxId + 1)
  BY <1>0 DEF Row, Id
<1>3. op' \in [Proc -> Op]
  BY <1>0 DEF Op, Kinds, Steps, Idle, Row
<1>4. OpShape'
  BY <1>0 DEF Op, Idle, Row, BodyOf, Src, Dst
<1>5. IdsFresh'
  BY <1>0 DEF IdsFresh, Op, Idle, Id, quarantineFileName, Name, Loc, BodyOf, Src, Dst
<1>6. (HashAgrees /\ OneMover)'
  BY <1>0 DEF HashAgrees, OneMover, IdsFresh, Op, Idle, Row, Id
<1>7. (NotYetMovedIn /\ MovedOut /\ DestinationFree)'
  BY <1>0 DEF NotYetMovedIn, MovedOut, DestinationFree, IdsFresh, HashAgrees, OneMover, Op, Idle, Row, Loc, BodyOf, Dst, Src
<1>8. RestoredBodyGone'
  BY <1>0 DEF RestoredBodyGone, MovedOut, HashAgrees, Row, BodyOf
<1> QED BY <1>1, <1>2, <1>3, <1>4, <1>5, <1>6, <1>7, <1>8

LEMMA SelectPurgeStep ==
  ASSUME StoreInv, NEW p \in Proc, NEW i \in Id, SelectPurge(p, i)
  PROVE  StoreInv'
<1> USE QuarantineAssumption, Names DEF StoreInv, Types, OpShape, SelectPurge, Begin
<1>0. rec[i] \in Row
  OBVIOUS
<1>1. at' \in [Loc -> Inode \cup {None}] /\ data' \in [Inode -> Content \cup {Torn}] /\ exec' \in SUBSET Inode
  BY <1>0 DEF Loc, BodyOf, Src, Dst
<1>2. rec' \in [Id -> Row \cup {None}] /\ nextId' \in 1 .. (MaxId + 1)
  BY <1>0 DEF Row, Id
<1>3. op' \in [Proc -> Op]
  BY <1>0 DEF Op, Kinds, Steps, Idle, Row
<1>4. OpShape'
  BY <1>0 DEF Op, Idle, Row, BodyOf, Src, Dst
<1>5. IdsFresh'
  BY <1>0 DEF IdsFresh, Op, Idle, Id, quarantineFileName, Name, Loc, BodyOf, Src, Dst
<1>6. (HashAgrees /\ OneMover)'
  BY <1>0 DEF HashAgrees, OneMover, IdsFresh, Op, Idle, Row, Id
<1>7. (NotYetMovedIn /\ MovedOut /\ DestinationFree)'
  BY <1>0 DEF NotYetMovedIn, MovedOut, DestinationFree, IdsFresh, HashAgrees, OneMover, Op, Idle, Row, Loc, BodyOf, Dst, Src
<1>8. RestoredBodyGone'
  BY <1>0 DEF RestoredBodyGone, NotYetMovedIn, MovedOut, IdsFresh, HashAgrees, Row, Loc
<1> QED BY <1>1, <1>2, <1>3, <1>4, <1>5, <1>6, <1>7, <1>8

LEMMA RemoveBodyStep ==
  ASSUME StoreInv, NEW p \in Proc, RemoveBody(p)
  PROVE  StoreInv'
<1> USE QuarantineAssumption, Names DEF StoreInv, Types, OpShape, RemoveBody, At, Goto
<1>1. at' \in [Loc -> Inode \cup {None}] /\ data' \in [Inode -> Content \cup {Torn}] /\ exec' \in SUBSET Inode
  BY DEF Loc, BodyOf, Src, Dst
<1>2. rec' \in [Id -> Row \cup {None}] /\ nextId' \in 1 .. (MaxId + 1)
  BY DEF Row, Id
<1>3. op' \in [Proc -> Op]
  <2>1. op' = [op EXCEPT ![p] = [op[p] EXCEPT !.pc = "delete"]]
    OBVIOUS
  <2>2. [op[p] EXCEPT !.pc = "delete"] \in Op
    BY DEF Op, Kinds, Steps
  <2> QED BY <2>1, <2>2
<1>4. OpShape'
  BY DEF Op, Idle, Row, BodyOf, Src, Dst
<1>5. IdsFresh'
  BY DEF IdsFresh, Op, Idle, Id, quarantineFileName, Name, Loc, BodyOf, Src, Dst
<1>6. (HashAgrees /\ OneMover)'
  BY DEF HashAgrees, OneMover, IdsFresh, Op, Idle, Row, Id
<1>7. (NotYetMovedIn /\ MovedOut /\ DestinationFree)'
  BY DEF NotYetMovedIn, MovedOut, DestinationFree, IdsFresh, HashAgrees, OneMover, Op, Idle, Row, Loc, BodyOf, Dst, Src
<1>8. RestoredBodyGone'
  BY DEF RestoredBodyGone, NotYetMovedIn, MovedOut, IdsFresh, HashAgrees, Row, Loc
<1> QED BY <1>1, <1>2, <1>3, <1>4, <1>5, <1>6, <1>7, <1>8

LEMMA DeleteRowStep ==
  ASSUME StoreInv, NEW p \in Proc, DeleteRow(p)
  PROVE  StoreInv'
<1> USE QuarantineAssumption, Names DEF StoreInv, Types, OpShape, DeleteRow, At, Return
<1>0. op[p].id \in Id /\ rec[op[p].id] \in Row \cup {None}
  OBVIOUS
<1>1. at' \in [Loc -> Inode \cup {None}] /\ data' \in [Inode -> Content \cup {Torn}] /\ exec' \in SUBSET Inode
  BY <1>0 DEF Loc, BodyOf, Src, Dst
<1>2. rec' \in [Id -> Row \cup {None}] /\ nextId' \in 1 .. (MaxId + 1)
  BY <1>0 DEF Row, Id
<1>3. op' \in [Proc -> Op]
  BY <1>0 DEF Op, Kinds, Steps, Idle, Row
<1>4. OpShape'
  BY <1>0 DEF Op, Idle, Row, BodyOf, Src, Dst
<1>5. IdsFresh'
  BY <1>0 DEF IdsFresh, Op, Idle, Id, quarantineFileName, Name, Loc, BodyOf, Src, Dst
<1>6. (HashAgrees /\ OneMover)'
  BY <1>0 DEF HashAgrees, OneMover, IdsFresh, Op, Idle, Row, Id
<1>7. (NotYetMovedIn /\ MovedOut /\ DestinationFree)'
  BY <1>0 DEF NotYetMovedIn, MovedOut, DestinationFree, IdsFresh, HashAgrees, OneMover, Op, Idle, Row, Loc, BodyOf, Dst, Src
<1>8. RestoredBodyGone'
  BY <1>0 DEF RestoredBodyGone, NotYetMovedIn, MovedOut, IdsFresh, HashAgrees, Row, Loc
<1> QED BY <1>1, <1>2, <1>3, <1>4, <1>5, <1>6, <1>7, <1>8

LEMMA AbortStep ==
  ASSUME StoreInv, NEW p \in Proc, Abort(p)
  PROVE  StoreInv'
<1> USE QuarantineAssumption, Names DEF StoreInv, Types, OpShape, Abort, Return
<1>1. at' \in [Loc -> Inode \cup {None}] /\ data' \in [Inode -> Content \cup {Torn}] /\ exec' \in SUBSET Inode
  BY DEF Loc, BodyOf, Src, Dst
<1>2. rec' \in [Id -> Row \cup {None}] /\ nextId' \in 1 .. (MaxId + 1)
  BY DEF Row, Id
<1>3. op' \in [Proc -> Op]
  BY DEF Op, Kinds, Steps, Idle, Row
<1>4. OpShape'
  BY DEF Op, Idle, Row, BodyOf, Src, Dst
<1>5. IdsFresh'
  BY DEF IdsFresh, Op, Idle, Id, quarantineFileName, Name, Loc, BodyOf, Src, Dst
<1>6. (HashAgrees /\ OneMover)'
  BY DEF HashAgrees, OneMover, IdsFresh, Op, Idle, Row, Id
<1>7. (NotYetMovedIn /\ MovedOut /\ DestinationFree)'
  BY DEF NotYetMovedIn, MovedOut, DestinationFree, IdsFresh, HashAgrees, OneMover, Op, Idle, Row, Loc, BodyOf, Dst, Src
<1>8. RestoredBodyGone'
  BY DEF RestoredBodyGone, NotYetMovedIn, MovedOut, IdsFresh, HashAgrees, Row, Loc
<1> QED BY <1>1, <1>2, <1>3, <1>4, <1>5, <1>6, <1>7, <1>8

LEMMA UserWriteStep ==
  ASSUME StoreInv, NEW f \in Edited, NEW c \in Content, UserWrite(f, c)
  PROVE  StoreInv'
<1> USE QuarantineAssumption, Names DEF StoreInv, UserWrite
<1>1. Types'
  BY DEF Types, Free, Loc
<1>2. \A n \in Name : at'[n] = at[n]
  BY DEF Types, Loc
<1>3. OpShape' /\ HashAgrees' /\ OneMover' /\ NotYetMovedIn'
  BY DEF OpShape, HashAgrees, OneMover, NotYetMovedIn
<1>4. IdsFresh'
  BY <1>2 DEF IdsFresh, Name
<1>5. MovedOut' /\ DestinationFree'
  BY <1>2 DEF MovedOut, DestinationFree, OpShape, BodyOf, Dst
<1>6. RestoredBodyGone'
  BY <1>2 DEF RestoredBodyGone, Types, Row
<1> QED BY <1>1, <1>3, <1>4, <1>5, <1>6

LEMMA StoreInit == Init => StoreInv
<1> SUFFICES ASSUME Init PROVE StoreInv
  OBVIOUS
<1> USE QuarantineAssumption DEF Init, Idle
<1>1. Types
  BY DEF Types, Op, Kinds, Steps
<1>2. OpShape /\ HashAgrees /\ OneMover /\ NotYetMovedIn /\ MovedOut /\ DestinationFree
  BY DEF OpShape, HashAgrees, OneMover, NotYetMovedIn, MovedOut, DestinationFree
<1>3. IdsFresh /\ RestoredBodyGone
  BY DEF IdsFresh, RestoredBodyGone, Name
<1> QED BY <1>1, <1>2, <1>3 DEF StoreInv

LEMMA StoreNext == StoreInv /\ [Next]_vars => StoreInv'
<1> SUFFICES ASSUME StoreInv, [Next]_vars PROVE StoreInv'
  OBVIOUS
<1>1. ASSUME NEW p \in Proc, Command(p) PROVE StoreInv'
  BY <1>1, MatchStep, DeleteFileStep, InsertRowStep, RenameStep, OpenSrcStep, CreateDstStep,
     CopyDataStep, UnlinkSrcStep, ChmodStep, SelectRestoreStep, MarkRestoredStep, SelectPurgeStep,
     RemoveBodyStep, DeleteRowStep, AbortStep DEF Command
<1>2. ASSUME NEW f \in Edited, NEW c \in Content, UserWrite(f, c) PROVE StoreInv'
  BY <1>2, UserWriteStep
<1>3. ASSUME UNCHANGED vars PROVE StoreInv'
  BY <1>3 DEF vars, StoreInv, Types, OpShape, IdsFresh, HashAgrees, OneMover, NotYetMovedIn,
              MovedOut, DestinationFree, RestoredBodyGone, BodyOf, Dst, Src
<1> QED BY <1>1, <1>2, <1>3 DEF Next

(* The invariant of the store holds for any number of processes. *)
THEOREM StoreSafe == Spec => []StoreInv
  BY StoreInit, StoreNext, PTL DEF Spec

(* A digest enters by a match; commands and rows hand it on. *)
LEMMA BadStep ==
  ASSUME StoreInv, MatchedIsBad, NEW p \in Proc, Command(p)
  PROVE  MatchedIsBad'
<1>1. op \in [Proc -> Op] /\ rec \in [Id -> Row \cup {None}] /\ OpShape
  BY DEF StoreInv, Types
<1>2. Idle.hash = None
  BY DEF Idle
<1>3. CASE \E f \in Path : Match(p, f)
  BY <1>1, <1>3 DEF Match, Begin, MatchedIsBad, Idle
<1>4. CASE InsertRow(p)
  <2>1. op[p].hash \in Bad /\ op'[p].hash = op[p].hash
    BY <1>1, <1>4, QuarantineAssumption DEF InsertRow, At, OpShape, MatchedIsBad, Op
  <2>2. \A q \in Proc : q # p => op'[q] = op[q]
    BY <1>1, <1>4 DEF InsertRow
  <2>3. \A i \in Id : rec'[i] = rec[i] \/ rec'[i].hash = op[p].hash
    BY <1>1, <1>4 DEF InsertRow
  <2> QED BY <2>1, <2>2, <2>3 DEF MatchedIsBad
<1>5. CASE \E i \in Id : SelectRestore(p, i) \/ SelectPurge(p, i)
  <2>1. PICK i \in Id : SelectRestore(p, i) \/ SelectPurge(p, i)
    BY <1>5
  <2>2. rec[i].hash \in Bad
    BY <2>1 DEF SelectRestore, SelectPurge, MatchedIsBad
  <2>3. rec' = rec /\ op'[p].hash = rec[i].hash /\ \A q \in Proc : q # p => op'[q] = op[q]
    BY <1>1, <2>1 DEF SelectRestore, SelectPurge, Begin, Idle
  <2> QED BY <2>2, <2>3 DEF MatchedIsBad
<1>6. CASE MarkRestored(p) \/ DeleteRow(p)
  <2>1. \A i \in Id : rec'[i] # None => rec[i] # None /\ rec'[i].hash = rec[i].hash
    BY <1>1, <1>6 DEF MarkRestored, DeleteRow, Row
  <2>2. \A q \in Proc : op'[q].hash = op[q].hash \/ op'[q] = Idle
    BY <1>1, <1>6 DEF MarkRestored, DeleteRow, Return
  <2>3. \A q \in Proc : op'[q].hash # None => op'[q].hash \in Bad
    BY <1>2, <2>2 DEF MatchedIsBad
  <2>4. \A i \in Id : rec'[i] # None => rec'[i].hash \in Bad
    BY <2>1 DEF MatchedIsBad
  <2> QED BY <2>3, <2>4 DEF MatchedIsBad
<1>7. CASE Rename(p) \/ OpenSrc(p) \/ CreateDst(p) \/ CopyData(p) \/ UnlinkSrc(p) \/ RemoveBody(p)
  <2>1. /\ \A s \in Steps : [op[p] EXCEPT !.pc = s].hash = op[p].hash
        /\ \A s \in Steps : \A i : [op[p] EXCEPT !.pc = s, !.in = i].hash = op[p].hash
        /\ \A s \in Steps : \A i : [op[p] EXCEPT !.pc = s, !.out = i].hash = op[p].hash
    BY <1>1 DEF Op
  <2>2. rec' = rec /\ \/ \E s \in Steps : op' = [op EXCEPT ![p] = [op[p] EXCEPT !.pc = s]]
                      \/ \E s \in Steps : \E i : op' = [op EXCEPT ![p] = [op[p] EXCEPT !.pc = s, !.in = i]]
                      \/ \E s \in Steps : \E i : op' = [op EXCEPT ![p] = [op[p] EXCEPT !.pc = s, !.out = i]]
    BY <1>7, Zenon DEF Rename, OpenSrc, CreateDst, CopyData, UnlinkSrc, RemoveBody, Goto, Steps
  <2>3. \A q \in Proc : op'[q].hash = op[q].hash
    <3>1. SUFFICES ASSUME NEW r, op' = [op EXCEPT ![p] = r], r.hash = op[p].hash
                   PROVE  \A q \in Proc : op'[q].hash = op[q].hash
      BY <2>1, <2>2, Zenon
    <3> QED BY <1>1, <3>1
  <2> QED BY <2>2, <2>3 DEF MatchedIsBad
<1>8. CASE DeleteFile(p) \/ Chmod(p) \/ Abort(p)
  <2>1. rec' = rec /\ \A q \in Proc : op'[q] = op[q] \/ op'[q] = Idle
    BY <1>1, <1>8 DEF DeleteFile, Chmod, Abort, Return
  <2> QED BY <1>2, <2>1 DEF MatchedIsBad
<1> QED BY <1>3, <1>4, <1>5, <1>6, <1>7, <1>8 DEF Command

(* Every variable keeps its type, and every row and every command is about a *)
(* digest of the hash database.                                              *)
THEOREM TypeCorrect == Spec => []TypeOK
<1>1. Init => MatchedIsBad
  BY DEF Init, MatchedIsBad, Idle
<1>2. StoreInv /\ MatchedIsBad /\ [Next]_vars => MatchedIsBad'
  <2>1. ASSUME UNCHANGED <<rec, op>>, MatchedIsBad PROVE MatchedIsBad'
    BY <2>1 DEF MatchedIsBad
  <2> QED BY <2>1, BadStep DEF Next, UserWrite, vars
<1>3. StoreInv /\ MatchedIsBad => TypeOK
  BY DEF StoreInv, TypeOK
<1> QED BY <1>1, <1>2, <1>3, StoreSafe, PTL DEF Spec

(* A record marked restored has no body, however many commands work on it at *)
(* once and wherever they are killed.                                        *)
THEOREM RestoredHasNoBody == Spec => []RestoredBodyGone
<1>1. StoreInv => RestoredBodyGone
  BY DEF StoreInv
<1> QED BY <1>1, StoreSafe, PTL

(* A quarantine never overwrites the body of another. *)
THEOREM BodiesNeverCollide == Spec => []DestinationFree
<1>1. StoreInv => DestinationFree
  BY DEF StoreInv
<1> QED BY <1>1, StoreSafe, PTL

-----------------------------------------------------------------------------
(* One process: nothing but the command itself touches the row it works on. *)

LEMMA OutlivesStep ==
  ASSUME \A p, q \in Proc : p = q, StoreInv, StoreInv', RowOutlivesBody, [Next]_vars
  PROVE  RowOutlivesBody'
<1> USE QuarantineAssumption, Names, Ends DEF RowOutlivesBody, NoOrphanBody, StoreInv, Types, OpShape
<1>1. ASSUME NEW p \in Proc, NEW f \in Path, Match(p, f) PROVE RowOutlivesBody'
  BY <1>1 DEF Match, Begin, HashAgrees, IdsFresh, RestoredBodyGone, BodyOf, Idle, Op, Row, Name, Loc, Id, quarantineFileName
<1>2. ASSUME NEW p \in Proc, DeleteFile(p) PROVE RowOutlivesBody'
  BY <1>2 DEF DeleteFile, At, Return, HashAgrees, IdsFresh, RestoredBodyGone, BodyOf, Idle, Op, Row, Name, Loc, Id, quarantineFileName
<1>3. ASSUME NEW p \in Proc, InsertRow(p) PROVE RowOutlivesBody'
  <2>1. /\ nextId \in Id /\ \A h \in Content : at[<<nextId, h>>] = None
        /\ \A q \in Proc : q = p
    BY <1>3 DEF InsertRow, IdsFresh, Id
  <2>2. rec'[nextId] # None /\ at' = at /\ \A i \in Id : i # nextId => rec'[i] = rec[i]
    <3>1. [path |-> op[p].path, hash |-> op[p].hash, restored |-> FALSE] \in Row
      BY <1>3 DEF InsertRow, Row, At
    <3>2. rec' = [rec EXCEPT ![nextId] = [path |-> op[p].path, hash |-> op[p].hash, restored |-> FALSE]] /\ at' = at
      BY <1>3 DEF InsertRow
    <3>3. [path |-> op[p].path, hash |-> op[p].hash, restored |-> FALSE] # None
      BY <3>1
    <3> QED BY <2>1, <3>2, <3>3
  <2>3. op'[p].kind = "quarantine" /\ op'[p].id = nextId /\ op'[p].pc = "move"
    BY <1>3, <2>1 DEF InsertRow, Op
  <2> QED BY <2>1, <2>2, <2>3 DEF Name
<1>4. ASSUME NEW p \in Proc, Rename(p) PROVE RowOutlivesBody'
  <2>1. /\ \A n \in Name : n # BodyOf(op[p]) => at'[n] = at[n]
        /\ op[p].kind = "restore" => at'[BodyOf(op[p])] = None \/ at'[BodyOf(op[p])] = at[BodyOf(op[p])]
    BY <1>4 DEF Rename, At, Goto, Loc
  <2>2. op[p].kind = "quarantine" => rec[op[p].id] # None /\ rec[op[p].id].hash = op[p].hash
    BY <1>4 DEF Rename, At, Goto, HashAgrees
  <2>3. /\ rec' = rec
        /\ op'[p].kind = op[p].kind /\ op'[p].id = op[p].id /\ op'[p].pc # "delete"
        /\ \A q \in Proc : q = p
    BY <1>4 DEF Rename, At, Goto, Op
  <2>4. BodyOf(op[p])[1] = op[p].id /\ BodyOf(op[p])[2] = op[p].hash
    BY DEF BodyOf, quarantineFileName
  <2>5. op[p].kind = "restore" => at'[BodyOf(op[p])] = None
    BY <1>4 DEF Rename, At
  <2>6. op[p].kind \in {"quarantine", "restore"}
    BY <1>4 DEF Rename, At
  <2> HIDE DEF StoreInv, Types, OpShape
  <2> QED BY <2>1, <2>2, <2>3, <2>4, <2>5, <2>6
<1>5. ASSUME NEW p \in Proc, OpenSrc(p) PROVE RowOutlivesBody'
  BY <1>5 DEF OpenSrc, At, HashAgrees, IdsFresh, RestoredBodyGone, BodyOf, Idle, Op, Row, Name, Loc, Id, quarantineFileName
<1>6. ASSUME NEW p \in Proc, CreateDst(p) PROVE RowOutlivesBody'
  <2>1. /\ \A n \in Name : n # BodyOf(op[p]) => at'[n] = at[n]
        /\ op[p].kind = "restore" => at'[BodyOf(op[p])] = None \/ at'[BodyOf(op[p])] = at[BodyOf(op[p])]
    BY <1>6 DEF CreateDst, At, Loc
  <2>2. op[p].kind = "quarantine" => rec[op[p].id] # None /\ rec[op[p].id].hash = op[p].hash
    BY <1>6 DEF CreateDst, At, HashAgrees
  <2>3. /\ rec' = rec
        /\ op'[p].kind = op[p].kind /\ op'[p].id = op[p].id /\ op'[p].pc # "delete"
        /\ \A q \in Proc : q = p
    BY <1>6 DEF CreateDst, At, Op
  <2>4. BodyOf(op[p])[1] = op[p].id /\ BodyOf(op[p])[2] = op[p].hash
    BY DEF BodyOf, quarantineFileName
  <2> QED BY <1>6, <2>1, <2>2, <2>3, <2>4 DEF At, CreateDst
<1>7. ASSUME NEW p \in Proc, CopyData(p) PROVE RowOutlivesBody'
  BY <1>7 DEF CopyData, At, Goto, HashAgrees, IdsFresh, RestoredBodyGone, BodyOf, Idle, Op, Row, Name, Loc, Id, quarantineFileName
<1>8. ASSUME NEW p \in Proc, UnlinkSrc(p) PROVE RowOutlivesBody'
  BY <1>8 DEF UnlinkSrc, At, Goto, HashAgrees, IdsFresh, RestoredBodyGone, BodyOf, Idle, Op, Row, Name, Loc, Id, quarantineFileName
<1>9. ASSUME NEW p \in Proc, Chmod(p) PROVE RowOutlivesBody'
  BY <1>9 DEF Chmod, At, Return, HashAgrees, IdsFresh, RestoredBodyGone, BodyOf, Idle, Op, Row, Name, Loc, Id, quarantineFileName
<1>10. ASSUME NEW p \in Proc, NEW i \in Id, SelectRestore(p, i) PROVE RowOutlivesBody'
  BY <1>10 DEF SelectRestore, Begin, HashAgrees, IdsFresh, RestoredBodyGone, BodyOf, Idle, Op, Row, Name, Loc, Id, quarantineFileName
<1>11. ASSUME NEW p \in Proc, MarkRestored(p) PROVE RowOutlivesBody'
  <2>1. \A i \in Id : rec[i] # None => rec'[i] # None /\ rec'[i].hash = rec[i].hash
    <3>1. ASSUME NEW r \in Row PROVE [r EXCEPT !.restored = TRUE] \in Row /\ [r EXCEPT !.restored = TRUE].hash = r.hash
      BY DEF Row
    <3>2. op[p].id \in Id
      BY <1>11 DEF MarkRestored, At
    <3>3. rec' = IF rec[op[p].id] = None THEN rec ELSE [rec EXCEPT ![op[p].id] = [rec[op[p].id] EXCEPT !.restored = TRUE]]
      BY <1>11, <3>2 DEF MarkRestored
    <3> QED BY <3>1, <3>2, <3>3
  <2>2. at' = at /\ op'[p] = Idle /\ \A q \in Proc : q = p
    BY <1>11 DEF MarkRestored, Return
  <2> QED BY <2>1, <2>2 DEF Name, Idle
<1>12. ASSUME NEW p \in Proc, NEW i \in Id, SelectPurge(p, i) PROVE RowOutlivesBody'
  BY <1>12 DEF SelectPurge, Begin, HashAgrees, IdsFresh, RestoredBodyGone, BodyOf, Idle, Op, Row, Name, Loc, Id, quarantineFileName
<1>13. ASSUME NEW p \in Proc, RemoveBody(p) PROVE RowOutlivesBody'
  BY <1>13 DEF RemoveBody, At, Goto, HashAgrees, IdsFresh, RestoredBodyGone, BodyOf, Idle, Op, Row, Name, Loc, Id, quarantineFileName
<1>14. ASSUME NEW p \in Proc, DeleteRow(p) PROVE RowOutlivesBody'
  BY <1>14 DEF DeleteRow, At, Return, HashAgrees, IdsFresh, RestoredBodyGone, BodyOf, Idle, Op, Row, Name, Loc, Id, quarantineFileName
<1>15. ASSUME NEW p \in Proc, Abort(p) PROVE RowOutlivesBody'
  BY <1>15 DEF Abort, Return, HashAgrees, IdsFresh, RestoredBodyGone, BodyOf, Idle, Op, Row, Name, Loc, Id, quarantineFileName
<1>16. ASSUME NEW f \in Edited, NEW c \in Content, UserWrite(f, c) PROVE RowOutlivesBody'
  BY <1>16 DEF UserWrite, Loc, BodyOf
<1>17. ASSUME UNCHANGED vars PROVE RowOutlivesBody'
  BY <1>17 DEF vars, BodyOf
<1> QED BY <1>1, <1>2, <1>3, <1>4, <1>5, <1>6, <1>7, <1>8, <1>9, <1>10, <1>11, <1>12, <1>13, <1>14, <1>15, <1>16, <1>17 DEF Next, Command

(* When avtool commands run one at a time, no failure or kill leaves a body  *)
(* that no row leads to.                                                     *)
THEOREM AloneNoOrphan ==
  ASSUME \A p, q \in Proc : p = q
  PROVE  Spec => []NoOrphanBody
<1>1. Init => RowOutlivesBody
  BY DEF Init, RowOutlivesBody, NoOrphanBody, Idle
<1>2. StoreInv /\ StoreInv' /\ RowOutlivesBody /\ [Next]_vars => RowOutlivesBody'
  BY OutlivesStep
<1>3. RowOutlivesBody => NoOrphanBody
  BY DEF RowOutlivesBody
<1> QED BY <1>1, <1>2, <1>3, StoreSafe, PTL DEF Spec

-----------------------------------------------------------------------------
(* The store implements Lifecycle.                                           *)

(* The bodies of one id are one, under the digest that its row and the       *)
(* commands on it have.                                                      *)
BodiesAgree ==
  \A i \in Id, h \in Content : at[quarantineFileName(i, h)] # None =>
    /\ rec[i] # None => rec[i].hash = h
    /\ \A p \in Proc : op[p].id = i => op[p].hash = h
    /\ \A g \in Content : at[quarantineFileName(i, g)] # None => g = h

(* What a step may do to the bodies, the rows and the commands for them to   *)
(* agree afterwards: a body that is there was there or is put there by a     *)
(* command of its id, a command has its digest from before or from a row.    *)
LEMMA AgreeFrame ==
  ASSUME StoreInv, BodiesAgree,
         \A i \in Id, h \in Content : at'[quarantineFileName(i, h)] # None =>
            \/ at[quarantineFileName(i, h)] # None
            \/ \E p \in Proc : op[p].id = i /\ op[p].hash = h,
         \A i \in Id : rec'[i] # None => rec[i] # None /\ rec'[i].hash = rec[i].hash,
         \A p \in Proc : op'[p].id # None =>
            \/ op'[p].id = op[p].id /\ op'[p].hash = op[p].hash
            \/ rec[op'[p].id] # None /\ op'[p].hash = rec[op'[p].id].hash
  PROVE  BodiesAgree'
<1>1. \A i \in Id : i # None BY QuarantineAssumption
<1>2. ASSUME NEW i \in Id, NEW h \in Content, at'[quarantineFileName(i, h)] # None
      PROVE  /\ rec[i] # None => rec[i].hash = h
             /\ \A q \in Proc : op[q].id = i => op[q].hash = h
             /\ \A g \in Content : at[quarantineFileName(i, g)] # None => g = h
  <2>1. CASE at[quarantineFileName(i, h)] # None BY <2>1 DEF BodiesAgree
  <2>2. CASE \E p \in Proc : op[p].id = i /\ op[p].hash = h
    <3>1. PICK p \in Proc : op[p].id = i /\ op[p].hash = h BY <2>2
    <3>2. rec[i] # None => rec[i].hash = h BY <3>1, <1>1 DEF StoreInv, HashAgrees
    <3>3. \A q \in Proc : op[q].id = i => op[q].hash = h BY <3>1, <1>1 DEF StoreInv, HashAgrees
    <3>4. \A g \in Content : at[quarantineFileName(i, g)] # None => g = h BY <3>1 DEF BodiesAgree
    <3> QED BY <3>2, <3>3, <3>4
  <2> QED BY <1>2, <2>1, <2>2
<1>3. ASSUME NEW i \in Id, NEW h \in Content, at'[quarantineFileName(i, h)] # None
      PROVE  /\ rec'[i] # None => rec'[i].hash = h
             /\ \A p \in Proc : op'[p].id = i => op'[p].hash = h
             /\ \A g \in Content : at'[quarantineFileName(i, g)] # None => g = h
  <2>1. rec'[i] # None => rec'[i].hash = h BY <1>2, <1>3
  <2>2. \A p \in Proc : op'[p].id = i => op'[p].hash = h BY <1>1, <1>2, <1>3
  <2>3. ASSUME NEW g \in Content, at'[quarantineFileName(i, g)] # None PROVE g = h
    BY <1>2, <1>3, <2>3
  <2> QED BY <2>1, <2>2, <2>3
<1> QED BY <1>3 DEF BodiesAgree

(* A step disturbs no phase but that of the record i it works on.            *)
LEMMA PhaseFrame ==
  ASSUME NEW i,
         \A j \in Id, h \in Content : j # i =>
            at'[quarantineFileName(j, h)] = at[quarantineFileName(j, h)],
         \A j \in Id : j # i => rec'[j] = rec[j] /\ (j >= nextId' <=> j >= nextId),
         \A p \in Proc : op'[p] = op[p] \/ (op[p].id \notin Id \ {i} /\ op'[p].id \notin Id \ {i})
  PROVE  \A j \in Id : j # i => Phase(j)' = Phase(j)
<1> SUFFICES ASSUME NEW j \in Id, j # i PROVE Phase(j)' = Phase(j)
  OBVIOUS
<1>1. HasBody(j)' = HasBody(j) BY DEF HasBody
<1>2. HasMover(j)' = HasMover(j) BY DEF HasMover
<1>3. WithRow(j)' = WithRow(j) /\ WithoutRow(j)' = WithoutRow(j)
  BY <1>1, <1>2, Zenon DEF WithRow, WithoutRow
<1>4. rec'[j] = rec[j] /\ (j >= nextId' <=> j >= nextId) OBVIOUS
<1>5. CASE j >= nextId BY <1>4, <1>5, Zenon DEF Phase
<1>6. CASE ~(j >= nextId) BY <1>3, <1>4, <1>6, Zenon DEF Phase
<1> QED BY <1>5, <1>6

(* The edges of Lifecycle, as pairs of phases.                               *)
Edges == {<<"unused", "coming">>, <<"coming", "held">>, <<"doomed", "orphan">>,
          <<"coming", "left">>, <<"doomed", "purged">>, <<"held", "left">>,
          <<"orphan", "purged">>, <<"left", "restored">>, <<"coming", "doomed">>,
          <<"held", "orphan">>, <<"left", "purged">>, <<"restored", "purged">>}

(* The step takes one record along an edge at most.                          *)
Lives == \E i \in Id \cup {None} :
           /\ \A j \in Id : j # i => Phase(j)' = Phase(j)
           /\ i \in Id => Phase(i)' = Phase(i) \/ <<Phase(i), Phase(i)'>> \in Edges

(* It is enough to look at the one record.                                   *)
LEMMA EdgeLives ==
  ASSUME NEW i \in Id, \A j \in Id : j # i => Phase(j)' = Phase(j),
         Phase(i)' = Phase(i) \/ <<Phase(i), Phase(i)'>> \in Edges
  PROVE  Lives
  BY Zenon DEF Lives

(* Such a step is a step of Lifecycle, or a stutter.                         *)
LEMMA EdgeIsStep ==
  ASSUME Lives
  PROVE  L!Next \/ UNCHANGED [i \in Id |-> Phase(i)]
<1>1. PICK i \in Id \cup {None} :
        /\ \A j \in Id : j # i => Phase(j)' = Phase(j)
        /\ i \in Id => Phase(i)' = Phase(i) \/ <<Phase(i), Phase(i)'>> \in Edges
  BY DEF Lives
<1>2. CASE \A j \in Id : Phase(j)' = Phase(j) BY <1>2
<1>3. CASE i \in Id /\ <<Phase(i), Phase(i)'>> \in Edges
  <2>1. \A from, to : Phase(i) = from /\ Phase(i)' = to => L!Goes(i, from, to)
    <3>1. [j \in Id |-> Phase(j)]' = [[j \in Id |-> Phase(j)] EXCEPT ![i] = Phase(i)']
      BY <1>1, <1>3
    <3>2. [j \in Id |-> Phase(j)][i] = Phase(i) BY <1>3
    <3> QED BY <3>1, <3>2 DEF L!Goes
  <2>2. \/ Phase(i) = "unused" /\ Phase(i)' = "coming"
        \/ Phase(i) = "coming" /\ Phase(i)' = "held"
        \/ Phase(i) = "doomed" /\ Phase(i)' = "orphan"
        \/ Phase(i) = "coming" /\ Phase(i)' = "left"
        \/ Phase(i) = "doomed" /\ Phase(i)' = "purged"
        \/ Phase(i) = "held" /\ Phase(i)' = "left"
        \/ Phase(i) = "orphan" /\ Phase(i)' = "purged"
        \/ Phase(i) = "left" /\ Phase(i)' = "restored"
        \/ Phase(i) = "coming" /\ Phase(i)' = "doomed"
        \/ Phase(i) = "held" /\ Phase(i)' = "orphan"
        \/ Phase(i) = "left" /\ Phase(i)' = "purged"
        \/ Phase(i) = "restored" /\ Phase(i)' = "purged"
    BY <1>3 DEF Edges
  <2>3. L!Insert(i) \/ L!MoveIn(i) \/ L!GiveUp(i) \/ L!MoveOut(i) \/ L!Restored(i) \/ L!Delete(i)
    BY <2>1, <2>2, Zenon DEF L!Insert, L!MoveIn, L!GiveUp, L!MoveOut, L!Restored, L!Delete
  <2> QED BY <1>3, <2>3 DEF L!Next
<1> QED BY <1>1, <1>2, <1>3

(* A step that leaves bodies, rows and the quarantines that are about to     *)
(* move leaves every phase.                                                  *)
LEMMA QuietLives ==
  ASSUME \A j \in Id, h \in Content :
            at'[quarantineFileName(j, h)] = at[quarantineFileName(j, h)],
         \A j \in Id : rec'[j] = rec[j],
         nextId' = nextId,
         \A p \in Proc, j \in Id :
            op'[p].kind = "quarantine" /\ op'[p].id = j /\ op'[p].pc \in {"move", "create"}
            <=> op[p].kind = "quarantine" /\ op[p].id = j /\ op[p].pc \in {"move", "create"}
  PROVE  Lives
<1>1. ASSUME NEW j \in Id PROVE Phase(j)' = Phase(j)
  <2>1. HasBody(j)' = HasBody(j) BY DEF HasBody
  <2>2. HasMover(j)' = HasMover(j) BY DEF HasMover
  <2>3. WithRow(j)' = WithRow(j) /\ WithoutRow(j)' = WithoutRow(j)
    BY <2>1, <2>2, Zenon DEF WithRow, WithoutRow
  <2> QED BY <2>3, Zenon DEF Phase
<1> QED BY <1>1 DEF Lives

(* What the store knows of the record a command works on: its id is given    *)
(* out, its body is the only one, and a quarantine that is about to move has *)
(* neither a body nor a rival.                                               *)
LEMMA Worked ==
  ASSUME StoreInv, BodiesAgree, NEW p \in Proc, op[p].id \in Id, op[p].hash \in Content
  PROVE  /\ ~(op[p].id >= nextId)
         /\ HasBody(op[p].id) <=> at[quarantineFileName(op[p].id, op[p].hash)] # None
         /\ HasMover(op[p].id) => ~HasBody(op[p].id)
         /\ HasMover(op[p].id) /\ rec[op[p].id] # None => ~rec[op[p].id].restored
         /\ rec[op[p].id] # None /\ rec[op[p].id].restored => ~HasBody(op[p].id)
<1>1. ~(op[p].id >= nextId) BY DEF StoreInv, IdsFresh
<1>2. HasBody(op[p].id) <=> at[quarantineFileName(op[p].id, op[p].hash)] # None
  BY DEF HasBody, BodiesAgree
<1>0. op[p].id # None BY QuarantineAssumption
<1>3. HasMover(op[p].id) => at[quarantineFileName(op[p].id, op[p].hash)] = None
  BY <1>0, QuarantineAssumption DEF HasMover, StoreInv, DestinationFree, HashAgrees, Dst, BodyOf
<1>4. HasMover(op[p].id) /\ rec[op[p].id] # None => ~rec[op[p].id].restored
  BY DEF HasMover, StoreInv, NotYetMovedIn
<1>5. rec[op[p].id] # None /\ rec[op[p].id].restored => at[quarantineFileName(op[p].id, op[p].hash)] = None
  BY <1>0 DEF StoreInv, RestoredBodyGone, HashAgrees
<1> QED BY <1>1, <1>2, <1>3, <1>4, <1>5

(* A new row: its id had no body and no command, and now has its mover.      *)
LEMMA InsertLives ==
  ASSUME StoreInv, BodiesAgree, NEW p \in Proc, InsertRow(p)
  PROVE  BodiesAgree' /\ Lives
<1>0. PICK i \in Id : i = nextId BY DEF InsertRow, StoreInv, Types, Id
<1>1. /\ op[p].pc = "prompt" /\ op[p] \in Op /\ op[p].path \in Path /\ op[p].hash \in Content
      /\ op[p].id = None /\ at' = at /\ nextId' = i + 1 /\ i \in Nat
      /\ op \in [Proc -> Op] /\ rec \in [Id -> Row \cup {None}]
  BY <1>0 DEF InsertRow, At, StoreInv, OpShape, Types, Id
<1>2. PICK o : o = [op[p] EXCEPT !.kind = "quarantine", !.pc = "move", !.id = i] OBVIOUS
<1>3. o.kind = "quarantine" /\ o.pc = "move" /\ o.id = i /\ o.hash = op[p].hash
  BY <1>1, <1>2 DEF Op
<1>4. op' = [op EXCEPT ![p] = o] BY <1>0, <1>2 DEF InsertRow
<1>5. PICK r : r = [path |-> op[p].path, hash |-> op[p].hash, restored |-> FALSE] OBVIOUS
<1>13. r \in Row /\ r.hash = op[p].hash /\ ~r.restored BY <1>1, <1>5 DEF Row
<1>6. rec' = [rec EXCEPT ![i] = r] /\ r # None /\ r.hash = op[p].hash
  BY <1>0, <1>5, <1>13, QuarantineAssumption DEF InsertRow
<1>7. /\ \A h \in Content : at[quarantineFileName(i, h)] = None
      /\ \A q \in Proc : op[q].id # i
      /\ rec[i] = None
  <2>1. IdsFresh BY DEF StoreInv
  <2>2. i >= nextId BY <1>0, <1>1
  <2> QED BY <2>1, <2>2 DEF IdsFresh, quarantineFileName
<1>8. BodiesAgree'
  <2>1. ASSUME NEW j \in Id, NEW h \in Content, at[quarantineFileName(j, h)] # None
        PROVE  /\ rec'[j] # None => rec'[j].hash = h
               /\ \A q \in Proc : op'[q].id = j => op'[q].hash = h
               /\ \A g \in Content : at[quarantineFileName(j, g)] # None => g = h
    <3>1. j # i BY <1>7, <2>1
    <3>2. rec'[j] = rec[j] BY <3>1, <1>1, <1>6
    <3>3. \A q \in Proc : op'[q].id = j => op'[q] = op[q] BY <3>1, <1>1, <1>3, <1>4
    <3> QED BY <2>1, <3>2, <3>3 DEF BodiesAgree
  <2>2. \A j \in Id, h \in Content : at'[quarantineFileName(j, h)] = at[quarantineFileName(j, h)]
    BY <1>1
  <2>3. ASSUME NEW j \in Id, NEW h \in Content, at'[quarantineFileName(j, h)] # None
        PROVE  /\ rec'[j] # None => rec'[j].hash = h
               /\ \A q \in Proc : op'[q].id = j => op'[q].hash = h
               /\ \A g \in Content : at'[quarantineFileName(j, g)] # None => g = h
    <3>1. at[quarantineFileName(j, h)] # None BY <2>2, <2>3
    <3> QED BY <2>1, <2>2, <3>1
  <2> QED BY <2>3 DEF BodiesAgree
<1>9. \A j \in Id : j # i => Phase(j)' = Phase(j)
  <2>1. \A q \in Proc : op'[q] = op[q] \/ (op[q].id \notin Id \ {i} /\ op'[q].id \notin Id \ {i})
    <3>1. op'[p].id = i BY <1>1, <1>3, <1>4
    <3>2. \A q \in Proc : q # p => op'[q] = op[q] BY <1>1, <1>4
    <3>3. op[p].id \notin Id BY <1>1, QuarantineAssumption
    <3> QED BY <3>1, <3>2, <3>3
  <2>2. \A j \in Id : j # i => rec'[j] = rec[j] /\ (j >= nextId' <=> j >= nextId)
    BY <1>0, <1>1, <1>6 DEF Id
  <2>3. \A j \in Id, h \in Content : j # i =>
           at'[quarantineFileName(j, h)] = at[quarantineFileName(j, h)]
    BY <1>1
  <2> QED BY <2>1, <2>2, <2>3, PhaseFrame, Zenon
<1>10. Phase(i) = "unused"
  <2>1. i >= nextId BY <1>0, <1>1
  <2> QED BY <2>1, Zenon DEF Phase
<1>11. Phase(i)' = "coming"
  <2>1. ~(i >= nextId') BY <1>1
  <2>2. ~HasBody(i)' BY <1>1, <1>7 DEF HasBody
  <2>3. HasMover(i)'
    <3>1. op'[p].kind = "quarantine" /\ op'[p].id = i /\ op'[p].pc = "move" BY <1>1, <1>3, <1>4
    <3> QED BY <3>1 DEF HasMover
  <2>4. rec'[i] # None /\ ~rec'[i].restored BY <1>1, <1>13, <1>6
  <2>5. WithRow(i)' = "coming" BY <2>2, <2>3, Zenon DEF WithRow
  <2> QED BY <2>1, <2>4, <2>5, Zenon DEF Phase
<1>12. <<Phase(i), Phase(i)'>> \in Edges BY <1>10, <1>11 DEF Edges
<1> QED BY <1>8, <1>9, <1>12 DEF Lives

(* A step that touches no body, row or id and no quarantine about to move.   *)
LEMMA QuietStep ==
  ASSUME StoreInv, BodiesAgree, NEW p \in Proc,
         \/ \E f \in Path : Match(p, f)
         \/ DeleteFile(p) \/ OpenSrc(p) \/ CopyData(p) \/ Chmod(p)
         \/ \E i \in Id : SelectRestore(p, i) \/ SelectPurge(p, i)
  PROVE  BodiesAgree' /\ Lives
<1>1. /\ op \in [Proc -> Op] /\ at \in [Loc -> Inode \cup {None}] /\ op[p] \in Op
      /\ \A j \in Id : j # None
      /\ Idle.id = None /\ Idle.kind = "none"
  BY QuarantineAssumption DEF StoreInv, Types, Idle
<1>2. rec' = rec /\ nextId' = nextId
  BY DEF Match, DeleteFile, OpenSrc, CopyData, Chmod, SelectRestore, SelectPurge
<1>3. \A j \in Id, h \in Content : at'[quarantineFileName(j, h)] = at[quarantineFileName(j, h)]
  <2>1. CASE DeleteFile(p)
    <3>1. op[p].path \in Path BY <2>1 DEF DeleteFile, At, StoreInv, OpShape
    <3>2. at' = [at EXCEPT ![op[p].path] = None] BY <2>1 DEF DeleteFile
    <3> QED BY <3>1, <3>2, <1>1, Names
  <2>2. CASE ~DeleteFile(p)
    BY <2>2 DEF Match, OpenSrc, CopyData, Chmod, SelectRestore, SelectPurge
  <2> QED BY <2>1, <2>2
<1>4. /\ \A q \in Proc : q # p => op'[q] = op[q]
      /\ op'[p].id # None =>
            \/ op'[p].id = op[p].id /\ op'[p].hash = op[p].hash
            \/ rec[op'[p].id] # None /\ op'[p].hash = rec[op'[p].id].hash
      /\ \A j \in Id :
            op'[p].kind = "quarantine" /\ op'[p].id = j /\ op'[p].pc \in {"move", "create"}
            <=> op[p].kind = "quarantine" /\ op[p].id = j /\ op[p].pc \in {"move", "create"}
  <2>1. CASE \E f \in Path : Match(p, f)
    <3>1. PICK f \in Path : op' = [op EXCEPT ![p] = [Idle EXCEPT !.pc = "prompt", !.path = f, !.hash = data[at[f]]]]
      BY <2>1 DEF Match, Begin
    <3>2. op[p].pc = "idle" BY <2>1 DEF Match, Begin
    <3>3. op'[p].id = None /\ op'[p].kind = "none" BY <3>1, <1>1 DEF Idle
    <3> QED BY <3>1, <3>2, <3>3, <1>1
  <2>2. CASE DeleteFile(p)
    <3>1. op' = [op EXCEPT ![p] = Idle] /\ op[p].pc = "prompt" BY <2>2 DEF DeleteFile, Return, At
    <3> QED BY <3>1, <1>1
  <2>3. CASE OpenSrc(p)
    <3>1. PICK o \in Op : o = [op[p] EXCEPT !.pc = "create", !.in = at[Src(op[p])]]
      <4>1. at[Src(op[p])] \in Inode
        BY <2>3, <1>1, Ends DEF OpenSrc, At
      <4> QED BY <4>1, <1>1, Opened, Zenon
    <3>2. o.id = op[p].id /\ o.hash = op[p].hash /\ o.kind = op[p].kind /\ o.pc = "create"
      BY <3>1, <1>1 DEF Op
    <3>3. op' = [op EXCEPT ![p] = o] /\ op[p].pc = "move" BY <2>3, <3>1 DEF OpenSrc, At
    <3> QED BY <3>2, <3>3, <1>1
  <2>4. CASE CopyData(p)
    <3>1. op' = [op EXCEPT ![p].pc = "unlink"] /\ op[p].pc = "copy" BY <2>4 DEF CopyData, Goto, At
    <3> QED BY <3>1, <1>1 DEF Op
  <2>5. CASE Chmod(p)
    <3>1. op' = [op EXCEPT ![p] = Idle] /\ op[p].pc = "finish" BY <2>5 DEF Chmod, Return, At
    <3> QED BY <3>1, <1>1
  <2>6. ASSUME NEW i \in Id, SelectRestore(p, i)
        PROVE  /\ \A q \in Proc : q # p => op'[q] = op[q]
               /\ op[p].pc = "idle" /\ op'[p].kind = "restore" /\ op'[p].id = i
               /\ rec[i] # None /\ op'[p].hash = rec[i].hash
    <3>1. PICK o : o = [Idle EXCEPT !.kind = "restore", !.pc = "move", !.id = i,
                           !.path = rec[i].path, !.hash = rec[i].hash]
      OBVIOUS
    <3>2. o.kind = "restore" /\ o.id = i /\ o.hash = rec[i].hash BY <3>1 DEF Idle
    <3>3. op' = [op EXCEPT ![p] = o] /\ op[p].pc = "idle" /\ rec[i] # None
      BY <2>6, <3>1 DEF SelectRestore, Begin
    <3> QED BY <3>2, <3>3, <1>1
  <2>7. ASSUME NEW i \in Id, SelectPurge(p, i)
        PROVE  /\ \A q \in Proc : q # p => op'[q] = op[q]
               /\ op[p].pc = "idle" /\ op'[p].kind = "purge" /\ op'[p].id = i
               /\ rec[i] # None /\ op'[p].hash = rec[i].hash
    <3>1. PICK o : o = [Idle EXCEPT !.kind = "purge", !.id = i, !.hash = rec[i].hash,
                           !.pc = IF rec[i].restored THEN "delete" ELSE "remove"]
      OBVIOUS
    <3>2. o.kind = "purge" /\ o.id = i /\ o.hash = rec[i].hash BY <3>1 DEF Idle
    <3>3. op' = [op EXCEPT ![p] = o] /\ op[p].pc = "idle" /\ rec[i] # None
      BY <2>7, <3>1 DEF SelectPurge, Begin
    <3> QED BY <3>2, <3>3, <1>1
  <2>8. CASE \E i \in Id : SelectRestore(p, i) BY <2>6, <2>8
  <2>9. CASE \E i \in Id : SelectPurge(p, i) BY <2>7, <2>9
  <2> QED BY <2>1, <2>2, <2>3, <2>4, <2>5, <2>8, <2>9
<1>5. Lives BY <1>2, <1>3, <1>4, QuietLives
<1>6. BodiesAgree'
  <2>1. \A i \in Id, h \in Content : at'[quarantineFileName(i, h)] # None => at[quarantineFileName(i, h)] # None
    BY <1>3
  <2>2. \A q \in Proc : op'[q].id # None =>
            \/ op'[q].id = op[q].id /\ op'[q].hash = op[q].hash
            \/ rec[op'[q].id] # None /\ op'[q].hash = rec[op'[q].id].hash
    BY <1>4
  <2> QED BY <1>2, <2>1, <2>2, AgreeFrame
<1> QED BY <1>5, <1>6

(* A quarantine that has not moved its file in yet.                          *)
Moving(p) == op[p].kind = "quarantine" /\ op[p].pc \in {"move", "create"}

(* A step of a command on the record it works on: the file comes in or the   *)
(* quarantine gives up, the file goes out, the row goes, the row is marked.  *)
LEMMA RecordStep ==
  ASSUME StoreInv, BodiesAgree, NEW p \in Proc, op[p].id \in Id, op[p].hash \in Content,
         nextId' = nextId,
         \A j \in Id, g \in Content : quarantineFileName(j, g) # BodyOf(op[p]) =>
            at'[quarantineFileName(j, g)] = at[quarantineFileName(j, g)],
         \A j \in Id : j # op[p].id => rec'[j] = rec[j],
         \A q \in Proc : q # p => op'[q] = op[q],
         \/ op'[p].id = op[p].id /\ op'[p].hash = op[p].hash
         \/ op'[p].id = None,
         op'[p].kind = "quarantine" => op'[p].pc \notin {"move", "create"},
         \/ Moving(p) /\ rec'[op[p].id] = rec[op[p].id]
         \/ /\ ~Moving(p) /\ rec'[op[p].id] = rec[op[p].id]
            /\ at'[BodyOf(op[p])] \in {None, at[BodyOf(op[p])]}
         \/ /\ ~Moving(p) /\ rec'[op[p].id] = None
            /\ at'[BodyOf(op[p])] = at[BodyOf(op[p])]
         \/ /\ ~Moving(p) /\ ~HasMover(op[p].id)
            /\ at'[BodyOf(op[p])] = None /\ at[BodyOf(op[p])] = None
            /\ rec[op[p].id] # None /\ rec'[op[p].id] # None
            /\ rec'[op[p].id].restored /\ rec'[op[p].id].hash = rec[op[p].id].hash
  PROVE  BodiesAgree' /\ Lives
<1>0. PICK i \in Id : i = op[p].id OBVIOUS
<1>1. PICK h \in Content : h = op[p].hash OBVIOUS
<1>2. BodyOf(op[p]) = quarantineFileName(i, h) BY <1>0, <1>1 DEF BodyOf
<1>3. i # None BY QuarantineAssumption
<1>4. /\ ~(i >= nextId) /\ ~(i >= nextId')
      /\ HasMover(i) => ~HasBody(i)
      /\ HasMover(i) /\ rec[i] # None => ~rec[i].restored
      /\ rec[i] # None /\ rec[i].restored => ~HasBody(i)
  BY <1>0, Worked
<1>5. \A g \in Content : g # h => /\ at[quarantineFileName(i, g)] = None
                                 /\ at'[quarantineFileName(i, g)] = None
  BY <1>0, <1>1, <1>2, Names DEF BodiesAgree
<1>6. /\ HasBody(i) <=> at[quarantineFileName(i, h)] # None
      /\ HasBody(i)' <=> at'[quarantineFileName(i, h)] # None
  BY <1>5 DEF HasBody
<1>7. \A j \in Id : j # i => Phase(j)' = Phase(j)
  <2>1. \A j \in Id, g \in Content : j # i =>
           at'[quarantineFileName(j, g)] = at[quarantineFileName(j, g)]
    BY <1>2, Names
  <2>2. \A j \in Id : j # i => rec'[j] = rec[j] /\ (j >= nextId' <=> j >= nextId)
    BY <1>0
  <2>3. \A q \in Proc : op'[q] = op[q] \/ (op[q].id \notin Id \ {i} /\ op'[q].id \notin Id \ {i})
    BY <1>0, QuarantineAssumption
  <2> QED BY <2>1, <2>2, <2>3, PhaseFrame, Zenon
<1>8. Moving(p) => HasMover(i) /\ ~HasMover(i)'
  BY <1>0 DEF Moving, HasMover, StoreInv, OneMover
<1>9. ~Moving(p) => (HasMover(i)' <=> HasMover(i))
  BY <1>0 DEF Moving, HasMover
<1>10. BodiesAgree'
  <2>1. \A j \in Id, g \in Content : at'[quarantineFileName(j, g)] # None =>
            \/ at[quarantineFileName(j, g)] # None
            \/ \E q \in Proc : op[q].id = j /\ op[q].hash = g
    BY <1>0, <1>1, <1>2, Names
  <2>2. \A j \in Id : rec'[j] # None => rec[j] # None /\ rec'[j].hash = rec[j].hash
    BY <1>0
  <2>3. \A q \in Proc : op'[q].id # None =>
            \/ op'[q].id = op[q].id /\ op'[q].hash = op[q].hash
            \/ rec[op'[q].id] # None /\ op'[q].hash = rec[op'[q].id].hash
    OBVIOUS
  <2> QED BY <2>1, <2>2, <2>3, AgreeFrame
<1>11. ASSUME Moving(p) /\ rec'[i] = rec[i] PROVE Lives
  <2>1. CASE rec[i] = None
    <3>1. Phase(i) = "doomed"
      BY <1>4, <1>8, <1>11, <2>1, Zenon DEF Phase, WithoutRow
    <3>2. Phase(i)' = "orphan" \/ Phase(i)' = "purged"
      BY <1>4, <1>8, <1>11, <2>1, Zenon DEF Phase, WithoutRow
    <3>3. <<Phase(i), Phase(i)'>> \in Edges BY <3>1, <3>2 DEF Edges
    <3> QED BY <1>7, <3>3, EdgeLives
  <2>2. CASE rec[i] # None
    <3>1. Phase(i) = "coming"
      BY <1>4, <1>8, <1>11, <2>2, Zenon DEF Phase, WithRow
    <3>2. Phase(i)' = "held" \/ Phase(i)' = "left"
      BY <1>4, <1>8, <1>11, <2>2, Zenon DEF Phase, WithRow
    <3>3. <<Phase(i), Phase(i)'>> \in Edges BY <3>1, <3>2 DEF Edges
    <3> QED BY <1>7, <3>3, EdgeLives
  <2> QED BY <2>1, <2>2
<1>12. ASSUME ~Moving(p) /\ rec'[i] = rec[i] /\ (HasBody(i)' => HasBody(i)) PROVE Lives
  <2>1. CASE HasBody(i)' <=> HasBody(i)
    <3>1. WithRow(i)' = WithRow(i) /\ WithoutRow(i)' = WithoutRow(i)
      BY <1>9, <1>12, <2>1, Zenon DEF WithRow, WithoutRow
    <3>2. Phase(i)' = Phase(i) BY <1>4, <1>12, <3>1, Zenon DEF Phase
    <3> QED BY <1>7, <3>2, EdgeLives
  <2>2. CASE HasBody(i) /\ ~HasBody(i)' /\ rec[i] = None
    <3>1. Phase(i) = "orphan" BY <1>4, <2>2, Zenon DEF Phase, WithoutRow
    <3>2. Phase(i)' = "purged" BY <1>4, <1>9, <1>12, <2>2, Zenon DEF Phase, WithoutRow
    <3>3. <<Phase(i), Phase(i)'>> \in Edges BY <3>1, <3>2 DEF Edges
    <3> QED BY <1>7, <3>3, EdgeLives
  <2>3. CASE HasBody(i) /\ ~HasBody(i)' /\ rec[i] # None
    <3>1. Phase(i) = "held" BY <1>4, <2>3, Zenon DEF Phase, WithRow
    <3>2. Phase(i)' = "left" BY <1>4, <1>9, <1>12, <2>3, Zenon DEF Phase, WithRow
    <3>3. <<Phase(i), Phase(i)'>> \in Edges BY <3>1, <3>2 DEF Edges
    <3> QED BY <1>7, <3>3, EdgeLives
  <2> QED BY <1>12, <2>1, <2>2, <2>3
<1>13. ASSUME ~Moving(p) /\ rec'[i] = None /\ rec[i] # None /\ (HasBody(i)' <=> HasBody(i)) PROVE Lives
  <2>1. CASE rec[i].restored
    <3>1. Phase(i) = "restored" BY <1>4, <1>13, <2>1, Zenon DEF Phase
    <3>2. Phase(i)' = "purged" BY <1>4, <1>9, <1>13, <2>1, Zenon DEF Phase, WithoutRow
    <3>3. <<Phase(i), Phase(i)'>> \in Edges BY <3>1, <3>2 DEF Edges
    <3> QED BY <1>7, <3>3, EdgeLives
  <2>2. CASE ~rec[i].restored
    <3>1. Phase(i) = IF HasBody(i) THEN "held" ELSE IF HasMover(i) THEN "coming" ELSE "left"
      BY <1>4, <1>13, <2>2, Zenon DEF Phase, WithRow
    <3>2. Phase(i)' = IF HasBody(i) THEN "orphan" ELSE IF HasMover(i) THEN "doomed" ELSE "purged"
      BY <1>4, <1>9, <1>13, <2>2, Zenon DEF Phase, WithoutRow
    <3>3. <<Phase(i), Phase(i)'>> \in Edges BY <3>1, <3>2 DEF Edges
    <3> QED BY <1>7, <3>3, EdgeLives
  <2> QED BY <2>1, <2>2
<1>14. ASSUME ~Moving(p), ~HasMover(i), ~HasBody(i), ~HasBody(i)',
              rec[i] # None, rec'[i] # None, rec'[i].restored
       PROVE  Lives
  <2>1. Phase(i) = "restored" \/ Phase(i) = "left"
    BY <1>4, <1>14, Zenon DEF Phase, WithRow
  <2>2. Phase(i)' = "restored" BY <1>4, <1>14, Zenon DEF Phase
  <2>3. Phase(i)' = Phase(i) \/ <<Phase(i), Phase(i)'>> \in Edges BY <2>1, <2>2 DEF Edges
  <2> QED BY <1>7, <2>3, EdgeLives
<1> QED BY <1>0, <1>2, <1>6, <1>10, <1>11, <1>12, <1>13, <1>14

(* A move puts its file under the body's name, takes it away from there, or  *)
(* works on the user's path.                                                 *)
LEMMA MoveLives ==
  ASSUME StoreInv, BodiesAgree, NEW p \in Proc, Rename(p) \/ CreateDst(p) \/ UnlinkSrc(p)
  PROVE  BodiesAgree' /\ Lives
<1>1. /\ op \in [Proc -> Op] /\ op[p] \in Op /\ at \in [Loc -> Inode \cup {None}]
      /\ op[p].pc \in {"move", "create", "unlink"} /\ rec' = rec /\ nextId' = nextId
  BY DEF Rename, CreateDst, UnlinkSrc, At, StoreInv, Types
<1>2. op[p].id \in Id /\ op[p].hash \in Content /\ op[p].path \in Path
  BY <1>1 DEF StoreInv, OpShape
<1>3. /\ BodyOf(op[p]) \in Loc /\ op[p].path \in Loc /\ BodyOf(op[p]) # op[p].path
      /\ \/ op[p].kind = "quarantine" /\ Src(op[p]) = op[p].path /\ Dst(op[p]) = BodyOf(op[p])
         \/ op[p].kind = "restore" /\ Src(op[p]) = BodyOf(op[p]) /\ Dst(op[p]) = op[p].path
  BY <1>1, Ends
<1>4. /\ \A q \in Proc : q # p => op'[q] = op[q]
      /\ op'[p].id = op[p].id /\ op'[p].hash = op[p].hash /\ op'[p].kind = op[p].kind
      /\ op'[p].pc \in {"finish", "copy"}
  <2>1. CASE Rename(p) \/ UnlinkSrc(p)
    <3>1. op' = [op EXCEPT ![p].pc = "finish"] BY <2>1 DEF Rename, UnlinkSrc, Goto
    <3> QED BY <3>1, <1>1 DEF Op
  <2>2. CASE CreateDst(p)
    <3>1. PICK o : o.id = op[p].id /\ o.hash = op[p].hash /\ o.kind = op[p].kind
                   /\ o.pc = "copy" /\ op' = [op EXCEPT ![p] = o]
      <4>1. PICK j : op' = [op EXCEPT ![p] = [@ EXCEPT !.pc = "copy", !.out = j]]
        BY <2>2 DEF CreateDst
      <4>2. PICK o : o = [op[p] EXCEPT !.pc = "copy", !.out = j] OBVIOUS
      <4>3. o.id = op[p].id /\ o.hash = op[p].hash /\ o.kind = op[p].kind /\ o.pc = "copy"
        BY <1>1, <4>2 DEF Op
      <4>4. op' = [op EXCEPT ![p] = o] BY <4>1, <4>2
      <4> QED BY <4>3, <4>4
    <3> QED BY <3>1, <1>1
  <2> QED BY <2>1, <2>2
<1>5. \A l \in Loc : l # BodyOf(op[p]) /\ l # op[p].path => at'[l] = at[l]
  BY <1>1, <1>3 DEF Rename, CreateDst, UnlinkSrc
<1>6. \A j \in Id, g \in Content : quarantineFileName(j, g) # BodyOf(op[p]) =>
            at'[quarantineFileName(j, g)] = at[quarantineFileName(j, g)]
  BY <1>2, <1>5, Names DEF Loc
<1>7. op[p].kind = "restore" => at'[BodyOf(op[p])] \in {None, at[BodyOf(op[p])]}
  BY <1>1, <1>3 DEF Rename, CreateDst, UnlinkSrc
<1>8. op[p].kind = "quarantine" /\ UnlinkSrc(p) => at'[BodyOf(op[p])] = at[BodyOf(op[p])]
  BY <1>1, <1>3 DEF UnlinkSrc
<1>9. Moving(p) \/ (~Moving(p) /\ at'[BodyOf(op[p])] \in {None, at[BodyOf(op[p])]})
  <2>1. CASE op[p].kind = "restore" BY <1>7, <2>1 DEF Moving
  <2>2. CASE op[p].kind = "quarantine" /\ UnlinkSrc(p) BY <1>8, <2>2 DEF Moving, UnlinkSrc, At
  <2>3. CASE op[p].kind = "quarantine" /\ ~UnlinkSrc(p)
    BY <2>3 DEF Moving, Rename, CreateDst, At
  <2> QED BY <1>3, <2>1, <2>2, <2>3
<1> QED BY <1>1, <1>2, <1>4, <1>6, <1>9, RecordStep

(* After the move the row says so.                                           *)
LEMMA MarkRestoredLives ==
  ASSUME StoreInv, BodiesAgree, NEW p \in Proc, MarkRestored(p)
  PROVE  BodiesAgree' /\ Lives
<1>1. /\ op \in [Proc -> Op] /\ at' = at /\ nextId' = nextId /\ rec \in [Id -> Row \cup {None}]
      /\ op[p].pc = "finish" /\ op[p].kind = "restore" /\ op' = [op EXCEPT ![p] = Idle]
  BY DEF MarkRestored, Return, At, StoreInv, Types
<1>2. op[p].id \in Id /\ op[p].hash \in Content /\ ~Moving(p)
  BY <1>1 DEF StoreInv, OpShape, Moving
<1>3. op'[p].id = None /\ op'[p].kind = "none" /\ \A q \in Proc : q # p => op'[q] = op[q]
  BY <1>1 DEF Idle
<1>4. at[BodyOf(op[p])] = None BY <1>1 DEF StoreInv, MovedOut
<1>5. CASE rec[op[p].id] = None
  <2>1. rec' = rec BY <1>5 DEF MarkRestored
  <2> QED BY <1>1, <1>2, <1>3, <2>1, RecordStep
<1>6. CASE rec[op[p].id] # None
  <2>1. ~HasMover(op[p].id)
    <3>1. ASSUME NEW q \in Proc, op[q].kind = "quarantine", op[q].id = op[p].id,
                 op[q].pc \in {"move", "create"}
          PROVE  op[p].pc = "move"
      BY <1>1, <3>1 DEF StoreInv, NotYetMovedIn
    <3> QED BY <1>1, <3>1 DEF HasMover
  <2>2. PICK r \in Row : r = rec[op[p].id] BY <1>1, <1>2, <1>6
  <2>3. rec' = [rec EXCEPT ![op[p].id] = [r EXCEPT !.restored = TRUE]]
    BY <1>6, <2>2 DEF MarkRestored
  <2>4. PICK s : s = [r EXCEPT !.restored = TRUE] OBVIOUS
  <2>5. s \in Row /\ s.restored /\ s.hash = r.hash BY <2>4 DEF Row
  <2>6. s # None BY <2>5, QuarantineAssumption
  <2>7. rec' = [rec EXCEPT ![op[p].id] = s] BY <2>3, <2>4
  <2>8. /\ rec'[op[p].id] = s /\ \A j \in Id : j # op[p].id => rec'[j] = rec[j]
    BY <1>1, <1>2, <2>7
  <2> QED BY <1>1, <1>2, <1>3, <1>4, <1>6, <2>1, <2>2, <2>5, <2>6, <2>8, RecordStep
<1> QED BY <1>5, <1>6

(* A purge removes the body, then the row.                                   *)
LEMMA PurgeLives ==
  ASSUME StoreInv, BodiesAgree, NEW p \in Proc, RemoveBody(p) \/ DeleteRow(p)
  PROVE  BodiesAgree' /\ Lives
<1>1. /\ op \in [Proc -> Op] /\ op[p] \in Op /\ at \in [Loc -> Inode \cup {None}]
      /\ rec \in [Id -> Row \cup {None}] /\ op[p].pc \in {"remove", "delete"} /\ nextId' = nextId
  BY DEF RemoveBody, DeleteRow, At, StoreInv, Types
<1>2. op[p].id \in Id /\ op[p].hash \in Content /\ op[p].kind = "purge" /\ ~Moving(p)
  BY <1>1 DEF StoreInv, OpShape, Moving
<1>3. BodyOf(op[p]) \in Loc BY <1>2, Names DEF BodyOf, Loc
<1>4. CASE RemoveBody(p)
  <2>1. op' = [op EXCEPT ![p].pc = "delete"] /\ at' = [at EXCEPT ![BodyOf(op[p])] = None] /\ rec' = rec
    BY <1>4 DEF RemoveBody, Goto
  <2>2. /\ \A q \in Proc : q # p => op'[q] = op[q]
        /\ op'[p].id = op[p].id /\ op'[p].hash = op[p].hash /\ op'[p].kind = "purge"
    BY <1>1, <1>2, <2>1 DEF Op
  <2>3. \A j \in Id, g \in Content : quarantineFileName(j, g) # BodyOf(op[p]) =>
            at'[quarantineFileName(j, g)] = at[quarantineFileName(j, g)]
    BY <1>1, <2>1, Names DEF Loc
  <2>4. at'[BodyOf(op[p])] = None BY <1>1, <1>3, <2>1
  <2> QED BY <1>1, <1>2, <2>1, <2>2, <2>3, <2>4, RecordStep
<1>5. CASE DeleteRow(p)
  <2>1. op' = [op EXCEPT ![p] = Idle] /\ at' = at /\ rec' = [rec EXCEPT ![op[p].id] = None]
    BY <1>5 DEF DeleteRow, Return
  <2>2. op'[p].id = None /\ op'[p].kind = "none" /\ \A q \in Proc : q # p => op'[q] = op[q]
    BY <1>1, <2>1 DEF Idle
  <2>3. rec'[op[p].id] = None /\ \A j \in Id : j # op[p].id => rec'[j] = rec[j]
    BY <1>1, <1>2, <2>1
  <2> QED BY <1>1, <1>2, <2>1, <2>2, <2>3, RecordStep
<1> QED BY <1>4, <1>5

(* A quarantine that gives up before it has moved leaves a row without a     *)
(* body; any other command that ends leaves the records as they are.         *)
LEMMA AbortLives ==
  ASSUME StoreInv, BodiesAgree, NEW p \in Proc, Abort(p)
  PROVE  BodiesAgree' /\ Lives
<1>1. /\ op \in [Proc -> Op] /\ op[p] \in Op /\ op' = [op EXCEPT ![p] = Idle]
      /\ at' = at /\ rec' = rec /\ nextId' = nextId
  BY DEF Abort, Return, StoreInv, Types
<1>2. op'[p].id = None /\ op'[p].kind = "none" /\ \A q \in Proc : q # p => op'[q] = op[q]
  BY <1>1 DEF Idle
<1>3. CASE op[p].id \in Id /\ op[p].hash \in Content
  BY <1>1, <1>2, <1>3, RecordStep
<1>4. CASE ~Moving(p)
  <2>1. \A q \in Proc, j \in Id :
            op'[q].kind = "quarantine" /\ op'[q].id = j /\ op'[q].pc \in {"move", "create"}
            <=> op[q].kind = "quarantine" /\ op[q].id = j /\ op[q].pc \in {"move", "create"}
    BY <1>2, <1>4 DEF Moving
  <2>2. Lives BY <1>1, <2>1, QuietLives
  <2>3. BodiesAgree' BY <1>1, <1>2, AgreeFrame
  <2> QED BY <2>2, <2>3
<1>5. Moving(p) => op[p].id \in Id /\ op[p].hash \in Content
  BY DEF Moving, StoreInv, OpShape
<1> QED BY <1>3, <1>4, <1>5

(* Other programs write to the user's paths.                                 *)
LEMMA WriteLives ==
  ASSUME StoreInv, BodiesAgree, NEW f \in Edited, NEW c \in Content, UserWrite(f, c)
  PROVE  BodiesAgree' /\ Lives
<1>1. f \in Path /\ at \in [Loc -> Inode \cup {None}] BY QuarantineAssumption DEF StoreInv, Types
<1>2. PICK e : at' = [at EXCEPT ![f] = e] BY DEF UserWrite
<1>3. rec' = rec /\ nextId' = nextId /\ op' = op BY DEF UserWrite
<1>4. \A j \in Id, h \in Content : at'[quarantineFileName(j, h)] = at[quarantineFileName(j, h)]
  BY <1>1, <1>2, Names DEF Loc
<1>5. Lives BY <1>3, <1>4, QuietLives
<1>6. BodiesAgree' BY <1>3, <1>4, AgreeFrame
<1> QED BY <1>5, <1>6

(* Every step is the life of one record, or of none.                         *)
LEMMA LivesNext == StoreInv /\ BodiesAgree /\ [Next]_vars => BodiesAgree' /\ Lives
<1> SUFFICES ASSUME StoreInv, BodiesAgree, [Next]_vars PROVE BodiesAgree' /\ Lives
  OBVIOUS
<1>1. ASSUME NEW p \in Proc, Command(p) PROVE BodiesAgree' /\ Lives
  <2>1. CASE InsertRow(p) BY <2>1, InsertLives
  <2>2. CASE \/ \E f \in Path : Match(p, f)
             \/ DeleteFile(p) \/ OpenSrc(p) \/ CopyData(p) \/ Chmod(p)
             \/ \E i \in Id : SelectRestore(p, i) \/ SelectPurge(p, i)
    BY <2>2, QuietStep
  <2>3. CASE Rename(p) \/ CreateDst(p) \/ UnlinkSrc(p) BY <2>3, MoveLives
  <2>4. CASE MarkRestored(p) BY <2>4, MarkRestoredLives
  <2>5. CASE RemoveBody(p) \/ DeleteRow(p) BY <2>5, PurgeLives
  <2>6. CASE Abort(p) BY <2>6, AbortLives
  <2> QED BY <1>1, <2>1, <2>2, <2>3, <2>4, <2>5, <2>6 DEF Command
<1>2. ASSUME NEW f \in Edited, NEW c \in Content, UserWrite(f, c) PROVE BodiesAgree' /\ Lives
  BY <1>2, WriteLives
<1>3. CASE UNCHANGED vars
  <2>1. at' = at /\ rec' = rec /\ op' = op /\ nextId' = nextId BY <1>3 DEF vars
  <2>2. Lives BY <2>1, QuietLives
  <2>3. BodiesAgree' BY <2>1, AgreeFrame
  <2> QED BY <2>2, <2>3
<1> QED BY <1>1, <1>2, <1>3 DEF Next

(* RecordsLive: seen through Phase, every behaviour of any number of         *)
(* commands is a life of each record as Lifecycle allows it; in particular a *)
(* record marked restored never has a body again and a purged one never      *)
(* comes back.                                                               *)
THEOREM StoreImplementsLifecycle == Spec => RecordsLive
<1>1. Init => BodiesAgree BY Names DEF Init, BodiesAgree
<1>2. Init => L!Init
  <2> SUFFICES ASSUME Init PROVE \A i \in Id : Phase(i) = "unused"
    BY DEF L!Init
  <2>1. \A i \in Id : i >= nextId BY QuarantineAssumption DEF Init, Id
  <2> QED BY <2>1, Zenon DEF Phase
<1>3. StoreInv /\ BodiesAgree /\ [Next]_vars => BodiesAgree' BY LivesNext
<1>4. StoreInv /\ BodiesAgree /\ [Next]_vars => [L!Next]_[i \in Id |-> Phase(i)]
  BY LivesNext, EdgeIsStep
<1> QED BY <1>1, <1>2, <1>3, <1>4, StoreSafe, PTL DEF Spec, RecordsLive, L!Spec

-----------------------------------------------------------------------------
(* One process, whose copies read a file that nobody else replaces: nothing  *)
(* is lost without consent.                                                  *)

(* No file has two names.                                                    *)
OneEntry == \A l, m \in Loc : at[l] # None /\ at[l] = at[m] => l = m

(* How far a copy is: both ends are where they were opened, the destination  *)
(* is torn until it is complete.                                             *)
Half(o) ==
  /\ o.pc \in {"create", "copy", "unlink"} =>
       o.path \notin Renamable /\ o.in \in Inode /\ at[Src(o)] = o.in
  /\ o.pc \in {"copy", "unlink"} => o.out \in Inode /\ at[Dst(o)] = o.out
  /\ o.pc = "copy" => data[o.out] = Torn
  /\ o.pc = "unlink" => data[o.out] = data[o.in]

Kept == OneEntry /\ \A p \in Proc : Half(op[p])

(* What a step may do.                                                       *)
Loses == \E p \in Proc : Consented(op[p]) /\ op'[p] # op[p]
Spares == Live \subseteq Live' \/ op' = op \/ Loses

(* A step that moves no file.                                                *)
LEMMA StillKept ==
  ASSUME Kept, at' = at, data' = data,
         \A q \in Proc : op'[q] = op[q] \/ op'[q].pc \notin {"create", "copy", "unlink"}
  PROVE  Kept' /\ Spares
<1>1. OneEntry' BY DEF Kept, OneEntry
<1>2. ASSUME NEW q \in Proc PROVE Half(op[q])'
  <2>1. CASE op'[q] = op[q]
    <3>1. Half(op[q]) BY DEF Kept
    <3> QED BY <2>1, <3>1 DEF Half, Src, Dst, BodyOf
  <2>2. CASE op'[q].pc \notin {"create", "copy", "unlink"} BY <2>2 DEF Half
  <2> QED BY <2>1, <2>2
<1>3. Live' = Live BY DEF Live
<1> QED BY <1>1, <1>2, <1>3 DEF Kept, Spares

(* A file that keeps its inode and what the inode holds is still there.      *)
LEMMA LiveKept ==
  ASSUME \A l \in Loc : at[l] # None /\ data[at[l]] \in Content =>
            \E m \in Loc : at'[m] # None /\ data'[at'[m]] = data[at[l]]
  PROVE  Live \subseteq Live'
<1>1. ASSUME NEW c \in Live PROVE c \in Live'
  <2>1. PICK l \in Loc : at[l] # None /\ data[at[l]] = c BY DEF Live
  <2>2. c \in Content BY DEF Live
  <2>3. PICK m \in Loc : at'[m] # None /\ data'[at'[m]] = c BY <2>1, <2>2
  <2> QED BY <2>2, <2>3 DEF Live
<1> QED BY <1>1

(* An answer or a purge that takes a file away, and a rename.                *)
LEMMA RenameKept ==
  ASSUME StoreInv, Kept, \A p, q \in Proc : p = q, NEW p \in Proc,
         DeleteFile(p) \/ RemoveBody(p) \/ Rename(p)
  PROVE  Kept' /\ Spares
<1>1. /\ op \in [Proc -> Op] /\ op[p] \in Op /\ at \in [Loc -> Inode \cup {None}] /\ data' = data
  BY DEF DeleteFile, RemoveBody, Rename, StoreInv, Types
<1>2. op'[p].pc \notin {"create", "copy", "unlink"} /\ op'[p].pc # op[p].pc
  <2>1. CASE DeleteFile(p) BY <1>1, <2>1 DEF DeleteFile, Return, Idle, At
  <2>2. CASE RemoveBody(p) BY <1>1, <2>2 DEF RemoveBody, Goto, At, Op
  <2>3. CASE Rename(p) BY <1>1, <2>3 DEF Rename, Goto, At, Op
  <2> QED BY <2>1, <2>2, <2>3
<1>3. \A q \in Proc : Half(op[q])'
  <2>1. \A q \in Proc : q = p OBVIOUS
  <2>2. Half(op[p])' BY <1>2 DEF Half
  <2> QED BY <2>1, <2>2
<1>4. CASE DeleteFile(p) \/ RemoveBody(p)
  <2>1. PICK e \in Loc : at' = [at EXCEPT ![e] = None]
    <3>1. CASE DeleteFile(p)
      <4>1. op[p].path \in Loc BY <3>1 DEF DeleteFile, At, StoreInv, OpShape, Loc
      <4> QED BY <3>1, <4>1 DEF DeleteFile
    <3>2. CASE RemoveBody(p)
      <4>1. BodyOf(op[p]) \in Loc BY <3>2, Names DEF RemoveBody, At, StoreInv, OpShape, Loc, BodyOf
      <4> QED BY <3>2, <4>1 DEF RemoveBody
    <3> QED BY <1>4, <3>1, <3>2
  <2>2. OneEntry' BY <1>1, <2>1 DEF OneEntry, Kept
  <2>3. Consented(op[p]) BY <1>4 DEF DeleteFile, RemoveBody, At, Consented
  <2>4. Loses BY <1>2, <2>3 DEF Loses
  <2> QED BY <1>3, <2>2, <2>4 DEF Kept, Spares
<1>5. CASE Rename(p)
  <2>0. op[p].pc = "move" BY <1>5 DEF Rename, At
  <2>1. PICK s \in Loc, d \in Loc : s = Src(op[p]) /\ d = Dst(op[p]) /\ s # d
    BY <2>0, Ends
  <2>2. at' = [at EXCEPT ![d] = at[s], ![s] = None] /\ at[s] # None BY <1>5, <2>1 DEF Rename
  <2>3. at'[d] = at[s] /\ at'[s] = None /\ \A l \in Loc : l # s /\ l # d => at'[l] = at[l]
    BY <1>1, <2>1, <2>2
  <2>4. OneEntry'
    <3>1. ASSUME NEW l \in Loc, NEW m \in Loc, at'[l] # None, at'[l] = at'[m] PROVE l = m
      <4>1. \A x \in Loc : at'[x] # None => at'[x] = at[IF x = d THEN s ELSE x] BY <2>1, <2>3
      <4>2. OneEntry BY DEF Kept
      <4>3. (IF l = d THEN s ELSE l) = (IF m = d THEN s ELSE m) BY <2>1, <3>1, <4>1, <4>2 DEF OneEntry
      <4> QED BY <2>3, <3>1, <4>3
    <3> QED BY <3>1 DEF OneEntry
  <2>5. CASE at[d] = None
    <3>1. Live \subseteq Live' BY <1>1, <2>1, <2>2, <2>3, <2>5, LiveKept
    <3> QED BY <1>3, <2>4, <3>1 DEF Kept, Spares
  <2>6. CASE at[d] # None
    <3>1. op[p].kind = "restore" /\ at[op[p].path] # None
      BY <2>0, <2>1, <2>6, Ends DEF StoreInv, DestinationFree
    <3>2. Consented(op[p]) BY <2>0, <3>1 DEF Consented
    <3>3. Loses BY <1>2, <3>2 DEF Loses
    <3> QED BY <1>3, <2>4, <3>3 DEF Kept, Spares
  <2> QED BY <2>5, <2>6
<1> QED BY <1>4, <1>5

(* The copy opens its source ...                                             *)
LEMMA OpenSrcKept ==
  ASSUME StoreInv, Kept, \A p, q \in Proc : p = q, NEW p \in Proc, OpenSrc(p)
  PROVE  Kept' /\ Spares
<1>1. /\ op \in [Proc -> Op] /\ op[p] \in Op /\ at \in [Loc -> Inode \cup {None}]
      /\ at' = at /\ data' = data /\ op[p].pc = "move" /\ op[p].path \notin Renamable
      /\ at[Src(op[p])] # None
  BY DEF OpenSrc, At, StoreInv, Types
<1>2. at[Src(op[p])] \in Inode BY <1>1, Ends
<1>3. PICK o : o = [op[p] EXCEPT !.pc = "create", !.in = at[Src(op[p])]] OBVIOUS
<1>4. /\ o.pc = "create" /\ o.in = at[Src(op[p])] /\ o.path = op[p].path
      /\ o.kind = op[p].kind /\ o.id = op[p].id /\ o.hash = op[p].hash
  BY <1>1, <1>3 DEF Op
<1>5. op' = [op EXCEPT ![p] = o] BY <1>3 DEF OpenSrc
<1>6. op'[p] = o BY <1>1, <1>5
<1>7. Src(o) = Src(op[p]) BY <1>4 DEF Src, BodyOf
<1>8. Half(op[p])'
  BY <1>1, <1>2, <1>4, <1>6, <1>7 DEF Half
<1>9. OneEntry' BY <1>1 DEF Kept, OneEntry
<1>10. Live' = Live BY <1>1 DEF Live
<1>11. \A q \in Proc : q = p OBVIOUS
<1> QED BY <1>8, <1>9, <1>10, <1>11 DEF Kept, Spares

(* ... makes or truncates its destination ...                                *)
LEMMA CreateDstKept ==
  ASSUME StoreInv, Kept, \A p, q \in Proc : p = q, NEW p \in Proc, CreateDst(p)
  PROVE  Kept' /\ Spares
<1>1. /\ op \in [Proc -> Op] /\ op[p] \in Op /\ at \in [Loc -> Inode \cup {None}]
      /\ data \in [Inode -> Content \cup {Torn}] /\ op[p].pc = "create"
  BY DEF CreateDst, At, StoreInv, Types
<1>2. PICK s \in Loc, d \in Loc : s = Src(op[p]) /\ d = Dst(op[p]) /\ s # d
  BY <1>1, Ends
<1>3. PICK i \in IF at[d] = None THEN Free ELSE {at[d]} :
        /\ at' = [at EXCEPT ![d] = i] /\ data' = [data EXCEPT ![i] = Torn]
        /\ op' = [op EXCEPT ![p] = [@ EXCEPT !.pc = "copy", !.out = i]]
  BY <1>2 DEF CreateDst
<1>4. i \in Inode /\ \A l \in Loc : l # d => at[l] # i
  <2>1. CASE at[d] = None BY <1>3, <2>1 DEF Free
  <2>2. CASE at[d] # None BY <1>1, <1>3, <2>2 DEF Kept, OneEntry
  <2> QED BY <2>1, <2>2
<1>5. PICK o : o = [op[p] EXCEPT !.pc = "copy", !.out = i] OBVIOUS
<1>6. /\ o.pc = "copy" /\ o.out = i /\ o.in = op[p].in /\ o.path = op[p].path
      /\ o.kind = op[p].kind /\ o.id = op[p].id /\ o.hash = op[p].hash
  BY <1>1, <1>5 DEF Op
<1>7. op'[p] = o BY <1>1, <1>3, <1>5
<1>8. Src(o) = s /\ Dst(o) = d BY <1>2, <1>6 DEF Src, Dst, BodyOf
<1>9. at'[d] = i /\ at'[s] = at[s] /\ data'[i] = Torn BY <1>1, <1>2, <1>3, <1>4
<1>10. Half(op[p])'
  <2>1. Half(op[p]) BY DEF Kept
  <2>2. op[p].path \notin Renamable /\ op[p].in \in Inode /\ at[s] = op[p].in
    BY <1>1, <1>2, <2>1 DEF Half
  <2> QED BY <1>4, <1>6, <1>7, <1>8, <1>9, <2>2 DEF Half
<1>11. OneEntry'
  <2>1. \A l \in Loc : l # d => at'[l] = at[l] BY <1>1, <1>3
  <2>2. OneEntry BY DEF Kept
  <2> QED BY <1>4, <1>9, <2>1, <2>2 DEF OneEntry
<1>12. Kept'
  <2>1. \A q \in Proc : q = p OBVIOUS
  <2> QED BY <1>10, <1>11, <2>1 DEF Kept
<1>13. CASE at[d] = None
  <2>1. ASSUME NEW l \in Loc, at[l] # None, data[at[l]] \in Content
        PROVE  at'[l] # None /\ data'[at'[l]] = data[at[l]]
    <3>1. l # d BY <1>13, <2>1
    <3>2. at'[l] = at[l] /\ at[l] # i /\ at[l] \in Inode BY <1>1, <1>3, <1>4, <2>1, <3>1
    <3> QED BY <1>1, <1>3, <2>1, <3>2
  <2>2. Live \subseteq Live' BY <2>1, LiveKept
  <2> QED BY <1>12, <2>2 DEF Spares
<1>14. CASE at[d] # None
  <2>1. op[p].kind = "restore" /\ at[op[p].path] # None
    BY <1>1, <1>2, <1>14, Ends DEF StoreInv, DestinationFree
  <2>2. Consented(op[p]) BY <1>1, <2>1 DEF Consented
  <2>3. op'[p] # op[p] BY <1>1, <1>6, <1>7
  <2>4. Loses BY <2>2, <2>3 DEF Loses
  <2> QED BY <1>12, <2>4 DEF Spares
<1> QED BY <1>13, <1>14

(* ... fills it, which destroys nothing complete ...                         *)
LEMMA CopyDataKept ==
  ASSUME StoreInv, Kept, \A p, q \in Proc : p = q, NEW p \in Proc, CopyData(p)
  PROVE  Kept' /\ Spares
<1>1. /\ op \in [Proc -> Op] /\ op[p] \in Op /\ at \in [Loc -> Inode \cup {None}] /\ at' = at
      /\ data \in [Inode -> Content \cup {Torn}] /\ op[p].pc = "copy"
  BY DEF CopyData, At, StoreInv, Types
<1>2. PICK s \in Loc, d \in Loc : s = Src(op[p]) /\ d = Dst(op[p]) /\ s # d
  BY <1>1, Ends
<1>3. /\ op[p].path \notin Renamable /\ op[p].in \in Inode /\ at[s] = op[p].in
      /\ op[p].out \in Inode /\ at[d] = op[p].out /\ data[op[p].out] = Torn
  BY <1>1, <1>2 DEF Kept, Half
<1>4. op[p].in # op[p].out
  BY <1>2, <1>3, QuarantineAssumption DEF Kept, OneEntry
<1>5. data' = [data EXCEPT ![op[p].out] = data[op[p].in]] /\ op' = [op EXCEPT ![p].pc = "unlink"]
  BY DEF CopyData, Goto
<1>6. PICK o : o = [op[p] EXCEPT !.pc = "unlink"] OBVIOUS
<1>7. /\ o.pc = "unlink" /\ o.out = op[p].out /\ o.in = op[p].in /\ o.path = op[p].path
      /\ o.kind = op[p].kind /\ o.id = op[p].id /\ o.hash = op[p].hash
  BY <1>1, <1>6 DEF Op
<1>8. op'[p] = o BY <1>1, <1>5, <1>6
<1>9. Src(o) = s /\ Dst(o) = d BY <1>2, <1>7 DEF Src, Dst, BodyOf
<1>10. data'[op[p].out] = data'[op[p].in] BY <1>1, <1>3, <1>4, <1>5
<1>11. Half(op[p])' BY <1>1, <1>3, <1>7, <1>8, <1>9, <1>10 DEF Half
<1>12. Kept'
  <2>1. \A q \in Proc : q = p OBVIOUS
  <2>2. OneEntry' BY <1>1 DEF Kept, OneEntry
  <2> QED BY <1>11, <2>1, <2>2 DEF Kept
<1>13. ASSUME NEW l \in Loc, at[l] # None, data[at[l]] \in Content
       PROVE  at'[l] # None /\ data'[at'[l]] = data[at[l]]
  <2>1. at[l] # op[p].out BY <1>3, <1>13, QuarantineAssumption
  <2> QED BY <1>1, <1>5, <1>13, <2>1
<1>14. Live \subseteq Live' BY <1>13, LiveKept
<1> QED BY <1>12, <1>14 DEF Spares

(* ... and takes away a source whose content is complete at the other end.   *)
LEMMA UnlinkSrcKept ==
  ASSUME StoreInv, Kept, \A p, q \in Proc : p = q, NEW p \in Proc, UnlinkSrc(p)
  PROVE  Kept' /\ Spares
<1>1. /\ op \in [Proc -> Op] /\ op[p] \in Op /\ at \in [Loc -> Inode \cup {None}] /\ data' = data
      /\ op[p].pc = "unlink"
  BY DEF UnlinkSrc, At, StoreInv, Types
<1>2. PICK s \in Loc, d \in Loc : s = Src(op[p]) /\ d = Dst(op[p]) /\ s # d
  BY <1>1, Ends
<1>3. at[s] = op[p].in /\ op[p].out \in Inode /\ at[d] = op[p].out /\ data[op[p].out] = data[op[p].in]
  BY <1>1, <1>2 DEF Kept, Half
<1>4. at' = [at EXCEPT ![s] = None] BY <1>2 DEF UnlinkSrc
<1>5. op'[p].pc = "finish" BY <1>1 DEF UnlinkSrc, Goto, Op
<1>6. Kept'
  <2>1. \A q \in Proc : q = p OBVIOUS
  <2>2. Half(op[p])' BY <1>5 DEF Half
  <2>3. OneEntry' BY <1>1, <1>4 DEF Kept, OneEntry
  <2> QED BY <2>1, <2>2, <2>3 DEF Kept
<1>7. ASSUME NEW l \in Loc, at[l] # None, data[at[l]] \in Content
      PROVE  \E m \in Loc : at'[m] # None /\ data'[at'[m]] = data[at[l]]
  <2>1. CASE l = s
    <3>1. at'[d] = op[p].out /\ op[p].out # None BY <1>1, <1>2, <1>3, <1>4, QuarantineAssumption
    <3> QED BY <1>1, <1>3, <2>1, <3>1
  <2>2. CASE l # s
    <3>1. at'[l] = at[l] BY <1>1, <1>4, <2>2
    <3> QED BY <1>1, <1>7, <3>1
  <2> QED BY <2>1, <2>2
<1>8. Live \subseteq Live' BY <1>7, LiveKept
<1> QED BY <1>6, <1>8 DEF Spares

(* Other programs do not touch the ends of a copy.                           *)
LEMMA WriteKept ==
  ASSUME StoreInv, Kept, Edited \subseteq Renamable, NEW f \in Edited, NEW c \in Content, UserWrite(f, c)
  PROVE  Kept' /\ Spares
<1>1. f \in Path /\ f \in Loc /\ at \in [Loc -> Inode \cup {None}]
      /\ data \in [Inode -> Content \cup {Torn}]
  BY QuarantineAssumption DEF StoreInv, Types, Loc
<1>2. PICK i \in Free : at' = [at EXCEPT ![f] = i] /\ data' = [data EXCEPT ![i] = c] BY DEF UserWrite
<1>3. op' = op BY DEF UserWrite
<1>4. /\ i \in Inode /\ \A l \in Loc : at[l] # i
      /\ \A q \in Proc : op[q].in # i /\ op[q].out # i
  BY DEF Free
<1>5. OneEntry' BY <1>1, <1>2, <1>4 DEF Kept, OneEntry
<1>6. ASSUME NEW q \in Proc PROVE Half(op[q])'
  <2>1. CASE op[q].pc \notin {"create", "copy", "unlink"} BY <1>3, <2>1 DEF Half
  <2>2. CASE op[q].pc \in {"create", "copy", "unlink"}
    <3>0. Half(op[q]) BY DEF Kept
    <3>1. op[q].path # f BY <2>2, <3>0 DEF Half
    <3>2. BodyOf(op[q]) # f BY <1>1, <2>2, Names DEF StoreInv, OpShape, BodyOf
    <3>3. PICK s \in Loc, d \in Loc : s = Src(op[q]) /\ d = Dst(op[q]) /\ s # f /\ d # f
      BY <2>2, <3>1, <3>2, Ends
    <3>4. at'[s] = at[s] /\ at'[d] = at[d] BY <1>1, <1>2, <3>3
    <3>5. /\ op[q].in \in Inode => data'[op[q].in] = data[op[q].in]
          /\ op[q].out \in Inode => data'[op[q].out] = data[op[q].out]
      BY <1>1, <1>2, <1>4
    <3>6. (Src(op[q]))' = s /\ (Dst(op[q]))' = d BY <1>3, <3>3 DEF Src, Dst, BodyOf
    <3> QED BY <1>3, <2>2, <3>0, <3>3, <3>4, <3>5, <3>6 DEF Half
  <2> QED BY <2>1, <2>2
<1> QED BY <1>3, <1>5, <1>6 DEF Kept, Spares

(* Every step keeps the copies and spares the contents.                      *)
LEMMA KeptNext ==
  ASSUME StoreInv, Kept, \A p, q \in Proc : p = q, Edited \subseteq Renamable, [Next]_vars
  PROVE  Kept' /\ Spares
<1>0. op \in [Proc -> Op] BY DEF StoreInv, Types
<1>1. ASSUME NEW p \in Proc, Command(p) PROVE Kept' /\ Spares
  <2>1. CASE DeleteFile(p) \/ RemoveBody(p) \/ Rename(p) BY <2>1, RenameKept
  <2>2. CASE OpenSrc(p) BY <2>2, OpenSrcKept
  <2>3. CASE CreateDst(p) BY <2>3, CreateDstKept
  <2>4. CASE CopyData(p) BY <2>4, CopyDataKept
  <2>5. CASE UnlinkSrc(p) BY <2>5, UnlinkSrcKept
  <2>6. CASE InsertRow(p)
    <3>1. at' = at /\ data' = data BY <2>6 DEF InsertRow
    <3>2. op'[p].pc = "move"
      <4>1. PICK o : o = [op[p] EXCEPT !.kind = "quarantine", !.pc = "move", !.id = nextId] OBVIOUS
      <4>2. o.pc = "move" BY <1>0, <4>1 DEF Op
      <4> QED BY <1>0, <2>6, <4>1, <4>2 DEF InsertRow
    <3>3. \A q \in Proc : q = p OBVIOUS
    <3> QED BY <3>1, <3>2, <3>3, StillKept
  <2>7. CASE \E f \in Path : Match(p, f)
    <3>1. at' = at /\ data' = data BY <2>7 DEF Match
    <3>2. op'[p].pc = "prompt" BY <1>0, <2>7 DEF Match, Begin, Idle
    <3>3. \A q \in Proc : q = p OBVIOUS
    <3> QED BY <3>1, <3>2, <3>3, StillKept
  <2>8. CASE \E i \in Id : SelectRestore(p, i) \/ SelectPurge(p, i)
    <3>1. at' = at /\ data' = data BY <2>8 DEF SelectRestore, SelectPurge
    <3>2. op'[p].pc \in {"move", "delete", "remove"}
      <4>1. ASSUME NEW i \in Id, SelectRestore(p, i) PROVE op'[p].pc = "move"
        BY <1>0, <4>1 DEF SelectRestore, Begin, Idle
      <4>2. ASSUME NEW i \in Id, SelectPurge(p, i) PROVE op'[p].pc \in {"delete", "remove"}
        <5>1. PICK o : o = [Idle EXCEPT !.kind = "purge", !.id = i, !.hash = rec[i].hash,
                              !.pc = IF rec[i].restored THEN "delete" ELSE "remove"]
          OBVIOUS
        <5>2. o.pc \in {"delete", "remove"} BY <5>1 DEF Idle
        <5>3. op' = [op EXCEPT ![p] = o] BY <4>2, <5>1 DEF SelectPurge, Begin
        <5> QED BY <1>0, <5>2, <5>3
      <4> QED BY <2>8, <4>1, <4>2
    <3>3. \A q \in Proc : q = p OBVIOUS
    <3> QED BY <3>1, <3>2, <3>3, StillKept
  <2>9. CASE Chmod(p) \/ MarkRestored(p) \/ DeleteRow(p) \/ Abort(p)
    <3>1. at' = at /\ data' = data /\ op' = [op EXCEPT ![p] = Idle]
      BY <2>9 DEF Chmod, MarkRestored, DeleteRow, Abort, Return
    <3>2. op'[p].pc = "idle" BY <1>0, <3>1 DEF Idle
    <3>3. \A q \in Proc : q = p OBVIOUS
    <3> QED BY <3>1, <3>2, <3>3, StillKept
  <2> QED BY <1>1, <2>1, <2>2, <2>3, <2>4, <2>5, <2>6, <2>7, <2>8, <2>9 DEF Command
<1>2. ASSUME NEW f \in Edited, NEW c \in Content, UserWrite(f, c) PROVE Kept' /\ Spares
  BY <1>2, WriteKept
<1>3. CASE UNCHANGED vars
  <2>1. at' = at /\ data' = data /\ op' = op BY <1>3 DEF vars
  <2> QED BY <2>1, StillKept
<1> QED BY <1>1, <1>2, <1>3 DEF Next

(* LossOnlyByConsent: one command at a time, failing or killed anywhere, and *)
(* any program editing the files that a rename can move: no content is lost  *)
(* but by the answer d, a purge, or a restore onto a path in use.            *)
THEOREM LossNeedsConsent ==
  ASSUME \A p, q \in Proc : p = q, Edited \subseteq Renamable
  PROVE  Spec => LossOnlyByConsent
<1>1. Init => Kept
  <2> SUFFICES ASSUME Init PROVE Kept OBVIOUS
  <2>1. OneEntry BY DEF Init, OneEntry, Loc
  <2>2. \A p \in Proc : op[p].pc = "idle" BY DEF Init, Idle
  <2> QED BY <2>1, <2>2 DEF Kept, Half
<1>2. StoreInv /\ Kept /\ [Next]_vars => Kept' BY KeptNext
<1>3. StoreInv /\ Kept /\ [Next]_vars =>
        [Live \subseteq Live' \/ op' = op \/ \E p \in Proc : Consented(op[p]) /\ op'[p] # op[p]]_vars
  BY KeptNext DEF Spares, Loses
<1> QED BY <1>1, <1>2, <1>3, StoreSafe, PTL DEF Spec, LossOnlyByConsent
=============================================================================
