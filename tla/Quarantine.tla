----------------------------- MODULE Quarantine -----------------------------
(***************************************************************************)
(* The quarantine store of avtool: internal/quarantine, reached through    *)
(* internal/prompt (scan and review) and the quarantine restore and purge  *)
(* commands.  It keeps two things in step without a transaction: the rows  *)
(* of the quarantine_records table and the files of the quarantine         *)
(* directory.  Every avtool command is a process of its own, any number of *)
(* them may run at once on one database and one directory, and each can    *)
(* fail or be killed between any two of its system calls.                  *)
(*                                                                         *)
(* Files are directory entries that point at inodes, because a file that   *)
(* is open stays writable after another process has renamed or removed it. *)
(***************************************************************************)
EXTENDS Naturals, FiniteSets

CONSTANTS Proc,       \* avtool processes
          Path,       \* the user's files
          Content,    \* complete file contents; a SHA-256 digest stands for its content
          Bad,        \* the contents whose digest is in the hash database
          Renamable,  \* the paths os.Rename can exchange with the quarantine directory:
                      \* the others are on another device or in a read-only directory
          Edited,     \* the paths that other programs replace while avtool runs
          Inode,
          MaxId,      \* bound on the rows ever inserted
          Torn,       \* what a truncated or half-copied file holds
          None        \* no inode, no row, no value

Id    == 1 .. MaxId
Name  == Id \X Content
Loc   == Path \cup Name
Kinds == {"none", "quarantine", "restore", "purge"}
Steps == {"idle", "prompt", "move", "create", "copy", "unlink", "finish", "remove", "delete"}
Row == [path : Path, hash : Content, restored : BOOLEAN]

ASSUME QuarantineAssumption ==
  /\ MaxId \in Nat
  /\ Bad \subseteq Content
  /\ Renamable \subseteq Path /\ Edited \subseteq Path
  /\ Path \cap Name = {}
  /\ None \notin Inode \cup Content \cup Path \cup Id \cup Row
  /\ Torn \notin Content

VARIABLES at,      \* directory entries of the user's tree and of the quarantine directory
          data,    \* what each inode holds
          exec,    \* the inodes with an execute bit
          rec,     \* the rows of quarantine_records
          nextId,  \* the AUTOINCREMENT counter
          op       \* the command each process runs and the variables it has read

vars == <<at, data, exec, rec, nextId, op>>

Op  == [kind : Kinds, pc : Steps, id : Id \cup {None}, path : Path \cup {None},
        hash : Content \cup {None}, in : Inode \cup {None}, out : Inode \cup {None}]

Types ==
  /\ at     \in [Loc -> Inode \cup {None}]
  /\ data   \in [Inode -> Content \cup {Torn}]
  /\ exec   \in SUBSET Inode
  /\ rec    \in [Id -> Row \cup {None}]
  /\ nextId \in 1 .. (MaxId + 1)
  /\ op     \in [Proc -> Op]

(* Rows and commands are only about digests that were in the hash database   *)
(* when the file was read.                                                   *)
MatchedIsBad ==
  /\ \A i \in Id : rec[i] # None => rec[i].hash \in Bad
  /\ \A p \in Proc : op[p].hash # None => op[p].hash \in Bad

TypeOK == Types /\ MatchedIsBad

Idle == [kind |-> "none", pc |-> "idle", id |-> None, path |-> None,
         hash |-> None, in |-> None, out |-> None]

(* Mutant: body files named after the digest only. *)
quarantineFileName_NoId(id, hash) == <<1, hash>>

(* quarantineFileName: the body of a record is named after its id and hash. *)
quarantineFileName(id, hash) == <<id, hash>>

(* moveFile(src, dst): path to body when quarantining, body to path when restoring. *)
BodyOf(o) == quarantineFileName(o.id, o.hash)
Src(o)    == IF o.kind = "quarantine" THEN o.path ELSE BodyOf(o)
Dst(o)    == IF o.kind = "quarantine" THEN BodyOf(o) ELSE o.path

(* Inodes that no entry and no open file refers to: the next file created gets one. *)
Free == Inode \ ({at[l] : l \in Loc} \cup {op[p].in : p \in Proc} \cup {op[p].out : p \in Proc})

Init ==
  /\ at     \in [Loc -> Inode \cup {None}]
  /\ \A n \in Name : at[n] = None
  /\ \A f, g \in Path : at[f] = at[g] => f = g
  /\ \A f \in Path : at[f] # None
  /\ data   \in [Inode -> Content]
  /\ exec   = Inode
  /\ rec    = [i \in Id |-> None]
  /\ nextId = 1
  /\ op     = [p \in Proc |-> Idle]

Begin(p, o) == op[p].pc = "idle" /\ op' = [op EXCEPT ![p] = o]
Goto(p, s)  == op' = [op EXCEPT ![p].pc = s]
Return(p)   == op' = [op EXCEPT ![p] = Idle]
At(p, s)    == op[p].pc = s

-----------------------------------------------------------------------------
(* The prompt that scan and review share (prompt.Resolve). *)

(* Mutant: matches whatever the file holds. *)
Match_NoLookup(p, f) ==
  /\ at[f] # None
  /\ Begin(p, [Idle EXCEPT !.pc = "prompt", !.path = f, !.hash = data[at[f]]])
  /\ UNCHANGED <<at, data, exec, rec, nextId>>

(* ScanFile found a known-bad digest and the prompt waits for an answer. *)
Match(p, f) ==
  /\ at[f] # None /\ data[at[f]] \in Bad
  /\ Begin(p, [Idle EXCEPT !.pc = "prompt", !.path = f, !.hash = data[at[f]]])
  /\ UNCHANGED <<at, data, exec, rec, nextId>>

(* Answer d, confirmed: os.Remove of whatever the path names by now. *)
DeleteFile(p) ==
  /\ At(p, "prompt") /\ at[op[p].path] # None
  /\ at' = [at EXCEPT ![op[p].path] = None]
  /\ Return(p)
  /\ UNCHANGED <<data, exec, rec, nextId>>

(* Mutant: ids without AUTOINCREMENT, an id is free once its row is deleted. *)
InsertRow_ReusedId(p) ==
  /\ At(p, "prompt")
  /\ \E i \in Id :
       /\ rec[i] = None /\ \A j \in 1 .. (i - 1) : rec[j] # None
       /\ rec' = [rec EXCEPT ![i] =
                     [path |-> op[p].path, hash |-> op[p].hash, restored |-> FALSE]]
       /\ nextId' = i + 1
       /\ op' = [op EXCEPT ![p] = [@ EXCEPT !.kind = "quarantine", !.pc = "move", !.id = i]]
  /\ UNCHANGED <<at, data, exec>>

(* Answer q: Quarantine inserts the row first, with the next id. *)
InsertRow(p) ==
  /\ At(p, "prompt") /\ nextId <= MaxId
  /\ rec' = [rec EXCEPT ![nextId] =
                [path |-> op[p].path, hash |-> op[p].hash, restored |-> FALSE]]
  /\ nextId' = nextId + 1
  /\ op' = [op EXCEPT ![p] = [@ EXCEPT !.kind = "quarantine", !.pc = "move", !.id = nextId]]
  /\ UNCHANGED <<at, data, exec>>

-----------------------------------------------------------------------------
(* moveFile, in the middle of Quarantine and of Restore. *)

(* os.Rename replaces the destination if there is one. *)
Rename(p) ==
  /\ At(p, "move") /\ op[p].path \in Renamable /\ at[Src(op[p])] # None
  /\ at' = [at EXCEPT ![Dst(op[p])] = at[Src(op[p])], ![Src(op[p])] = None]
  /\ Goto(p, "finish")
  /\ UNCHANGED <<data, exec, rec, nextId>>

(* Rename refused: os.Open of the source ... *)
OpenSrc(p) ==
  /\ At(p, "move") /\ op[p].path \notin Renamable /\ at[Src(op[p])] # None
  /\ op' = [op EXCEPT ![p] = [@ EXCEPT !.pc = "create", !.in = at[Src(op[p])]]]
  /\ UNCHANGED <<at, data, exec, rec, nextId>>

(* ... then os.OpenFile of the destination, created or truncated in place ... *)
CreateDst(p) ==
  /\ At(p, "create")
  /\ \E i \in IF at[Dst(op[p])] = None THEN Free ELSE {at[Dst(op[p])]} :
       /\ at'   = [at EXCEPT ![Dst(op[p])] = i]
       /\ data' = [data EXCEPT ![i] = Torn]
       /\ exec' = IF at[Dst(op[p])] = None THEN exec \ {i} ELSE exec
       /\ op'   = [op EXCEPT ![p] = [@ EXCEPT !.pc = "copy", !.out = i]]
  /\ UNCHANGED <<rec, nextId>>

(* ... then io.Copy between the two open files ... *)
CopyData(p) ==
  /\ At(p, "copy")
  /\ data' = [data EXCEPT ![op[p].out] = data[op[p].in]]
  /\ Goto(p, "unlink")
  /\ UNCHANGED <<at, exec, rec, nextId>>

(* Mutant: the source is removed before its content is copied. *)
UnlinkSrc_BeforeCopy(p) ==
  /\ At(p, "copy") /\ at[Src(op[p])] # None
  /\ at' = [at EXCEPT ![Src(op[p])] = None]
  /\ Goto(p, "finish")
  /\ UNCHANGED <<data, exec, rec, nextId>>

(* ... and os.Remove of whatever the source path names by now. *)
UnlinkSrc(p) ==
  /\ At(p, "unlink") /\ at[Src(op[p])] # None
  /\ at' = [at EXCEPT ![Src(op[p])] = None]
  /\ Goto(p, "finish")
  /\ UNCHANGED <<data, exec, rec, nextId>>

(* Quarantine ends with os.Chmod of the body to 0600. *)
Chmod(p) ==
  /\ At(p, "finish") /\ op[p].kind = "quarantine" /\ at[BodyOf(op[p])] # None
  /\ exec' = exec \ {at[BodyOf(op[p])]}
  /\ Return(p)
  /\ UNCHANGED <<at, data, rec, nextId>>

-----------------------------------------------------------------------------
(* avtool quarantine restore and purge. *)

(* Mutant: the row is marked before the file is moved. *)
SelectRestore_MarksFirst(p, i) ==
  /\ rec[i] # None /\ ~rec[i].restored
  /\ Begin(p, [Idle EXCEPT !.kind = "restore", !.pc = "move", !.id = i,
                           !.path = rec[i].path, !.hash = rec[i].hash])
  /\ rec' = [rec EXCEPT ![i].restored = TRUE]
  /\ UNCHANGED <<at, data, exec, nextId>>

(* Restore reads the row and refuses a restored one. *)
SelectRestore(p, i) ==
  /\ rec[i] # None /\ ~rec[i].restored
  /\ Begin(p, [Idle EXCEPT !.kind = "restore", !.pc = "move", !.id = i,
                           !.path = rec[i].path, !.hash = rec[i].hash])
  /\ UNCHANGED <<at, data, exec, rec, nextId>>

(* After the move: UPDATE ... SET restored = 1, of no row if it was purged meanwhile. *)
MarkRestored(p) ==
  /\ At(p, "finish") /\ op[p].kind = "restore"
  /\ rec' = IF rec[op[p].id] = None THEN rec ELSE [rec EXCEPT ![op[p].id].restored = TRUE]
  /\ Return(p)
  /\ UNCHANGED <<at, data, exec, nextId>>

(* Mutant: the test of restored is inverted. *)
SelectPurge_Inverted(p, i) ==
  /\ rec[i] # None
  /\ Begin(p, [Idle EXCEPT !.kind = "purge", !.id = i, !.hash = rec[i].hash,
                           !.pc = IF rec[i].restored THEN "remove" ELSE "delete"])
  /\ UNCHANGED <<at, data, exec, rec, nextId>>

(* Purge reads the row; the body of a restored record is not looked for. *)
SelectPurge(p, i) ==
  /\ rec[i] # None
  /\ Begin(p, [Idle EXCEPT !.kind = "purge", !.id = i, !.hash = rec[i].hash,
                           !.pc = IF rec[i].restored THEN "delete" ELSE "remove"])
  /\ UNCHANGED <<at, data, exec, rec, nextId>>

(* os.Remove of the body; a body that does not exist is not an error. *)
RemoveBody(p) ==
  /\ At(p, "remove")
  /\ at' = [at EXCEPT ![BodyOf(op[p])] = None]
  /\ Goto(p, "delete")
  /\ UNCHANGED <<data, exec, rec, nextId>>

DeleteRow(p) ==
  /\ At(p, "delete")
  /\ rec' = [rec EXCEPT ![op[p].id] = None]
  /\ Return(p)
  /\ UNCHANGED <<at, data, exec, nextId>>

-----------------------------------------------------------------------------
(* Every early return (answers i and r, a failed call) and every kill: what *)
(* the process knew is lost and nothing it did is undone.                   *)
Abort(p) ==
  /\ op[p].pc # "idle"
  /\ Return(p)
  /\ UNCHANGED <<at, data, exec, rec, nextId>>

(* Another program replaces a file. *)
UserWrite(f, c) ==
  /\ \E i \in Free : /\ at'   = [at EXCEPT ![f] = i]
                     /\ data' = [data EXCEPT ![i] = c]
                     /\ exec' = exec \cup {i}
  /\ UNCHANGED <<rec, nextId, op>>

Command(p) ==
  \/ \E f \in Path : Match(p, f)
  \/ DeleteFile(p) \/ InsertRow(p)
  \/ Rename(p) \/ OpenSrc(p) \/ CreateDst(p) \/ CopyData(p) \/ UnlinkSrc(p) \/ Chmod(p)
  \/ \E i \in Id : SelectRestore(p, i) \/ SelectPurge(p, i)
  \/ MarkRestored(p) \/ RemoveBody(p) \/ DeleteRow(p)
  \/ Abort(p)

Next ==
  \/ \E p \in Proc : Command(p)
  \/ \E f \in Edited, c \in Content : UserWrite(f, c)

Spec == Init /\ [][Next]_vars

-----------------------------------------------------------------------------
(* What the store promises. *)

(* The row of a restored file and its body exclude each other: Purge relies  *)
(* on it when it does not look for the body of a restored record, which      *)
(* would otherwise stay in the directory with no row to find it by.          *)
RestoredBodyGone ==
  \A i \in Id : rec[i] # None /\ rec[i].restored => at[quarantineFileName(i, rec[i].hash)] = None

(* moveFile overwrites its destination without asking.  A quarantine about   *)
(* to move never finds a body under the name it chose, whatever was          *)
(* quarantined, restored or purged before it or runs beside it.              *)
DestinationFree ==
  \A p \in Proc : op[p].kind = "quarantine" /\ op[p].pc \in {"move", "create"}
                   => at[Dst(op[p])] = None

(* Every body has the row that restore and purge need to reach it: Quarantine *)
(* inserts before it moves and Purge removes before it deletes, so no crash   *)
(* in between leaves a body without its row.                                  *)
NoOrphanBody ==
  \A n \in Name : at[n] # None => rec[n[1]] # None /\ rec[n[1]].hash = n[2]

(* How far a record is, seen from outside. *)
HasBody(i)  == \E h \in Content : at[quarantineFileName(i, h)] # None
HasMover(i) == \E p \in Proc : /\ op[p].kind = "quarantine" /\ op[p].id = i
                               /\ op[p].pc \in {"move", "create"}
WithRow(i)    == IF HasBody(i) THEN "held"   ELSE IF HasMover(i) THEN "coming" ELSE "left"
WithoutRow(i) == IF HasBody(i) THEN "orphan" ELSE IF HasMover(i) THEN "doomed" ELSE "purged"
Phase(i) ==
  IF i >= nextId THEN "unused"
  ELSE IF rec[i] = None THEN WithoutRow(i)
  ELSE IF rec[i].restored THEN "restored" ELSE WithRow(i)

L == INSTANCE Lifecycle WITH phase <- [i \in Id |-> Phase(i)]

(* The store implements Lifecycle: no step of any command, finished, failed  *)
(* or killed, takes a record from one phase to another but along its edges.  *)
RecordsLive == L!Spec

-----------------------------------------------------------------------------
(* What makes the first two inductive, for any number of processes. *)

(* Where a process is tells what it has read. *)
OpShape ==
  \A p \in Proc : LET o == op[p] IN
    /\ o.pc = "idle" => o = Idle
    /\ o.pc = "prompt" => o.kind = "none" /\ o.id = None /\ o.path \in Path /\ o.hash \in Content
    /\ o.pc \in {"move", "create", "copy", "unlink", "finish"} =>
         o.kind \in {"quarantine", "restore"} /\ o.id \in Id /\ o.path \in Path /\ o.hash \in Content
    /\ o.pc \in {"create", "copy", "unlink"} => o.in \in Inode
    /\ o.pc = "copy" => o.out \in Inode
    /\ o.pc \in {"remove", "delete"} => o.kind = "purge" /\ o.id \in Id /\ o.hash \in Content

(* An id that AUTOINCREMENT has not given out is used nowhere. *)
IdsFresh ==
  \A i \in Id : i >= nextId => /\ rec[i] = None
                               /\ \A h \in Content : at[<<i, h>>] = None
                               /\ \A p \in Proc : op[p].id # i

(* Commands and rows of one id speak of one digest, hence of one body. *)
HashAgrees ==
  \A p \in Proc : op[p].id # None =>
    /\ rec[op[p].id] # None => rec[op[p].id].hash = op[p].hash
    /\ \A q \in Proc : op[q].id = op[p].id => op[q].hash = op[p].hash

(* Only the process that inserted a row moves a file in under its id. *)
OneMover ==
  \A p, q \in Proc : /\ op[p].kind = "quarantine" /\ op[q].kind = "quarantine"
                     /\ op[p].id = op[q].id
                     => p = q

(* Until it has, nobody has restored that id or moved anything out of it ... *)
NotYetMovedIn ==
  \A p \in Proc : op[p].kind = "quarantine" /\ op[p].pc \in {"move", "create"} =>
    /\ rec[op[p].id] # None => ~rec[op[p].id].restored
    /\ \A q \in Proc : op[q].kind = "restore" /\ op[q].id = op[p].id => op[q].pc = "move"

(* ... and a restore that has moved the body out has left none. *)
MovedOut ==
  \A p \in Proc : op[p].kind = "restore" /\ op[p].pc = "finish" => at[BodyOf(op[p])] = None

(* No command finds the bodies of the files quarantined before it, or beside *)
(* it, in its way, and a row that says restored has none: the inductive      *)
(* invariant of the store.                                                   *)
StoreInv ==
  /\ Types /\ OpShape /\ IdsFresh /\ HashAgrees /\ OneMover
  /\ NotYetMovedIn /\ MovedOut /\ DestinationFree /\ RestoredBodyGone

(* With one process, the row outlives the body from the first step of        *)
(* Quarantine to the last of Purge.                                          *)
RowOutlivesBody ==
  /\ NoOrphanBody
  /\ \A p \in Proc : op[p].kind = "quarantine" => rec[op[p].id] # None
  /\ \A p \in Proc : op[p].pc = "delete" => at[BodyOf(op[p])] = None

(* Complete contents that some directory entry still leads to. *)
Live == {c \in Content : \E l \in Loc : at[l] # None /\ data[at[l]] = c}

(* A process that is about to destroy what the user agreed to destroy: the   *)
(* answer d, a purge, or a restore over a path that is occupied again.       *)
Consented(o) ==
  \/ o.pc \in {"prompt", "remove"}
  \/ o.kind = "restore" /\ o.pc \in {"move", "create"} /\ at[o.path] # None

(* No content vanishes but by such a step or by the user's own edit: a       *)
(* quarantine or a restore that fails or is killed anywhere leaves the file  *)
(* at one end of the move at least.                                          *)
LossOnlyByConsent ==
  [][Live \subseteq Live' \/ op' = op \/ \E p \in Proc : Consented(op[p]) /\ op'[p] # op[p]]_vars

-----------------------------------------------------------------------------
(* What the documents say and the code does not do. *)

(* "the DB row is the source of truth for original path and status": with no *)
(* command running, an unrestored row is a file in quarantine.               *)
RowTellsStatus ==
  (\A p \in Proc : op[p].pc = "idle") =>
    \A i \in Id : rec[i] # None /\ ~rec[i].restored => at[quarantineFileName(i, rec[i].hash)] # None

(* "quarantine then restore reproduces original file and path": a move out   *)
(* of quarantine that succeeds leaves the recorded content at the path.      *)
RestoreReproduces ==
  [][\A p \in Proc : op[p].kind = "restore" /\ op[p].pc # "finish" /\ op'[p].pc = "finish"
                      => at'[op[p].path] # None /\ data'[at'[op[p].path]] = op[p].hash]_vars

(* "Never act on a Match whose hash doesn't match what's on disk right now": *)
(* the file that a prompt's answer takes off its path is the one matched.    *)
ActsOnMatchedContent ==
  [][\A p \in Proc : /\ op[p].pc \in {"prompt", "move", "unlink"} /\ op[p].kind # "restore"
                     /\ op'[p] # op[p]
                     /\ at[op[p].path] # None /\ at'[op[p].path] = None
                      => data[at[op[p].path]] = op[p].hash]_vars

(* "strips the execute bit": with no command running, no file in quarantine  *)
(* can be executed.                                                          *)
QuarantinedNotExecutable ==
  (\A p \in Proc : op[p].pc = "idle") =>
    \A n \in Name : at[n] # None => at[n] \notin exec
=============================================================================
