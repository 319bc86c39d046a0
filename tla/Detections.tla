----------------------------- MODULE Detections -----------------------------
(***************************************************************************)
(* From a match to the user's decision: the handler of avtool watch queues *)
(* detections (internal/detections), avtool review works through the queue *)
(* and avtool scan asks about what it finds itself.  The three are         *)
(* processes of their own on one database, and other programs write the    *)
(* files they look at.  What a quarantine does in detail is the subject of *)
(* Quarantine; here it takes the file away or fails.                       *)
(***************************************************************************)
EXTENDS Naturals, Sequences, FiniteSets, FiniteSetsExt

CONSTANTS Path,
          Content,   \* file contents; a digest stands for its content
          Bad,       \* those in the hash database
          Reviewer,  \* avtool review processes
          Scanner,   \* avtool scan processes
          MaxRow,    \* bound on the detections ever queued
          None

ASSUME DetectionsAssumption ==
  /\ Bad \subseteq Content /\ MaxRow \in Nat /\ None \notin Content \cup Path
  /\ Reviewer \cap Scanner = {} /\ "watch" \notin Reviewer \cup Scanner

Answers     == {"quarantine", "delete", "ignore", "report"}
Resolutions == Answers \cup {"skipped-stale"}

VARIABLES file,    \* what is at each path
          rows,    \* the detections table, by id
          watch,   \* the handler of avtool watch
          review,  \* each review: the rows it listed and the one it is at
          scan,    \* each scan: the paths left to walk and the matches left to ask about
          fresh,   \* the processes whose match is of the file that is at the path now
          fate     \* what became of the file that is at each path now

vars == <<file, rows, watch, review, scan, fresh, fate>>

Proc  == {"watch"} \cup Reviewer \cup Scanner
Row   == [path : Path, hash : Content, resolution : Resolutions \cup {None}]
Quiet == [pc |-> "idle", path |-> None, hash |-> None]
NoReview == [pc |-> "idle", todo |-> {}, resolution |-> None]
NoScan   == [pc |-> "idle", walk |-> {}, found |-> {}]

TypeOK ==
  /\ file   \in [Path -> Content \cup {None}]
  /\ rows   \in Seq(Row) /\ Len(rows) <= MaxRow
  /\ watch  \in [pc : {"idle", "enqueue"}, path : Path \cup {None}, hash : Bad \cup {None}]
  /\ review \in [Reviewer -> [pc : {"idle", "scan", "prompt", "resolve"},
                              todo : SUBSET (1 .. MaxRow), resolution : Resolutions \cup {None}]]
  /\ scan   \in [Scanner -> [pc : {"idle", "walk", "prompt"}, walk : SUBSET Path,
                             found : SUBSET (Path \X Bad)]]
  /\ fresh  \in SUBSET (Proc \X Path)
  /\ fate   \in [Path -> {"new", "queued", "decided", "unread"}]

Init ==
  /\ file \in [Path -> Content]
  /\ rows = <<>>
  /\ watch = Quiet
  /\ review = [r \in Reviewer |-> NoReview]
  /\ scan = [s \in Scanner |-> NoScan]
  /\ fresh = {}
  /\ fate = [p \in Path |-> "new"]

Pending    == {i \in DOMAIN rows : rows[i].resolution = None}
RowsOn(p, h) == {i \in Pending : rows[i].path = p /\ rows[i].hash = h}

(* Another program writes a file, or writes it again. *)
Write(p, c) ==
  /\ file'  = [file EXCEPT ![p] = c]
  /\ fate'  = [fate EXCEPT ![p] = "new"]
  /\ fresh' = {f \in fresh : f[2] # p}
  /\ UNCHANGED <<rows, watch, review, scan>>

-----------------------------------------------------------------------------
(* newFileHandler of avtool watch. *)

(* ScanFile: an error or no match ends the call, with nothing to do. *)
WatchScan(p) ==
  /\ watch.pc = "idle" /\ file[p] \in Bad
  /\ watch' = [pc |-> "enqueue", path |-> p, hash |-> file[p]]
  /\ fresh' = fresh \cup {<<"watch", p>>}
  /\ UNCHANGED <<file, rows, review, scan, fate>>

(* Enqueue inserts a row, whatever rows there are of this path. *)
Enqueue ==
  /\ watch.pc = "enqueue" /\ Len(rows) < MaxRow
  /\ rows' = Append(rows, [path |-> watch.path, hash |-> watch.hash, resolution |-> None])
  /\ fate' = IF <<"watch", watch.path>> \in fresh /\ fate[watch.path] = "new"
               THEN [fate EXCEPT ![watch.path] = "queued"] ELSE fate
  /\ fresh' = fresh \ {<<"watch", watch.path>>}
  /\ watch' = Quiet
  /\ UNCHANGED <<file, review, scan>>

(* A failed insert is printed; the watch may also be stopped here. *)
EnqueueFails ==
  /\ watch.pc = "enqueue"
  /\ watch' = Quiet
  /\ fresh' = fresh \ {<<"watch", watch.path>>}
  /\ UNCHANGED <<file, rows, review, scan, fate>>

-----------------------------------------------------------------------------
(* prompt.Resolve: what an answer does to the file, whatever is there by now. *)
Succeeds(a, p) == a \in {"quarantine", "delete"} => file[p] # None

(* The file found bad is the one decided about if it is still there. *)
Act(proc, a, p) ==
  /\ Succeeds(a, p)
  /\ file'  = IF a \in {"quarantine", "delete"} THEN [file EXCEPT ![p] = None] ELSE file
  /\ fate'  = IF <<proc, p>> \in fresh \/ a \in {"quarantine", "delete"}
                THEN [fate EXCEPT ![p] = "decided"] ELSE fate
  /\ fresh' = IF a \in {"quarantine", "delete"} THEN {f \in fresh : f[2] # p}
                                                ELSE fresh \ {<<proc, p>>}

(* No answer, or the action fails; a quarantine may fail when the file has   *)
(* already been moved.                                                       *)
ActFails(proc, p) ==
  \/ UNCHANGED <<file, fate>> /\ fresh' = fresh \ {<<proc, p>>}
  \/ /\ file[p] # None
     /\ file'  = [file EXCEPT ![p] = None]
     /\ fate'  = [fate EXCEPT ![p] = "decided"]
     /\ fresh' = {f \in fresh : f[2] # p}

-----------------------------------------------------------------------------
(* avtool review. *)

At(r, pc)  == review[r].pc = pc
Current(r) == Min(review[r].todo)

(* Mutant: the resolved rows are listed again. *)
ListPending_All(r) ==
  /\ At(r, "idle") /\ rows # <<>>
  /\ review' = [review EXCEPT ![r] = [pc |-> "scan", todo |-> DOMAIN rows, resolution |-> None]]
  /\ UNCHANGED <<file, rows, watch, scan, fresh, fate>>

(* The rows that are pending now, oldest first. *)
ListPending(r) ==
  /\ At(r, "idle") /\ Pending # {}
  /\ review' = [review EXCEPT ![r] = [pc |-> "scan", todo |-> Pending, resolution |-> None]]
  /\ UNCHANGED <<file, rows, watch, scan, fresh, fate>>

(* On with this row, to the next row, or the end. *)
OnRow(r, pc, a) ==
  review' = [review EXCEPT ![r] = [pc |-> pc, todo |-> review[r].todo, resolution |-> a]]

NextRow(r) ==
  LET left == review[r].todo \ {Current(r)} IN
  review' = [review EXCEPT ![r] =
    IF left = {} THEN NoReview ELSE [pc |-> "scan", todo |-> left, resolution |-> None]]

(* ScanFile again: a file that is gone, matches nothing or has another       *)
(* digest than the row is skipped ...                                        *)
Reverify(r) ==
  LET row == rows[Current(r)] IN
  /\ At(r, "scan")
  /\ IF file[row.path] \in Bad /\ file[row.path] = row.hash
       THEN /\ OnRow(r, "prompt", None)
            /\ fresh' = fresh \cup {<<r, row.path>>}
       ELSE /\ OnRow(r, "resolve", "skipped-stale")
            /\ UNCHANGED fresh
  /\ UNCHANGED <<file, rows, watch, scan, fate>>

(* ... and so is one that cannot be read just now. *)
ReadError(r) ==
  LET row == rows[Current(r)] IN
  /\ At(r, "scan") /\ file[row.path] # None
  /\ OnRow(r, "resolve", "skipped-stale")
  /\ fate' = IF file[row.path] = row.hash THEN [fate EXCEPT ![row.path] = "unread"] ELSE fate
  /\ UNCHANGED <<file, rows, watch, scan, fresh>>

Answer(r, a) ==
  LET row == rows[Current(r)] IN
  /\ At(r, "prompt")
  /\ Act(r, a, row.path)
  /\ OnRow(r, "resolve", a)
  /\ UNCHANGED <<rows, watch, scan>>

(* Mutant: an error of one row ends the review. *)
AnswerFails_Returns(r) ==
  /\ At(r, "prompt")
  /\ ActFails(r, rows[Current(r)].path)
  /\ review' = [review EXCEPT ![r] = NoReview]
  /\ UNCHANGED <<rows, watch, scan>>

(* An error is printed and the row stays pending. *)
AnswerFails(r) ==
  /\ At(r, "prompt")
  /\ ActFails(r, rows[Current(r)].path)
  /\ NextRow(r)
  /\ UNCHANGED <<rows, watch, scan>>

(* Mutant: every pending row of the path is resolved. *)
Resolve_ByPath(r) ==
  /\ At(r, "resolve")
  /\ rows' = [i \in DOMAIN rows |->
                IF rows[i].path = rows[Current(r)].path
                  THEN [rows[i] EXCEPT !.resolution = review[r].resolution] ELSE rows[i]]
  /\ NextRow(r)
  /\ UNCHANGED <<file, watch, scan, fresh, fate>>

(* detections.Resolve, of this row. *)
Resolve(r) ==
  /\ At(r, "resolve")
  /\ rows' = [rows EXCEPT ![Current(r)].resolution = review[r].resolution]
  /\ NextRow(r)
  /\ UNCHANGED <<file, watch, scan, fresh, fate>>

(* A failed UPDATE ends the review, a kill does at any point. *)
EndReview(r) ==
  /\ ~At(r, "idle")
  /\ review' = [review EXCEPT ![r] = NoReview]
  /\ fresh' = {f \in fresh : f[1] # r}
  /\ UNCHANGED <<file, rows, watch, scan, fate>>

-----------------------------------------------------------------------------
(* avtool scan: the whole walk first, then one prompt for every match. *)

StartScan(s) ==
  /\ scan[s].pc = "idle"
  /\ \E ps \in SUBSET Path \ {{}} :
       scan' = [scan EXCEPT ![s] = [pc |-> "walk", walk |-> ps, found |-> {}]]
  /\ UNCHANGED <<file, rows, watch, review, fresh, fate>>

(* A file that cannot be read is skipped. *)
WalkFile(s, p) ==
  /\ scan[s].pc = "walk" /\ p \in scan[s].walk
  /\ \E found \in {scan[s].found} \cup {scan[s].found \cup {<<p, c>>} : c \in Bad \cap {file[p]}},
        walk \in {scan[s].walk \ {p}} :
       /\ scan' = [scan EXCEPT ![s] =
            [walk |-> walk, found |-> found,
             pc |-> IF walk # {} THEN "walk" ELSE IF found = {} THEN "idle" ELSE "prompt"]]
       /\ fresh' = IF found # scan[s].found THEN fresh \cup {<<s, p>>} ELSE fresh
  /\ UNCHANGED <<file, rows, watch, review, fate>>

NextMatch(s, m) ==
  LET left == scan[s].found \ {m} IN
  scan' = [scan EXCEPT ![s] =
    IF left = {} THEN NoScan ELSE [pc |-> "prompt", walk |-> {}, found |-> left]]

(* The answer is printed; no row is touched. *)
AnswerScan(s, m, a) ==
  /\ scan[s].pc = "prompt" /\ m \in scan[s].found
  /\ Act(s, a, m[1])
  /\ NextMatch(s, m)
  /\ UNCHANGED <<rows, watch, review>>

ScanFails(s, m) ==
  /\ scan[s].pc = "prompt" /\ m \in scan[s].found
  /\ ActFails(s, m[1])
  /\ NextMatch(s, m)
  /\ UNCHANGED <<rows, watch, review>>

EndScan(s) ==
  /\ scan[s].pc # "idle"
  /\ scan' = [scan EXCEPT ![s] = NoScan]
  /\ fresh' = {f \in fresh : f[1] # s}
  /\ UNCHANGED <<file, rows, watch, review, fate>>

-----------------------------------------------------------------------------
Review(r) == \/ ListPending(r) \/ Reverify(r) \/ (\E a \in Answers : Answer(r, a)) \/ Resolve(r)

Next ==
  \/ \E p \in Path : WatchScan(p) \/ \E c \in Content : Write(p, c)
  \/ Enqueue \/ EnqueueFails
  \/ \E r \in Reviewer : Review(r) \/ ReadError(r) \/ AnswerFails(r) \/ EndReview(r)
  \/ \E s \in Scanner : \/ StartScan(s) \/ EndScan(s)
                        \/ \E p \in Path : WalkFile(s, p)
                        \/ \E m \in scan[s].found : \/ \E a \in Answers : AnswerScan(s, m, a)
                                                    \/ ScanFails(s, m)

(* The user runs review while rows are pending, and answers. *)
Fairness == \A r \in Reviewer : WF_vars(Review(r) \/ ReadError(r) \/ AnswerFails(r))

Spec     == Init /\ [][Next]_vars
FairSpec == Spec /\ Fairness

-----------------------------------------------------------------------------
(* A bad file that the watcher has queued stays in the queue until somebody  *)
(* has decided about that very file: no review of an older row of its path,  *)
(* no second review and no scan beside it takes its last pending row away.   *)
(* Only a review that cannot read the file does.                             *)
NoThreatForgotten ==
  \A p \in Path : fate[p] = "queued" /\ file[p] \in Bad => RowsOn(p, file[p]) # {}

(* The reviews that have listed the row and are not past it. *)
Holders(i) == {r \in Reviewer : i \in review[r].todo}

(* An answer in a row can be replaced only by a review that listed the row   *)
(* before the answer was stored, and once by each of them: no review that    *)
(* starts later holds the row, and whoever writes it lets go of it.  With    *)
(* one review at a time what the user answered stays for ever.               *)
ResolutionIsFinal ==
  [][\A i \in DOMAIN rows : rows[i].resolution # None =>
       /\ Holders(i)' \subseteq Holders(i)
       /\ rows'[i] # rows[i] => Holders(i)' # Holders(i)]_vars

(* A row that fails, again and again, keeps no other row from being resolved *)
(* as long as the user keeps running review.                                 *)
OneFailureBlocksNoOther ==
  \A i \in 1 .. MaxRow :
    <>[][\A r \in Reviewer : /\ ~EndReview(r)
                             /\ ~(At(r, "prompt") /\ Current(r) = i /\ AnswerFails(r))]_vars
    => (i \in Pending ~> i \notin Pending)

-----------------------------------------------------------------------------
(* What the documents say, or a user may expect, and the code does not do. *)

(* With two reviews at once it is not final: the second finds the file gone  *)
(* and writes "skipped-stale" over the user's answer.                        *)
AnswerNeverReplaced ==
  [][\A i \in DOMAIN rows : rows[i].resolution # None => rows'[i] = rows[i]]_vars

(* "quarantine: moves file via internal/quarantine, marks the                *)
(* detections-queue row (if any) resolved", "shared by scan and review": a   *)
(* quarantine out of scan leaves no pending row of the file behind.          *)
QuarantineResolvesRow ==
  [][\A s \in Scanner : \A m \in scan[s].found :
       AnswerScan(s, m, "quarantine") => RowsOn(m[1], m[2])' = {}]_vars
=============================================================================
