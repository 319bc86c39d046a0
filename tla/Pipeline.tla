------------------------------- MODULE Pipeline -------------------------------
(***************************************************************************)
(* avtool watch and avtool review together: Detections, extended with the   *)
(* event loop of Watcher that calls its handler.  A write of a file is an   *)
(* event for the one and new content for the other, the handler's scan and  *)
(* insert are steps of both, and a file that an answer takes away is an     *)
(* event again.                                                             *)
(***************************************************************************)
EXTENDS Detections

CONSTANTS Timer, MaxQueue,  \* as in Watcher
          MaxWrite          \* bound on the writes of a run

ASSUME PipelineAssumption ==
  MaxWrite \in Nat /\ MaxQueue \in Nat /\ None \notin Timer

VARIABLES events, dropped, error, timer, pending, loop, stop, unseen,  \* as in Watcher
          missed,  \* files the handler could not read or queue, or that were there before
          writes   \* how often a file has been written

watchVars == <<events, dropped, error, timer, pending, loop, stop, unseen>>
pipeVars  == <<vars, watchVars, missed, writes>>

W == INSTANCE Watcher

PipeInit == W!Init /\ Init /\ missed = Path /\ writes = 0

-----------------------------------------------------------------------------
(* A program writes a file in a watched directory. *)
WriteFile(p, c) ==
  /\ W!Write(p) /\ Write(p, c)
  /\ missed' = missed \ {p}
  /\ writes < MaxWrite /\ writes' = writes + 1

(* The loop on its own: events, timers, errors and the stop. *)
Loop ==
  /\ \/ \E p \in Path : W!Touch(p)
     \/ \E t \in Timer : W!Expire(t) \/ W!ArmTimer(t) \/ W!RecvFire(t)
     \/ W!IgnoreEvent \/ W!RecvError \/ W!Return \/ W!Stop
  /\ UNCHANGED vars /\ UNCHANGED <<missed, writes>>

(* Mutant: a path that has a pending row is not scanned again. *)
Scan_Once ==
  /\ W!Scan
  /\ \/ /\ loop'.pc = "report" /\ WatchScan(loop.path) /\ UNCHANGED <<missed, writes>>
     \/ /\ loop' = W!Select /\ UNCHANGED vars
        /\ missed' = IF file[loop.path] \in Bad /\ \A i \in Pending : rows[i].path # loop.path
                       THEN missed \cup {loop.path} ELSE missed
        /\ UNCHANGED writes

(* newFileHandler: a match goes on to the queue; a file that matches nothing *)
(* or cannot be read ends the call.                                          *)
Scan ==
  /\ W!Scan
  /\ \/ /\ loop'.pc = "report" /\ WatchScan(loop.path) /\ UNCHANGED <<missed, writes>>
     \/ /\ loop' = W!Select /\ UNCHANGED vars
        /\ missed' = IF file[loop.path] \in Bad THEN missed \cup {loop.path} ELSE missed
        /\ UNCHANGED writes

(* The INSERT and the notification; a failed INSERT is only printed. *)
Report ==
  /\ W!Report
  /\ \/ Enqueue /\ UNCHANGED <<missed, writes>>
     \/ EnqueueFails /\ missed' = missed \cup {p \in Path : <<"watch", p>> \in fresh} /\ UNCHANGED writes

(* A file that an answer takes away is an event, if the queue has room. *)
Announce ==
  LET gone == {p \in Path : file[p] # None /\ file'[p] = None} IN
  IF gone = {} \/ Len(events) >= MaxQueue THEN UNCHANGED watchVars ELSE \E p \in gone : W!Touch(p)

Reviewing(r) ==
  /\ Review(r) \/ ReadError(r) \/ AnswerFails(r)
  /\ Announce /\ UNCHANGED <<missed, writes>>

QuitReview(r) == EndReview(r) /\ UNCHANGED watchVars /\ UNCHANGED <<missed, writes>>

Scanning(s) ==
  /\ \/ StartScan(s) \/ EndScan(s)
     \/ \E p \in Path : WalkFile(s, p)
     \/ \E m \in scan[s].found : ScanFails(s, m) \/ \E a \in Answers : AnswerScan(s, m, a)
  /\ Announce /\ UNCHANGED <<missed, writes>>

PipeNext ==
  \/ \E p \in Path, c \in Content : WriteFile(p, c)
  \/ Loop \/ Scan \/ Report
  \/ \E r \in Reviewer : Reviewing(r) \/ QuitReview(r)
  \/ \E s \in Scanner : Scanning(s)

(* The fairness of the parts; the handler comes back. *)
Lifted(A) == A /\ UNCHANGED vars /\ UNCHANGED <<missed, writes>>

PipeFairness ==
  /\ \A t \in Timer : WF_pipeVars(Lifted(W!Expire(t))) /\ SF_pipeVars(Lifted(W!RecvFire(t)))
  /\ SF_pipeVars(Lifted(\E t \in Timer : W!ArmTimer(t))) /\ SF_pipeVars(Lifted(W!IgnoreEvent))
  /\ WF_pipeVars(Scan) /\ WF_pipeVars(Report)
  /\ \A r \in Reviewer : WF_pipeVars(Reviewing(r))

PipeSpec     == PipeInit /\ [][PipeNext]_pipeVars
PipeFairSpec == PipeSpec /\ PipeFairness

-----------------------------------------------------------------------------
(* The handler may be at it: an event or a timer of the running loop, or the *)
(* loop itself has the file, or the match found in it waits for its INSERT.  *)
OnItsWay(p) ==
  \/ p \in unseen /\ loop # W!Returned /\ (W!Announced(p) \/ W!Timed(p))
  \/ p \in unseen /\ loop = [pc |-> "scan", path |-> p]
  \/ loop = [pc |-> "report", path |-> p] /\ <<"watch", p>> \in fresh

(* From the write to the decision no bad file slips through: it is on its    *)
(* way to the queue, in it, or decided.  The exceptions are what the code    *)
(* only prints, a full kernel queue, a file that the handler or the review   *)
(* could not read, and a failed INSERT, and a watch that Ctrl+C has ended    *)
(* before it came to the file.                                               *)
NothingSlips ==
  \A p \in Path : file[p] \in Bad =>
    \/ OnItsWay(p)
    \/ fate[p] = "queued" /\ RowsOn(p, file[p]) # {}
    \/ fate[p] \in {"decided", "unread"}
    \/ p \in missed \cup dropped
    \/ p \in unseen /\ loop = W!Returned

(* A bad file that is left alone comes before the user and is decided, if    *)
(* reviews are run to their end and the answers do not fail for ever.        *)
ThreatIsDecided ==
  \A p \in Path :
    <>[][/\ \A c \in Content : ~WriteFile(p, c)
         /\ \A r \in Reviewer : ~QuitReview(r) /\ ~AnswerFails(r)]_pipeVars
    => (file[p] \in Bad /\ p \in unseen
          ~> file[p] \notin Bad \/ fate[p] \in {"decided", "unread"} \/ p \in missed \cup dropped \/ stop)
=============================================================================
