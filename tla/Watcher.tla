------------------------------- MODULE Watcher -------------------------------
(***************************************************************************)
(* avtool watch: the event loop of internal/watcher and the file handler   *)
(* of cmd/avtool/watch.go.  One goroutine selects between the stop         *)
(* channel, the events and errors of fsnotify and the fire channel; every  *)
(* debounce timer that expires is a goroutine that blocks on the           *)
(* unbuffered fire channel until the loop takes it.  While the handler     *)
(* scans a file, events wait in the kernel's queue and timers keep expiring.*)
(*                                                                         *)
(* Time is not modelled: an armed timer may expire at any moment, and an   *)
(* event may reach the loop arbitrarily late.                              *)
(***************************************************************************)
EXTENDS Naturals, Sequences

CONSTANTS Path,      \* files in the watched directories
          Timer,     \* time.AfterFunc timers, collected and reused when nothing refers to them
          MaxQueue,  \* capacity of the kernel's event queue
          None

ASSUME WatcherAssumption == None \notin Timer \cup Path /\ MaxQueue \in Nat

Op    == {"write", "other"}       \* Write or Create; anything else
Event == [path : Path, op : Op]

VARIABLES events,   \* events the kernel holds, oldest first
          dropped,  \* paths with a write the full queue had no room for, since their last scan
          error,    \* the watcher has an error to deliver
          timer,    \* every timer's path and state
          pending,  \* the timer the loop remembers for each path
          loop,     \* where the loop is, and in the handler for which path
          stop,     \* the stop channel is closed
          unseen    \* files written since a scan last read them

vars == <<events, dropped, error, timer, pending, loop, stop, unseen>>

Select   == [pc |-> "select", path |-> None]
Returned == [pc |-> "returned", path |-> None]
Unused   == [path |-> None, state |-> "unused"]

TypeOK ==
  /\ events  \in Seq(Event)
  /\ dropped \in SUBSET Path
  /\ error   \in BOOLEAN
  /\ timer   \in [Timer -> {Unused} \cup [path : Path, state : {"armed", "firing"}]]
  /\ pending \in [Path -> Timer \cup {None}]
  /\ loop    \in {Select, Returned} \cup [pc : {"scan", "report"}, path : Path]
  /\ stop    \in BOOLEAN
  /\ unseen  \in SUBSET Path

Init ==
  /\ events = <<>> /\ dropped = {} /\ error = FALSE
  /\ timer = [t \in Timer |-> Unused]
  /\ pending = [p \in Path |-> None]
  /\ loop = Select /\ stop = FALSE
  /\ unseen = {}

-----------------------------------------------------------------------------
(* The file system and fsnotify. *)

(* A program writes, creates or renames into place a watched file. *)
Write(p) ==
  /\ unseen' = unseen \cup {p}
  /\ IF Len(events) < MaxQueue
       THEN events' = Append(events, [path |-> p, op |-> "write"]) /\ UNCHANGED <<dropped, error>>
       ELSE dropped' = dropped \cup {p} /\ error' = TRUE /\ UNCHANGED events
  /\ UNCHANGED <<timer, pending, loop, stop>>

(* A chmod, a removal, a rename away. *)
Touch(p) ==
  /\ Len(events) < MaxQueue
  /\ events' = Append(events, [path |-> p, op |-> "other"])
  /\ UNCHANGED <<dropped, error, timer, pending, loop, stop, unseen>>

(* SIGINT or SIGTERM closes the channel. *)
Stop ==
  /\ ~stop /\ stop' = TRUE
  /\ UNCHANGED <<events, dropped, error, timer, pending, loop, unseen>>

(* A timer expires and its goroutine blocks on fire. *)
Expire(t) ==
  /\ timer[t].state = "armed"
  /\ timer' = [timer EXCEPT ![t].state = "firing"]
  /\ UNCHANGED <<events, dropped, error, pending, loop, stop, unseen>>

-----------------------------------------------------------------------------
(* The cases of the select; Go takes any that is ready. *)

IgnoreEvent ==
  /\ loop = Select /\ events # <<>> /\ Head(events).op = "other"
  /\ events' = Tail(events)
  /\ UNCHANGED <<dropped, error, timer, pending, loop, stop, unseen>>

(* t.Stop() of the remembered timer (in vain if it has expired) and a new one. *)
Stopped(p) == [t \in Timer |-> IF t = pending[p] /\ timer[t].state = "armed" THEN Unused ELSE timer[t]]

(* Mutant: no new timer while one is remembered. *)
ArmTimer_OnlyOnce(t) ==
  /\ loop = Select /\ events # <<>> /\ Head(events).op = "write" /\ timer[t] = Unused
  /\ events' = Tail(events)
  /\ LET p == Head(events).path IN
       IF pending[p] = None
         THEN /\ timer'   = [timer EXCEPT ![t] = [path |-> p, state |-> "armed"]]
              /\ pending' = [pending EXCEPT ![p] = t]
         ELSE timer' = Stopped(p) /\ UNCHANGED pending
  /\ UNCHANGED <<dropped, error, loop, stop, unseen>>

ArmTimer(t) ==
  /\ loop = Select /\ events # <<>> /\ Head(events).op = "write" /\ timer[t] = Unused
  /\ events' = Tail(events)
  /\ LET p == Head(events).path IN
       /\ timer'   = [Stopped(p) EXCEPT ![t] = [path |-> p, state |-> "armed"]]
       /\ pending' = [pending EXCEPT ![p] = t]
  /\ UNCHANGED <<dropped, error, loop, stop, unseen>>

(* Mutant: the path stays in the map. *)
RecvFire_Kept(t) ==
  /\ loop = Select /\ timer[t].state = "firing"
  /\ timer' = [timer EXCEPT ![t] = Unused]
  /\ loop'  = [pc |-> "scan", path |-> timer[t].path]
  /\ UNCHANGED <<events, dropped, error, pending, stop, unseen>>

(* The path leaves the map, whichever of its timers the map held. *)
RecvFire(t) ==
  /\ loop = Select /\ timer[t].state = "firing"
  /\ timer'   = [timer EXCEPT ![t] = Unused]
  /\ pending' = [pending EXCEPT ![timer[t].path] = None]
  /\ loop'    = [pc |-> "scan", path |-> timer[t].path]
  /\ UNCHANGED <<events, dropped, error, stop, unseen>>

RecvError ==
  /\ loop = Select /\ error /\ error' = FALSE
  /\ UNCHANGED <<events, dropped, timer, pending, loop, stop, unseen>>

(* Mutant: stops only once no file is being debounced. *)
Return_WhenIdle ==
  /\ loop = Select /\ stop /\ \A p \in Path : pending[p] = None
  /\ loop' = Returned
  /\ UNCHANGED <<events, dropped, error, timer, pending, stop, unseen>>

Return ==
  /\ loop = Select /\ stop
  /\ loop' = Returned
  /\ UNCHANGED <<events, dropped, error, timer, pending, stop, unseen>>

-----------------------------------------------------------------------------
(* The handler, on the loop's own goroutine. *)

(* ScanFile reads the file; no match and a read error end the call. *)
Scan ==
  /\ loop.pc = "scan"
  /\ unseen'  = unseen \ {loop.path}
  /\ dropped' = dropped \ {loop.path}
  /\ loop' \in {Select, [loop EXCEPT !.pc = "report"]}
  /\ UNCHANGED <<events, error, timer, pending, stop>>

(* A match is queued and notified; either may fail, which is printed. *)
Report ==
  /\ loop.pc = "report"
  /\ loop' = Select
  /\ UNCHANGED <<events, dropped, error, timer, pending, stop, unseen>>

Next ==
  \/ \E p \in Path : Write(p) \/ Touch(p)
  \/ \E t \in Timer : Expire(t) \/ ArmTimer(t) \/ RecvFire(t)
  \/ IgnoreEvent \/ RecvError \/ Return \/ Stop \/ Scan \/ Report

(* Timers expire and the handler comes back; the select chooses at random    *)
(* among the ready cases, so a case that is ready again and again is taken.  *)
Fairness ==
  /\ \A t \in Timer : WF_vars(Expire(t)) /\ SF_vars(RecvFire(t))
  /\ SF_vars(\E t \in Timer : ArmTimer(t)) /\ SF_vars(IgnoreEvent)
  /\ SF_vars(RecvError) /\ SF_vars(Return)
  /\ WF_vars(Scan) /\ WF_vars(Report)

Spec     == Init /\ [][Next]_vars
FairSpec == Spec /\ Fairness

-----------------------------------------------------------------------------
(* The loop remembers only timers that are still to be received, each under  *)
(* its own path: t.Stop() never stops another file's timer and the map does  *)
(* not grow with the files seen.                                             *)
PendingIsLive ==
  \A p \in Path : pending[p] # None => timer[pending[p]].path = p

Announced(p) == \E i \in 1 .. Len(events) : events[i] = [path |-> p, op |-> "write"]
Timed(p)     == \E t \in Timer : timer[t].path = p

(* However writes, expiries, fires and a slow handler interleave, a file that *)
(* no scan has read since its last write has an event, a timer or the        *)
(* handler on its way to it, unless the kernel had no room for the event;    *)
(* once Ctrl+C has ended the loop, events and timers stay where they are.    *)
NoLostWrite ==
  \A p \in unseen : Announced(p) \/ Timed(p) \/ p \in dropped
                    \/ loop = [pc |-> "scan", path |-> p]

(* Type, map and coverage together are inductive. *)
WatchInv == TypeOK /\ PendingIsLive /\ NoLostWrite

(* A file that is left alone after a write is scanned, whatever happens to   *)
(* the others, unless avtool is stopped or the kernel dropped the event.     *)
SettledIsScanned ==
  \A p \in Path : <>[][~Write(p)]_vars
                  => (p \in unseen ~> p \notin unseen \/ stop \/ p \in dropped)

(* Ctrl+C ends the loop, even while files keep being written.                *)
StopReturns == stop ~> loop = Returned

-----------------------------------------------------------------------------
(* "Debounce write events (a file being written generates multiple events)   *)
(* before handing a settled file to internal/scanner": no file is handed     *)
(* over while a later write of it is still being debounced.                  *)
HandsOverSettled ==
  \A t \in Timer : loop.pc = "scan" /\ timer[t].path = loop.path => timer[t].state # "armed"
=============================================================================
