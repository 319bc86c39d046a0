---------------------------- MODULE WatcherProofs ----------------------------
(***************************************************************************)
(* WatchInv is inductive, for any number of files and timers and any       *)
(* capacity of the kernel's queue.                                         *)
(***************************************************************************)
EXTENDS Watcher, TLAPS

(* An event taken from the front announces one file; the rest stay announced. *)
LEMMA AfterHead ==
  ASSUME events \in Seq(Event), events # <<>>, events' = Tail(events),
         NEW p \in Path, Announced(p), Head(events) # [path |-> p, op |-> "write"]
  PROVE  Announced(p)'
<1>1. PICK i \in 1 .. Len(events) : events[i] = [path |-> p, op |-> "write"]
  BY DEF Announced
<1>2. i # 1
  BY <1>1
<1>3. i - 1 \in 1 .. Len(events') /\ events'[i - 1] = events[i]
  BY <1>1, <1>2
<1> QED BY <1>1, <1>3 DEF Announced

(* Appending to the queue announces what was announced before and the event. *)
LEMMA AfterAppend ==
  ASSUME events \in Seq(Event), NEW e \in Event, events' = Append(events, e)
  PROVE  /\ events' \in Seq(Event)
         /\ \A p \in Path : Announced(p) \/ e = [path |-> p, op |-> "write"] => Announced(p)'
  BY DEF Announced

(* Stopping the timer of a path touches no other timer. *)
LEMMA StoppedOne ==
  ASSUME NEW p
  PROVE  \A u \in Timer : Stopped(p)[u] = timer[u] \/ (u = pending[p] /\ Stopped(p)[u] = Unused)
<1> TAKE u \in Timer
<1>1. Stopped(p)[u] = IF u = pending[p] /\ timer[u].state = "armed" THEN Unused ELSE timer[u]
  BY DEF Stopped
<1> QED BY <1>1

(* At the start nothing is pending and no file is unscanned. *)
LEMMA WatchInit == Init => WatchInv
<1> SUFFICES ASSUME Init PROVE WatchInv
  OBVIOUS
<1>1. <<>> \in Seq(Event)
  OBVIOUS
<1> QED BY <1>1 DEF Init, WatchInv, TypeOK, PendingIsLive, NoLostWrite

(* Each action keeps the inductive invariant; one step for each. *)
LEMMA WatchNext == WatchInv /\ [Next]_vars => WatchInv'
<1> SUFFICES ASSUME WatchInv, [Next]_vars PROVE WatchInv'
  OBVIOUS
<1> USE WatcherAssumption DEF WatchInv, TypeOK, PendingIsLive, NoLostWrite
<1>1. ASSUME NEW p \in Path, Write(p) PROVE WatchInv'
  <2>1. CASE Len(events) < MaxQueue
    <3>1. [path |-> p, op |-> "write"] \in Event /\ events' = Append(events, [path |-> p, op |-> "write"])
      BY <1>1, <2>1 DEF Write, Event, Op
    <3> QED BY <1>1, <2>1, <3>1, AfterAppend DEF Write, Timed
  <2>2. CASE ~(Len(events) < MaxQueue)
    BY <1>1, <2>2 DEF Write, Timed, Announced
  <2> QED BY <2>1, <2>2
<1>2. ASSUME NEW p \in Path, Touch(p) PROVE WatchInv'
  <2>1. [path |-> p, op |-> "other"] \in Event /\ events' = Append(events, [path |-> p, op |-> "other"])
    BY <1>2 DEF Touch, Event, Op
  <2> QED BY <1>2, <2>1, AfterAppend DEF Touch, Timed
<1>3. ASSUME NEW t \in Timer, Expire(t) PROVE WatchInv'
  <2>1. timer[t] \in [path : Path, state : {"armed", "firing"}]
    BY <1>3 DEF Expire, Unused
  <2>2. \A u \in Timer : timer'[u].path = timer[u].path
    BY <1>3 DEF Expire, Unused
  <2> QED BY <1>3, <2>1, <2>2 DEF Expire, Timed, Announced
<1>4. ASSUME IgnoreEvent PROVE WatchInv'
  <2>1. \A p \in Path : Announced(p) => Announced(p)'
    <3>1. \A p \in Path : Head(events) # [path |-> p, op |-> "write"]
      BY <1>4 DEF IgnoreEvent
    <3>2. events # <<>> /\ events' = Tail(events)
      BY <1>4 DEF IgnoreEvent
    <3> QED BY <3>1, <3>2, AfterHead
  <2> QED BY <1>4, <2>1 DEF IgnoreEvent, Timed
<1>5. ASSUME NEW t \in Timer, ArmTimer(t) PROVE WatchInv'
  <2> DEFINE p == Head(events).path
  <2>1. p \in Path /\ Head(events) = [path |-> p, op |-> "write"] /\ events' \in Seq(Event)
    <3>1. events \in Seq(Event) /\ events # <<>> /\ events' = Tail(events) /\ Head(events).op = "write"
      BY <1>5 DEF ArmTimer
    <3>2. Head(events) \in Event
      BY <3>1
    <3> QED BY <3>1, <3>2 DEF Event
  <2>2. /\ timer' = [Stopped(p) EXCEPT ![t] = [path |-> p, state |-> "armed"]]
        /\ pending' = [pending EXCEPT ![p] = t]
        /\ UNCHANGED <<dropped, error, loop, stop, unseen>>
        /\ timer[t] = Unused /\ events # <<>> /\ events' = Tail(events) /\ loop = Select
    BY <1>5 DEF ArmTimer
  <2> HIDE DEF p
  <2>3. /\ timer'[t] = [path |-> p, state |-> "armed"]
        /\ \A u \in Timer \ {t} : timer'[u] = timer[u] \/ (u = pending[p] /\ timer'[u] = Unused)
    <3>1. timer' = [u \in Timer |-> IF u = t THEN [path |-> p, state |-> "armed"] ELSE Stopped(p)[u]]
      BY <2>2 DEF Stopped
    <3>2. \A u \in Timer : Stopped(p)[u] = timer[u] \/ (u = pending[p] /\ Stopped(p)[u] = Unused)
      BY StoppedOne
    <3> QED BY <3>1, <3>2
  <2>4. TypeOK'
    BY <2>1, <2>2, <2>3 DEF Stopped
  <2>5. PendingIsLive'
    <3> SUFFICES ASSUME NEW q \in Path, pending'[q] # None PROVE timer'[pending'[q]].path = q
      OBVIOUS
    <3>1. CASE q = p
      BY <2>1, <2>2, <2>3, <3>1
    <3>2. CASE q # p
      <4>1. pending'[q] = pending[q] /\ pending[q] \in Timer /\ timer[pending[q]].path = q
        BY <2>2, <3>2
      <4>2. pending[q] # t
        BY <2>2, <4>1 DEF Unused
      <4>3. pending[q] # pending[p]
        BY <2>1, <3>2, <4>1
      <4> QED BY <2>3, <4>1, <4>2, <4>3
    <3> QED BY <3>1, <3>2
  <2>6. NoLostWrite'
    <3> SUFFICES ASSUME NEW q \in unseen PROVE Announced(q)' \/ Timed(q)' \/ q \in dropped
      BY <2>2 DEF Select
    <3>1. CASE q = p
      BY <2>3, <3>1 DEF Timed
    <3>2. CASE q # p /\ Announced(q)
      <4>1. Head(events) # [path |-> q, op |-> "write"]
        <5>1. [path |-> p, op |-> "write"].path = p /\ [path |-> q, op |-> "write"].path = q
          OBVIOUS
        <5> QED BY <2>1, <3>2, <5>1
      <4> QED BY <2>2, <3>2, <4>1, AfterHead
    <3>3. CASE q # p /\ Timed(q)
      <4>1. PICK u \in Timer : timer[u].path = q
        BY <3>3 DEF Timed
      <4>2. u # t /\ u # pending[p]
        BY <2>1, <2>2, <3>3, <4>1 DEF Unused
      <4> QED BY <2>3, <4>1, <4>2 DEF Timed
    <3> QED BY <2>2, <3>1, <3>2, <3>3 DEF Select
  <2> QED BY <2>4, <2>5, <2>6
<1>6. ASSUME NEW t \in Timer, RecvFire(t) PROVE WatchInv'
  <2>1. timer[t].path \in Path
    BY <1>6 DEF RecvFire, Unused
  <2>2. TypeOK'
    BY <1>6, <2>1 DEF RecvFire, Unused
  <2>3. PendingIsLive'
    BY <1>6, <2>1 DEF RecvFire
  <2>4. NoLostWrite'
    BY <1>6, <2>1 DEF RecvFire, Timed, Announced, Select
  <2> QED BY <2>2, <2>3, <2>4
<1>7. ASSUME RecvError \/ Stop PROVE WatchInv'
  BY <1>7 DEF RecvError, Stop, Timed, Announced
<1>8. ASSUME Return PROVE WatchInv'
  BY <1>8 DEF Return, Timed, Announced, Select, Returned
<1>9. ASSUME Scan PROVE WatchInv'
  BY <1>9 DEF Scan, Timed, Announced, Select, Returned
<1>10. ASSUME Report PROVE WatchInv'
  BY <1>10 DEF Report, Timed, Announced, Select, Returned
<1>11. ASSUME UNCHANGED vars PROVE WatchInv'
  BY <1>11 DEF vars, Timed, Announced
<1> QED BY <1>1, <1>2, <1>3, <1>4, <1>5, <1>6, <1>7, <1>8, <1>9, <1>10, <1>11 DEF Next

(* No write is forgotten, for any number of files and timers. *)
THEOREM WatchSafe == Spec => []NoLostWrite
<1>1. WatchInv => NoLostWrite
  BY DEF WatchInv
<1> QED BY <1>1, WatchInit, WatchNext, PTL DEF Spec

(* The map of pending timers never refers to a timer that is gone. *)
THEOREM WatchMapSafe == Spec => []PendingIsLive
<1>1. WatchInv => PendingIsLive
  BY DEF WatchInv
<1> QED BY <1>1, WatchInit, WatchNext, PTL DEF Spec

(* Every variable of the watcher keeps its type, however many timers run.    *)
THEOREM WatchTypeCorrect == Spec => []TypeOK
<1>1. WatchInv => TypeOK
  BY DEF WatchInv
<1> QED BY <1>1, WatchInit, WatchNext, PTL DEF Spec
=============================================================================
