----------------------------- MODULE ServeProofs -----------------------------
(***************************************************************************)
(* Proofs about Serve, for any number of connections.                      *)
(***************************************************************************)
EXTENDS Serve, TLAPS

(* The channel holds the error from the send on; without an error the        *)
(* goroutine ends only after Shutdown, and after Shutdown nothing accepts    *)
(* and no connection is left.                                                *)
EndInv ==
  /\ TypeOK
  /\ failed => listener = "send" \/ errCh # "nil"
  /\ listener \in {"close", "done"} /\ errCh = "nil" => down
  /\ down => main.pc \in {"wait", "drain", "returned"}
  /\ main.pc \in {"wait", "drain"} => down
  /\ main.pc = "drain" => listener \notin {"accept", "accepted"} /\ \A c \in Conn : conn[c] = "none"
  /\ main.pc # "returned" => main.err = "nil"
  /\ main.pc = "returned" /\ main.err = "nil" =>
       Busy = {} /\ listener = "done" /\ ~failed

(* The invariant holds at the start and every step keeps it. *)
LEMMA EndInvInductive == Spec => []EndInv
<1>1. ASSUME Init PROVE EndInv
  <2>1. failed \in BOOLEAN /\ ~failed /\ down \in BOOLEAN /\ ~down
    BY <1>1, Zenon DEF Init
  <2>2. /\ main = [pc |-> "select", err |-> "nil"] /\ listener = "start" /\ errCh = "nil"
        /\ stop = 0 /\ deadline = "none" /\ conn = [c \in Conn |-> "none"]
    BY <1>1, Zenon DEF Init
  <2> QED BY <2>1, <2>2 DEF EndInv, TypeOK
<1>2. ASSUME EndInv, [Next]_vars PROVE EndInv'
  <2>0. USE <1>2 DEF EndInv, TypeOK, Busy, Closed
  <2>1. CASE Signal BY <2>1 DEF Signal, Running
  <2>2. CASE Start BY <2>2 DEF Start, ListenStep, Running
  <2>3. CASE Bind
    <3>1. failed' = failed \/ (failed' \in BOOLEAN /\ failed' /\ listener' = "send")
      BY <2>3, Zenon DEF Bind, ListenStep
    <3>2. /\ Running /\ listener = "bind" /\ listener' \in {"track", "send"}
          /\ UNCHANGED <<main, errCh, stop, down, deadline, conn>>
      BY <2>3, Zenon DEF Bind, ListenStep
    <3> QED BY <3>1, <3>2 DEF Running
  <2>4. CASE TrackListener BY <2>4 DEF TrackListener, ListenStep, Running
  <2>5. CASE Accept BY <2>5 DEF Accept, ListenStep, Running
  <2>6. ASSUME NEW c \in Conn, TrackConn(c) PROVE EndInv'
    BY <2>6 DEF TrackConn, ListenStep, Running
  <2>7. CASE AcceptFails BY <2>7 DEF AcceptFails, ListenStep, Running
  <2>8. CASE SendErr BY <2>8 DEF SendErr, ListenStep, Running
  <2>9. CASE CloseErrCh BY <2>9 DEF CloseErrCh, ListenStep, Running
  <2>10. ASSUME NEW c \in Conn, Request(c) \/ Respond(c) \/ Leave(c) PROVE EndInv'
    BY <2>10 DEF Request, Respond, Leave, ConnStep, Running
  <2>11. CASE RecvErr BY <2>11 DEF RecvErr, MainStep
  <2>12. CASE RecvStop BY <2>12 DEF RecvStop
  <2>13. CASE Shutdown BY <2>13 DEF Shutdown, MainStep
  <2>14. CASE Poll
    <3>1. PICK old \in SUBSET {c \in Conn : conn[c] = "new"} :
            /\ conn' = [c \in Conn |-> IF conn[c] = "idle" \/ c \in old THEN "none" ELSE conn[c]]
            /\ main' = [pc |-> IF Busy \subseteq old THEN "drain" ELSE "wait", err |-> "nil"]
      BY <2>14 DEF Poll, MainStep
    <3>2. UNCHANGED <<listener, failed, stop, errCh, down, deadline>>
      BY <2>14 DEF Poll, MainStep
    <3>3. conn' \in [Conn -> {"none", "new", "active", "idle"}]
      BY <3>1
    <3>4. main'.pc = "drain" => \A c \in Conn : conn'[c] = "none"
      BY <3>1
    <3>5. /\ main' \in [pc : {"select", "shutdown", "wait", "drain", "returned"},
                       err : {"nil", "listen", "timeout"}]
          /\ main'.pc \in {"wait", "drain"} /\ main'.err = "nil"
      BY <3>1
    <3>6. main.pc = "wait" /\ listener \notin {"accept", "accepted"}
      BY <2>14 DEF Poll
    <3>7. TypeOK'
      BY <3>2, <3>3, <3>5
    <3> QED BY <3>2, <3>4, <3>5, <3>6, <3>7
  <2>15. CASE DeadlinePasses BY <2>15 DEF DeadlinePasses, Running
  <2>16. CASE ShutdownFails BY <2>16 DEF ShutdownFails, MainStep
  <2>17. CASE Drain BY <2>17 DEF Drain, MainStep
  <2>18. CASE UNCHANGED vars BY <2>18 DEF vars
  <2> QED BY <1>2, <2>1, <2>2, <2>3, <2>4, <2>5, <2>6, <2>7, <2>8, <2>9, <2>10, <2>11, <2>12,
             <2>13, <2>14, <2>15, <2>16, <2>17, <2>18 DEF Next, Listen, Serve
<1> QED BY <1>1, <1>2, PTL DEF Spec

(* serveGraceful returns nil only when every request has been answered and   *)
(* the accept loop is over, for any number of connections.                   *)
THEOREM ServeEndsClean == Spec => []NilMeansClean
<1>1. EndInv => NilMeansClean
  BY DEF EndInv, NilMeansClean
<1> QED BY <1>1, EndInvInductive, PTL

(* A failure of ListenAndServe always reaches the caller of serveGraceful.   *)
THEOREM ServeReportsFailure == Spec => []ListenErrorSurfaces
<1>1. EndInv => ListenErrorSurfaces
  BY DEF EndInv, ListenErrorSurfaces, TypeOK
<1> QED BY <1>1, EndInvInductive, PTL

(* The variables of Serve stay in their types. *)
THEOREM ServeTypeCorrect == Spec => []TypeOK
<1>1. EndInv => TypeOK
  BY DEF EndInv
<1> QED BY <1>1, EndInvInductive, PTL
=============================================================================
