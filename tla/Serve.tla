-------------------------------- MODULE Serve --------------------------------
(***************************************************************************)
(* The end of avtool-web (cmd/avtool-web/main.go): serveGraceful runs the  *)
(* server in a goroutine, waits for its failure or for a signal, and then  *)
(* shuts it down within a timeout, while connections come, work and go.    *)
(* net/http is modelled from its use: its accept loop, the states of its   *)
(* connections, and Shutdown, which closes the listener, waits for the     *)
(* accept loop and then polls until no connection has work left.           *)
(*                                                                         *)
(* When main returns, the process ends with whatever it was doing.         *)
(***************************************************************************)
EXTENDS Naturals

CONSTANT Conn   \* connections open at once

VARIABLES main,      \* serveGraceful, and the error it returns
          listener,  \* the goroutine of ListenAndServe, which closes errCh when it is done
          failed,    \* ListenAndServe has failed
          errCh,     \* what the channel between them holds, of capacity 1
          stop,      \* signals waiting in the stop channel
          down,      \* the server's inShutdown
          deadline,  \* the context of Shutdown
          conn       \* the connections

vars == <<main, listener, failed, errCh, stop, down, deadline, conn>>

TypeOK ==
  /\ main     \in [pc : {"select", "shutdown", "wait", "drain", "returned"},
                   err : {"nil", "listen", "timeout"}]
  /\ listener \in {"start", "bind", "track", "accept", "accepted", "send", "close", "done"}
  /\ failed   \in BOOLEAN
  /\ errCh    \in {"nil", "listen"}
  /\ stop     \in 0 .. 1
  /\ down     \in BOOLEAN
  /\ deadline \in {"none", "running", "passed"}
  /\ conn     \in [Conn -> {"none", "new", "active", "idle"}]

Init ==
  /\ main = [pc |-> "select", err |-> "nil"]
  /\ listener = "start" /\ failed = FALSE /\ errCh = "nil"
  /\ stop = 0 /\ down = FALSE /\ deadline = "none"
  /\ conn = [c \in Conn |-> "none"]

Running == main.pc # "returned"
Closed  == listener = "done"
Busy    == {c \in Conn : conn[c] \in {"new", "active"}}

(* signal.Notify drops what does not fit: nobody reads a second signal. *)
Signal ==
  /\ Running /\ stop' = 1
  /\ UNCHANGED <<main, listener, failed, errCh, down, deadline, conn>>

-----------------------------------------------------------------------------
(* The goroutine.  ListenAndServe looks at inShutdown before it binds, when  *)
(* it registers the listener, and when Accept fails.                         *)

ListenStep(pc) ==
  /\ Running /\ listener' = pc
  /\ UNCHANGED <<main, stop, down, deadline>>

Start == /\ listener = "start"
         /\ ListenStep(IF down THEN "close" ELSE "bind")
         /\ UNCHANGED <<failed, errCh, conn>>

(* The port may be taken. *)
Bind == /\ listener = "bind"
        /\ (ListenStep("track") /\ UNCHANGED failed) \/ (ListenStep("send") /\ failed' = TRUE)
        /\ UNCHANGED <<errCh, conn>>

TrackListener == /\ listener = "track"
                 /\ ListenStep(IF down THEN "close" ELSE "accept")
                 /\ UNCHANGED <<failed, errCh, conn>>

(* A client connects; Conn bounds how many there are at once. *)
Accept == /\ listener = "accept" /\ ~down /\ \E c \in Conn : conn[c] = "none"
          /\ ListenStep("accepted")
          /\ UNCHANGED <<failed, errCh, conn>>

(* The connection is known to the server before the next Accept. *)
TrackConn(c) == /\ listener = "accepted" /\ conn[c] = "none"
                /\ conn' = [conn EXCEPT ![c] = "new"]
                /\ ListenStep("accept")
                /\ UNCHANGED <<failed, errCh>>

(* Accept fails: ErrServerClosed once the server is shutting down. *)
AcceptFails == /\ listener = "accept"
               /\ ListenStep(IF down THEN "close" ELSE "send") /\ failed' = (failed \/ ~down)
               /\ UNCHANGED <<errCh, conn>>

SendErr == /\ listener = "send"
           /\ errCh' = "listen"
           /\ ListenStep("close")
           /\ UNCHANGED <<failed, conn>>

CloseErrCh == /\ listener = "close"
              /\ ListenStep("done")
              /\ UNCHANGED <<failed, errCh, conn>>

-----------------------------------------------------------------------------
(* The connections and their handlers. *)

ConnStep(c, s) ==
  /\ Running /\ conn' = [conn EXCEPT ![c] = s]
  /\ UNCHANGED <<main, listener, failed, errCh, stop, down, deadline>>

Request(c) == conn[c] \in {"new", "idle"} /\ ConnStep(c, "active")

(* A connection is kept for another request unless the server is going down. *)
Respond(c) == /\ conn[c] = "active"
              /\ ConnStep(c, "none") \/ (~down /\ ConnStep(c, "idle"))

Leave(c) == conn[c] \in {"new", "idle"} /\ ConnStep(c, "none")

-----------------------------------------------------------------------------
(* serveGraceful. *)

MainStep(pc, err) ==
  /\ main' = [pc |-> pc, err |-> err]
  /\ UNCHANGED <<listener, failed, stop>>

(* The select: of the two cases that may be ready it takes either. *)
RecvErr ==
  /\ main.pc = "select" /\ (errCh # "nil" \/ Closed)
  /\ MainStep("returned", errCh)
  /\ UNCHANGED <<errCh, down, deadline, conn>>

RecvStop ==
  /\ main.pc = "select" /\ stop = 1
  /\ stop' = 0 /\ main' = [main EXCEPT !.pc = "shutdown"]
  /\ UNCHANGED <<listener, failed, errCh, down, deadline, conn>>

(* Mutant: Shutdown without a deadline. *)
Shutdown_NoDeadline ==
  /\ main.pc = "shutdown"
  /\ down' = TRUE
  /\ MainStep("wait", "nil")
  /\ UNCHANGED <<errCh, deadline, conn>>

Shutdown ==
  /\ main.pc = "shutdown"
  /\ down' = TRUE /\ deadline' = "running"
  /\ MainStep("wait", "nil")
  /\ UNCHANGED <<errCh, conn>>

(* The accept loop has ended; every poll closes the idle connections and     *)
(* those that have been new for 5 seconds, until no other is left.           *)
Poll ==
  /\ main.pc = "wait" /\ listener \notin {"accept", "accepted"}
  /\ \E old \in SUBSET {c \in Conn : conn[c] = "new"} :
       /\ conn' = [c \in Conn |-> IF conn[c] = "idle" \/ c \in old THEN "none" ELSE conn[c]]
       /\ MainStep(IF Busy \subseteq old THEN "drain" ELSE "wait", "nil")
  /\ UNCHANGED <<errCh, down, deadline>>

DeadlinePasses ==
  /\ Running /\ deadline = "running" /\ deadline' = "passed"
  /\ UNCHANGED <<main, listener, failed, errCh, stop, down, conn>>

(* Mutant: the error of Shutdown is dropped. *)
ShutdownFails_Dropped ==
  /\ main.pc = "wait" /\ deadline = "passed" /\ listener \notin {"accept", "accepted"}
  /\ MainStep("drain", "nil")
  /\ UNCHANGED <<errCh, down, deadline, conn>>

ShutdownFails ==
  /\ main.pc = "wait" /\ deadline = "passed" /\ listener \notin {"accept", "accepted"}
  /\ MainStep("returned", "timeout")
  /\ UNCHANGED <<errCh, down, deadline, conn>>

(* Mutant: nobody looks at the channel after Shutdown. *)
Drain_Skipped ==
  /\ main.pc = "drain"
  /\ MainStep("returned", "nil")
  /\ UNCHANGED <<errCh, down, deadline, conn>>

(* The channel is read until it is closed, for an error that came with the   *)
(* signal.                                                                   *)
Drain ==
  /\ main.pc = "drain" /\ (errCh # "nil" \/ Closed)
  /\ MainStep("returned", errCh)
  /\ UNCHANGED <<errCh, down, deadline, conn>>

Listen == Start \/ Bind \/ TrackListener \/ (\E c \in Conn : TrackConn(c)) \/ SendErr \/ CloseErrCh
Serve  == RecvErr \/ RecvStop \/ Shutdown \/ Poll \/ ShutdownFails \/ Drain

Next ==
  \/ Signal \/ Listen \/ Accept \/ AcceptFails \/ Serve \/ DeadlinePasses
  \/ \E c \in Conn : Request(c) \/ Respond(c) \/ Leave(c)

(* The two goroutines run and time passes; clients and handlers owe nothing. *)
Fairness ==
  /\ WF_vars(Listen) /\ WF_vars(AcceptFails /\ down)
  /\ WF_vars(RecvErr) /\ WF_vars(RecvStop) /\ WF_vars(Shutdown)
  /\ WF_vars(Poll) /\ WF_vars(ShutdownFails) /\ WF_vars(Drain)
  /\ WF_vars(DeadlinePasses)

Spec     == Init /\ [][Next]_vars
FairSpec == Spec /\ Fairness

-----------------------------------------------------------------------------
(* When serveGraceful returns nil, no request is cut: every connection that  *)
(* was accepted, also while the signal arrived, has been answered or was     *)
(* idle, and the accept loop is over.                                        *)
NilMeansClean ==
  main.pc = "returned" /\ main.err = "nil" => Busy = {} /\ listener = "done"

(* A failure of ListenAndServe is never taken for an orderly end, whichever  *)
(* of the select's cases was taken and whenever the signal came.             *)
ListenErrorSurfaces == failed /\ main.pc = "returned" => main.err # "nil"

(* A signal or a failed listener ends the server, even when a request hangs  *)
(* for ever.                                                                 *)
ServerEnds == (stop = 1 \/ failed) ~> main.pc = "returned"
=============================================================================
