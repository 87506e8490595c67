------------------------- MODULE ServeUntilShutdown -------------------------
(***************************************************************************)
(* How the control plane stops: serveUntilShutdown runs the HTTP server in *)
(* a goroutine, waits for that goroutine or for the signal, shuts the      *)
(* server down within a timeout and closes the store.  The requests run in *)
(* goroutines of their own.  The server is Go's net/http: what its Serve   *)
(* and Shutdown do to connections is modelled from how they are used here. *)
(***************************************************************************)
EXTENDS Naturals, FiniteSets

CONSTANTS Connections   \* TCP connections that clients may open

VARIABLES
  pc,           \* where serveUntilShutdown is
  ctx_done,     \* a signal cancelled ctx
  serve,        \* the goroutine that calls Serve
  errCh,        \* what it sent: at most one error
  in_shutdown,  \* Shutdown was called
  conn,         \* the state of each connection
  store,        \* whether the store is open, closed, or failed to close
  result,       \* the error to return
  broken        \* history: connections with a request that found the store closed

vars == <<pc, ctx_done, serve, errCh, in_shutdown, conn, store, result, broken>>

ConnStates == {"none", "new", "active", "idle", "closed"}

ServeErrors == {"ErrServerClosed", "accept"}

Init ==
  /\ pc = "select"
  /\ ctx_done = FALSE
  /\ serve = "starting"
  /\ errCh = {}
  /\ in_shutdown = FALSE
  /\ conn = [c \in Connections |-> "none"]
  /\ store = "open"
  /\ result = "nil"
  /\ broken = {}

-----------------------------------------------------------------------------
(* signal.NotifyContext: SIGINT or SIGTERM, at any time. *)
Signal ==
  /\ ~ctx_done
  /\ ctx_done' = TRUE
  /\ UNCHANGED <<pc, serve, errCh, in_shutdown, conn, store, result, broken>>

(* The goroutine gets going; Serve returns at once after a Shutdown. *)
ServeStarts ==
  /\ serve = "starting"
  /\ IF in_shutdown
     THEN serve' = "returned" /\ errCh' = {"ErrServerClosed"}
     ELSE serve' = "accepting" /\ UNCHANGED errCh
  /\ UNCHANGED <<pc, ctx_done, in_shutdown, conn, store, result, broken>>

(* Serve returns: Shutdown closed its listener, or Accept failed. *)
ServeReturns(err) ==
  /\ serve = "accepting"
  /\ err = (IF in_shutdown THEN "ErrServerClosed" ELSE "accept")
  /\ serve' = "returned"
  /\ errCh' = {err}
  /\ UNCHANGED <<pc, ctx_done, in_shutdown, conn, store, result, broken>>

Accept(c) ==
  /\ pc # "done"
  /\ serve = "accepting" /\ ~in_shutdown
  /\ conn[c] = "none"
  /\ conn' = [conn EXCEPT ![c] = "new"]
  /\ UNCHANGED <<pc, ctx_done, serve, errCh, in_shutdown, store, result, broken>>

(* A request arrives; the process serves it until it exits. *)
RequestBegins(c) ==
  /\ pc # "done"
  /\ conn[c] \in {"new", "idle"}
  /\ conn' = [conn EXCEPT ![c] = "active"]
  /\ UNCHANGED <<pc, ctx_done, serve, errCh, in_shutdown, store, result, broken>>

(* The handler calls the store. *)
StoreCall(c) ==
  /\ pc # "done"
  /\ conn[c] = "active"
  /\ broken' = IF store = "open" THEN broken ELSE broken \cup {c}
  /\ UNCHANGED <<pc, ctx_done, serve, errCh, in_shutdown, conn, store, result>>

(* The reply is written; a server in shutdown keeps no connection alive. *)
RequestEnds(c) ==
  /\ pc # "done"
  /\ conn[c] = "active"
  /\ conn' = [conn EXCEPT ![c] = IF in_shutdown THEN "closed" ELSE "idle"]
  /\ UNCHANGED <<pc, ctx_done, serve, errCh, in_shutdown, store, result, broken>>

-----------------------------------------------------------------------------
(* Mutant: after Serve failed, the function waits for errCh once more. *)
SelectErrorWaitsAgain ==
  /\ pc = "select" /\ errCh # {}
  /\ errCh' = {}
  /\ result' = IF "accept" \in errCh THEN "accept" ELSE "nil"
  /\ pc' = "receive"
  /\ UNCHANGED <<ctx_done, serve, in_shutdown, conn, store, broken>>

(* select, case err := <-errCh *)
SelectError ==
  /\ pc = "select" /\ errCh # {}
  /\ errCh' = {}
  /\ result' = IF "accept" \in errCh THEN "accept" ELSE "nil"
  /\ pc' = "close"
  /\ UNCHANGED <<ctx_done, serve, in_shutdown, conn, store, broken>>

(* Mutant: the store is closed when the signal arrives, before Shutdown. *)
SelectSignalClosesStore ==
  /\ pc = "select" /\ ctx_done
  /\ pc' = "shutdown"
  /\ in_shutdown' = TRUE
  /\ store' = "closed"
  /\ UNCHANGED <<ctx_done, serve, errCh, conn, result, broken>>

(* select, case <-ctx.Done(): Shutdown is called; when both cases are ready *)
(* either is taken.                                                         *)
SelectSignal ==
  /\ pc = "select" /\ ctx_done
  /\ pc' = "shutdown"
  /\ in_shutdown' = TRUE
  /\ UNCHANGED <<ctx_done, serve, errCh, conn, store, result, broken>>

(* Shutdown closes the idle connections, and those new for five seconds. *)
ShutdownPolls ==
  /\ pc = "shutdown"
  /\ \E new \in SUBSET {c \in Connections : conn[c] = "new"} :
       LET closed == new \cup {c \in Connections : conn[c] = "idle"} IN
       /\ closed # {}
       /\ conn' = [c \in Connections |-> IF c \in closed THEN "closed" ELSE conn[c]]
  /\ UNCHANGED <<pc, ctx_done, serve, errCh, in_shutdown, store, result, broken>>

(* Shutdown returns once every connection is closed; closing the listener *)
(* may have failed.                                                       *)
ShutdownReturns(err) ==
  /\ pc = "shutdown"
  /\ \A c \in Connections : conn[c] \in {"none", "closed"}
  /\ pc' = "receive"
  /\ result' = err
  /\ UNCHANGED <<ctx_done, serve, errCh, in_shutdown, conn, store, broken>>

(* shutdownTimeout passes first. *)
ShutdownTimesOut ==
  /\ pc = "shutdown"
  /\ pc' = "receive"
  /\ result' = "timeout"
  /\ UNCHANGED <<ctx_done, serve, errCh, in_shutdown, conn, store, broken>>

(* err := <-errCh, after Shutdown *)
ReceiveServeError ==
  /\ pc = "receive" /\ errCh # {}
  /\ errCh' = {}
  /\ result' = IF "accept" \in errCh /\ result = "nil" THEN "accept" ELSE result
  /\ pc' = "close"
  /\ UNCHANGED <<ctx_done, serve, in_shutdown, conn, store, broken>>

(* closer.Close() *)
CloseStore(outcome) ==
  /\ pc = "close"
  /\ store' = outcome
  /\ result' = IF outcome = "failed" /\ result = "nil" THEN "close" ELSE result
  /\ pc' = "return"
  /\ UNCHANGED <<ctx_done, serve, errCh, in_shutdown, conn, broken>>

(* serveUntilShutdown and Run return: the process exits. *)
Return ==
  /\ pc = "return"
  /\ pc' = "done"
  /\ UNCHANGED <<ctx_done, serve, errCh, in_shutdown, conn, store, result, broken>>

Main ==
  \/ SelectError \/ SelectSignal
  \/ \E err \in {"nil", "listener"} : ShutdownReturns(err)
  \/ ShutdownTimesOut
  \/ ReceiveServeError
  \/ \E outcome \in {"closed", "failed"} : CloseStore(outcome)
  \/ Return

Serve == ServeStarts \/ \E err \in ServeErrors : ServeReturns(err)

Next ==
  \/ Signal
  \/ Serve
  \/ \E c \in Connections : Accept(c) \/ RequestBegins(c) \/ StoreCall(c) \/ RequestEnds(c)
  \/ ShutdownPolls
  \/ Main

Spec == Init /\ [][Next]_vars

(* The goroutines of serveUntilShutdown run, and the timeout passes; a     *)
(* request may go on for ever, and Accept need not fail.                   *)
FairSpec ==
  /\ Spec
  /\ WF_vars(Main)
  /\ WF_vars(ServeStarts)
  /\ WF_vars(in_shutdown /\ Serve)

-----------------------------------------------------------------------------
(* The type of every variable. *)
TypeOK ==
  /\ pc \in {"select", "shutdown", "receive", "close", "return", "done"}
  /\ serve \in {"starting", "accepting", "returned"}
  /\ errCh \in SUBSET ServeErrors /\ Cardinality(errCh) <= 1
  /\ {ctx_done, in_shutdown} \subseteq BOOLEAN
  /\ conn \in [Connections -> ConnStates]
  /\ store \in {"open", "closed", "failed"}
  /\ result \in {"nil", "accept", "listener", "timeout", "close"}
  /\ broken \subseteq Connections

(* serveUntilShutdown takes the store away from a running request only if  *)
(* Shutdown ran out of time or Serve had failed: otherwise every request   *)
(* that began has ended with the store open (docs/shutdown.md: the server  *)
(* is shut down first, then the store is closed).                          *)
RequestsKeepTheirStore ==
  (broken # {} \/ (store # "open" /\ \E c \in Connections : conn[c] = "active"))
    => result \in {"timeout", "accept"}

(* After a signal, or once Serve has returned, serveUntilShutdown returns: *)
(* it never waits for an error that does not come, even if the signal      *)
(* comes before the goroutine has called Serve, or a request never ends.   *)
ShutdownReturnsEventually == (ctx_done \/ serve = "returned") ~> (pc = "done")
=============================================================================
