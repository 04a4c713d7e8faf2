--------------------------- MODULE WyomingServer ----------------------------
(***************************************************************************)
(* wyoming_server_run and wyoming_server_stop (src/src/server.c) around    *)
(* handle_client (ClientHandler): one thread waits for the listening       *)
(* socket and the stop pipe, and serves one connection at a time to its    *)
(* end.  stop is called from another thread or from a signal handler, at   *)
(* any moment: before run, between two of its steps, after it.             *)
(*                                                                         *)
(* Both builds are here: epoll reports the ready descriptors in any order, *)
(* the poll fallback looks at the stop pipe first.                         *)
(***************************************************************************)
EXTENDS ClientHandler

CONSTANTS
  UseEpoll,                 \* HAVE_EPOLL
  MaxStops,                 \* bound on the calls of wyoming_server_stop
  MaxRuns,                  \* bound on the calls of wyoming_server_run
  MaxConns                  \* bound on the clients that connect

ASSUME ServerAssumption ==
  /\ UseEpoll \in BOOLEAN
  /\ MaxStops \in Nat
  /\ MaxRuns \in Nat
  /\ MaxConns \in Nat

VARIABLES
  pipe,                     \* the stop pipe holds a byte; nobody reads it
  stopper,                  \* a stop has cleared running, not yet written
  runpc,                    \* where wyoming_server_run is
  ready,                    \* events[i ..] of the last epoll_wait or poll
  backlog,                  \* clients waiting to be accepted
  stops, runs, conns,       \* history: calls of stop, of run, connects
  pending,                  \* history: a stop that has ended no run yet
  admitted                  \* history: clients accepted with pipe set

stopVars == <<pipe, stopper, stops, pending>>
loopVars == <<runpc, ready, backlog, runs, conns, admitted>>
vars == <<handlerVars, stopVars, loopVars>>

\* After wyoming_server_create.  No connection: the handler is "closed".
Init ==
  /\ running = FALSE
  /\ pc = "closed"
  /\ FreshConnection
  /\ pipe = FALSE /\ stopper = FALSE
  /\ runpc = "idle"
  /\ ready = <<>>
  /\ backlog = 0
  /\ stops = 0 /\ runs = 0 /\ conns = 0
  /\ pending = FALSE
  /\ admitted = 0

-----------------------------------------------------------------------------
(* wyoming_server_stop.                                                    *)

StopClears ==
  /\ ~stopper
  /\ stops < MaxStops
  /\ stops' = stops + 1
  /\ stopper' = TRUE
  /\ running' = FALSE
  /\ pending' = TRUE
  /\ UNCHANGED <<connVars, pipe, loopVars>>

\* Mutant: the pipe is not written.
StopForgetsPipe ==
  /\ stopper
  /\ stopper' = FALSE
  /\ UNCHANGED <<handlerVars, pipe, stops, pending, loopVars>>

\* The pipe's write end does not block: when it is full the byte is lost,
\* and the pipe is as readable as before.
StopWrites ==
  /\ stopper
  /\ stopper' = FALSE
  /\ pipe' = TRUE
  /\ UNCHANGED <<handlerVars, stops, pending, loopVars>>

-----------------------------------------------------------------------------
(* wyoming_server_run.                                                     *)

\* Called; epoll_create1 may fail.
Run ==
  /\ runpc \in {"idle", "returned"}
  /\ runs < MaxRuns
  /\ runs' = runs + 1
  /\ \/ runpc' = "setup"
     \/ UseEpoll /\ runpc' = "returned"
  /\ admitted' = 0
  /\ UNCHANGED <<handlerVars, stopVars, ready, backlog, conns>>

\* running = 1, whatever it was.
SetRunning ==
  /\ runpc = "setup"
  /\ running' = TRUE
  /\ runpc' = "top"
  /\ UNCHANGED <<connVars, stopVars, ready, backlog, runs, conns, admitted>>

Top ==
  /\ runpc = "top"
  /\ runpc' = IF running THEN "wait" ELSE "returned"
  /\ pending' = (pending /\ running)
  /\ UNCHANGED <<handlerVars, pipe, stopper, stops, ready, backlog, runs,
                 conns, admitted>>

Readable == backlog > 0 \/ pipe

\* Mutant: the loop looks at the stop pipe only when no client waits.
OrdersClientFirst == IF backlog > 0 THEN {<<"listen">>} ELSE {<<"stop">>}

\* The orders in which the loop may look at the readable descriptors: epoll
\* reports both, in any order; the poll loop leaves when the pipe is readable.
Orders ==
  IF ~pipe THEN {<<"listen">>}
  ELSE IF backlog = 0 \/ ~UseEpoll THEN {<<"stop">>}
  ELSE {<<"listen", "stop">>, <<"stop", "listen">>}

Wait ==
  /\ runpc = "wait"
  /\ Readable
  /\ ready' \in Orders
  /\ runpc' = "batch"
  /\ UNCHANGED <<handlerVars, stopVars, backlog, runs, conns, admitted>>

\* Mutant: a wait that reports nothing ends the loop.
WaitTimeoutEnds ==
  /\ runpc = "wait"
  /\ ~Readable
  /\ running' = FALSE
  /\ runpc' = "top"
  /\ UNCHANGED <<connVars, stopVars, ready, backlog, runs, conns, admitted>>

\* One second without an event, or EINTR.
WaitTimeout ==
  /\ runpc = "wait"
  /\ ~Readable
  /\ runpc' = "top"
  /\ UNCHANGED <<handlerVars, stopVars, ready, backlog, runs, conns,
                 admitted>>

\* epoll_wait or poll fails otherwise: run returns, running stays set.
WaitFails ==
  /\ runpc = "wait"
  /\ runpc' = "returned"
  /\ UNCHANGED <<handlerVars, stopVars, ready, backlog, runs, conns,
                 admitted>>

\* The loop over the ready descriptors looks at one more; the poll build,
\* which has no such loop, does not test running again.
LooksOn == ready # <<>> /\ (running \/ ~UseEpoll)

BatchEnds ==
  /\ runpc = "batch"
  /\ ~LooksOn
  /\ runpc' = "top"
  /\ UNCHANGED <<handlerVars, stopVars, ready, backlog, runs, conns,
                 admitted>>

SeeStop ==
  /\ runpc = "batch"
  /\ LooksOn
  /\ Head(ready) = "stop"
  /\ running' = FALSE
  /\ runpc' = "top"
  /\ UNCHANGED <<connVars, stopVars, ready, backlog, runs, conns, admitted>>

SeeClient ==
  /\ runpc = "batch"
  /\ LooksOn
  /\ Head(ready) = "listen"
  /\ ready' = Tail(ready)
  /\ runpc' = "accept"
  /\ UNCHANGED <<handlerVars, stopVars, backlog, runs, conns, admitted>>

\* accept, and handle_client with a fresh iobuf and the 30 s timeout.
Accept ==
  /\ runpc = "accept"
  /\ backlog > 0
  /\ backlog' = backlog - 1
  /\ admitted' = IF pipe THEN admitted + 1 ELSE admitted
  /\ runpc' = "handle"
  /\ Open
  /\ UNCHANGED <<stopVars, ready, runs, conns>>

\* The client is gone (or there is no descriptor left for it).
AcceptFails ==
  /\ runpc = "accept"
  /\ backlog' \in {b \in 0 .. backlog : b >= backlog - 1}
  /\ runpc' = "batch"
  /\ UNCHANGED <<handlerVars, stopVars, ready, runs, conns, admitted>>

\* handle_client has returned; close(client_fd).
HandlerDone ==
  /\ runpc = "handle"
  /\ pc = "closed"
  /\ runpc' = "batch"
  /\ UNCHANGED <<handlerVars, stopVars, ready, backlog, runs, conns,
                 admitted>>

-----------------------------------------------------------------------------
Connect ==
  /\ conns < MaxConns
  /\ conns' = conns + 1
  /\ backlog' = backlog + 1
  /\ UNCHANGED <<handlerVars, stopVars, runpc, ready, runs, admitted>>

Loop ==
  \/ SetRunning \/ Top \/ Wait \/ WaitTimeout \/ BatchEnds \/ SeeStop
  \/ SeeClient \/ Accept \/ HandlerDone

Handle == Handler /\ UNCHANGED <<stopVars, loopVars>>

Client == Environment /\ UNCHANGED <<stopVars, loopVars>>

\* No call of run is in progress.
Rest == runpc \in {"idle", "returned"} /\ UNCHANGED vars

Next ==
  \/ StopClears \/ StopWrites
  \/ Run \/ Loop \/ WaitFails \/ AcceptFails
  \/ Handle
  \/ Client \/ Connect
  \/ Rest

Spec == Init /\ [][Next]_vars

(***************************************************************************)
(* The thread in run, the thread in stop and the clients' threads are      *)
(* scheduled.  A client reads what it is sent; it need not send anything.  *)
(***************************************************************************)
FairSpec ==
  /\ Spec
  /\ WF_vars(Loop) /\ WF_vars(Handle)
  /\ WF_vars(StopWrites)
  /\ WF_vars(PeerReads /\ UNCHANGED <<stopVars, loopVars>>)

-----------------------------------------------------------------------------
(* Properties.                                                             *)

\* Type correctness of the loop, and of the handler inside it.
TypeOK ==
  /\ HandlerTypeOK
  /\ pipe \in BOOLEAN /\ stopper \in BOOLEAN /\ pending \in BOOLEAN
  /\ runpc \in {"idle", "setup", "top", "wait", "batch", "accept", "handle",
                "returned"}
  /\ ready \in Seq({"listen", "stop"})
  /\ backlog \in Nat /\ backlog <= conns
  /\ stops \in 0 .. MaxStops
  /\ runs \in 0 .. MaxRuns
  /\ conns \in 0 .. MaxConns
  /\ admitted \in Nat

\* However stop races the start of run - which sets running again and so
\* forgets a stop that came first (server.c:262, 806) - few clients are
\* accepted once the pipe holds the byte: one that was reported before the
\* byte was written and, with epoll, one more that is reported together with
\* it and looked at first (server.c:817-838, 870-876).
StopAdmitsFew == admitted <= IF UseEpoll THEN 2 ELSE 1

\* run returns with no connection and no stream context left open, and it
\* serves a client only between its own start and its own return.
CleanReturn ==
  /\ pc # "closed" => runpc = "handle"
  /\ runpc \in {"idle", "returned"} => ctx \notin {"live", "final"}

\* run leaves its loop for a stop that has ended no run yet, and otherwise
\* only for the byte an earlier run's stop left in the pipe: no timeout,
\* signal, failed accept or ending client clears running (server.c:808-838,
\* 857-888).
ReturnsForAStop ==
  [][runpc = "top" /\ runpc' = "returned" => pending \/ (runs > 1 /\ pipe)]_vars

\* A stop is never lost: whether it comes before run, while run starts,
\* while it waits or while a client is being served, run returns.
StopEndsRun ==
  (stopper \/ pipe) ~> (runpc \in {"idle", "returned"} /\ ~stopper)

\* README.md:259: run "blocks until wyoming_server_stop()".
RunBlocksUntilStop ==
  [][runpc = "top" /\ runpc' = "returned" => pending]_vars

-----------------------------------------------------------------------------
(***************************************************************************)
(* The inductive invariants behind StopAdmitsFew and CleanReturn, and      *)
(* behind ReturnsForAStop (StopInv).                                       *)
(***************************************************************************)

\* The ready descriptors the loop may still hold, place by place.
ReadyInv ==
  /\ runpc = "batch" =>
       ready \in {<<>>, <<"listen">>, <<"stop">>}
                 \cup (IF UseEpoll THEN {<<"listen", "stop">>,
                                        <<"stop", "listen">>} ELSE {})
  /\ runpc \in {"accept", "handle"} =>
       ready \in {<<>>} \cup (IF UseEpoll THEN {<<"stop">>} ELSE {})

\* A batch without the stop pipe was collected before the byte was written;
\* the batch with it is the last one.
AdmitInv ==
  /\ admitted > 0 => pipe
  /\ runpc = "setup" => admitted = 0
  /\ runpc = "wait" \/ (runpc = "top" /\ running) => admitted <= 1
  /\ runpc = "batch" /\ ready # <<"stop">> => admitted <= 1
  /\ runpc = "batch" /\ ready = <<"listen">> => admitted = 0
  /\ runpc = "accept" => admitted <= Len(ready)
  /\ runpc = "handle" => admitted <= Len(ready) + 1

\* Where a byte in the pipe and a cleared running come from.
StopInv ==
  /\ pipe \/ stopper => stops > 0
  /\ runpc = "batch" /\ ready \notin {<<>>, <<"listen">>} => pipe
  /\ runpc \in {"accept", "handle"} /\ ready # <<>> => pipe
  /\ runpc \in {"top", "wait", "batch", "accept", "handle"} /\ ~running =>
       pending \/ pipe
  /\ runs = 0 => runpc = "idle"
  /\ runs <= 1 /\ stops > 0 => pending \/ runpc = "returned"

ServerInv ==
  /\ TypeOK
  /\ HandlerInv
  /\ CleanReturn
  /\ ReadyInv
  /\ AdmitInv
  /\ StopAdmitsFew

=============================================================================
