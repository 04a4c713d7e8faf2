------------------------ MODULE WyomingServer_proofs ------------------------
(***************************************************************************)
(* Proofs about WyomingServer: the handler keeps its invariant inside the  *)
(* server, connection after connection, and the loop keeps its own, for    *)
(* both builds and any number of stops, runs and clients.                  *)
(***************************************************************************)
EXTENDS WyomingServer, ClientHandler_proofs

\* A new server, before its first run.
LEMMA InitServerInv == Init => ServerInv
<1> SUFFICES ASSUME Init PROVE ServerInv
  OBVIOUS
<1>0. /\ running = FALSE /\ pipe = FALSE /\ stopper = FALSE /\ pending = FALSE
      /\ running \in BOOLEAN /\ pipe \in BOOLEAN /\ stopper \in BOOLEAN
      /\ pending \in BOOLEAN
  BY Zenon DEF Init
<1>1. HandlerInv
  <2> USE HandlerAssumption DEF Init, FreshConnection
  <2>1. HandlerTypeOK
    <3>1. /\ pc = "closed" /\ peer = "up" /\ room = OutCap /\ timeout = 30
          /\ todo = <<>> /\ gotStop = "no" /\ pcm = "null" /\ cap = 0 /\ total = 0
          /\ ctx = "none" /\ due = "nothing" /\ answer = <<>> /\ late = 0 /\ nread = 0
      BY Zenon
    <3>2. todo \in Seq(Responses) /\ answer \in Seq(Responses)
      BY <3>1
    <3> QED BY <1>0, <3>1, <3>2 DEF HandlerTypeOK, Pcs, StopKinds
  <2>2. AnswerInv
    BY DEF AnswerInv, Complete
  <2>3. ContextLifetime /\ PcmFits /\ TimeoutRestored /\ LateInv
    BY DEF ContextLifetime, PcmFits, TimeoutRestored, LateInv
  <2> QED BY <2>1, <2>2, <2>3 DEF HandlerInv
<1>2. TypeOK
  <2>1. /\ runpc = "idle" /\ ready = <<>> /\ backlog = 0 /\ stops = 0 /\ runs = 0
        /\ conns = 0 /\ admitted = 0
    BY Zenon DEF Init
  <2>2. ready \in Seq({"listen", "stop"})
    BY <2>1
  <2> QED BY <1>0, <1>1, <2>1, <2>2, ServerAssumption DEF TypeOK, HandlerInv
<1>3. CleanReturn /\ ReadyInv /\ AdmitInv /\ StopAdmitsFew
  BY DEF Init, FreshConnection, CleanReturn, ReadyInv, AdmitInv, StopAdmitsFew
<1> QED BY <1>1, <1>2, <1>3 DEF ServerInv

\* A handler that has returned stays returned.
LEMMA HandlerStaysClosed ==
  ASSUME Handler, pc = "closed"
  PROVE  pc' = "closed"
  BY DEF Handler, Write, NextEvent, LoopHead, RequestFails, Dispatch, Describe, Synthesize,
         Transcribe, TranscribeStart, IgnoreEvent, Batch, BatchStart, BatchRead,
         BatchStartFails, BatchHead, BatchReadFails, BatchDone, Stream,
         StreamStart, StreamRead, StreamStartFails, StreamHead, StreamReadFails,
         StreamFinal, StreamDrain, StreamDestroy, At

\* A handler whose request is over holds no live context.
LEMMA ClosedHasNoContext ==
  ASSUME ContextLifetime, pc = "closed"
  PROVE  ctx \notin {"live", "final"}
  BY DEF ContextLifetime

\* The handler and its client take a step inside the server.
LEMMA HandleStep ==
  ASSUME ServerInv, Handle \/ Client
  PROVE  ServerInv'
<1>1. /\ UNCHANGED <<pipe, stopper, stops, pending, runpc, ready, backlog, runs,
                     conns, admitted>>
      /\ Handler \/ Environment
  BY DEF Handle, Client, stopVars, loopVars
<1>2. HandlerInv'
  BY <1>1, WriteStep, DispatchStep, BatchStep, StreamStep, EnvironmentStep
  DEF Handler, Environment, ServerInv
<1>3. pc = "closed" => pc' = "closed"
  BY <1>1, HandlerStaysClosed DEF Environment, PeerReads, PeerResets, WriteFails, NextEvent
<1>4. running' \in BOOLEAN /\ (running' => running)
  <2>1. CASE Handler
    BY <2>1 DEF Handler, Write, NextEvent, LoopHead, RequestFails, Dispatch, Describe, Synthesize,
         Transcribe, TranscribeStart, IgnoreEvent, Batch, BatchStart, BatchRead,
         BatchStartFails, BatchHead, BatchReadFails, BatchDone, Stream,
         StreamStart, StreamRead, StreamStartFails, StreamHead, StreamReadFails,
         StreamFinal, StreamDrain, StreamDestroy, Respond, Enter,
         ServerInv, TypeOK, HandlerTypeOK
  <2>2. CASE Environment
    BY <2>2 DEF Environment, PeerReads, PeerResets, WriteFails, NextEvent,
                ServerInv, TypeOK, HandlerTypeOK
  <2> QED BY <1>1, <2>1, <2>2
<1>5. TypeOK'
  BY <1>1, <1>2 DEF ServerInv, TypeOK, HandlerInv
<1>6. CleanReturn'
  <2>1. pc' # "closed" => runpc' = "handle"
    BY <1>1, <1>3 DEF ServerInv, CleanReturn
  <2>2. runpc' \in {"idle", "returned"} => pc' = "closed"
    BY <2>1
  <2>3. pc' = "closed" => ctx' \notin {"live", "final"}
    BY <1>2 DEF HandlerInv, ContextLifetime
  <2> QED BY <2>1, <2>2, <2>3 DEF CleanReturn
<1>7. ReadyInv' /\ StopAdmitsFew'
  BY <1>1 DEF ServerInv, ReadyInv, StopAdmitsFew
<1>8. AdmitInv'
  BY <1>1, <1>4 DEF ServerInv, AdmitInv
<1> QED BY <1>2, <1>5, <1>6, <1>7, <1>8 DEF ServerInv

\* A change of running outside a connection, or to FALSE, leaves the
\* handler's invariant alone.
LEMMA RunningStep ==
  ASSUME HandlerInv, UNCHANGED connVars, running' \in BOOLEAN,
         ~running' \/ running' = running \/ pc = "closed"
  PROVE  HandlerInv'
<1>1. UNCHANGED <<pc, peer, room, timeout, todo, due, answer, gotStop, pcm, cap,
                  total, ctx, late, nread>>
  BY DEF connVars, peerVars, outVars, batchVars, readVars
<1>2. HandlerTypeOK' /\ AnswerInv'
  BY <1>1 DEF HandlerInv, HandlerTypeOK, AnswerInv, Partials
<1>3. ContextLifetime' /\ PcmFits' /\ TimeoutRestored'
  BY <1>1 DEF HandlerInv, ContextLifetime, PcmFits, TimeoutRestored
<1>4. LateInv'
  BY <1>1 DEF HandlerInv, HandlerTypeOK, LateInv
<1> QED BY <1>2, <1>3, <1>4 DEF HandlerInv

\* Accepting a client starts its handler in a fresh state.
LEMMA OpenStep ==
  ASSUME HandlerInv, Open
  PROVE  HandlerInv' /\ pc' = "loop" /\ running' = running
<1>1. /\ pc' = "loop" /\ peer' = "up" /\ room' = OutCap /\ timeout' = 30
      /\ todo' = <<>> /\ due' = "nothing" /\ answer' = <<>> /\ gotStop' = "no"
      /\ pcm' = "null" /\ cap' = 0 /\ total' = 0 /\ ctx' = "none"
      /\ late' = 0 /\ nread' = 0 /\ running' = running
  BY Zenon DEF Open
<1>2. HandlerTypeOK'
  <2>1. todo' \in Seq(Responses) /\ answer' \in Seq(Responses)
    BY <1>1
  <2>2. running' \in BOOLEAN
    BY <1>1 DEF HandlerInv, HandlerTypeOK
  <2> QED BY <1>1, <2>1, <2>2, HandlerAssumption DEF HandlerTypeOK, Pcs, StopKinds
<1>3. AnswerInv'
  <2>1. answer' \o todo' = <<>>
    BY <1>1
  <2> QED BY <1>1, <2>1 DEF AnswerInv, Complete
<1>4. ContextLifetime' /\ PcmFits' /\ TimeoutRestored' /\ LateInv'
  BY <1>1 DEF ContextLifetime, PcmFits, TimeoutRestored, LateInv
<1> QED BY <1>1, <1>2, <1>3, <1>4 DEF HandlerInv

\* The two halves of wyoming_server_stop preserve the invariant.
LEMMA StopStep ==
  ASSUME ServerInv, StopClears \/ StopWrites
  PROVE  ServerInv'
<1> USE DEF ServerInv
<1>1. /\ UNCHANGED connVars /\ UNCHANGED <<runpc, ready, backlog, runs, conns, admitted>>
      /\ running' \in BOOLEAN /\ (running' => running)
      /\ ~running' \/ running' = running
      /\ pipe' \in BOOLEAN /\ (pipe => pipe')
      /\ stopper' \in BOOLEAN /\ pending' \in BOOLEAN /\ stops' \in 0 .. MaxStops
  <2>1. CASE StopClears
    <3>1. stops' \in 0 .. MaxStops
      BY <2>1, ServerAssumption DEF StopClears, TypeOK
    <3> QED BY <2>1, <3>1, Zenon DEF StopClears, loopVars, TypeOK
  <2>2. CASE StopWrites
    BY <2>2, Zenon DEF StopWrites, handlerVars, loopVars, TypeOK, HandlerTypeOK
  <2> QED BY <2>1, <2>2
<1>2. HandlerInv'
  BY <1>1, RunningStep
<1>3. pc' = pc /\ ctx' = ctx
  BY <1>1 DEF connVars
<1>4. TypeOK'
  BY <1>1, <1>2 DEF TypeOK, HandlerInv
<1>5. CleanReturn' /\ ReadyInv' /\ StopAdmitsFew'
  BY <1>1, <1>3 DEF CleanReturn, ReadyInv, StopAdmitsFew
<1>6. AdmitInv'
  BY <1>1 DEF AdmitInv
<1> QED BY <1>2, <1>4, <1>5, <1>6

\* A step of run that leaves running and the connection alone and keeps the
\* loop's variables in their types.
Quiet ==
  /\ UNCHANGED <<handlerVars, pipe, stopper, stops>>
  /\ pending' \in BOOLEAN
  /\ ready' \in Seq({"listen", "stop"})
  /\ backlog' \in Nat /\ backlog' <= conns'
  /\ runs' \in 0 .. MaxRuns /\ conns' \in 0 .. MaxConns
  /\ runpc' \in {"idle", "setup", "top", "wait", "batch", "accept", "handle",
                 "returned"}
  /\ admitted' \in {0, admitted}
  /\ pc # "closed" => runpc' = "handle"

\* Such a step preserves the invariant if it preserves the loop's own parts.
LEMMA QuietStep ==
  ASSUME ServerInv, Quiet, ReadyInv', AdmitInv'
  PROVE  ServerInv'
<1> USE DEF ServerInv, Quiet
<1>1. /\ UNCHANGED connVars /\ running' = running /\ running \in BOOLEAN
      /\ pc' = pc /\ ctx' = ctx
  BY Zenon DEF handlerVars, connVars, TypeOK, HandlerTypeOK
<1>2. HandlerInv'
  BY <1>1, RunningStep
<1>3. TypeOK'
  BY <1>2 DEF TypeOK, HandlerInv
<1>4. CleanReturn'
  <2>1. pc = "closed" => ctx \notin {"live", "final"}
    BY DEF HandlerInv, ContextLifetime
  <2> QED BY <1>1, <2>1 DEF CleanReturn
<1>5. StopAdmitsFew'
  BY DEF StopAdmitsFew
<1> QED BY <1>2, <1>3, <1>4, <1>5

\* The batches of at most two descriptors, and what looking at the first
\* one leaves.
LEMMA BatchFacts ==
  /\ <<>> \in Seq({"listen", "stop"})
  /\ <<"listen">> \in Seq({"listen", "stop"})
  /\ <<"stop">> \in Seq({"listen", "stop"})
  /\ <<"listen", "stop">> \in Seq({"listen", "stop"})
  /\ <<"stop", "listen">> \in Seq({"listen", "stop"})
  /\ Head(<<"stop">>) = "stop" /\ Head(<<"stop", "listen">>) = "stop"
  /\ Tail(<<"listen">>) = <<>>
  /\ Tail(<<"listen", "stop">>) = <<"stop">>
<1>1. /\ <<>> \in Seq({"listen", "stop"})
      /\ <<"listen">> \in Seq({"listen", "stop"})
      /\ <<"stop">> \in Seq({"listen", "stop"})
  OBVIOUS
<1>2. /\ <<"listen", "stop">> \in Seq({"listen", "stop"})
      /\ <<"stop", "listen">> \in Seq({"listen", "stop"})
  OBVIOUS
<1>3. Head(<<"stop">>) = "stop" /\ Head(<<"stop", "listen">>) = "stop"
  OBVIOUS
<1>4. Tail(<<"listen">>) = <<>>
  OBVIOUS
<1>5. Tail(<<"listen", "stop">>) = <<"stop">>
  OBVIOUS
<1> QED BY <1>1, <1>2, <1>3, <1>4, <1>5, Zenon

\* The steps of run between two connections preserve the invariant.
LEMMA LoopStep ==
  ASSUME ServerInv,
         Run \/ Top \/ Wait \/ WaitTimeout \/ WaitFails \/ BatchEnds
           \/ SeeClient \/ AcceptFails \/ HandlerDone \/ Connect
  PROVE  ServerInv'
<1> USE DEF ServerInv
<1>0. /\ pipe \in BOOLEAN /\ running \in BOOLEAN /\ pending \in BOOLEAN
      /\ ready \in Seq({"listen", "stop"}) /\ backlog \in Nat /\ backlog <= conns
      /\ runs \in 0 .. MaxRuns /\ conns \in 0 .. MaxConns /\ admitted \in Nat
      /\ (pc # "closed" => runpc = "handle")
  BY DEF TypeOK, HandlerTypeOK, CleanReturn
<1>1. CASE Run
  <2>1. Quiet
    <3>1. runs' \in 0 .. MaxRuns
      BY <1>0, <1>1, ServerAssumption DEF Run
    <3> QED BY <1>0, <1>1, <3>1, Zenon DEF Run, Quiet, stopVars
  <2>2. ReadyInv' /\ AdmitInv'
    BY <1>1 DEF Run, ReadyInv, AdmitInv
  <2> QED BY <2>1, <2>2, QuietStep
<1>2. CASE Top
  <2>1. Quiet
    BY <1>0, <1>2, Zenon DEF Top, Quiet
  <2>2. ReadyInv' /\ AdmitInv'
    BY <1>0, <1>2 DEF Top, ReadyInv, AdmitInv
  <2> QED BY <2>1, <2>2, QuietStep
<1>3. CASE Wait
  <2>1. /\ UNCHANGED <<handlerVars, pipe, stopper, stops, pending, backlog, runs,
                       conns, admitted>>
        /\ runpc = "wait" /\ runpc' = "batch" /\ ready' \in Orders
    BY <1>3 DEF Wait, stopVars
  <2>2. /\ ready' \in {<<"listen">>, <<"stop">>, <<"listen", "stop">>,
                       <<"stop", "listen">>}
        /\ ready' \in Seq({"listen", "stop"})
    BY <2>1, BatchFacts, Zenon DEF Orders
  <2>3. Quiet
    BY <1>0, <2>1, <2>2 DEF Quiet
  <2>4. ReadyInv'
    BY <2>1 DEF Orders, ReadyInv
  <2>5. /\ ready' = <<"listen">> => ~pipe
        /\ admitted <= 1 /\ (admitted > 0 => pipe)
    <3>1. admitted <= 1 /\ (admitted > 0 => pipe)
      BY <2>1 DEF AdmitInv
    <3>2. ready' = <<"listen">> => ~pipe
      BY <2>1 DEF Orders
    <3> QED BY <3>1, <3>2
  <2>6. AdmitInv'
    BY <1>0, <2>1, <2>5 DEF AdmitInv
  <2> QED BY <2>3, <2>4, <2>6, QuietStep
<1>4. CASE WaitTimeout \/ WaitFails
  <2>1. Quiet
    BY <1>0, <1>4, Zenon DEF WaitTimeout, WaitFails, Quiet, stopVars
  <2>2. ReadyInv' /\ AdmitInv'
    BY <1>4 DEF WaitTimeout, WaitFails, stopVars, ReadyInv, AdmitInv
  <2> QED BY <2>1, <2>2, QuietStep
<1>5. CASE BatchEnds
  <2>1. Quiet
    BY <1>0, <1>5, Zenon DEF BatchEnds, Quiet, stopVars
  <2>2. ReadyInv' /\ AdmitInv'
    BY <1>5 DEF BatchEnds, LooksOn, stopVars, handlerVars, ReadyInv, AdmitInv
  <2> QED BY <2>1, <2>2, QuietStep
<1>6. CASE SeeClient
  <2>1. /\ UNCHANGED <<handlerVars, pipe, stopper, stops, pending, backlog, runs,
                       conns, admitted>>
        /\ runpc = "batch" /\ runpc' = "accept"
        /\ Head(ready) = "listen" /\ ready # <<>> /\ ready' = Tail(ready)
    BY <1>6 DEF SeeClient, LooksOn, stopVars
  <2>2. \/ ready = <<"listen">> /\ ready' = <<>>
        \/ UseEpoll /\ ready = <<"listen", "stop">> /\ ready' = <<"stop">>
    <3>1. ready \in {<<>>, <<"listen">>, <<"stop">>}
                     \cup (IF UseEpoll THEN {<<"listen", "stop">>,
                                            <<"stop", "listen">>} ELSE {})
      BY <2>1 DEF ReadyInv
    <3>2. "listen" # "stop"
      OBVIOUS
    <3> QED BY <2>1, <3>1, <3>2, BatchFacts, Zenon
  <2>3. ready' \in Seq({"listen", "stop"})
    BY <2>2, BatchFacts, Zenon
  <2>4. Quiet
    BY <1>0, <2>1, <2>3 DEF Quiet
  <2>5. ReadyInv'
    BY <2>1, <2>2 DEF ReadyInv
  <2>6. admitted <= Len(ready')
    <3>1. CASE ready = <<"listen">> /\ ready' = <<>>
      BY <1>0, <2>1, <3>1 DEF AdmitInv
    <3>2. CASE ready = <<"listen", "stop">> /\ ready' = <<"stop">>
      <4>1. ready # <<"stop">> /\ Len(ready') = 1
        BY <3>2
      <4> QED BY <4>1, <2>1 DEF AdmitInv
    <3> QED BY <2>2, <3>1, <3>2
  <2>7. AdmitInv'
    BY <2>1, <2>6 DEF AdmitInv
  <2> QED BY <2>4, <2>5, <2>7, QuietStep
<1>7. CASE AcceptFails
  <2>1. /\ UNCHANGED <<handlerVars, pipe, stopper, stops, pending, ready, runs,
                       conns, admitted>>
        /\ runpc = "accept" /\ runpc' = "batch" /\ backlog' \in 0 .. backlog
    BY <1>7 DEF AcceptFails, stopVars
  <2>2. Quiet
    <3>1. backlog' \in Nat /\ backlog' <= conns
      BY <1>0, <2>1
    <3> QED BY <1>0, <2>1, <3>1 DEF Quiet
  <2>3. ReadyInv'
    BY <2>1 DEF ReadyInv
  <2>4. ready \in {<<>>, <<"stop">>} /\ admitted <= Len(ready)
    BY <2>1 DEF ReadyInv, AdmitInv
  <2>5. AdmitInv'
    BY <1>0, <2>1, <2>4 DEF AdmitInv
  <2> QED BY <2>2, <2>3, <2>5, QuietStep
<1>8. CASE HandlerDone
  <2>1. /\ UNCHANGED <<handlerVars, pipe, stopper, stops, pending, ready, runs,
                       backlog, conns, admitted>>
        /\ runpc = "handle" /\ runpc' = "batch" /\ pc = "closed"
    BY <1>8 DEF HandlerDone, stopVars
  <2>2. Quiet
    BY <1>0, <2>1 DEF Quiet
  <2>3. ReadyInv'
    BY <2>1 DEF ReadyInv
  <2>4. ready \in {<<>>, <<"stop">>} /\ admitted <= Len(ready) + 1
    BY <2>1 DEF ReadyInv, AdmitInv
  <2>5. AdmitInv'
    BY <1>0, <2>1, <2>4 DEF AdmitInv
  <2> QED BY <2>2, <2>3, <2>5, QuietStep
<1>9. CASE Connect
  <2>1. /\ UNCHANGED <<handlerVars, pipe, stopper, stops, pending, ready, runs,
                       runpc, admitted>>
        /\ conns < MaxConns /\ conns' = conns + 1 /\ backlog' = backlog + 1
    BY <1>9 DEF Connect, stopVars
  <2>2. Quiet
    <3>1. backlog' \in Nat /\ backlog' <= conns' /\ conns' \in 0 .. MaxConns
      BY <1>0, <2>1, ServerAssumption
    <3>2. runpc' \in {"idle", "setup", "top", "wait", "batch", "accept", "handle",
                      "returned"}
      BY <2>1 DEF TypeOK
    <3> QED BY <1>0, <2>1, <3>1, <3>2 DEF Quiet
  <2>3. ReadyInv' /\ AdmitInv'
    BY <2>1 DEF ReadyInv, AdmitInv, handlerVars
  <2> QED BY <2>2, <2>3, QuietStep
<1> QED BY <1>1, <1>2, <1>3, <1>4, <1>5, <1>6, <1>7, <1>8, <1>9

\* Setting running at the start, and clearing it when the pipe is seen,
\* preserve the invariant.
LEMMA RunFlagStep ==
  ASSUME ServerInv, SetRunning \/ SeeStop
  PROVE  ServerInv'
<1> USE DEF ServerInv
<1>1. /\ UNCHANGED connVars
      /\ UNCHANGED <<pipe, stopper, stops, pending, ready, backlog, runs, conns,
                     admitted>>
      /\ running' \in BOOLEAN /\ runpc' = "top"
      /\ \/ runpc = "setup"
         \/ runpc = "batch" /\ running' = FALSE
  BY Zenon DEF SetRunning, SeeStop, stopVars
<1>2. pc = "closed" /\ pc' = pc /\ ctx' = ctx
  BY <1>1 DEF CleanReturn, connVars
<1>3. HandlerInv'
  BY <1>1, <1>2, RunningStep
<1>4. TypeOK'
  BY <1>1, <1>3 DEF TypeOK, HandlerInv
<1>5. CleanReturn' /\ ReadyInv' /\ StopAdmitsFew'
  BY <1>1, <1>2 DEF CleanReturn, ReadyInv, StopAdmitsFew
<1>6. AdmitInv'
  BY <1>1 DEF AdmitInv
<1> QED BY <1>3, <1>4, <1>5, <1>6

\* Accepting a client preserves the invariant: with the byte in the pipe it
\* is counted, and the bound leaves room for it.
LEMMA AcceptStep ==
  ASSUME ServerInv, Accept
  PROVE  ServerInv'
<1> USE DEF ServerInv
<1>1. /\ UNCHANGED <<pipe, stopper, stops, pending, ready, runs, conns>>
      /\ runpc = "accept" /\ runpc' = "handle"
      /\ backlog > 0 /\ backlog' = backlog - 1
      /\ admitted' = IF pipe THEN admitted + 1 ELSE admitted
      /\ Open
  BY DEF Accept, stopVars
<1>2. HandlerInv' /\ running' = running /\ pc' = "loop"
  BY <1>1, OpenStep
<1>3. /\ backlog' \in Nat /\ backlog' <= conns' /\ admitted' \in Nat
      /\ admitted \in Nat
  BY <1>1 DEF TypeOK
<1>4. TypeOK'
  BY <1>1, <1>2, <1>3 DEF TypeOK, HandlerInv
<1>5. CleanReturn' /\ ReadyInv'
  BY <1>1 DEF CleanReturn, ReadyInv
<1>6. /\ ready \in {<<>>, <<"stop">>} /\ (ready = <<"stop">> => UseEpoll)
      /\ admitted <= Len(ready)
  <2>1. ready \in {<<>>} \cup (IF UseEpoll THEN {<<"stop">>} ELSE {})
    BY <1>1 DEF ReadyInv
  <2>2. <<>> # <<"stop">>
    OBVIOUS
  <2>3. admitted <= Len(ready)
    BY <1>1 DEF AdmitInv
  <2>4. CASE UseEpoll
    BY <2>1, <2>3, <2>4, Zenon
  <2>5. CASE ~UseEpoll
    BY <2>1, <2>2, <2>3, <2>5, Zenon
  <2> QED BY <2>4, <2>5
<1>7. AdmitInv' /\ StopAdmitsFew'
  <2>1. CASE ready = <<>>
    <3>1. Len(ready) = 0
      BY <2>1
    <3> QED BY <1>1, <1>3, <1>6, <3>1 DEF AdmitInv, StopAdmitsFew
  <2>2. CASE ready = <<"stop">>
    <3>1. Len(ready) = 1 /\ UseEpoll
      BY <1>6, <2>2
    <3> QED BY <1>1, <1>3, <1>6, <3>1 DEF AdmitInv, StopAdmitsFew
  <2> QED BY <1>6, <2>1, <2>2
<1> QED BY <1>2, <1>4, <1>5, <1>7

\* Every step of the server preserves the invariant.
LEMMA NextServerInv == ServerInv /\ [Next]_vars => ServerInv'
<1> SUFFICES ASSUME ServerInv, [Next]_vars PROVE ServerInv'
  OBVIOUS
<1>1. CASE StopClears \/ StopWrites
  BY <1>1, StopStep
<1>2. CASE Run \/ Loop \/ WaitFails \/ AcceptFails \/ Connect
  BY <1>2, LoopStep, RunFlagStep, AcceptStep DEF Loop
<1>3. CASE Handle \/ Client
  BY <1>3, HandleStep
<1>4. CASE Rest \/ UNCHANGED vars
  <2>1. /\ UNCHANGED connVars
        /\ UNCHANGED <<running, pc, ctx, pipe, stopper, stops, pending, runpc, ready,
                       backlog, runs, conns, admitted>>
    BY <1>4 DEF Rest, vars, handlerVars, connVars, stopVars, loopVars
  <2>2. running' \in BOOLEAN
    BY <2>1 DEF ServerInv, TypeOK, HandlerTypeOK
  <2>3. HandlerInv'
    BY <2>1, <2>2, RunningStep DEF ServerInv
  <2> QED BY <2>1, <2>3 DEF ServerInv, TypeOK, HandlerInv, CleanReturn, ReadyInv,
                            AdmitInv, StopAdmitsFew
<1> QED BY <1>1, <1>2, <1>3, <1>4 DEF Next

\* The handler and its client leave srv->running alone.
LEMMA HandlerKeepsRunning ==
  ASSUME Handler \/ Environment
  PROVE  running' = running
<1>1. CASE Handler
  BY <1>1 DEF Handler, Write, NextEvent, LoopHead, RequestFails, Dispatch,
         Describe, Synthesize, Transcribe, TranscribeStart, IgnoreEvent, Batch,
         BatchStart, BatchRead, BatchStartFails, BatchHead, BatchReadFails,
         BatchDone, Stream, StreamStart, StreamRead, StreamStartFails,
         StreamHead, StreamReadFails, StreamFinal, StreamDrain, StreamDestroy,
         Respond, Enter
<1>2. CASE Environment
  BY <1>2 DEF Environment, PeerReads, PeerResets, WriteFails, NextEvent
<1> QED BY <1>1, <1>2

\* Only a stop clears running or fills the pipe.
LEMMA NextStopInv == ServerInv /\ StopInv /\ [Next]_vars => StopInv'
<1> SUFFICES ASSUME ServerInv, StopInv, [Next]_vars PROVE StopInv'
  OBVIOUS
<1>0. /\ stops \in Nat /\ runs \in Nat
      /\ pipe \in BOOLEAN /\ stopper \in BOOLEAN /\ pending \in BOOLEAN
  BY ServerAssumption DEF ServerInv, TypeOK
<1>1. CASE StopClears
  <2>1. /\ stops' = stops + 1 /\ pending' = TRUE
        /\ UNCHANGED <<pipe, runpc, ready, runs>>
    BY <1>1 DEF StopClears, loopVars
  <2>2. stops' > 0
    BY <1>0, <2>1
  <2> QED BY <2>1, <2>2 DEF StopInv
<1>2. CASE StopWrites
  <2>1. /\ pipe' = TRUE /\ stopper /\ UNCHANGED <<stops, pending, runpc, ready, runs>>
    BY <1>2 DEF StopWrites, loopVars
  <2> QED BY <2>1 DEF StopInv
<1>3. CASE Run
  <2>1. /\ runs' = runs + 1 /\ runpc' \in {"setup", "returned"}
        /\ UNCHANGED <<pipe, stopper, stops, pending>>
    BY <1>3 DEF Run, stopVars
  <2>2. runs' <= 1 => runs = 0
    BY <1>0, <2>1
  <2>3. runs = 0 => runpc # "returned" /\ runs <= 1
    BY DEF StopInv
  <2>4. runs' # 0
    BY <1>0, <2>1
  <2> QED BY <2>1, <2>2, <2>3, <2>4 DEF StopInv
<1>4. CASE SetRunning \/ SeeStop
  <2>1. /\ runpc' = "top" /\ UNCHANGED <<pipe, stopper, stops, pending, ready, runs>>
        /\ runpc \in {"setup", "batch"} /\ (running' \/ pipe)
    <3>1. CASE SetRunning
      BY <3>1 DEF SetRunning, stopVars
    <3>2. CASE SeeStop
      <4>1. Head(ready) = "stop" /\ ready # <<>> /\ runpc = "batch"
        BY <3>2 DEF SeeStop, LooksOn
      <4>2. ready \notin {<<>>, <<"listen">>}
        BY <4>1
      <4>3. pipe
        BY <4>1, <4>2 DEF StopInv
      <4> QED BY <3>2, <4>3 DEF SeeStop, stopVars
    <3> QED BY <1>4, <3>1, <3>2
  <2> QED BY <2>1 DEF StopInv
<1>5. CASE Top
  <2>1. /\ runpc = "top" /\ runpc' = IF running THEN "wait" ELSE "returned"
        /\ pending' = (pending /\ running)
        /\ UNCHANGED <<running, pipe, stopper, stops, ready, runs>>
    BY <1>5 DEF Top, handlerVars
  <2>2. CASE running
    BY <1>0, <2>1, <2>2 DEF StopInv
  <2>3. CASE ~running
    BY <2>1, <2>3 DEF StopInv
  <2> QED BY <2>2, <2>3
<1>6. CASE Wait
  <2>1. /\ runpc = "wait" /\ runpc' = "batch" /\ ready' \in Orders
        /\ UNCHANGED <<running, pipe, stopper, stops, pending, runs>>
    BY <1>6 DEF Wait, handlerVars, stopVars
  <2>2. ~pipe => ready' = <<"listen">>
    BY <2>1 DEF Orders
  <2> QED BY <2>1, <2>2 DEF StopInv
<1>7. CASE WaitTimeout \/ WaitFails \/ BatchEnds
  <2>1. /\ runpc \in {"wait", "batch"} /\ runpc' \in {"top", "returned"}
        /\ UNCHANGED <<running, pipe, stopper, stops, pending, ready, runs>>
    BY <1>7 DEF WaitTimeout, WaitFails, BatchEnds, handlerVars, stopVars
  <2> QED BY <2>1 DEF StopInv
<1>8. CASE SeeClient
  <2>1. /\ runpc = "batch" /\ runpc' = "accept" /\ ready # <<>> /\ ready' = Tail(ready)
        /\ UNCHANGED <<running, pipe, stopper, stops, pending, runs>>
    BY <1>8 DEF SeeClient, LooksOn, handlerVars, stopVars
  <2>2. ready' # <<>> => ready # <<"listen">>
    <3>1. CASE ready = <<"listen">>
      BY <2>1, <3>1
    <3> QED BY <3>1
  <2> QED BY <2>1, <2>2 DEF StopInv
<1>9. CASE Accept \/ AcceptFails \/ HandlerDone
  <2>1. UNCHANGED running
    BY <1>9 DEF Accept, AcceptFails, HandlerDone, Open, handlerVars
  <2>2. /\ runpc \in {"accept", "handle"} /\ runpc' \in {"handle", "batch"}
        /\ UNCHANGED <<pipe, stopper, stops, pending, ready, runs>>
    BY <1>9 DEF Accept, AcceptFails, HandlerDone, stopVars
  <2> QED BY <2>1, <2>2 DEF StopInv
<1>10. CASE Handle \/ Client \/ Connect \/ Rest \/ UNCHANGED vars
  <2>1. running' = running
    BY <1>10, HandlerKeepsRunning
    DEF Handle, Client, Connect, Rest, vars, handlerVars
  <2>2. UNCHANGED <<pipe, stopper, stops, pending, runpc, ready, runs>>
    BY <1>10 DEF Handle, Client, Connect, Rest, vars, stopVars, loopVars
  <2> QED BY <2>1, <2>2 DEF StopInv
<1> QED BY <1>1, <1>2, <1>3, <1>4, <1>5, <1>6, <1>7, <1>8, <1>9, <1>10 DEF Next, Loop

\* The inductive invariant of the loop and of the handler inside it.
THEOREM ServerInvariance == Spec => []ServerInv
<1> QED BY InitServerInv, NextServerInv, PTL DEF Spec

\* Type correctness of the server.
THEOREM ServerTypeCorrect == Spec => []TypeOK
<1>1. ServerInv => TypeOK
  BY DEF ServerInv
<1> QED BY <1>1, ServerInvariance, PTL

\* server.c:806-838, 855-876: once the stop byte is in the pipe, at most two
\* more clients are accepted (one in the poll build), however the stop raced
\* the start of run.
THEOREM StopIsSeen == Spec => []StopAdmitsFew
<1>1. ServerInv => StopAdmitsFew
  BY DEF ServerInv
<1> QED BY <1>1, ServerInvariance, PTL

\* server.c:836-844: run returns with no connection and no context open.
THEOREM RunReturnsClean == Spec => []CleanReturn
<1>1. ServerInv => CleanReturn
  BY DEF ServerInv
<1> QED BY <1>1, ServerInvariance, PTL

\* server.c:808-838, 857-888: run leaves its loop for a stop of its own, or
\* for the byte that an earlier run's stop left in the pipe.
THEOREM RunReturnsForAStop == Spec => ReturnsForAStop
<1>1. Init => StopInv
  BY DEF Init, StopInv
<1>2. Spec => []StopInv
  BY <1>1, NextStopInv, ServerInvariance, PTL DEF Spec
<1>3. ServerInv /\ StopInv /\ [Next]_vars =>
        [runpc = "top" /\ runpc' = "returned" => pending \/ (runs > 1 /\ pipe)]_vars
  <2> SUFFICES ASSUME ServerInv, StopInv, [Next]_vars,
                      runpc = "top", runpc' = "returned"
               PROVE  pending \/ (runs > 1 /\ pipe)
    OBVIOUS
  <2>1. ~running
    <3>1. CASE Top
      BY <3>1 DEF Top
    <3>2. CASE ~Top
      BY <3>2 DEF Next, Loop, StopClears, StopWrites, Run, SetRunning, Wait,
                  WaitTimeout, WaitFails, BatchEnds, SeeStop, SeeClient, Accept,
                  AcceptFails, HandlerDone, Handle, Client, Connect, Rest,
                  vars, loopVars
    <3> QED BY <3>1, <3>2
  <2>2. runs \in Nat /\ (runs <= 1 \/ runs > 1)
    BY ServerAssumption DEF ServerInv, TypeOK
  <2> QED BY <2>1, <2>2 DEF StopInv
<1> QED BY <1>2, <1>3, ServerInvariance, PTL DEF Spec, ReturnsForAStop

\* The handler's promises hold for every connection of the server, the
\* second and later ones and those of a second run included.
THEOREM EveryConnectionIsServed ==
  Spec => [](AnswersComplete /\ ContextLifetime /\ PcmFits /\ StopIsPrompt)
<1>1. ServerInv => AnswersComplete /\ ContextLifetime /\ PcmFits /\ StopIsPrompt
  <2> SUFFICES ASSUME ServerInv
               PROVE  AnswersComplete /\ ContextLifetime /\ PcmFits /\ StopIsPrompt
    OBVIOUS
  <2>1. ContextLifetime /\ PcmFits /\ StopIsPrompt
    BY DEF ServerInv, HandlerInv, LateInv, StopIsPrompt
  <2>2. AnswersComplete
    <3> SUFFICES ASSUME pc \in {"loop", "read", "closed"}, todo = <<>>
                 PROVE  Complete(due, answer)
      BY DEF AnswersComplete
    <3>1. answer \o todo = answer
      BY DEF ServerInv, HandlerInv, HandlerTypeOK
    <3> QED BY <3>1 DEF ServerInv, HandlerInv, AnswerInv
  <2> QED BY <2>1, <2>2
<1> QED BY <1>1, ServerInvariance, PTL

=============================================================================
