------------------------------ MODULE Engines ------------------------------
(***************************************************************************)
(* A server with one of the two built-in engines.  wyoming_server_run      *)
(* handles one client at a time in one thread, and the engines share no    *)
(* state: a server that has both behaves towards each as one of these.     *)
(***************************************************************************)
EXTENDS PiperEngine, SherpaEngine

vars == <<piperEngineVars, sherpaVars>>

Init ==
  \/ PiperInit("none") /\ SherpaInit("gone")
  \/ PiperInit("gone") /\ SherpaInit("none")

Next ==
  \/ PiperNext /\ UNCHANGED sherpaVars
  \/ SherpaNext /\ UNCHANGED piperEngineVars
  \/ ppc = "gone" /\ spc = "gone" /\ UNCHANGED vars

Spec == Init /\ [][Next]_vars

\* Type correctness of both, what is converted within its buffer and the
\* recognizer within its input.
TypeOK == PiperTypeOK /\ SherpaTypeOK

=============================================================================
