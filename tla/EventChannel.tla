---------------------------- MODULE EventChannel ----------------------------
(***************************************************************************)
(* What one direction of a Wyoming connection promises to the program that *)
(* calls wyoming_event_read_iobuf: whole events, in the order in which the *)
(* peer's wyoming_event_write_fd was given them, none skipped and none     *)
(* twice, up to the first read that fails after it has taken bytes.  From  *)
(* then on the reader is out of step with the frames and nothing more is   *)
(* promised about what it receives.                                        *)
(***************************************************************************)
EXTENDS Naturals, Sequences

CONSTANT Event              \* the events the writer may send

VARIABLES
  written,                  \* the events handed to the writer, in order
  delivered,                \* the events the reader has returned, in order
  synced                    \* no failed read has dropped bytes

vars == <<written, delivered, synced>>

Init ==
  /\ written = <<>>
  /\ delivered = <<>>
  /\ synced = TRUE

Send ==
  /\ \E e \in Event : written' = Append(written, e)
  /\ UNCHANGED <<delivered, synced>>

Receive ==
  /\ synced
  /\ Len(delivered) < Len(written)
  /\ delivered' = Append(delivered, written[Len(delivered) + 1])
  /\ UNCHANGED <<written, synced>>

LoseSync ==
  /\ synced
  /\ synced' = FALSE
  /\ UNCHANGED <<written, delivered>>

\* Whatever the bytes at the reader's position happen to spell.
ReceiveUnsynced ==
  /\ ~synced
  /\ Len(delivered') = Len(delivered) + 1
  /\ SubSeq(delivered', 1, Len(delivered)) = delivered
  /\ UNCHANGED <<written, synced>>

Next == Send \/ Receive \/ LoseSync \/ ReceiveUnsynced

Spec == Init /\ [][Next]_vars

=============================================================================
