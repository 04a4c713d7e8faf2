----------------------------- MODULE MCEngines -----------------------------
(* The engines on a few voices, texts and chunk sizes. *)
EXTENDS Engines

MCSpeaker(n, i) == [name |-> n, id |-> i]

\* One speaker without a map; two speakers; a map the count contradicts, in
\* both directions; a negative count and a negative id.
MCModels ==
  {[num |-> 1, map |-> <<>>],
   [num |-> 2, map |-> <<MCSpeaker("ann", 5), MCSpeaker("bob", 3)>>],
   [num |-> 0, map |-> <<MCSpeaker("ann", 5), MCSpeaker("bob", 3)>>],
   [num |-> 3, map |-> <<MCSpeaker("bob", 3)>>],
   [num |-> -1, map |-> <<>>],
   [num |-> 2, map |-> <<MCSpeaker("ann", -1), MCSpeaker("bob", 3)>>]}

\* Nothing; samples at and beyond both ends of the scale and around zero,
\* more than the first buffer holds; one sample.
MCSpeech == {<<>>, <<10, -8, 2, -3, 0>>, <<5>>}

=============================================================================
