----------------------- MODULE ServiceRegistry_proofs -----------------------
(***************************************************************************)
(* Proofs about ServiceRegistry: RegistryInv is inductive, hence for every *)
(* size of the arrays, number of calls and failures of strdup the heap is  *)
(* accounted for and a client is told what was registered.                 *)
(***************************************************************************)
EXTENDS ServiceRegistry, Selection_proofs

(* The calls that were accepted.                                           *)

\* The calls of one kind, in their order.
LEMMA CallsOf ==
  ASSUME LogInv, ncalls \in Nat, NEW op
  PROVE  /\ Calls(op) \in Seq(Records)
         /\ \A k \in 1 .. Len(Calls(op)) : Calls(op)[k].id <= ncalls
         /\ \A k, l \in 1 .. Len(Calls(op)) :
              k < l => Calls(op)[k].id < Calls(op)[l].id
<1> DEFINE I == {i \in DOMAIN log : log[i].op = op}
<1>1. log \in Seq(Records) /\ DOMAIN log = 1 .. Len(log)
  BY DEF LogInv
<1>2. I \in SUBSET (1 .. Len(log))
  BY <1>1
<1>3. Calls(op) = ElementsAt(log, I)
  BY DEF Calls
<1> HIDE DEF I
<1>4. PICK c : c = Calls(op)
  OBVIOUS
<1>5. /\ c \in Seq(Records) /\ Len(c) = Cardinality(I)
      /\ \A k \in 1 .. Cardinality(I) : \E i \in I : c[k] = log[i]
  BY <1>1, <1>2, <1>3, <1>4, ElementsAtPlaces
<1>6. \A k \in 1 .. Len(c) : c[k].id <= ncalls
  BY <1>1, <1>2, <1>5 DEF LogInv
<1>7. ASSUME NEW k \in 1 .. Len(c), NEW l \in 1 .. Len(c), k < l
      PROVE  c[k].id < c[l].id
  <2>2. k \in 1 .. Cardinality(I) /\ l \in 1 .. Cardinality(I)
    BY <1>5
  <2>3. c = ElementsAt(log, I)
    BY <1>3, <1>4
  <2>4. PICK i \in I, j \in I : /\ i < j /\ ElementsAt(log, I)[k] = log[i]
                                /\ ElementsAt(log, I)[l] = log[j]
    BY <1>1, <1>2, <1>7, <2>2, ElementsAtOrder
  <2>1. i < j /\ c[k] = log[i] /\ c[l] = log[j]
    BY <2>3, <2>4
  <2> QED BY <1>1, <1>2, <2>1 DEF LogInv
<1> QED BY <1>4, <1>5, <1>6, <1>7

\* A call that is accepted is added to the calls of its kind.
LEMMA CallsAppend ==
  ASSUME log \in Seq(Records), NEW r \in Records, log' = Append(log, r), NEW op
  PROVE  Calls(op)' = IF r.op = op THEN Append(Calls(op), r) ELSE Calls(op)
<1> DEFINE I == {i \in DOMAIN log : log[i].op = op}
           J == {i \in DOMAIN log' : log'[i].op = op}
<1>1. PICK n \in Nat : n = Len(log)
  OBVIOUS
<1>2. /\ DOMAIN log = 1 .. n /\ DOMAIN log' = 1 .. n + 1 /\ log'[n + 1] = r
      /\ \A i \in 1 .. n : log'[i] = log[i]
  BY <1>1
<1>3. I \in SUBSET (1 .. Len(log))
  BY <1>1, <1>2
<1>4. J = IF r.op = op THEN I \cup {Len(log) + 1} ELSE I
  <2>1. \A i \in 1 .. n + 1 : i \in 1 .. n \/ i = n + 1
    BY <1>1
  <2>2. n + 1 \in 1 .. n + 1 /\ \A i \in 1 .. n : i \in 1 .. n + 1
    BY <1>1
  <2>3. \A i : i \in J <=> i \in I \/ (i = n + 1 /\ r.op = op)
    BY <1>2, <2>1, <2>2
  <2> QED BY <1>1, <2>3
<1>5. Calls(op) = ElementsAt(log, I) /\ Calls(op)' = ElementsAt(Append(log, r), J)
  BY DEF Calls
<1> HIDE DEF I, J
<1>6. CASE r.op = op
  BY <1>3, <1>4, <1>5, <1>6, ElementsAtAppend, ZenonT(40)
<1>7. CASE r.op # op
  BY <1>3, <1>4, <1>5, <1>7, ElementsAtSame, Zenon
<1> QED BY <1>6, <1>7

\* A voice's speakers are the calls after it: a new speaker is the last
\* voice's ...
LEMMA SpeakerAdded ==
  ASSUME NEW c \in Seq(Records), NEW sp \in Seq(Records), NEW r \in Records,
         NEW k \in 1 .. Len(c), \A i \in 1 .. Len(c) : c[i].id < r.id
  PROVE  SpeakersOf(c, k, Append(sp, r)) =
           IF k = Len(c) THEN Append(SpeakersOf(c, k, sp), <<r.id, 1>>)
                         ELSE SpeakersOf(c, k, sp)
<1> DEFINE I == After(c, k, sp)
           J == After(c, k, Append(sp, r))
<1>1. PICK n \in Nat : n = Len(sp)
  OBVIOUS
<1>2. PICK t : t = Append(sp, r)
  OBVIOUS
<1>3. /\ DOMAIN sp = 1 .. n /\ DOMAIN t = 1 .. n + 1 /\ t[n + 1] = r
      /\ \A i \in 1 .. n : t[i] = sp[i]
  BY <1>1, <1>2
<1>4. I \in SUBSET (1 .. Len(sp))
  BY <1>1, <1>3 DEF After
<1>5. c[k].id < r.id /\ (k < Len(c) => ~(r.id < c[k + 1].id))
  <2>1. k < Len(c) => k + 1 \in 1 .. Len(c)
    OBVIOUS
  <2>2. \A i \in 1 .. Len(c) : c[i].id \in Nat
    <3>1. \A i \in 1 .. Len(c) : c[i] \in Records
      OBVIOUS
    <3> QED BY <3>1 DEF Records
  <2>3. r.id \in Nat
    BY DEF Records
  <2> QED BY <2>1, <2>2, <2>3
<1>6. J = IF k = Len(c) THEN I \cup {Len(sp) + 1} ELSE I
  <2>1. \A i \in 1 .. n + 1 : i \in 1 .. n \/ i = n + 1
    BY <1>1
  <2>2. n + 1 \in 1 .. n + 1 /\ \A i \in 1 .. n : i \in 1 .. n + 1
    BY <1>1
  <2>3. k < Len(c) \/ k = Len(c)
    OBVIOUS
  <2>4. ~(k = Len(c) /\ k < Len(c))
    OBVIOUS
  <2>5. \A i : i \in J <=> i \in I \/ (i = n + 1 /\ k = Len(c))
    BY <1>2, <1>3, <1>5, <2>1, <2>2, <2>3, <2>4 DEF After
  <2> QED BY <1>1, <2>5
<1> HIDE DEF I, J
<1>7. PICK a : a = ElementsAt(sp, I)
  OBVIOUS
<1>8. a \in Seq(Records)
  BY <1>4, <1>7, ElementsAtPlaces
<1>9. ElementsAt(Append(sp, r), J) = IF k = Len(c) THEN Append(a, r) ELSE a
  <2>1. CASE k = Len(c)
    BY <1>4, <1>6, <1>7, <2>1, ElementsAtAppend, Zenon
  <2>2. CASE k # Len(c)
    BY <1>4, <1>6, <1>7, <2>2, ElementsAtSame, Zenon
  <2> QED BY <2>1, <2>2
<1>10. /\ SpeakersOf(c, k, sp) = [j \in DOMAIN a |-> <<a[j].id, 1>>]
       /\ SpeakersOf(c, k, Append(sp, r)) =
            LET b == ElementsAt(Append(sp, r), J) IN [j \in DOMAIN b |-> <<b[j].id, 1>>]
  BY <1>7 DEF SpeakersOf, I, J
<1>11. CASE k # Len(c)
  BY <1>9, <1>10, <1>11
<1>12. CASE k = Len(c)
  <2>1. PICK b : b = Append(a, r)
    OBVIOUS
  <2>2. /\ SpeakersOf(c, k, Append(sp, r)) = [j \in DOMAIN b |-> <<b[j].id, 1>>]
    BY <1>9, <1>10, <1>12, <2>1
  <2>3. PICK m \in Nat : m = Len(a)
    BY <1>8
  <2>4. /\ DOMAIN a = 1 .. m /\ DOMAIN b = 1 .. m + 1 /\ b[m + 1] = r
        /\ \A i \in 1 .. m : b[i] = a[i]
    BY <1>8, <2>1, <2>3
  <2>5. PICK u : u = [j \in 1 .. m |-> <<a[j].id, 1>>]
    OBVIOUS
  <2>6. PICK v : v = [j \in 1 .. m + 1 |-> <<b[j].id, 1>>]
    OBVIOUS
  <2>7. \A j \in 1 .. m : a[j] \in Records
    BY <1>8, <2>3
  <2>8. u \in Seq(Str) /\ Len(u) = m
    <3>1. \A j \in 1 .. m : <<a[j].id, 1>> \in Str
      BY <2>7 DEF Records, Str
    <3> QED BY <2>3, <2>5, <3>1
  <2>9. v = Append(u, <<r.id, 1>>)
    BY <2>3, <2>4, <2>5, <2>6, <2>8
  <2> QED BY <1>10, <1>12, <2>2, <2>4, <2>5, <2>6, <2>9
<1> QED BY <1>11, <1>12

\* ... and a new voice takes none from those before it.
LEMMA VoiceAdded ==
  ASSUME NEW c \in Seq(Records), NEW sp \in Seq(Records), NEW r \in Records,
         \A i \in 1 .. Len(sp) : sp[i].id < r.id
  PROVE  /\ SpeakersOf(Append(c, r), Len(c) + 1, sp) = <<>>
         /\ \A k \in 1 .. Len(c) :
              SpeakersOf(Append(c, r), k, sp) = SpeakersOf(c, k, sp)
<1>1. PICK n \in Nat : n = Len(c)
  OBVIOUS
<1>2. PICK t : t = Append(c, r)
  OBVIOUS
<1>3. Len(t) = n + 1 /\ t[n + 1] = r /\ \A i \in 1 .. n : t[i] = c[i]
  BY <1>1, <1>2
<1>4. /\ \A i \in 1 .. Len(sp) : sp[i].id \in Nat
      /\ r.id \in Nat /\ DOMAIN sp = 1 .. Len(sp)
  <2>1. \A i \in 1 .. Len(sp) : sp[i] \in Records
    OBVIOUS
  <2> QED BY <2>1 DEF Records
<1>5. After(t, n + 1, sp) = {}
  BY <1>3, <1>4 DEF After
<1>6. ASSUME NEW k \in 1 .. n
      PROVE  After(t, k, sp) = After(c, k, sp)
  <2>1. CASE k < n
    <3>1. k + 1 \in 1 .. n /\ k < n + 1
      BY <1>1, <2>1
    <3> QED BY <1>1, <1>3, <2>1, <3>1 DEF After
  <2>2. CASE k = n
    <3>1. t[k] = c[k] /\ t[k + 1] = r /\ k < Len(t) /\ ~(k < Len(c))
      BY <1>1, <1>3, <2>2
    <3> QED BY <1>4, <3>1 DEF After
  <2> QED BY <1>1, <2>1, <2>2
<1>7. \A k \in 1 .. n : SpeakersOf(t, k, sp) = SpeakersOf(c, k, sp)
  BY <1>6, Zenon DEF SpeakersOf
<1>8. SpeakersOf(t, n + 1, sp) = <<>>
  <2>1. ElementsAt(sp, After(t, n + 1, sp)) = <<>>
    BY <1>5, ElementsAtAll
  <2> QED BY <2>1 DEF SpeakersOf
<1> QED BY <1>1, <1>2, <1>7, <1>8

-----------------------------------------------------------------------------
(* The parts of a registration call.                                       *)

\* What a call copies: finitely many strings, all its own.
LEMMA StringsOfCall ==
  ASSUME ncalls \in Nat, NEW n \in Nat
  PROVE  /\ Copied(n) \in Nat /\ Copied(n) <= MaxLangs
         /\ IsFiniteSet(Strings(n))
         /\ \A x \in Strings(n) : x \in Str /\ x[1] = ncalls + 1
<1>1. Copied(n) \in Nat /\ Copied(n) <= MaxLangs
  BY RegistryAssumption DEF Copied
<1>2. PICK m \in Nat : m = Copied(n) + 1
  BY <1>1
<1>3. PICK f : f = [i \in 1 .. m |-> Arg(i)]
  OBVIOUS
<1>4. f \in Surjection(1 .. m, Strings(n))
  BY <1>2, <1>3 DEF Strings, Surjection
<1>5. IsFiniteSet(1 .. m)
  BY FS_Interval
<1>6. IsFiniteSet(Strings(n))
  BY <1>4, <1>5, FS_Surjection
<1>7. \A x \in Strings(n) : x \in Str /\ x[1] = ncalls + 1
  BY <1>1 DEF Strings, Arg, Call, Str
<1> QED BY <1>1, <1>6, <1>7

\* The entry a call fills in: its strings are those that could be copied.
LEMMA EntryOfCall ==
  ASSUME ncalls \in Nat, NEW n \in Nat, NEW lost \in SUBSET Strings(n)
  PROVE  /\ Entry(n, lost) \in EntryRecords
         /\ Len(Entry(n, lost).languages) = Copied(n)
         /\ Entry(n, lost).speakers = <<>>
         /\ EntryStrings(Entry(n, lost)) = Strings(n) \ lost
<1>1. PICK m \in Nat : m = Copied(n)
  BY StringsOfCall
<1>2. \A i \in 1 .. m + 1 : Arg(i) \in Strings(n)
  BY <1>1 DEF Strings
<1>3. Strings(n) \subseteq Str /\ Null \notin Strings(n)
  BY StringsOfCall, RegistryAssumption DEF Str
<1>4. \A i \in 1 .. m + 1 : Dup(Arg(i), lost) \in Ptr
  BY <1>2, <1>3 DEF Dup, Ptr
<1>5. PICK l : l = [i \in 1 .. m |-> Dup(Arg(i + 1), lost)]
  OBVIOUS
<1>6. l \in Seq(Ptr) /\ Len(l) = m /\ DOMAIN l = 1 .. m
      /\ \A i \in 1 .. m : l[i] = Dup(Arg(i + 1), lost)
  <2>1. \A i \in 1 .. m : i + 1 \in 1 .. m + 1
    OBVIOUS
  <2> QED BY <1>4, <1>5, <2>1
<1>7. PICK e : e = Entry(n, lost)
  OBVIOUS
<1>8. e = [name |-> Dup(Arg(1), lost), languages |-> l, speakers |-> <<>>]
  BY <1>1, <1>5, <1>7 DEF Entry
<1>9. e \in EntryRecords /\ e.languages = l /\ e.speakers = <<>>
      /\ e.name = Dup(Arg(1), lost)
  <2>1. Dup(Arg(1), lost) \in Ptr /\ <<>> \in Seq(Ptr)
    BY <1>4
  <2> QED BY <1>6, <1>8, <2>1 DEF EntryRecords
<1>10. EntryStrings(e) = Strings(n) \ lost
  <2>1. \A x : x \in ElementsOf(l) <=> \E i \in 1 .. m : x = Dup(Arg(i + 1), lost)
    BY <1>6 DEF ElementsOf
  <2>2. \A x : x \in Strings(n) <=> x = Arg(1) \/ \E i \in 1 .. m : x = Arg(i + 1)
    <3>1. \A i \in 1 .. m + 1 : i = 1 \/ (i - 1 \in 1 .. m /\ i = (i - 1) + 1)
      OBVIOUS
    <3>2. 1 \in 1 .. m + 1 /\ \A i \in 1 .. m : i + 1 \in 1 .. m + 1
      OBVIOUS
    <3> QED BY <1>1, <3>1, <3>2 DEF Strings
  <2>3. ElementsOf(<<>>) = {}
    BY DEF ElementsOf
  <2>4. \A x : x \in EntryStrings(e) <=>
          x # Null /\ (x = Dup(Arg(1), lost) \/ x \in ElementsOf(l))
    BY <1>9, <2>3 DEF EntryStrings
  <2>5. \A x : x \in EntryStrings(e) <=> x \in Strings(n) /\ x \notin lost
    BY <1>2, <1>3, <2>1, <2>2, <2>4 DEF Dup
  <2> QED BY <2>5
<1> QED BY <1>1, <1>6, <1>7, <1>9, <1>10

\* What is logged of an accepted call, and counted of its failed copies.
LEMMA AcceptedCall ==
  ASSUME TypeOK, LogInv, Calling,
         NEW op \in {"tts", "asr", "voice", "speaker", "model"},
         NEW on \in BOOLEAN, NEW n \in Nat, NEW lost, IsFiniteSet(lost),
         Accept(op, on, n, lost)
  PROVE  /\ LogInv' /\ ncalls' = ncalls + 1
         /\ nomem' \in Nat /\ nomem <= nomem' /\ (lost # {} => nomem' > 0)
         /\ LET rec == [op |-> op, id |-> ncalls + 1, on |-> on, langs |-> n]
            IN  /\ rec \in Records
                /\ \A o : Calls(o)' = IF o = op THEN Append(Calls(o), rec)
                                                ELSE Calls(o)
<1> DEFINE rec == [op |-> op, id |-> ncalls + 1, on |-> on, langs |-> n]
<1>1. ncalls \in Nat /\ nomem \in Nat /\ log \in Seq(Records)
  BY DEF TypeOK, LogInv
<1>2. rec \in Records
  <2>1. ncalls + 1 \in Nat
    BY <1>1
  <2> QED BY <2>1, Zenon DEF Records
<1>3. log' = Append(log, rec) /\ ncalls' = ncalls + 1
      /\ nomem' = nomem + Cardinality(lost)
  BY DEF Accept, Calling, Call
<1>4. rec.op = op /\ rec.id = ncalls + 1
  OBVIOUS
<1> HIDE DEF rec
<1>5. nomem' \in Nat /\ nomem <= nomem' /\ (lost # {} => nomem' > 0)
  <2>1. Cardinality(lost) \in Nat /\ (lost # {} => Cardinality(lost) # 0)
    BY FS_CardinalityType, FS_EmptySet
  <2> QED BY <1>1, <1>3, <2>1
<1>6. LogInv'
  <2>1. PICK m \in Nat : m = Len(log)
    BY <1>1
  <2>2. /\ log' \in Seq(Records) /\ DOMAIN log' = 1 .. m + 1 /\ log'[m + 1] = rec
        /\ DOMAIN log = 1 .. m /\ \A i \in 1 .. m : log'[i] = log[i]
    BY <1>1, <1>2, <1>3, <2>1
  <2>3. \A i \in 1 .. m + 1 : i \in 1 .. m \/ i = m + 1
    OBVIOUS
  <2>4. \A i \in 1 .. m : log[i].id <= ncalls /\ log[i].id \in Nat
    <3>1. \A i \in 1 .. m : log[i] \in Records
      BY <1>1, <2>1
    <3> QED BY <2>2, <3>1 DEF LogInv, Records
  <2>5. \A i \in DOMAIN log' : log'[i].id <= ncalls'
    BY <1>1, <1>3, <1>4, <2>2, <2>3, <2>4
  <2>6. \A i, j \in DOMAIN log' : i < j => log'[i].id < log'[j].id
    <3> SUFFICES ASSUME NEW i \in 1 .. m + 1, NEW j \in 1 .. m + 1, i < j
                 PROVE  log'[i].id < log'[j].id
      BY <2>2
    <3>1. i \in 1 .. m
      OBVIOUS
    <3>2. CASE j \in 1 .. m
      BY <2>2, <3>1, <3>2 DEF LogInv
    <3>3. CASE j = m + 1
      BY <1>1, <1>4, <2>2, <2>4, <3>1, <3>3
    <3> QED BY <2>3, <3>2, <3>3
  <2> QED BY <2>2, <2>5, <2>6 DEF LogInv
<1>7. \A o : Calls(o)' = IF o = op THEN Append(Calls(o), rec) ELSE Calls(o)
  BY <1>1, <1>2, <1>3, <1>4, CallsAppend, Zenon
<1> QED BY <1>2, <1>3, <1>5, <1>6, <1>7 DEF rec

-----------------------------------------------------------------------------
(* The heap.                                                               *)

\* What is reachable: the services' names, and what the entries keep.
LEMMA ReachableStrings == Reachable = ({tts.name, asr.name} \ {Null}) \cup Kept
  BY DEF Reachable, Kept

\* Appending adds one element.
LEMMA ElementsAppended ==
  ASSUME NEW S, NEW s \in Seq(S), NEW x \in S
  PROVE  ElementsOf(Append(s, x)) = ElementsOf(s) \cup {x}
<1>1. PICK t : t = Append(s, x)
  OBVIOUS
<1>2. PICK n \in Nat : n = Len(s)
  OBVIOUS
<1>3. /\ DOMAIN s = 1 .. n /\ DOMAIN t = 1 .. n + 1 /\ t[n + 1] = x
      /\ \A i \in 1 .. n : t[i] = s[i]
  BY <1>1, <1>2
<1>4. n + 1 \in 1 .. n + 1 /\ \A i \in 1 .. n : i \in 1 .. n + 1
  OBVIOUS
<1>5. \A i \in 1 .. n + 1 : i \in 1 .. n \/ i = n + 1
  OBVIOUS
<1>6. \A y : y \in ElementsOf(t) <=> y \in ElementsOf(s) \/ y = x
  BY <1>3, <1>4, <1>5 DEF ElementsOf
<1> QED BY <1>1, <1>6

\* An entry that is added keeps its strings,
LEMMA KeptWithVoice ==
  ASSUME voices \in Seq(EntryRecords), NEW e \in EntryRecords,
         voices' = Append(voices, e), models' = models
  PROVE  Kept' = Kept \cup EntryStrings(e)
<1>1. ElementsOf(voices)' = ElementsOf(voices) \cup {e}
  <2>1. ElementsOf(voices)' = ElementsOf(Append(voices, e))
    BY DEF ElementsOf
  <2> QED BY <2>1, ElementsAppended
<1>2. ElementsOf(models)' = ElementsOf(models)
  BY DEF ElementsOf
<1>3. Kept' = UNION {EntryStrings(x) : x \in ElementsOf(voices)'
                                              \cup ElementsOf(models)'}
  BY DEF Kept, EntryStrings, ElementsOf
<1> QED BY <1>1, <1>2, <1>3 DEF Kept

\* The strings of the entries once a model is added.
LEMMA KeptWithModel ==
  ASSUME models \in Seq(EntryRecords), NEW e \in EntryRecords,
         models' = Append(models, e), voices' = voices
  PROVE  Kept' = Kept \cup EntryStrings(e)
<1>1. ElementsOf(models)' = ElementsOf(models) \cup {e}
  <2>1. ElementsOf(models)' = ElementsOf(Append(models, e))
    BY DEF ElementsOf
  <2> QED BY <2>1, ElementsAppended
<1>2. ElementsOf(voices)' = ElementsOf(voices)
  BY DEF ElementsOf
<1>3. Kept' = UNION {EntryStrings(x) : x \in ElementsOf(voices)'
                                              \cup ElementsOf(models)'}
  BY DEF Kept, EntryStrings, ElementsOf
<1> QED BY <1>1, <1>2, <1>3 DEF Kept

\* A sequence with one element replaced.
LEMMA ReplacedAt ==
  ASSUME NEW S, NEW s \in Seq(S), NEW i \in 1 .. Len(s), NEW e \in S
  PROVE  /\ [s EXCEPT ![i] = e] \in Seq(S) /\ Len([s EXCEPT ![i] = e]) = Len(s)
         /\ [s EXCEPT ![i] = e][i] = e
         /\ \A j \in 1 .. Len(s) : j # i => [s EXCEPT ![i] = e][j] = s[j]
<1>1. PICK n \in Nat : n = Len(s) /\ DOMAIN s = 1 .. n
  OBVIOUS
<1>2. PICK t : t = [s EXCEPT ![i] = e]
  OBVIOUS
<1>3. DOMAIN t = 1 .. n /\ t[i] = e /\ \A j \in 1 .. n : j # i => t[j] = s[j]
  BY <1>1, <1>2
<1>4. \A j \in 1 .. n : t[j] \in S
  BY <1>1, <1>3
<1>5. t = [j \in 1 .. n |-> t[j]]
  <2>1. t = [j \in DOMAIN s |-> IF j = i THEN e ELSE s[j]]
    BY <1>2, Zenon
  <2>2. t = [j \in DOMAIN t |-> t[j]]
    BY <2>1, Zenon
  <2> QED BY <1>3, <2>2
<1>6. t \in Seq(S) /\ Len(t) = n
  BY <1>4, <1>5
<1> QED BY <1>1, <1>2, <1>3, <1>6

\* The last voice with one more speaker.
LEMMA VoiceWithSpeaker ==
  ASSUME voices \in Seq(EntryRecords), voices # <<>>, NEW p \in Ptr,
         voices' = [voices EXCEPT ![LastVoice].speakers = Append(@, p)]
  PROVE  /\ Len(voices) \in Nat \ {0} /\ Len(voices') = Len(voices)
         /\ voices' \in Seq(EntryRecords)
         /\ \A i \in 1 .. Len(voices) : i # Len(voices) => voices'[i] = voices[i]
         /\ voices'[Len(voices)] =
              [voices[Len(voices)] EXCEPT !.speakers = Append(@, p)]
<1>1. PICK n \in Nat \ {0} : n = Len(voices)
  OBVIOUS
<1>2. PICK e : e = [voices[n] EXCEPT !.speakers = Append(@, p)]
  OBVIOUS
<1>3. voices[n] \in EntryRecords
  BY <1>1
<1>4. e \in EntryRecords
  <2>1. voices[n].speakers \in Seq(Ptr)
    BY <1>3 DEF EntryRecords
  <2>2. Append(voices[n].speakers, p) \in Seq(Ptr)
    BY <2>1
  <2> QED BY <1>2, <1>3, <2>2 DEF EntryRecords
<1>5. voices' = [voices EXCEPT ![n] = e]
  BY <1>1, <1>2 DEF LastVoice
<1>6. /\ voices' \in Seq(EntryRecords) /\ Len(voices') = n /\ voices'[n] = e
      /\ \A i \in 1 .. n : i # n => voices'[i] = voices[i]
  <2>1. n \in 1 .. Len(voices)
    BY <1>1
  <2>2. /\ [voices EXCEPT ![n] = e] \in Seq(EntryRecords)
        /\ Len([voices EXCEPT ![n] = e]) = Len(voices)
        /\ [voices EXCEPT ![n] = e][n] = e
        /\ \A j \in 1 .. Len(voices) : j # n => [voices EXCEPT ![n] = e][j] = voices[j]
    BY <1>4, <2>1, ReplacedAt
  <2> QED BY <1>1, <1>5, <2>2
<1> QED BY <1>1, <1>2, <1>6

\* and a speaker that is added is kept by the last voice.
LEMMA KeptWithSpeaker ==
  ASSUME voices \in Seq(EntryRecords), voices # <<>>, NEW p \in Ptr,
         voices' = [voices EXCEPT ![LastVoice].speakers = Append(@, p)],
         models' = models
  PROVE  Kept' = Kept \cup ({p} \ {Null})
<1>1. PICK n \in Nat \ {0} : n = Len(voices)
  OBVIOUS
<1>2. PICK e : e = voices[n]
  OBVIOUS
<1>3. PICK f : f = [e EXCEPT !.speakers = Append(@, p)]
  OBVIOUS
<1>4. /\ DOMAIN voices = 1 .. n /\ DOMAIN voices' = 1 .. n
      /\ \A i \in 1 .. n : i # n => voices'[i] = voices[i]
      /\ voices'[n] = f
  <2>1. /\ Len(voices') = Len(voices) /\ voices' \in Seq(EntryRecords)
        /\ \A i \in 1 .. Len(voices) : i # Len(voices) => voices'[i] = voices[i]
        /\ voices'[Len(voices)] =
             [voices[Len(voices)] EXCEPT !.speakers = Append(@, p)]
    BY VoiceWithSpeaker
  <2>2. DOMAIN voices = 1 .. n /\ DOMAIN voices' = 1 .. n
    BY <1>1, <2>1
  <2> QED BY <1>1, <1>2, <1>3, <2>1, <2>2
<1>5. e \in EntryRecords
  BY <1>1, <1>2
<1>6. e.speakers \in Seq(Ptr)
  BY <1>5 DEF EntryRecords
<1>7. /\ f.name = e.name /\ f.languages = e.languages
      /\ f.speakers = Append(e.speakers, p)
  BY <1>3, <1>5 DEF EntryRecords
<1>8. ElementsOf(f.speakers) = ElementsOf(e.speakers) \cup {p}
  BY <1>6, <1>7, ElementsAppended
<1>9. EntryStrings(f) = EntryStrings(e) \cup ({p} \ {Null})
  BY <1>7, <1>8 DEF EntryStrings
<1>10. n \in 1 .. n
  OBVIOUS
<1>11. \A x : x \in Kept <=> \/ \E i \in 1 .. n : x \in EntryStrings(voices[i])
                             \/ \E g \in ElementsOf(models) : x \in EntryStrings(g)
  BY <1>4 DEF Kept, ElementsOf
<1>12. \A x : x \in Kept' <=> \/ \E i \in 1 .. n : x \in EntryStrings(voices'[i])
                              \/ \E g \in ElementsOf(models) : x \in EntryStrings(g)
  <2>1. Kept' = UNION {EntryStrings(g) : g \in {voices'[i] : i \in DOMAIN voices'}
                                                 \cup ElementsOf(models)}
    BY DEF Kept, EntryStrings, ElementsOf
  <2>2. {voices'[i] : i \in DOMAIN voices'} = {voices'[i] : i \in 1 .. n}
    BY <1>4
  <2>3. Kept' = UNION {EntryStrings(g) : g \in {voices'[i] : i \in 1 .. n}
                                                 \cup ElementsOf(models)}
    BY <2>1, <2>2
  <2> QED BY <2>3, Zenon
<1>13. \A x : x \in Kept' <=> x \in Kept \/ x \in {p} \ {Null}
  <2>1. ASSUME NEW x, x \in Kept' PROVE x \in Kept \/ x \in {p} \ {Null}
    BY <1>2, <1>4, <1>9, <1>10, <1>11, <1>12, <2>1
  <2>2. ASSUME NEW x, x \in Kept PROVE x \in Kept'
    BY <1>2, <1>4, <1>9, <1>10, <1>11, <1>12, <2>2
  <2>3. ASSUME NEW x, x \in {p} \ {Null} PROVE x \in Kept'
    BY <1>4, <1>9, <1>10, <1>12, <2>3
  <2> QED BY <2>1, <2>2, <2>3
<1> QED BY <1>13

\* Strings of this call that go to the heap and are kept leave the heap
\* accounted for.
LEMMA HeapWithEntry ==
  ASSUME TypeOK, HeapAccounted, OwnInv, srv = "live", srv' = srv,
         ncalls' = ncalls + 1, tts' = tts, asr' = asr,
         NEW new, \A x \in new : x \in Str /\ x[1] = ncalls + 1,
         Kept' = Kept \cup new, heap' = heap \cup new
  PROVE  HeapAccounted' /\ OwnInv'
<1>1. Reachable = ({tts.name, asr.name} \ {Null}) \cup Kept
  BY ReachableStrings
<1>2. Reachable' = ({tts.name, asr.name} \ {Null}) \cup Kept'
  BY DEF Reachable, Kept
<1>3. heap = Reachable /\ ncalls \in Nat /\ heap \subseteq Str
  BY DEF HeapAccounted, TypeOK
<1>4. HeapAccounted'
  <2>1. heap' = Reachable'
    BY <1>1, <1>2, <1>3
  <2> QED BY <2>1 DEF HeapAccounted
<1>5. \A x \in heap : x \in Str /\ x[1] <= ncalls
  BY <1>3 DEF OwnInv
<1>6. \A x \in heap : x \notin new
  <2>1. \A x \in Str : x[1] \in Nat
    BY DEF Str
  <2> QED BY <1>3, <1>5, <2>1
<1>7. \A x \in Reachable' : x[1] <= ncalls'
  <2>1. \A x \in Str : x[1] \in Nat
    BY DEF Str
  <2> QED BY <1>1, <1>2, <1>3, <1>5, <2>1
<1>8. /\ tts.name # Null => tts.name \in heap
      /\ asr.name # Null => asr.name \in heap
  BY <1>1, <1>3
<1> QED BY <1>4, <1>6, <1>7, <1>8 DEF OwnInv

-----------------------------------------------------------------------------
(* The registry against what was said.                                     *)

\* What the registry holds it still holds when more copies have failed.
LEMMA ServiceKept ==
  ASSUME NEW s, NEW c, NEW m \in Nat, NEW n \in Nat, m <= n, ServiceSaid(s, c, m)
  PROVE  ServiceSaid(s, c, n)
<1>1. m > 0 => n > 0
  OBVIOUS
<1> QED BY <1>1 DEF ServiceSaid, CopyOf

\* What is true of an entry stays so as more copies fail.
LEMMA EntryKept ==
  ASSUME NEW e, NEW x, NEW m \in Nat, NEW n \in Nat, m <= n, EntrySaid(e, x, m)
  PROVE  EntrySaid(e, x, n)
<1>1. m > 0 => n > 0
  OBVIOUS
<1> QED BY <1>1, Zenon DEF EntrySaid, CopiesOf, CopyOf

\* And of all entries.
LEMMA EntriesKept ==
  ASSUME NEW a, NEW x, NEW m \in Nat, NEW n \in Nat, m <= n, EntriesSaid(a, x, m)
  PROVE  EntriesSaid(a, x, n)
  BY EntryKept, Zenon DEF EntriesSaid

\* The last call that sets a service says whether it is offered.
LEMMA ServiceSet ==
  ASSUME NEW c \in Seq(Records), NEW r \in Records, NEW s, NEW m,
         s.fn = r.on, CopyOf(s.name, <<r.id, 1>>, m)
  PROVE  ServiceSaid(s, Append(c, r), m)
<1>1. PICK t : t = Append(c, r)
  OBVIOUS
<1>2. t # <<>> /\ LastOf(t) = r
  BY <1>1 DEF LastOf
<1>3. Offered(t) <=> r.on
  BY <1>2 DEF Offered
<1> QED BY <1>1, <1>2, <1>3 DEF ServiceSaid

\* An entry that holds what its call said is added.
LEMMA EntryAdded ==
  ASSUME NEW a \in Seq(EntryRecords), NEW e \in EntryRecords,
         NEW b \in Seq(EntryRecords), NEW x \in EntryRecords, NEW m,
         EntriesSaid(a, b, m), EntrySaid(e, x, m)
  PROVE  EntriesSaid(Append(a, e), Append(b, x), m)
<1>1. PICK n \in Nat : n = Len(a)
  OBVIOUS
<1>2. Len(b) = n
  BY <1>1 DEF EntriesSaid
<1>3. PICK u : u = Append(a, e)
  OBVIOUS
<1>4. PICK v : v = Append(b, x)
  OBVIOUS
<1>5. Len(u) = n + 1 /\ u[n + 1] = e /\ \A k \in 1 .. n : u[k] = a[k]
  BY <1>1, <1>3
<1>6. Len(v) = n + 1 /\ v[n + 1] = x /\ \A k \in 1 .. n : v[k] = b[k]
  BY <1>2, <1>4
<1>7. \A k \in 1 .. n + 1 : k \in 1 .. n \/ k = n + 1
  OBVIOUS
<1>8. \A k \in 1 .. n : EntrySaid(a[k], b[k], m)
  BY <1>2 DEF EntriesSaid
<1>9. \A k \in 1 .. n + 1 : EntrySaid(u[k], v[k], m)
  BY <1>5, <1>6, <1>7, <1>8
<1> QED BY <1>3, <1>4, <1>5, <1>6, <1>9 DEF EntriesSaid

\* The speakers said are strings.
LEMMA SpeakersType ==
  ASSUME NEW c, NEW k, NEW sp \in Seq(Records)
  PROVE  SpeakersOf(c, k, sp) \in Seq(Str)
<1>1. After(c, k, sp) \in SUBSET (1 .. Len(sp))
  BY DEF After
<1>2. PICK a : a = ElementsAt(sp, After(c, k, sp))
  OBVIOUS
<1>3. a \in Seq(Records)
  BY <1>1, <1>2, ElementsAtPlaces
<1>4. PICK n \in Nat : n = Len(a) /\ DOMAIN a = 1 .. n
  BY <1>3
<1>5. \A j \in 1 .. n : a[j] \in Records
  BY <1>3, <1>4
<1>6. \A j \in 1 .. n : <<a[j].id, 1>> \in Str
  BY <1>5 DEF Records, Str
<1>7. SpeakersOf(c, k, sp) = [j \in 1 .. n |-> <<a[j].id, 1>>]
  BY <1>2, <1>4 DEF SpeakersOf
<1> QED BY <1>6, <1>7

\* What a call says is an entry whose strings are all there.
LEMMA SaidEntryType ==
  ASSUME NEW r \in Records, NEW sp \in Seq(Str)
  PROVE  /\ SaidEntry(r, sp) \in EntryRecords
         /\ SaidEntry(r, sp).name = <<r.id, 1>>
         /\ SaidEntry(r, sp).languages \in Seq(Str)
         /\ Len(SaidEntry(r, sp).languages) = Copied(r.langs)
         /\ \A i \in 1 .. Copied(r.langs) :
              SaidEntry(r, sp).languages[i] = <<r.id, i + 1>>
         /\ SaidEntry(r, sp).speakers = sp
<1>1. r.id \in Nat /\ r.langs \in Nat
  BY DEF Records
<1>2. PICK n \in Nat : n = Copied(r.langs)
  BY <1>1, RegistryAssumption DEF Copied
<1>3. PICK l : l = [i \in 1 .. n |-> <<r.id, i + 1>>]
  OBVIOUS
<1>4. \A i \in 1 .. n : <<r.id, i + 1>> \in Str
  BY <1>1 DEF Str
<1>5. l \in Seq(Str) /\ Len(l) = n /\ \A i \in 1 .. n : l[i] = <<r.id, i + 1>>
  BY <1>3, <1>4
<1>6. PICK e : e = SaidEntry(r, sp)
  OBVIOUS
<1>7. e = [name |-> <<r.id, 1>>, languages |-> l, speakers |-> sp]
  BY <1>2, <1>3, <1>6 DEF SaidEntry
<1>8. \A s \in Seq(Str) : s \in Seq(Ptr)
  BY DEF Ptr
<1>9. <<r.id, 1>> \in Ptr
  BY <1>1 DEF Str, Ptr
<1>10. e \in EntryRecords
  BY <1>5, <1>7, <1>8, <1>9 DEF EntryRecords
<1> QED BY <1>2, <1>5, <1>6, <1>7, <1>10

\* And the entries said are entries.
LEMMA SaidEntriesType ==
  ASSUME NEW c \in Seq(Records), NEW sp \in Seq(Records)
  PROVE  /\ SaidEntries(c, sp) \in Seq(EntryRecords)
         /\ Len(SaidEntries(c, sp)) = Len(c)
         /\ \A k \in 1 .. Len(c) :
              SaidEntries(c, sp)[k] = SaidEntry(c[k], SpeakersOf(c, k, sp))
<1>1. PICK n \in Nat : n = Len(c) /\ DOMAIN c = 1 .. n
  OBVIOUS
<1>2. \A k \in 1 .. n : c[k] \in Records
  BY <1>1
<1>3. \A k \in 1 .. n : SaidEntry(c[k], SpeakersOf(c, k, sp)) \in EntryRecords
  BY <1>2, SpeakersType, SaidEntryType
<1>4. SaidEntries(c, sp) = [k \in 1 .. n |-> SaidEntry(c[k], SpeakersOf(c, k, sp))]
  BY <1>1 DEF SaidEntries
<1> QED BY <1>1, <1>3, <1>4

\* A voice is added to what was said, with no speakers yet;
LEMMA SaidVoiceAdded ==
  ASSUME NEW c \in Seq(Records), NEW sp \in Seq(Records), NEW r \in Records,
         \A i \in 1 .. Len(sp) : sp[i].id < r.id
  PROVE  SaidEntries(Append(c, r), sp) =
           Append(SaidEntries(c, sp), SaidEntry(r, <<>>))
<1>1. PICK n \in Nat : n = Len(c)
  OBVIOUS
<1>2. PICK t : t = Append(c, r)
  OBVIOUS
<1>3. /\ t \in Seq(Records) /\ Len(t) = n + 1 /\ t[n + 1] = r
      /\ \A i \in 1 .. n : t[i] = c[i]
  BY <1>1, <1>2
<1>4. /\ SpeakersOf(t, n + 1, sp) = <<>>
      /\ \A k \in 1 .. n : SpeakersOf(t, k, sp) = SpeakersOf(c, k, sp)
  BY <1>1, <1>2, VoiceAdded
<1>5. PICK a : a = SaidEntries(c, sp)
  OBVIOUS
<1>6. /\ a \in Seq(EntryRecords) /\ Len(a) = n
      /\ \A k \in 1 .. n : a[k] = SaidEntry(c[k], SpeakersOf(c, k, sp))
  BY <1>1, <1>5, SaidEntriesType
<1>7. PICK b : b = SaidEntries(t, sp)
  OBVIOUS
<1>8. /\ b \in Seq(EntryRecords) /\ Len(b) = n + 1
      /\ \A k \in 1 .. n + 1 : b[k] = SaidEntry(t[k], SpeakersOf(t, k, sp))
  BY <1>3, <1>7, SaidEntriesType
<1>9. \A k \in 1 .. n : b[k] = a[k]
  <2>1. \A k \in 1 .. n : k \in 1 .. n + 1
    OBVIOUS
  <2> QED BY <1>3, <1>4, <1>6, <1>8, <2>1
<1>10. b[n + 1] = SaidEntry(r, <<>>)
  <2>1. n + 1 \in 1 .. n + 1
    OBVIOUS
  <2> QED BY <1>3, <1>4, <1>8, <2>1
<1>11. b = Append(a, SaidEntry(r, <<>>))
  <2>1. PICK x : x = SaidEntry(r, <<>>)
    OBVIOUS
  <2>2. x \in EntryRecords
    <3>1. <<>> \in Seq(Str)
      OBVIOUS
    <3> QED BY <2>1, <3>1, SaidEntryType
  <2>3. b = Append(a, x)
    BY <1>1, <1>6, <1>8, <1>9, <1>10, <2>1, <2>2
  <2> QED BY <2>1, <2>3
<1> QED BY <1>2, <1>5, <1>7, <1>11

\* an entry holds what its call said, up to the copies that failed,
LEMMA EntryHolds ==
  ASSUME ncalls \in Nat, NEW n \in Nat, NEW lost \in SUBSET Strings(n),
         NEW m, lost # {} => m > 0, NEW r \in Records,
         r.id = ncalls + 1, r.langs = n
  PROVE  EntrySaid(Entry(n, lost), SaidEntry(r, <<>>), m)
<1>1. PICK c \in Nat : c = Copied(n)
  BY StringsOfCall
<1>2. PICK e : e = Entry(n, lost)
  OBVIOUS
<1>3. PICK x : x = SaidEntry(r, <<>>)
  OBVIOUS
<1>4. /\ x.name = <<r.id, 1>> /\ Len(x.languages) = c /\ x.speakers = <<>>
      /\ \A i \in 1 .. c : x.languages[i] = <<r.id, i + 1>>
  <2>1. <<>> \in Seq(Str)
    OBVIOUS
  <2> QED BY <1>1, <1>3, <2>1, SaidEntryType
<1>5. \A i : CopyOf(Dup(Arg(i), lost), <<r.id, i>>, m)
  BY DEF CopyOf, Dup, Arg, Call
<1>6. /\ e.name = Dup(Arg(1), lost)
      /\ e.languages = [i \in 1 .. c |-> Dup(Arg(i + 1), lost)]
  BY <1>1, <1>2 DEF Entry
<1>7. Len(e.languages) = c /\ e.speakers = <<>>
  BY <1>1, <1>2, EntryOfCall
<1>8. CopiesOf(e.languages, x.languages, m)
  BY <1>1, <1>4, <1>5, <1>6, <1>7 DEF CopiesOf
<1>9. CopiesOf(e.speakers, x.speakers, m)
  BY <1>4, <1>7 DEF CopiesOf
<1> QED BY <1>2, <1>3, <1>4, <1>5, <1>6, <1>8, <1>9 DEF EntrySaid

\* and a speaker is added to the last voice in the registry and in what was
\* said.
LEMMA SpeakerHolds ==
  ASSUME voices \in Seq(EntryRecords), voices # <<>>, NEW p \in Ptr,
         voices' = [voices EXCEPT ![LastVoice].speakers = Append(@, p)],
         NEW c \in Seq(Records), NEW sp \in Seq(Records), NEW r \in Records,
         \A i \in 1 .. Len(c) : c[i].id < r.id,
         NEW m, EntriesSaid(voices, SaidEntries(c, sp), m),
         CopyOf(p, <<r.id, 1>>, m)
  PROVE  EntriesSaid(voices', SaidEntries(c, Append(sp, r)), m)
<1>1. PICK n \in Nat \ {0} : n = Len(voices)
  OBVIOUS
<1>2. PICK a : a = SaidEntries(c, sp)
  OBVIOUS
<1>3. Append(sp, r) \in Seq(Records)
  OBVIOUS
<1>4. PICK b : b = SaidEntries(c, Append(sp, r))
  OBVIOUS
<1>5. Len(c) = n /\ Len(a) = n /\ Len(b) = n
  BY <1>1, <1>2, <1>3, <1>4, SaidEntriesType DEF EntriesSaid
<1>6. \A k \in 1 .. n : /\ EntrySaid(voices[k], a[k], m)
                        /\ c[k] \in Records
                        /\ a[k] = SaidEntry(c[k], SpeakersOf(c, k, sp))
                        /\ b[k] = SaidEntry(c[k], SpeakersOf(c, k, Append(sp, r)))
  <2>1. \A k \in 1 .. n : EntrySaid(voices[k], a[k], m)
    BY <1>2, <1>5 DEF EntriesSaid
  <2>2. \A k \in 1 .. n : c[k] \in Records
    BY <1>5
  <2>3. \A k \in 1 .. n : a[k] = SaidEntry(c[k], SpeakersOf(c, k, sp))
    BY <1>2, <1>5, SaidEntriesType
  <2>4. \A k \in 1 .. n : b[k] = SaidEntry(c[k], SpeakersOf(c, k, Append(sp, r)))
    BY <1>3, <1>4, <1>5, SaidEntriesType
  <2> QED BY <2>1, <2>2, <2>3, <2>4
<1>7. /\ Len(voices') = n /\ \A k \in 1 .. n : k # n => voices'[k] = voices[k]
      /\ voices'[n] = [voices[n] EXCEPT !.speakers = Append(@, p)]
  BY <1>1, VoiceWithSpeaker
<1>8. ASSUME NEW k \in 1 .. n, k # n
      PROVE  EntrySaid(voices'[k], b[k], m)
  <2>1. SpeakersOf(c, k, Append(sp, r)) = SpeakersOf(c, k, sp)
    <3>1. k \in 1 .. Len(c) /\ k # Len(c)
      BY <1>5, <1>8
    <3> QED BY <3>1, SpeakerAdded, Zenon
  <2>2. voices'[k] = voices[k] /\ b[k] = a[k]
    BY <1>6, <1>7, <1>8, <2>1
  <2> QED BY <1>6, <2>2
<1>9. n \in 1 .. n
  OBVIOUS
<1>10. EntrySaid(voices'[n], b[n], m)
  <2>1. PICK u : u = SpeakersOf(c, n, sp)
    OBVIOUS
  <2>2. u \in Seq(Str) /\ Append(u, <<r.id, 1>>) \in Seq(Str)
    <3>1. u \in Seq(Str)
      BY <2>1, SpeakersType
    <3>2. <<r.id, 1>> \in Str
      BY DEF Records, Str
    <3> QED BY <3>1, <3>2
  <2>3. SpeakersOf(c, n, Append(sp, r)) = Append(u, <<r.id, 1>>)
    BY <1>5, <1>9, <2>1, SpeakerAdded
  <2>4. PICK e : e = voices[n] /\ e \in EntryRecords
    BY <1>1
  <2>5. PICK f : f = voices'[n]
    OBVIOUS
  <2>6. /\ f.name = e.name /\ f.languages = e.languages
        /\ f.speakers = Append(e.speakers, p) /\ e.speakers \in Seq(Ptr)
    BY <1>7, <2>4, <2>5 DEF EntryRecords
  <2>7. /\ b[n].name = a[n].name /\ b[n].languages = a[n].languages
        /\ a[n].speakers = u /\ b[n].speakers = Append(u, <<r.id, 1>>)
    <3>1. /\ a[n] = SaidEntry(c[n], u)
          /\ b[n] = SaidEntry(c[n], Append(u, <<r.id, 1>>))
      BY <1>6, <1>9, <2>1, <2>3
    <3> QED BY <3>1 DEF SaidEntry
  <2>8. EntrySaid(e, a[n], m)
    BY <1>6, <1>9, <2>4
  <2>9. Len(e.speakers) = Len(u) /\ \A j \in 1 .. Len(u) : CopyOf(e.speakers[j], u[j], m)
    BY <2>7, <2>8 DEF EntrySaid, CopiesOf
  <2>10. CopiesOf(f.speakers, b[n].speakers, m)
    <3>1. PICK q : q = Append(e.speakers, p)
      OBVIOUS
    <3>2. PICK v : v = Append(u, <<r.id, 1>>)
      OBVIOUS
    <3>3. PICK l \in Nat : l = Len(u)
      BY <2>2
    <3>4. Len(q) = l + 1 /\ q[l + 1] = p /\ \A j \in 1 .. l : q[j] = e.speakers[j]
      BY <2>6, <2>9, <3>1, <3>3
    <3>5. Len(v) = l + 1 /\ v[l + 1] = <<r.id, 1>> /\ \A j \in 1 .. l : v[j] = u[j]
      BY <2>2, <3>2, <3>3
    <3>6. \A j \in 1 .. l + 1 : j \in 1 .. l \/ j = l + 1
      OBVIOUS
    <3>7. \A j \in 1 .. l + 1 : CopyOf(q[j], v[j], m)
      BY <2>9, <3>3, <3>4, <3>5, <3>6
    <3> QED BY <2>6, <2>7, <3>1, <3>2, <3>4, <3>5, <3>7 DEF CopiesOf
  <2> QED BY <2>5, <2>6, <2>7, <2>8, <2>10 DEF EntrySaid
<1> QED BY <1>4, <1>5, <1>7, <1>8, <1>10 DEF EntriesSaid

-----------------------------------------------------------------------------
(* RegistryInv is inductive.                                               *)

\* An empty registry.
LEMMA InitRegistryInv == Init => RegistryInv
<1> SUFFICES ASSUME Init PROVE RegistryInv
  OBVIOUS
<1> USE DEF Init
<1>1. ElementsOf(<<>>) = {}
  BY DEF ElementsOf
<1>2. \A op : Calls(op) = <<>>
  <2>1. log \in Seq(Records) /\ \A op : {i \in DOMAIN log : log[i].op = op} = {}
    OBVIOUS
  <2> QED BY <2>1, ElementsAtAll, Zenon DEF Calls
<1>3. NoService.fn = FALSE /\ NoService.name = Null
      /\ NoService \in [fn : BOOLEAN, name : Ptr]
  BY DEF NoService, Ptr
<1>4. TypeOK
  <2>1. <<>> \in Seq(EntryRecords) /\ Len(<<>>) = 0 /\ DOMAIN <<>> = {}
    OBVIOUS
  <2>2. Len(voices) <= MaxVoices /\ Len(models) <= MaxModels
    BY <2>1, RegistryAssumption
  <2>3. DOMAIN voices = {} /\ DOMAIN models = {} /\ voices \in Seq(EntryRecords)
        /\ models \in Seq(EntryRecords)
    BY <2>1
  <2>4. /\ tts \in [fn : BOOLEAN, name : Ptr] /\ asr \in [fn : BOOLEAN, name : Ptr]
        /\ srv \in {"live", "freed"} /\ stream \in BOOLEAN /\ heap \subseteq Str
        /\ ncalls \in Nat /\ nomem \in Nat
    BY <1>3
  <2> QED BY <2>2, <2>3, <2>4, Zenon DEF TypeOK
<1>5. Kept = {} /\ Reachable = {}
  BY <1>1, <1>3 DEF Kept, Reachable
<1>6. HeapAccounted /\ OwnInv
  BY <1>3, <1>5 DEF HeapAccounted, OwnInv
<1>7. LogInv
  BY DEF LogInv
<1>8. SaidInv
  <2>1. ServiceSaid(NoService, <<>>, 0)
    BY <1>3 DEF ServiceSaid, Offered
  <2>2. \A sp : SaidEntries(<<>>, sp) = <<>>
    BY DEF SaidEntries
  <2>3. EntriesSaid(<<>>, <<>>, 0)
    BY DEF EntriesSaid
  <2>4. SaidVoices = <<>> /\ SaidModels = <<>>
    BY <1>2, <2>2 DEF SaidVoices, SaidModels
  <2> QED BY <1>2, <2>1, <2>3, <2>4 DEF SaidInv
<1> QED BY <1>4, <1>6, <1>7, <1>8 DEF RegistryInv

\* The copies that fail in a call.
LEMMA LossesOf ==
  ASSUME NEW a, IsFiniteSet(a), NEW lost \in Losses(a)
  PROVE  lost \in SUBSET a /\ IsFiniteSet(lost)
<1>1. lost \in SUBSET a
  BY DEF Losses
<1> QED BY <1>1, FS_Subset

\* The string a call's first argument is copied to is new.
LEMMA OneString ==
  ASSUME ncalls \in Nat
  PROVE  IsFiniteSet({Arg(1)}) /\ Arg(1) \in Str /\ Arg(1)[1] = ncalls + 1
<1>1. Arg(1) = <<ncalls + 1, 1>>
  BY DEF Arg, Call
<1>2. ncalls + 1 \in Nat /\ 1 \in Nat
  OBVIOUS
<1>3. Arg(1) \in Str /\ Arg(1)[1] = ncalls + 1
  BY <1>1, <1>2 DEF Str
<1> QED BY <1>3, FS_Singleton, Zenon

\* Nothing but the number of calls changes: a refused call, or one that only
\* sets the streaming callbacks.
LEMMA QuietStep ==
  ASSUME RegistryInv, Calling, stream' \in BOOLEAN,
         UNCHANGED <<tts, asr, voices, models, heap, nomem, log>>
  PROVE  RegistryInv'
<1>1. ncalls \in Nat /\ ncalls' = ncalls + 1 /\ srv' = srv
  BY DEF RegistryInv, TypeOK, Calling, Call
<1>2. TypeOK'
  BY <1>1 DEF RegistryInv, TypeOK
<1>3. Reachable' = Reachable /\ Kept' = Kept
  BY DEF Reachable, Kept, ElementsOf, EntryStrings
<1>4. HeapAccounted'
  BY <1>1, <1>3 DEF RegistryInv, HeapAccounted
<1>5. LogInv'
  <2>1. \A i \in DOMAIN log : log[i].id \in Nat
    <3>1. \A i \in DOMAIN log : log[i] \in Records
      BY DEF RegistryInv, LogInv
    <3> QED BY <3>1 DEF Records
  <2> QED BY <1>1, <2>1 DEF RegistryInv, LogInv
<1>6. OwnInv'
  <2>1. \A x \in Reachable : x[1] \in Nat
    <3>1. srv = "live" /\ heap = Reachable /\ heap \subseteq Str
      BY DEF RegistryInv, HeapAccounted, TypeOK, Calling
    <3> QED BY <3>1 DEF Str
  <2> QED BY <1>1, <1>3, <2>1 DEF RegistryInv, OwnInv
<1>7. SaidInv'
  <2>1. \A op : Calls(op)' = Calls(op)
    BY DEF Calls, ElementsAt, RankIn
  <2>2. SaidVoices' = SaidVoices /\ SaidModels' = SaidModels
    BY <2>1 DEF SaidVoices, SaidModels
  <2> QED BY <2>1, <2>2 DEF RegistryInv, SaidInv
<1> QED BY <1>2, <1>4, <1>5, <1>6, <1>7 DEF RegistryInv

\* The heap H of a server with the names a and b and the strings kept, all of
\* the first n calls.
HeapOf(H, a, b, kept, n) ==
  /\ H = ({a, b} \ {Null}) \cup kept /\ H \subseteq Str
  /\ \A x \in H : x[1] <= n
  /\ a # Null => a # b /\ a \notin kept
  /\ b # Null => b \notin kept

\* The strings in use are those of the services and of the entries.
LEMMA HeapOfServer ==
  TypeOK /\ HeapAccounted /\ OwnInv /\ srv = "live" =>
    /\ HeapOf(heap, tts.name, asr.name, Kept, ncalls)
    /\ HeapOf(heap, asr.name, tts.name, Kept, ncalls)
  BY ReachableStrings DEF HeapOf, TypeOK, HeapAccounted, OwnInv

\* A service's name is replaced: the old one leaves the heap, where nothing
\* else points to it, and the new one is on it if it could be copied.
LEMMA HeapWithName ==
  ASSUME NEW H, NEW old, NEW other, NEW kept, NEW n \in Nat,
         HeapOf(H, old, other, kept, n),
         NEW new, new = Null \/ (new \in Str /\ new[1] = n + 1)
  PROVE  HeapOf((H \ {old}) \cup ({new} \ {Null}), new, other, kept, n + 1)
<1> USE DEF HeapOf
<1> DEFINE G == (H \ {old}) \cup ({new} \ {Null})
<1>1. Null \notin Str /\ \A x \in Str : x[1] \in Nat
  BY RegistryAssumption DEF Str
<1>2. Null \notin H
  BY <1>1
<1>3. new \notin H
  BY <1>1
<1>4. G = ({new, other} \ {Null}) \cup kept
  BY <1>2
<1>5. \A x \in G : x \in Str /\ x[1] <= n + 1
  BY <1>1
<1>6. new # Null => new # other /\ new \notin kept
  BY <1>3
<1> QED BY <1>4, <1>5, <1>6

\* wyoming_server_set_tts.
LEMMA SetTtsStep == RegistryInv /\ SetTts => RegistryInv'
<1> SUFFICES ASSUME RegistryInv, SetTts PROVE RegistryInv'
  OBVIOUS
<1>1. TypeOK /\ HeapAccounted /\ LogInv /\ OwnInv /\ SaidInv /\ Calling
  BY DEF RegistryInv, SetTts
<1>2. PICK fn \in BOOLEAN, lost \in Losses({Arg(1)}) :
        /\ tts' = [fn |-> fn, name |-> Dup(Arg(1), lost)]
        /\ ReplaceName(tts.name, lost)
        /\ Accept("tts", fn, 0, lost)
  BY DEF SetTts
<1>3. ncalls \in Nat /\ nomem \in Nat /\ srv = "live" /\ srv' = "live"
      /\ UNCHANGED <<asr, stream, voices, models>>
  BY <1>1 DEF TypeOK, Calling, SetTts
<1>4. Arg(1) \in Str /\ Arg(1)[1] = ncalls + 1 /\ IsFiniteSet({Arg(1)})
  BY <1>3, OneString
<1>5. lost \in SUBSET {Arg(1)} /\ IsFiniteSet(lost)
  BY <1>4, LossesOf
<1> DEFINE rec == [op |-> "tts", id |-> ncalls + 1, on |-> fn, langs |-> 0]
<1>6. /\ LogInv' /\ ncalls' = ncalls + 1 /\ nomem' \in Nat /\ nomem <= nomem'
      /\ (lost # {} => nomem' > 0) /\ rec \in Records
      /\ \A o : Calls(o)' = IF o = "tts" THEN Append(Calls(o), rec) ELSE Calls(o)
  <2>1. 0 \in Nat /\ "tts" \in {"tts", "asr", "voice", "speaker", "model"}
    OBVIOUS
  <2> QED BY <1>1, <1>2, <1>5, <2>1, AcceptedCall, ZenonT(40)
<1>7. rec.on = fn /\ rec.id = ncalls + 1
  OBVIOUS
<1> HIDE DEF rec
<1>8. PICK new : new = Dup(Arg(1), lost)
  OBVIOUS
<1>9. tts'.fn = fn /\ tts'.name = new /\ tts' \in [fn : BOOLEAN, name : Ptr]
  BY <1>2, <1>4, <1>8 DEF Dup, Ptr
<1>10. {new} \ {Null} = {Arg(1)} \ lost /\ (new = Null \/ new = Arg(1))
  <2>1. Null # Arg(1)
    BY <1>4, RegistryAssumption DEF Str
  <2> QED BY <1>5, <1>8, <2>1 DEF Dup
<1>11. HeapOf(heap, tts.name, asr.name, Kept, ncalls)
  BY <1>1, <1>3, HeapOfServer
<1>12. heap' = (heap \ {tts.name}) \cup ({new} \ {Null})
  BY <1>2, <1>10 DEF ReplaceName
<1>13. HeapOf(heap', new, asr.name, Kept, ncalls + 1)
  <2>1. new = Null \/ (new \in Str /\ new[1] = ncalls + 1)
    BY <1>4, <1>10
  <2> QED BY <1>3, <1>11, <1>12, <2>1, HeapWithName, Zenon
<1>14. Kept' = Kept /\ Reachable' = ({tts'.name, asr'.name} \ {Null}) \cup Kept'
  BY <1>3 DEF Kept, Reachable, ElementsOf, EntryStrings
<1>15. heap' = Reachable'
  BY <1>3, <1>9, <1>13, <1>14 DEF HeapOf
<1>16. HeapAccounted' /\ OwnInv'
  BY <1>3, <1>6, <1>9, <1>13, <1>14, <1>15 DEF HeapOf, HeapAccounted, OwnInv
<1>17. TypeOK'
  BY <1>1, <1>3, <1>6, <1>9, <1>13 DEF TypeOK, HeapOf
<1>18. SaidInv'
  <2>1. CopyOf(new, <<ncalls + 1, 1>>, nomem')
    BY <1>6, <1>8 DEF CopyOf, Dup, Arg, Call
  <2>2. Calls("tts") \in Seq(Records)
    BY <1>1, <1>3, CallsOf
  <2>3. ServiceSaid(tts', Append(Calls("tts"), rec), nomem')
    BY <1>6, <1>7, <1>9, <2>1, <2>2, ServiceSet
  <2>4. ServiceSaid(tts', Calls("tts")', nomem')
    BY <1>6, <2>3
  <2>5. ServiceSaid(asr, Calls("asr"), nomem')
    BY <1>1, <1>3, <1>6, ServiceKept DEF SaidInv
  <2>6. EntriesSaid(voices, SaidVoices, nomem')
        /\ EntriesSaid(models, SaidModels, nomem')
    BY <1>1, <1>3, <1>6, EntriesKept DEF SaidInv
  <2>7. Calls("asr")' = Calls("asr") /\ SaidVoices' = SaidVoices
        /\ SaidModels' = SaidModels
    BY <1>6 DEF SaidVoices, SaidModels
  <2> QED BY <1>3, <2>4, <2>5, <2>6, <2>7 DEF SaidInv
<1> QED BY <1>6, <1>16, <1>17, <1>18 DEF RegistryInv

\* wyoming_server_set_asr.
LEMMA SetAsrStep == RegistryInv /\ SetAsr => RegistryInv'
<1> SUFFICES ASSUME RegistryInv, SetAsr PROVE RegistryInv'
  OBVIOUS
<1>1. TypeOK /\ HeapAccounted /\ LogInv /\ OwnInv /\ SaidInv /\ Calling
  BY DEF RegistryInv, SetAsr
<1>2. PICK fn \in BOOLEAN, lost \in Losses({Arg(1)}) :
        /\ asr' = [fn |-> fn, name |-> Dup(Arg(1), lost)]
        /\ ReplaceName(asr.name, lost)
        /\ Accept("asr", fn, 0, lost)
  BY DEF SetAsr
<1>3. ncalls \in Nat /\ nomem \in Nat /\ srv = "live" /\ srv' = "live"
      /\ UNCHANGED <<tts, stream, voices, models>>
  BY <1>1 DEF TypeOK, Calling, SetAsr
<1>4. Arg(1) \in Str /\ Arg(1)[1] = ncalls + 1 /\ IsFiniteSet({Arg(1)})
  BY <1>3, OneString
<1>5. lost \in SUBSET {Arg(1)} /\ IsFiniteSet(lost)
  BY <1>4, LossesOf
<1> DEFINE rec == [op |-> "asr", id |-> ncalls + 1, on |-> fn, langs |-> 0]
<1>6. /\ LogInv' /\ ncalls' = ncalls + 1 /\ nomem' \in Nat /\ nomem <= nomem'
      /\ (lost # {} => nomem' > 0) /\ rec \in Records
      /\ \A o : Calls(o)' = IF o = "asr" THEN Append(Calls(o), rec) ELSE Calls(o)
  <2>1. 0 \in Nat /\ "asr" \in {"tts", "asr", "voice", "speaker", "model"}
    OBVIOUS
  <2> QED BY <1>1, <1>2, <1>5, <2>1, AcceptedCall, ZenonT(40)
<1>7. rec.on = fn /\ rec.id = ncalls + 1
  OBVIOUS
<1> HIDE DEF rec
<1>8. PICK new : new = Dup(Arg(1), lost)
  OBVIOUS
<1>9. asr'.fn = fn /\ asr'.name = new /\ asr' \in [fn : BOOLEAN, name : Ptr]
  BY <1>2, <1>4, <1>8 DEF Dup, Ptr
<1>10. {new} \ {Null} = {Arg(1)} \ lost /\ (new = Null \/ new = Arg(1))
  <2>1. Null # Arg(1)
    BY <1>4, RegistryAssumption DEF Str
  <2> QED BY <1>5, <1>8, <2>1 DEF Dup
<1>11. HeapOf(heap, asr.name, tts.name, Kept, ncalls)
  BY <1>1, <1>3, HeapOfServer
<1>12. heap' = (heap \ {asr.name}) \cup ({new} \ {Null})
  BY <1>2, <1>10 DEF ReplaceName
<1>13. HeapOf(heap', new, tts.name, Kept, ncalls + 1)
  <2>1. new = Null \/ (new \in Str /\ new[1] = ncalls + 1)
    BY <1>4, <1>10
  <2> QED BY <1>3, <1>11, <1>12, <2>1, HeapWithName, Zenon
<1>14. Kept' = Kept /\ Reachable' = ({tts'.name, asr'.name} \ {Null}) \cup Kept'
  BY <1>3 DEF Kept, Reachable, ElementsOf, EntryStrings
<1>15. heap' = Reachable'
  BY <1>3, <1>9, <1>13, <1>14 DEF HeapOf
<1>16. HeapAccounted' /\ OwnInv'
  BY <1>3, <1>6, <1>9, <1>13, <1>14, <1>15 DEF HeapOf, HeapAccounted, OwnInv
<1>17. TypeOK'
  BY <1>1, <1>3, <1>6, <1>9, <1>13 DEF TypeOK, HeapOf
<1>18. SaidInv'
  <2>1. CopyOf(new, <<ncalls + 1, 1>>, nomem')
    BY <1>6, <1>8 DEF CopyOf, Dup, Arg, Call
  <2>2. Calls("asr") \in Seq(Records)
    BY <1>1, <1>3, CallsOf
  <2>3. ServiceSaid(asr', Append(Calls("asr"), rec), nomem')
    BY <1>6, <1>7, <1>9, <2>1, <2>2, ServiceSet
  <2>4. ServiceSaid(asr', Calls("asr")', nomem')
    BY <1>6, <2>3
  <2>5. ServiceSaid(tts, Calls("tts"), nomem')
    BY <1>1, <1>3, <1>6, ServiceKept DEF SaidInv
  <2>6. EntriesSaid(voices, SaidVoices, nomem')
        /\ EntriesSaid(models, SaidModels, nomem')
    BY <1>1, <1>3, <1>6, EntriesKept DEF SaidInv
  <2>7. Calls("tts")' = Calls("tts") /\ SaidVoices' = SaidVoices
        /\ SaidModels' = SaidModels
    BY <1>6 DEF SaidVoices, SaidModels
  <2> QED BY <1>3, <2>4, <2>5, <2>6, <2>7 DEF SaidInv
<1> QED BY <1>6, <1>16, <1>17, <1>18 DEF RegistryInv

\* wyoming_server_add_voice.
LEMMA AddVoiceStep == RegistryInv /\ AddVoice => RegistryInv'
<1> SUFFICES ASSUME RegistryInv, AddVoice PROVE RegistryInv'
  OBVIOUS
<1>1. TypeOK /\ HeapAccounted /\ LogInv /\ OwnInv /\ SaidInv /\ Calling
  BY DEF RegistryInv, AddVoice
<1>2. CASE Refuse
  <2>1. stream' \in BOOLEAN /\ UNCHANGED <<tts, asr, voices, models, heap, nomem, log>>
    BY <1>1, <1>2 DEF Refuse, entryVars, TypeOK
  <2> QED BY <1>1, <2>1, QuietStep
<1>3. ASSUME Len(voices) < MaxVoices, NEW n \in LangCounts,
             NEW lost \in Losses(Strings(n)),
             voices' = Append(voices, Entry(n, lost)),
             heap' = heap \cup (Strings(n) \ lost),
             Accept("voice", TRUE, n, lost),
             UNCHANGED <<tts, asr, stream, models>>
      PROVE  RegistryInv'
  <2>1. n \in Nat /\ ncalls \in Nat /\ nomem \in Nat /\ srv = "live" /\ srv' = srv
        /\ voices \in Seq(EntryRecords)
    BY <1>1, <1>3, RegistryAssumption DEF TypeOK, Calling
  <2>2. /\ Copied(n) <= MaxLangs /\ IsFiniteSet(Strings(n))
        /\ \A x \in Strings(n) : x \in Str /\ x[1] = ncalls + 1
    BY <2>1, StringsOfCall
  <2>3. lost \in SUBSET Strings(n) /\ IsFiniteSet(lost)
    BY <1>3, <2>2, LossesOf
  <2>4. PICK e : e = Entry(n, lost)
    OBVIOUS
  <2>5. /\ e \in EntryRecords /\ Len(e.languages) = Copied(n) /\ e.speakers = <<>>
        /\ EntryStrings(e) = Strings(n) \ lost
    BY <2>1, <2>3, <2>4, EntryOfCall
  <2> DEFINE rec == [op |-> "voice", id |-> ncalls + 1, on |-> TRUE, langs |-> n]
  <2>6. /\ LogInv' /\ ncalls' = ncalls + 1 /\ nomem' \in Nat /\ nomem <= nomem'
        /\ (lost # {} => nomem' > 0) /\ rec \in Records
        /\ \A o : Calls(o)' = IF o = "voice" THEN Append(Calls(o), rec) ELSE Calls(o)
    <3>1. TRUE \in BOOLEAN /\ "voice" \in {"tts", "asr", "voice", "speaker", "model"}
      OBVIOUS
    <3> QED BY <1>1, <1>3, <2>1, <2>3, <3>1, AcceptedCall, ZenonT(40)
  <2>7. rec.id = ncalls + 1 /\ rec.langs = n
    OBVIOUS
  <2> HIDE DEF rec
  <2>8. HeapAccounted' /\ OwnInv'
    <3>1. Kept' = Kept \cup (Strings(n) \ lost)
      BY <1>3, <2>1, <2>4, <2>5, KeptWithVoice
    <3>2. \A x \in Strings(n) \ lost : x \in Str /\ x[1] = ncalls + 1
      BY <2>2
    <3>3. tts' = tts /\ asr' = asr
      BY <1>3
    <3> QED BY <1>1, <1>3, <2>1, <2>6, <3>1, <3>2, <3>3, HeapWithEntry
  <2>9. TypeOK'
    <3>1. PICK m \in Nat : m = Len(voices)
      BY <2>1
    <3>2. /\ voices' \in Seq(EntryRecords) /\ Len(voices') = m + 1
          /\ DOMAIN voices' = 1 .. m + 1 /\ DOMAIN voices = 1 .. m
          /\ voices'[m + 1] = e /\ \A i \in 1 .. m : voices'[i] = voices[i]
      BY <1>3, <2>1, <2>4, <2>5, <3>1
    <3>3. \A i \in 1 .. m + 1 : i \in 1 .. m \/ i = m + 1
      OBVIOUS
    <3>4. \A i \in DOMAIN voices' : /\ Len(voices'[i].languages) <= MaxLangs
                                    /\ Len(voices'[i].speakers) <= MaxSpeakers
      <4>1. Len(e.languages) <= MaxLangs /\ Len(e.speakers) <= MaxSpeakers
        BY <2>2, <2>5, RegistryAssumption
      <4>2. \A i \in 1 .. m : /\ Len(voices[i].languages) <= MaxLangs
                              /\ Len(voices[i].speakers) <= MaxSpeakers
        BY <1>1, <3>2 DEF TypeOK
      <4> QED BY <3>2, <3>3, <4>1, <4>2
    <3>5. Len(voices') <= MaxVoices
      BY <1>3, <3>1, <3>2, RegistryAssumption
    <3>6. heap' \subseteq Str
      BY <1>1, <1>3, <2>2 DEF TypeOK
    <3>7. ncalls' \in Nat /\ nomem' \in Nat
      BY <2>1, <2>6
    <3> QED BY <1>1, <1>3, <2>1, <3>2, <3>4, <3>5, <3>6, <3>7 DEF TypeOK
  <2>10. SaidInv'
    <3>1. PICK c : c = Calls("voice")
      OBVIOUS
    <3>2. PICK sp : sp = Calls("speaker")
      OBVIOUS
    <3>3. c \in Seq(Records) /\ sp \in Seq(Records)
          /\ \A i \in 1 .. Len(sp) : sp[i].id <= ncalls
      BY <1>1, <2>1, <3>1, <3>2, CallsOf
    <3>4. \A i \in 1 .. Len(sp) : sp[i].id < rec.id
      <4>1. \A i \in 1 .. Len(sp) : sp[i] \in Records
        BY <3>3
      <4>2. \A i \in 1 .. Len(sp) : sp[i].id \in Nat
        BY <4>1 DEF Records
      <4> QED BY <2>1, <2>7, <3>3, <4>2
    <3>5. PICK x : x = SaidEntry(rec, <<>>)
      OBVIOUS
    <3>6. x \in EntryRecords
      <4>1. <<>> \in Seq(Str)
        OBVIOUS
      <4> QED BY <2>6, <3>5, <4>1, SaidEntryType
    <3>7. PICK b : b = SaidEntries(c, sp)
      OBVIOUS
    <3>8. b \in Seq(EntryRecords) /\ SaidVoices = b /\ SaidVoices' = Append(b, x)
      <4>1. b \in Seq(EntryRecords)
        BY <3>3, <3>7, SaidEntriesType
      <4>2. SaidVoices = b
        BY <3>1, <3>2, <3>7 DEF SaidVoices
      <4>3. SaidVoices' = SaidEntries(Append(c, rec), sp)
        BY <2>6, <3>1, <3>2 DEF SaidVoices
      <4>4. SaidEntries(Append(c, rec), sp) = Append(b, x)
        BY <2>6, <3>3, <3>4, <3>5, <3>7, SaidVoiceAdded
      <4> QED BY <4>1, <4>2, <4>3, <4>4
    <3>9. EntrySaid(e, x, nomem')
      BY <2>1, <2>3, <2>4, <2>6, <2>7, <3>5, EntryHolds
    <3>10. EntriesSaid(voices, b, nomem')
      BY <1>1, <2>1, <2>6, <3>8, EntriesKept DEF SaidInv
    <3>11. EntriesSaid(voices', SaidVoices', nomem')
      BY <1>3, <2>1, <2>4, <2>5, <3>6, <3>8, <3>9, <3>10, EntryAdded
    <3>12. EntriesSaid(models, SaidModels, nomem')
      BY <1>1, <2>1, <2>6, EntriesKept DEF SaidInv
    <3>13. ServiceSaid(tts, Calls("tts"), nomem')
           /\ ServiceSaid(asr, Calls("asr"), nomem')
      BY <1>1, <2>1, <2>6, ServiceKept DEF SaidInv
    <3>14. Calls("tts")' = Calls("tts") /\ Calls("asr")' = Calls("asr")
           /\ SaidModels' = SaidModels
      BY <2>6 DEF SaidModels
    <3>15. tts' = tts /\ asr' = asr /\ models' = models
      BY <1>3
    <3> QED BY <3>11, <3>12, <3>13, <3>14, <3>15 DEF SaidInv
  <2> QED BY <2>6, <2>8, <2>9, <2>10 DEF RegistryInv
<1> QED BY <1>2, <1>3 DEF AddVoice

\* wyoming_server_add_asr_model.
LEMMA AddAsrModelStep == RegistryInv /\ AddAsrModel => RegistryInv'
<1> SUFFICES ASSUME RegistryInv, AddAsrModel PROVE RegistryInv'
  OBVIOUS
<1>1. TypeOK /\ HeapAccounted /\ LogInv /\ OwnInv /\ SaidInv /\ Calling
  BY DEF RegistryInv, AddAsrModel
<1>2. CASE Refuse
  <2>1. stream' \in BOOLEAN /\ UNCHANGED <<tts, asr, voices, models, heap, nomem, log>>
    BY <1>1, <1>2 DEF Refuse, entryVars, TypeOK
  <2> QED BY <1>1, <2>1, QuietStep
<1>3. ASSUME Len(models) < MaxModels, NEW n \in LangCounts,
             NEW lost \in Losses(Strings(n)),
             models' = Append(models, Entry(n, lost)),
             heap' = heap \cup (Strings(n) \ lost),
             Accept("model", TRUE, n, lost),
             UNCHANGED <<tts, asr, stream, voices>>
      PROVE  RegistryInv'
  <2>1. n \in Nat /\ ncalls \in Nat /\ nomem \in Nat /\ srv = "live" /\ srv' = srv
        /\ models \in Seq(EntryRecords)
    BY <1>1, <1>3, RegistryAssumption DEF TypeOK, Calling
  <2>2. /\ Copied(n) <= MaxLangs /\ IsFiniteSet(Strings(n))
        /\ \A x \in Strings(n) : x \in Str /\ x[1] = ncalls + 1
    BY <2>1, StringsOfCall
  <2>3. lost \in SUBSET Strings(n) /\ IsFiniteSet(lost)
    BY <1>3, <2>2, LossesOf
  <2>4. PICK e : e = Entry(n, lost)
    OBVIOUS
  <2>5. /\ e \in EntryRecords /\ Len(e.languages) = Copied(n) /\ e.speakers = <<>>
        /\ EntryStrings(e) = Strings(n) \ lost
    BY <2>1, <2>3, <2>4, EntryOfCall
  <2> DEFINE rec == [op |-> "model", id |-> ncalls + 1, on |-> TRUE, langs |-> n]
  <2>6. /\ LogInv' /\ ncalls' = ncalls + 1 /\ nomem' \in Nat /\ nomem <= nomem'
        /\ (lost # {} => nomem' > 0) /\ rec \in Records
        /\ \A o : Calls(o)' = IF o = "model" THEN Append(Calls(o), rec) ELSE Calls(o)
    <3>1. TRUE \in BOOLEAN /\ "model" \in {"tts", "asr", "voice", "speaker", "model"}
      OBVIOUS
    <3> QED BY <1>1, <1>3, <2>1, <2>3, <3>1, AcceptedCall, ZenonT(40)
  <2>7. rec.id = ncalls + 1 /\ rec.langs = n
    OBVIOUS
  <2> HIDE DEF rec
  <2>8. HeapAccounted' /\ OwnInv'
    <3>1. Kept' = Kept \cup (Strings(n) \ lost)
      BY <1>3, <2>1, <2>4, <2>5, KeptWithModel
    <3>2. \A x \in Strings(n) \ lost : x \in Str /\ x[1] = ncalls + 1
      BY <2>2
    <3>3. tts' = tts /\ asr' = asr
      BY <1>3
    <3> QED BY <1>1, <1>3, <2>1, <2>6, <3>1, <3>2, <3>3, HeapWithEntry
  <2>9. TypeOK'
    <3>1. PICK m \in Nat : m = Len(models)
      BY <2>1
    <3>2. /\ models' \in Seq(EntryRecords) /\ Len(models') = m + 1
          /\ DOMAIN models' = 1 .. m + 1 /\ DOMAIN models = 1 .. m
          /\ models'[m + 1] = e /\ \A i \in 1 .. m : models'[i] = models[i]
      BY <1>3, <2>1, <2>4, <2>5, <3>1
    <3>3. \A i \in 1 .. m + 1 : i \in 1 .. m \/ i = m + 1
      OBVIOUS
    <3>4. \A i \in DOMAIN models' : Len(models'[i].languages) <= MaxLangs
      <4>1. Len(e.languages) <= MaxLangs
        BY <2>2, <2>5, RegistryAssumption
      <4>2. \A i \in 1 .. m : Len(models[i].languages) <= MaxLangs
        BY <1>1, <3>2 DEF TypeOK
      <4> QED BY <3>2, <3>3, <4>1, <4>2
    <3>5. Len(models') <= MaxModels
      BY <1>3, <3>1, <3>2, RegistryAssumption
    <3>6. heap' \subseteq Str
      BY <1>1, <1>3, <2>2 DEF TypeOK
    <3>7. ncalls' \in Nat /\ nomem' \in Nat
      BY <2>1, <2>6
    <3> QED BY <1>1, <1>3, <2>1, <3>2, <3>4, <3>5, <3>6, <3>7 DEF TypeOK
  <2>10. SaidInv'
    <3>1. PICK c : c = Calls("model")
      OBVIOUS
    <3>2. PICK sp : sp = <<>>
      OBVIOUS
    <3>3. c \in Seq(Records) /\ sp \in Seq(Records) /\ Len(sp) = 0
      BY <1>1, <2>1, <3>1, <3>2, CallsOf
    <3>4. \A i \in 1 .. Len(sp) : sp[i].id < rec.id
      BY <3>3
    <3>5. PICK x : x = SaidEntry(rec, <<>>)
      OBVIOUS
    <3>6. x \in EntryRecords
      <4>1. <<>> \in Seq(Str)
        OBVIOUS
      <4> QED BY <2>6, <3>5, <4>1, SaidEntryType
    <3>7. PICK b : b = SaidEntries(c, sp)
      OBVIOUS
    <3>8. b \in Seq(EntryRecords) /\ SaidModels = b /\ SaidModels' = Append(b, x)
      <4>1. b \in Seq(EntryRecords)
        BY <3>3, <3>7, SaidEntriesType
      <4>2. SaidModels = b
        BY <3>1, <3>2, <3>7 DEF SaidModels
      <4>3. SaidModels' = SaidEntries(Append(c, rec), sp)
        BY <2>6, <3>1, <3>2 DEF SaidModels
      <4>4. SaidEntries(Append(c, rec), sp) = Append(b, x)
        BY <2>6, <3>3, <3>4, <3>5, <3>7, SaidVoiceAdded
      <4> QED BY <4>1, <4>2, <4>3, <4>4
    <3>9. EntrySaid(e, x, nomem')
      BY <2>1, <2>3, <2>4, <2>6, <2>7, <3>5, EntryHolds
    <3>10. EntriesSaid(models, b, nomem')
      BY <1>1, <2>1, <2>6, <3>8, EntriesKept DEF SaidInv
    <3>11. EntriesSaid(models', SaidModels', nomem')
      BY <1>3, <2>1, <2>4, <2>5, <3>6, <3>8, <3>9, <3>10, EntryAdded
    <3>12. EntriesSaid(voices, SaidVoices, nomem')
      BY <1>1, <2>1, <2>6, EntriesKept DEF SaidInv
    <3>13. ServiceSaid(tts, Calls("tts"), nomem')
           /\ ServiceSaid(asr, Calls("asr"), nomem')
      BY <1>1, <2>1, <2>6, ServiceKept DEF SaidInv
    <3>14. Calls("tts")' = Calls("tts") /\ Calls("asr")' = Calls("asr")
           /\ SaidVoices' = SaidVoices
      BY <2>6 DEF SaidVoices
    <3>15. tts' = tts /\ asr' = asr /\ voices' = voices
      BY <1>3
    <3> QED BY <3>11, <3>12, <3>13, <3>14, <3>15 DEF SaidInv
  <2> QED BY <2>6, <2>8, <2>9, <2>10 DEF RegistryInv
<1> QED BY <1>2, <1>3 DEF AddAsrModel

\* wyoming_server_add_speaker.
LEMMA AddSpeakerStep == RegistryInv /\ AddSpeaker => RegistryInv'
<1> SUFFICES ASSUME RegistryInv, AddSpeaker PROVE RegistryInv'
  OBVIOUS
<1>1. TypeOK /\ HeapAccounted /\ LogInv /\ OwnInv /\ SaidInv /\ Calling
  BY DEF RegistryInv, AddSpeaker
<1>2. CASE Refuse
  <2>1. stream' \in BOOLEAN /\ UNCHANGED <<tts, asr, voices, models, heap, nomem, log>>
    BY <1>1, <1>2 DEF Refuse, entryVars, TypeOK
  <2> QED BY <1>1, <2>1, QuietStep
<1>3. ASSUME SpeakerFits, NEW lost \in Losses({Arg(1)}), NEW p,
             p = Dup(Arg(1), lost),
             voices' = [voices EXCEPT ![LastVoice].speakers = Append(@, p)],
             heap' = heap \cup ({Arg(1)} \ lost),
             Accept("speaker", TRUE, 0, lost),
             UNCHANGED <<tts, asr, stream, models>>
      PROVE  RegistryInv'
  <2>1. ncalls \in Nat /\ nomem \in Nat /\ srv = "live" /\ srv' = srv
        /\ voices \in Seq(EntryRecords) /\ voices # <<>>
    BY <1>1, <1>3 DEF TypeOK, Calling, SpeakerFits
  <2>2. IsFiniteSet({Arg(1)}) /\ Arg(1) \in Str /\ Arg(1)[1] = ncalls + 1
    BY <2>1, OneString
  <2>3. lost \in SUBSET {Arg(1)} /\ IsFiniteSet(lost)
    BY <1>3, <2>2, LossesOf
  <2>4. p \in Ptr /\ {p} \ {Null} = {Arg(1)} \ lost
    <3>1. Null # Arg(1)
      BY <2>2, RegistryAssumption DEF Str
    <3> QED BY <1>3, <2>2, <2>3, <3>1 DEF Dup, Ptr
  <2> DEFINE rec == [op |-> "speaker", id |-> ncalls + 1, on |-> TRUE, langs |-> 0]
  <2>5. /\ LogInv' /\ ncalls' = ncalls + 1 /\ nomem' \in Nat /\ nomem <= nomem'
        /\ (lost # {} => nomem' > 0) /\ rec \in Records
        /\ \A o : Calls(o)' = IF o = "speaker" THEN Append(Calls(o), rec) ELSE Calls(o)
    <3>1. /\ TRUE \in BOOLEAN /\ 0 \in Nat
          /\ "speaker" \in {"tts", "asr", "voice", "speaker", "model"}
      OBVIOUS
    <3> QED BY <1>1, <1>3, <2>1, <2>3, <3>1, AcceptedCall, ZenonT(40)
  <2>6. rec.id = ncalls + 1
    OBVIOUS
  <2> HIDE DEF rec
  <2>7. HeapAccounted' /\ OwnInv'
    <3>1. Kept' = Kept \cup ({Arg(1)} \ lost)
      <4>1. Kept' = Kept \cup ({p} \ {Null})
        BY <1>3, <2>1, <2>4, KeptWithSpeaker
      <4> QED BY <2>4, <4>1
    <3>2. \A x \in {Arg(1)} \ lost : x \in Str /\ x[1] = ncalls + 1
      BY <2>2
    <3>3. tts' = tts /\ asr' = asr
      BY <1>3
    <3> QED BY <1>1, <1>3, <2>1, <2>5, <3>1, <3>2, <3>3, HeapWithEntry
  <2>8. TypeOK'
    <3>1. PICK m \in Nat \ {0} : m = Len(voices)
      BY <2>1
    <3>2. PICK e : e = voices[m] /\ e \in EntryRecords
      BY <2>1, <3>1
    <3>3. /\ voices' \in Seq(EntryRecords) /\ Len(voices') = m
          /\ \A i \in 1 .. m : i # m => voices'[i] = voices[i]
          /\ voices'[m] = [e EXCEPT !.speakers = Append(@, p)]
      BY <1>3, <2>1, <2>4, <3>1, <3>2, VoiceWithSpeaker
    <3>4. DOMAIN voices' = 1 .. m /\ DOMAIN voices = 1 .. m /\ m \in 1 .. m
      BY <2>1, <3>1, <3>3
    <3>5. Len(e.languages) <= MaxLangs /\ Len(e.speakers) < MaxSpeakers
          /\ e.speakers \in Seq(Ptr)
      BY <1>1, <1>3, <2>1, <3>1, <3>2, <3>4
         DEF TypeOK, SpeakerFits, LastVoice, EntryRecords
    <3>6. PICK f : f = voices'[m]
      OBVIOUS
    <3>7. f.languages = e.languages /\ f.speakers = Append(e.speakers, p)
      BY <3>2, <3>3, <3>6 DEF EntryRecords
    <3>8. Len(f.languages) <= MaxLangs /\ Len(f.speakers) <= MaxSpeakers
      <4>1. Len(f.speakers) = Len(e.speakers) + 1
        BY <3>5, <3>7
      <4> QED BY <3>5, <3>7, <4>1, RegistryAssumption
    <3>9. \A i \in DOMAIN voices' : /\ Len(voices'[i].languages) <= MaxLangs
                                    /\ Len(voices'[i].speakers) <= MaxSpeakers
      <4>1. \A i \in 1 .. m : /\ Len(voices[i].languages) <= MaxLangs
                              /\ Len(voices[i].speakers) <= MaxSpeakers
        BY <1>1, <3>4 DEF TypeOK
      <4> QED BY <3>3, <3>4, <3>6, <3>8, <4>1
    <3>10. Len(voices') <= MaxVoices
      BY <1>1, <3>1, <3>3 DEF TypeOK
    <3>11. heap' \subseteq Str
      BY <1>1, <1>3, <2>2 DEF TypeOK
    <3>12. ncalls' \in Nat /\ nomem' \in Nat
      BY <2>1, <2>5
    <3> QED BY <1>1, <1>3, <2>1, <3>3, <3>9, <3>10, <3>11, <3>12 DEF TypeOK
  <2>9. SaidInv'
    <3>1. PICK c : c = Calls("voice")
      OBVIOUS
    <3>2. PICK sp : sp = Calls("speaker")
      OBVIOUS
    <3>3. c \in Seq(Records) /\ sp \in Seq(Records)
          /\ \A i \in 1 .. Len(c) : c[i].id <= ncalls
      BY <1>1, <2>1, <3>1, <3>2, CallsOf
    <3>4. \A i \in 1 .. Len(c) : c[i].id < rec.id
      <4>1. \A i \in 1 .. Len(c) : c[i] \in Records
        BY <3>3
      <4>2. \A i \in 1 .. Len(c) : c[i].id \in Nat
        BY <4>1 DEF Records
      <4> QED BY <2>1, <2>6, <3>3, <4>2
    <3>5. SaidVoices = SaidEntries(c, sp) /\ SaidVoices' = SaidEntries(c, Append(sp, rec))
      BY <2>5, <3>1, <3>2 DEF SaidVoices
    <3>6. EntriesSaid(voices, SaidEntries(c, sp), nomem')
      BY <1>1, <2>1, <2>5, <3>5, EntriesKept DEF SaidInv
    <3>7. CopyOf(p, <<rec.id, 1>>, nomem')
      BY <1>3, <2>5, <2>6 DEF CopyOf, Dup, Arg, Call
    <3>8. EntriesSaid(voices', SaidVoices', nomem')
      BY <1>3, <2>1, <2>4, <2>5, <3>3, <3>4, <3>5, <3>6, <3>7, SpeakerHolds
    <3>9. EntriesSaid(models, SaidModels, nomem')
      BY <1>1, <2>1, <2>5, EntriesKept DEF SaidInv
    <3>10. ServiceSaid(tts, Calls("tts"), nomem')
           /\ ServiceSaid(asr, Calls("asr"), nomem')
      BY <1>1, <2>1, <2>5, ServiceKept DEF SaidInv
    <3>11. Calls("tts")' = Calls("tts") /\ Calls("asr")' = Calls("asr")
           /\ SaidModels' = SaidModels
      BY <2>5 DEF SaidModels
    <3>12. tts' = tts /\ asr' = asr /\ models' = models
      BY <1>3
    <3> QED BY <3>8, <3>9, <3>10, <3>11, <3>12 DEF SaidInv
  <2> QED BY <2>5, <2>7, <2>8, <2>9 DEF RegistryInv
<1> QED BY <1>2, <1>3 DEF AddSpeaker

\* wyoming_server_destroy frees what is reachable, and the heap was no more.
LEMMA DestroyStep == RegistryInv /\ Destroy => RegistryInv'
<1> SUFFICES ASSUME RegistryInv, Destroy PROVE RegistryInv'
  OBVIOUS
<1>1. /\ srv = "live" /\ srv' = "freed" /\ heap' = heap \ Reachable
      /\ UNCHANGED <<tts, asr, stream, voices, models, ncalls, nomem, log>>
  BY DEF Destroy, entryVars
<1>2. heap' = {}
  BY <1>1 DEF RegistryInv, HeapAccounted
<1>3. TypeOK' /\ HeapAccounted' /\ LogInv'
  BY <1>1, <1>2 DEF RegistryInv, TypeOK, HeapAccounted, LogInv
<1>4. Reachable' = Reachable /\ Kept' = Kept
  BY <1>1 DEF Reachable, Kept, ElementsOf, EntryStrings
<1>5. OwnInv'
  BY <1>1, <1>4 DEF RegistryInv, OwnInv
<1>6. SaidInv'
  <2>1. \A op : Calls(op)' = Calls(op)
    BY <1>1 DEF Calls, ElementsAt, RankIn
  <2>2. SaidVoices' = SaidVoices /\ SaidModels' = SaidModels
    BY <2>1 DEF SaidVoices, SaidModels
  <2> QED BY <1>1, <2>1, <2>2 DEF RegistryInv, SaidInv
<1> QED BY <1>3, <1>5, <1>6 DEF RegistryInv

\* Stuttering.
LEMMA UnchangedStep == RegistryInv /\ UNCHANGED vars => RegistryInv'
<1> SUFFICES ASSUME RegistryInv, UNCHANGED vars PROVE RegistryInv'
  OBVIOUS
<1>1. UNCHANGED <<srv, tts, asr, stream, voices, models, heap, ncalls, nomem, log>>
  BY DEF vars, entryVars
<1>2. Reachable' = Reachable /\ Kept' = Kept
  BY <1>1 DEF Reachable, Kept, ElementsOf, EntryStrings
<1>3. \A op : Calls(op)' = Calls(op)
  BY <1>1 DEF Calls, ElementsAt, RankIn
<1>4. SaidVoices' = SaidVoices /\ SaidModels' = SaidModels
  BY <1>3 DEF SaidVoices, SaidModels
<1>5. TypeOK' /\ LogInv'
  BY <1>1 DEF RegistryInv, TypeOK, LogInv
<1>6. HeapAccounted' /\ OwnInv'
  BY <1>1, <1>2 DEF RegistryInv, HeapAccounted, OwnInv
<1>7. SaidInv'
  BY <1>1, <1>3, <1>4 DEF RegistryInv, SaidInv
<1> QED BY <1>5, <1>6, <1>7 DEF RegistryInv

\* RegistryInv is inductive.
LEMMA NextRegistryInv == RegistryInv /\ [Next]_vars => RegistryInv'
<1> SUFFICES ASSUME RegistryInv, [Next]_vars PROVE RegistryInv'
  OBVIOUS
<1>1. CASE SetTts
  BY <1>1, SetTtsStep
<1>2. CASE SetAsr
  BY <1>2, SetAsrStep
<1>3. CASE SetAsrStreaming
  BY <1>3, QuietStep DEF SetAsrStreaming
<1>4. CASE AddVoice
  BY <1>4, AddVoiceStep
<1>5. CASE AddSpeaker
  BY <1>5, AddSpeakerStep
<1>6. CASE AddAsrModel
  BY <1>6, AddAsrModelStep
<1>7. CASE Destroy
  BY <1>7, DestroyStep
<1>8. CASE UNCHANGED vars
  BY <1>8, UnchangedStep
<1> QED BY <1>1, <1>2, <1>3, <1>4, <1>5, <1>6, <1>7, <1>8 DEF Next, Freed

\* And so always holds.
LEMMA RegistryInvariant == Spec => []RegistryInv
  BY InitRegistryInv, NextRegistryInv, PTL DEF Spec

-----------------------------------------------------------------------------
(* What a client is told.                                                  *)

\* The site of no failure is not the site of any allocation.
LEMMA NoSite ==
  ASSUME NEW a, NEW b, NEW c
  PROVE  <<a>> # <<>> /\ <<a, b>> # <<>> /\ <<a, b, c>> # <<>>
<1>1. Len(<<a>>) = 1 /\ Len(<<a, b>>) = 2 /\ Len(<<a, b, c>>) = 3 /\ Len(<<>>) = 0
  OBVIOUS
<1> QED BY <1>1

\* Where no copy has failed the copies are the strings.
LEMMA CopiesExact ==
  ASSUME NEW a \in Seq(Ptr), NEW b \in Seq(Ptr), CopiesOf(a, b, 0)
  PROVE  a = b
<1>1. \A j \in 1 .. Len(b) : a[j] = b[j]
  BY DEF CopiesOf, CopyOf
<1> QED BY <1>1 DEF CopiesOf

\* What the client is told of an entry, when no allocation fails.
LEMMA EntryExact ==
  ASSUME NEW e \in EntryRecords, NEW x \in EntryRecords, EntrySaid(e, x, 0)
  PROVE  e = x
<1>1. e.name = x.name
  BY DEF EntrySaid, CopyOf
<1>2. e.languages = x.languages /\ e.speakers = x.speakers
  BY CopiesExact DEF EntrySaid, EntryRecords
<1> QED BY <1>1, <1>2 DEF EntryRecords

\* Of all entries of a service.
LEMMA EntriesExact ==
  ASSUME NEW a \in Seq(EntryRecords), NEW b \in Seq(EntryRecords),
         EntriesSaid(a, b, 0)
  PROVE  a = b
<1>1. \A k \in 1 .. Len(b) : /\ a[k] \in EntryRecords /\ b[k] \in EntryRecords
                             /\ EntrySaid(a[k], b[k], 0)
  BY DEF EntriesSaid
<1>2. \A k \in 1 .. Len(b) : a[k] = b[k]
  BY <1>1, EntryExact
<1> QED BY <1>2 DEF EntriesSaid

\* An entry whose languages are all there comes through the info event and
\* the client's parser as it is.
LEMMA EntryToldExactly ==
  ASSUME NEW e \in EntryRecords, e.languages \in Seq(Str), NEW i
  PROVE  ParseEntry(JsonEntry(e), i, <<>>) = e
<1>1. PICK l \in Seq(Str) : l = e.languages
  OBVIOUS
<1>2. {j \in DOMAIN l : l[j] # Null} = 1 .. Len(l)
  <2>1. \A j \in 1 .. Len(l) : l[j] \in Str
    OBVIOUS
  <2>2. \A j \in 1 .. Len(l) : l[j] # Null
    BY <2>1, RegistryAssumption DEF Str
  <2> QED BY <2>2
<1>3. ElementsAt(l, {j \in DOMAIN l : l[j] # Null}) = l
  BY <1>2, ElementsAtAll
<1>4. JsonEntry(e) = [e EXCEPT !.languages = e.languages]
  BY <1>1, <1>3 DEF JsonEntry
<1>5. JsonEntry(e) = e
  BY <1>4 DEF EntryRecords
<1>6. \A f : \A a \in Seq(Ptr) : CopyArray(a, f, i, <<>>) = a
  <2> TAKE f
  <2> TAKE a \in Seq(Ptr)
  <2>1. CopyArray(a, f, i, <<>>) = [j \in DOMAIN a |-> CopyStr(a[j], <<f, i, j>>, <<>>)]
    BY NoSite DEF CopyArray
  <2>2. \A j : CopyStr(a[j], <<f, i, j>>, <<>>) = a[j]
    BY NoSite DEF CopyStr
  <2>3. CopyArray(a, f, i, <<>>) = [j \in DOMAIN a |-> a[j]]
    BY <2>1, <2>2
  <2> QED BY <2>3
<1>7. CopyStr(e.name, <<"name", i>>, <<>>) = e.name
  BY NoSite DEF CopyStr
<1>8. e.languages \in Seq(Ptr) /\ e.speakers \in Seq(Ptr)
  BY DEF EntryRecords
<1>9. ParseEntry(e, i, <<>>) = [name |-> e.name, languages |-> e.languages,
                                speakers |-> e.speakers]
  BY <1>6, <1>7, <1>8 DEF ParseEntry
<1> QED BY <1>5, <1>9 DEF EntryRecords

\* Of a service.
LEMMA ServiceToldExactly ==
  ASSUME NEW s, NEW c, ServiceSaid(s, c, 0), s.fn \in BOOLEAN,
         NEW a \in Seq(EntryRecords),
         \A k \in 1 .. Len(a) : a[k].languages \in Seq(Str)
  PROVE  ParseService(JsonService(s, a), <<>>) = SaidService(c, a)
<1>1. CASE ~s.fn
  <2>1. JsonService(s, a) = <<>>
    BY <1>1, Zenon DEF JsonService
  <2>2. ~Offered(c)
    BY <1>1 DEF ServiceSaid
  <2> QED BY <2>1, <2>2, Zenon DEF ParseService, SaidService
<1>2. CASE s.fn
  <2>1. Offered(c) /\ s.name = <<LastOf(c).id, 1>>
    BY <1>2 DEF ServiceSaid, CopyOf
  <2>2. PICK j : j = [name |-> s.name, entries |-> [k \in DOMAIN a |-> JsonEntry(a[k])]]
    OBVIOUS
  <2>3. JsonService(s, a) = <<j>>
    BY <1>2, <2>2 DEF JsonService
  <2>4. ParseService(<<j>>, <<>>) =
          <<[name    |-> CopyStr(j.name, <<"name">>, <<>>),
             entries |-> [k \in DOMAIN j.entries |->
                            ParseEntry(j.entries[k], k, <<>>)]]>>
    <3>1. <<j>> # <<>> /\ <<>> # <<"service">> /\ <<>> # <<"entries">> /\ <<j>>[1] = j
      BY NoSite
    <3> QED BY <3>1, Zenon DEF ParseService
  <2>5. CopyStr(j.name, <<"name">>, <<>>) = s.name
    BY <2>2, NoSite DEF CopyStr
  <2>6. [k \in DOMAIN j.entries |-> ParseEntry(j.entries[k], k, <<>>)] = a
    <3>1. \A k \in DOMAIN a : a[k] \in EntryRecords /\ a[k].languages \in Seq(Str)
      OBVIOUS
    <3>2. \A k \in DOMAIN a : ParseEntry(JsonEntry(a[k]), k, <<>>) = a[k]
      BY <3>1, EntryToldExactly
    <3>3. j.entries = [k \in DOMAIN a |-> JsonEntry(a[k])]
      BY <2>2
    <3>4. [k \in DOMAIN j.entries |-> ParseEntry(j.entries[k], k, <<>>)]
            = [k \in DOMAIN a |-> a[k]]
      BY <3>2, <3>3
    <3> QED BY <3>4
  <2>7. SaidService(c, a) = <<[name |-> s.name, entries |-> a]>>
    BY <2>1, Zenon DEF SaidService
  <2> QED BY <2>3, <2>4, <2>5, <2>6, <2>7
<1> QED BY <1>1, <1>2

\* The languages of what was said are strings.
LEMMA SaidLanguages ==
  ASSUME NEW c \in Seq(Records), NEW sp \in Seq(Records)
  PROVE  \A k \in 1 .. Len(c) : SaidEntries(c, sp)[k].languages \in Seq(Str)
<1> TAKE k \in 1 .. Len(c)
<1>1. c[k] \in Records
  OBVIOUS
<1>2. SaidEntry(c[k], SpeakersOf(c, k, sp)).languages \in Seq(Str)
  BY <1>1, SpeakersType, SaidEntryType
<1> QED BY <1>2, SaidEntriesType

\* And of the registry.
LEMMA RegistryToldExactly == RegistryInv => DescribeExact
<1> SUFFICES ASSUME RegistryInv, srv = "live", nomem = 0
             PROVE  DescribeInfo(<<>>) = [tts |-> SaidService(Calls("tts"), SaidVoices),
                                          asr |-> SaidService(Calls("asr"), SaidModels)]
  BY DEF DescribeExact
<1>1. TypeOK /\ LogInv /\ SaidInv /\ ncalls \in Nat
  BY DEF RegistryInv, TypeOK
<1>2. \A op : Calls(op) \in Seq(Records)
  BY <1>1, CallsOf
<1>3. <<>> \in Seq(Records)
  OBVIOUS
<1>4. /\ SaidVoices \in Seq(EntryRecords)
      /\ \A k \in 1 .. Len(SaidVoices) : SaidVoices[k].languages \in Seq(Str)
  BY <1>2, SaidEntriesType, SaidLanguages DEF SaidVoices
<1>5. /\ SaidModels \in Seq(EntryRecords)
      /\ \A k \in 1 .. Len(SaidModels) : SaidModels[k].languages \in Seq(Str)
  BY <1>2, <1>3, SaidEntriesType, SaidLanguages DEF SaidModels
<1>6. voices = SaidVoices /\ models = SaidModels
  BY <1>1, <1>4, <1>5, EntriesExact DEF SaidInv, TypeOK
<1>7. tts.fn \in BOOLEAN /\ asr.fn \in BOOLEAN
  BY <1>1 DEF TypeOK
<1>8. /\ ParseService(JsonService(tts, voices), <<>>) = SaidService(Calls("tts"), voices)
      /\ ParseService(JsonService(asr, models), <<>>) = SaidService(Calls("asr"), models)
  <2>1. ServiceSaid(tts, Calls("tts"), 0) /\ ServiceSaid(asr, Calls("asr"), 0)
    BY <1>1 DEF SaidInv
  <2> QED BY <1>4, <1>5, <1>6, <1>7, <2>1, ServiceToldExactly
<1> QED BY <1>6, <1>8 DEF DescribeInfo, BuildInfo

\* Strings in an order, each copied or missing, are some of them in order.
LEMMA SomeCopies ==
  ASSUME NEW a \in Seq(Ptr), NEW b \in Seq(Ptr), NEW m, CopiesOf(a, b, m),
         \A i, j \in 1 .. Len(b) : i < j => Precedes(b[i], b[j])
  PROVE  SomeOf(a, b)
<1>1. PICK n \in Nat : n = Len(b) /\ DOMAIN b = 1 .. n
  OBVIOUS
<1>2. DOMAIN a = 1 .. n
  BY <1>1 DEF CopiesOf
<1>3. \A j \in 1 .. n : a[j] = b[j] \/ a[j] = Null
  BY <1>1 DEF CopiesOf, CopyOf
<1>4. ElementsOf(a) \subseteq ElementsOf(b) \cup {Null}
  BY <1>1, <1>2, <1>3 DEF ElementsOf
<1>5. \A i, j \in DOMAIN a :
        i < j /\ a[i] # Null /\ a[j] # Null => Precedes(a[i], a[j])
  BY <1>1, <1>2, <1>3
<1> QED BY <1>4, <1>5 DEF SomeOf

\* Leaving elements out keeps this,
LEMMA SomeAt ==
  ASSUME NEW a \in Seq(Ptr), NEW b, SomeOf(a, b), NEW I \in SUBSET (1 .. Len(a))
  PROVE  ElementsAt(a, I) \in Seq(Ptr) /\ SomeOf(ElementsAt(a, I), b)
<1>1. PICK t : t = ElementsAt(a, I)
  OBVIOUS
<1>2. /\ t \in Seq(Ptr) /\ Len(t) = Cardinality(I)
      /\ \A k \in 1 .. Cardinality(I) : \E i \in I : t[k] = a[i]
  BY <1>1, ElementsAtPlaces
<1>3. DOMAIN t = 1 .. Cardinality(I) /\ DOMAIN a = 1 .. Len(a)
  BY <1>2
<1>4. ElementsOf(t) \subseteq ElementsOf(b) \cup {Null}
  <2>1. ElementsOf(t) \subseteq ElementsOf(a)
    BY <1>2, <1>3 DEF ElementsOf
  <2> QED BY <2>1 DEF SomeOf
<1>5. ASSUME NEW k \in DOMAIN t, NEW l \in DOMAIN t, k < l,
             t[k] # Null, t[l] # Null
      PROVE  Precedes(t[k], t[l])
  <2>1. k \in 1 .. Cardinality(I) /\ l \in 1 .. Cardinality(I)
    BY <1>3
  <2>2. PICK i \in I, j \in I : /\ i < j /\ ElementsAt(a, I)[k] = a[i]
                                /\ ElementsAt(a, I)[l] = a[j]
    BY <1>5, <2>1, ElementsAtOrder
  <2>3. t[k] = a[i] /\ t[l] = a[j] /\ i \in DOMAIN a /\ j \in DOMAIN a
    BY <1>1, <1>3, <2>2
  <2> QED BY <1>5, <2>2, <2>3 DEF SomeOf
<1> QED BY <1>1, <1>2, <1>4, <1>5 DEF SomeOf

\* and so does the client's copy of an array.
LEMMA SomeCopied ==
  ASSUME NEW a \in Seq(Ptr), NEW b, SomeOf(a, b), NEW f, NEW i, NEW bad
  PROVE  SomeOf(CopyArray(a, f, i, bad), b)
<1>1. PICK t : t = CopyArray(a, f, i, bad)
  OBVIOUS
<1>2. CASE bad = <<f, i>>
  <2>1. DOMAIN t = {}
    BY <1>1, <1>2 DEF CopyArray
  <2> QED BY <1>1, <2>1 DEF SomeOf, ElementsOf
<1>3. CASE bad # <<f, i>>
  <2>1. t = [j \in DOMAIN a |-> CopyStr(a[j], <<f, i, j>>, bad)]
    BY <1>1, <1>3, Zenon DEF CopyArray
  <2>2. DOMAIN t = DOMAIN a /\ \A j \in DOMAIN a : t[j] = a[j] \/ t[j] = Null
    BY <2>1 DEF CopyStr
  <2>3. ElementsOf(t) \subseteq ElementsOf(b) \cup {Null}
    <3>1. ElementsOf(t) \subseteq ElementsOf(a) \cup {Null}
      BY <2>2 DEF ElementsOf
    <3> QED BY <3>1 DEF SomeOf
  <2>4. \A j, l \in DOMAIN t :
          j < l /\ t[j] # Null /\ t[l] # Null => Precedes(t[j], t[l])
    BY <2>2 DEF SomeOf
  <2> QED BY <1>1, <2>3, <2>4 DEF SomeOf
<1> QED BY <1>2, <1>3

\* The strings that were said are in the order of the calls and arguments.
LEMMA SaidInOrder ==
  ASSUME NEW r \in Records, NEW c, NEW k, NEW sp \in Seq(Records),
         \A i, j \in 1 .. Len(sp) : i < j => sp[i].id < sp[j].id,
         NEW x, x = SaidEntry(r, SpeakersOf(c, k, sp))
  PROVE  /\ x.languages \in Seq(Ptr) /\ x.speakers \in Seq(Ptr)
         /\ \A i, j \in 1 .. Len(x.languages) :
              i < j => Precedes(x.languages[i], x.languages[j])
         /\ \A i, j \in 1 .. Len(x.speakers) :
              i < j => Precedes(x.speakers[i], x.speakers[j])
<1>1. PICK s : s = SpeakersOf(c, k, sp)
  OBVIOUS
<1>2. s \in Seq(Str)
  BY <1>1, SpeakersType
<1>3. /\ x \in EntryRecords /\ x.speakers = s
      /\ Len(x.languages) = Copied(r.langs)
      /\ \A i \in 1 .. Copied(r.langs) : x.languages[i] = <<r.id, i + 1>>
  BY <1>1, <1>2, SaidEntryType
<1>4. \A i, j \in 1 .. Len(x.languages) :
        i < j => Precedes(x.languages[i], x.languages[j])
  <2> SUFFICES ASSUME NEW i \in 1 .. Len(x.languages),
                      NEW j \in 1 .. Len(x.languages), i < j
               PROVE  Precedes(x.languages[i], x.languages[j])
    OBVIOUS
  <2>1. x.languages[i] = <<r.id, i + 1>> /\ x.languages[j] = <<r.id, j + 1>>
    BY <1>3
  <2>2. i + 1 < j + 1
    OBVIOUS
  <2> QED BY <2>1, <2>2 DEF Precedes
<1>5. ASSUME NEW i \in 1 .. Len(s), NEW j \in 1 .. Len(s), i < j
      PROVE  Precedes(s[i], s[j])
  <2> DEFINE I == After(c, k, sp)
  <2>1. I \in SUBSET (1 .. Len(sp))
    BY DEF After
  <2>2. PICK own : own = ElementsAt(sp, I)
    OBVIOUS
  <2>3. s = [l \in DOMAIN own |-> <<own[l].id, 1>>]
    BY <1>1, <2>2 DEF SpeakersOf
  <2> HIDE DEF I
  <2>4. own \in Seq(Records) /\ Len(own) = Cardinality(I)
    BY <2>1, <2>2, ElementsAtPlaces
  <2>5. DOMAIN own = 1 .. Len(own)
    BY <2>4
  <2>6. Len(s) = Len(own)
    BY <2>3, <2>4, <2>5
  <2>7. i \in 1 .. Cardinality(I) /\ j \in 1 .. Cardinality(I)
    BY <2>4, <2>6
  <2>8. PICK p \in I, q \in I : /\ p < q /\ ElementsAt(sp, I)[i] = sp[p]
                                /\ ElementsAt(sp, I)[j] = sp[q]
    BY <1>5, <2>1, <2>7, ElementsAtOrder
  <2>9. s[i] = <<sp[p].id, 1>> /\ s[j] = <<sp[q].id, 1>>
    BY <2>2, <2>3, <2>5, <2>6, <2>8
  <2>10. sp[p].id < sp[q].id
    BY <2>1, <2>8
  <2> QED BY <2>9, <2>10 DEF Precedes
<1>6. x.languages \in Seq(Ptr) /\ x.speakers \in Seq(Ptr)
  BY <1>3 DEF EntryRecords
<1> QED BY <1>3, <1>4, <1>5, <1>6

\* A voice or model that was put into an info event and taken out again is
\* the one that was said, or less.
LEMMA EntryToldTruly ==
  ASSUME NEW e \in EntryRecords, NEW x, NEW m, EntrySaid(e, x, m),
         x.languages \in Seq(Ptr), x.speakers \in Seq(Ptr),
         \A i, j \in 1 .. Len(x.languages) :
           i < j => Precedes(x.languages[i], x.languages[j]),
         \A i, j \in 1 .. Len(x.speakers) :
           i < j => Precedes(x.speakers[i], x.speakers[j]),
         NEW k, NEW bad
  PROVE  TrueEntry(ParseEntry(JsonEntry(e), k, bad), x)
<1>1. e.languages \in Seq(Ptr) /\ e.speakers \in Seq(Ptr)
  BY DEF EntryRecords
<1>2. SomeOf(e.languages, x.languages) /\ SomeOf(e.speakers, x.speakers)
  BY <1>1, SomeCopies DEF EntrySaid
<1> DEFINE I == {i \in DOMAIN e.languages : e.languages[i] # Null}
<1>3. I \in SUBSET (1 .. Len(e.languages))
  BY <1>1
<1>4. PICK l : l = ElementsAt(e.languages, I)
  OBVIOUS
<1>5. PICK g : g = JsonEntry(e)
  OBVIOUS
<1>6. g.name = e.name /\ g.languages = l /\ g.speakers = e.speakers
  BY <1>4, <1>5 DEF JsonEntry, EntryRecords
<1> HIDE DEF I
<1>7. l \in Seq(Ptr) /\ SomeOf(l, x.languages)
  BY <1>1, <1>2, <1>3, <1>4, SomeAt
<1>8. PICK f : f = ParseEntry(g, k, bad)
  OBVIOUS
<1>9. /\ f.name = CopyStr(e.name, <<"name", k>>, bad)
      /\ f.languages = CopyArray(l, "languages", k, bad)
      /\ f.speakers = CopyArray(e.speakers, "speakers", k, bad)
  BY <1>6, <1>8 DEF ParseEntry
<1>10. f.name \in {Null, x.name}
  BY <1>9 DEF CopyStr, EntrySaid, CopyOf
<1>11. SomeOf(f.languages, x.languages) /\ SomeOf(f.speakers, x.speakers)
  BY <1>1, <1>2, <1>7, <1>9, SomeCopied
<1> QED BY <1>5, <1>8, <1>10, <1>11 DEF TrueEntry

\* And so is a service.
LEMMA ServiceToldTruly ==
  ASSUME NEW s, NEW c, NEW m, ServiceSaid(s, c, m), s.fn \in BOOLEAN,
         NEW a \in Seq(EntryRecords), NEW v \in Seq(Records),
         NEW sp \in Seq(Records),
         \A i, j \in 1 .. Len(sp) : i < j => sp[i].id < sp[j].id,
         EntriesSaid(a, SaidEntries(v, sp), m), NEW bad
  PROVE  TrueService(ParseService(JsonService(s, a), bad), c, SaidEntries(v, sp))
<1>1. PICK said : said = SaidEntries(v, sp)
  OBVIOUS
<1>2. PICK told : told = ParseService(JsonService(s, a), bad)
  OBVIOUS
<1>3. CASE told = <<>>
  <2>1. ElementsOf(told) = {}
    BY <1>3 DEF ElementsOf
  <2> QED BY <1>2, <2>1 DEF TrueService
<1>4. CASE told # <<>>
  <2>1. s.fn
    <3>1. ~s.fn => JsonService(s, a) = <<>>
      BY Zenon DEF JsonService
    <3> QED BY <1>2, <1>4, <3>1, Zenon DEF ParseService
  <2>2. PICK j : j = [name |-> s.name, entries |-> [k \in DOMAIN a |-> JsonEntry(a[k])]]
    OBVIOUS
  <2>3. JsonService(s, a) = <<j>> /\ <<j>> # <<>> /\ <<j>>[1] = j
    BY <2>1, <2>2, NoSite DEF JsonService
  <2>4. PICK q : q = [name    |-> CopyStr(j.name, <<"name">>, bad),
                      entries |-> IF bad = <<"entries">> THEN <<>>
                                  ELSE [k \in DOMAIN j.entries |->
                                          ParseEntry(j.entries[k], k, bad)]]
    OBVIOUS
  <2>5. told = <<q>>
    BY <1>2, <1>4, <2>3, <2>4, Zenon DEF ParseService
  <2>6. ElementsOf(told) = {q}
    <3>1. DOMAIN told = {1} /\ told[1] = q
      BY <2>5
    <3> QED BY <3>1 DEF ElementsOf
  <2>7. Offered(c) /\ CopyOf(s.name, <<LastOf(c).id, 1>>, m)
    BY <2>1 DEF ServiceSaid
  <2>8. q.name \in {Null, <<LastOf(c).id, 1>>}
    BY <2>2, <2>4, <2>7 DEF CopyStr, CopyOf
  <2>9. PICK n \in Nat : n = Len(a) /\ DOMAIN a = 1 .. n
    OBVIOUS
  <2>10. Len(said) = n
    BY <1>1, <2>9 DEF EntriesSaid
  <2>11. q.entries = <<>> \/
         q.entries = [k \in 1 .. n |-> ParseEntry(JsonEntry(a[k]), k, bad)]
    <3>1. j.entries = [k \in 1 .. n |-> JsonEntry(a[k])]
      BY <2>2, <2>9
    <3>2. [k \in DOMAIN j.entries |-> ParseEntry(j.entries[k], k, bad)]
            = [k \in 1 .. n |-> ParseEntry(JsonEntry(a[k]), k, bad)]
      BY <3>1
    <3>3. q.entries = IF bad = <<"entries">> THEN <<>>
                      ELSE [k \in DOMAIN j.entries |-> ParseEntry(j.entries[k], k, bad)]
      BY <2>4
    <3> QED BY <3>2, <3>3
  <2>12. ASSUME NEW k \in 1 .. n
         PROVE  TrueEntry(ParseEntry(JsonEntry(a[k]), k, bad), said[k])
    <3>1. a[k] \in EntryRecords /\ EntrySaid(a[k], said[k], m)
      BY <1>1, <2>9, <2>10 DEF EntriesSaid
    <3>2. Len(v) = n /\ said[k] = SaidEntry(v[k], SpeakersOf(v, k, sp))
          /\ v[k] \in Records
      <4>1. Len(v) = n
        BY <1>1, <2>10, SaidEntriesType
      <4>2. said[k] = SaidEntry(v[k], SpeakersOf(v, k, sp))
        BY <1>1, <4>1, SaidEntriesType
      <4> QED BY <4>1, <4>2
    <3>3. PICK x : x = said[k]
      OBVIOUS
    <3>4. /\ x.languages \in Seq(Ptr) /\ x.speakers \in Seq(Ptr)
          /\ \A i, l \in 1 .. Len(x.languages) :
               i < l => Precedes(x.languages[i], x.languages[l])
          /\ \A i, l \in 1 .. Len(x.speakers) :
               i < l => Precedes(x.speakers[i], x.speakers[l])
      BY <3>2, <3>3, SaidInOrder
    <3> QED BY <3>1, <3>3, <3>4, EntryToldTruly
  <2>13. /\ q.entries # <<>> => Len(q.entries) = Len(said)
         /\ \A k \in DOMAIN q.entries : TrueEntry(q.entries[k], said[k])
    BY <2>10, <2>11, <2>12
  <2> QED BY <1>1, <1>2, <2>6, <2>7, <2>8, <2>13 DEF TrueService
<1> QED BY <1>3, <1>4

\* The same when allocations fail.
LEMMA RegistryToldTruly == RegistryInv => DescribeNeverWrong
<1> SUFFICES ASSUME RegistryInv, NEW bad
             PROVE  /\ TrueService(DescribeInfo(bad).tts, Calls("tts"), SaidVoices)
                    /\ TrueService(DescribeInfo(bad).asr, Calls("asr"), SaidModels)
  BY DEF DescribeNeverWrong
<1>1. TypeOK /\ LogInv /\ SaidInv /\ ncalls \in Nat
  BY DEF RegistryInv, TypeOK
<1>2. /\ \A op : Calls(op) \in Seq(Records)
      /\ \A i, j \in 1 .. Len(Calls("speaker")) :
           i < j => Calls("speaker")[i].id < Calls("speaker")[j].id
  BY <1>1, CallsOf
<1>3. DescribeInfo(bad).tts = ParseService(JsonService(tts, voices), bad)
      /\ DescribeInfo(bad).asr = ParseService(JsonService(asr, models), bad)
  BY DEF DescribeInfo, BuildInfo
<1>4. tts.fn \in BOOLEAN /\ asr.fn \in BOOLEAN
      /\ voices \in Seq(EntryRecords) /\ models \in Seq(EntryRecords)
  BY <1>1 DEF TypeOK
<1>5. TrueService(DescribeInfo(bad).tts, Calls("tts"), SaidVoices)
  BY <1>1, <1>2, <1>3, <1>4, ServiceToldTruly DEF SaidInv, SaidVoices
<1>6. TrueService(DescribeInfo(bad).asr, Calls("asr"), SaidModels)
  <2>1. <<>> \in Seq(Records)
        /\ \A i, j \in 1 .. Len(<<>>) : i < j => <<>>[i].id < <<>>[j].id
    OBVIOUS
  <2>2. EntriesSaid(models, SaidEntries(Calls("model"), <<>>), nomem)
        /\ ServiceSaid(asr, Calls("asr"), nomem)
    BY <1>1 DEF SaidInv, SaidModels
  <2> QED BY <1>2, <1>3, <1>4, <2>1, <2>2, ServiceToldTruly DEF SaidModels
<1> QED BY <1>5, <1>6

-----------------------------------------------------------------------------
(* The theorems.                                                           *)

\* Every array stays within its fixed size, whatever is registered
\* (server.c:162, 191, 221).
THEOREM RegistryTypeCorrect == Spec => []TypeOK
  BY RegistryInvariant, PTL DEF RegistryInv

\* No string of the server is lost or freed while it is used, and
\* wyoming_server_destroy frees them all, for any number of calls and of
\* copies that fail (server.c:140-302).
THEOREM RegistryHeapAccounted == Spec => []HeapAccounted
  BY RegistryInvariant, PTL DEF RegistryInv

\* With memory on both sides a client is told exactly what was registered
\* (server.c:306-386, client.c:208-395).
THEOREM ClientIsToldAll == Spec => []DescribeExact
<1>1. RegistryInv => DescribeExact
  BY RegistryToldExactly
<1> QED BY <1>1, RegistryInvariant, PTL

\* Whatever allocation fails, a client is told nothing that was not
\* registered (server.c:306-386, client.c:208-395).
THEOREM ClientIsToldTheTruth == Spec => []DescribeNeverWrong
<1>1. RegistryInv => DescribeNeverWrong
  BY RegistryToldTruly
<1> QED BY <1>1, RegistryInvariant, PTL

=============================================================================
