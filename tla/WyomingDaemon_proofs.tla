------------------------ MODULE WyomingDaemon_proofs ------------------------
(***************************************************************************)
(* Proofs about the daemon and its piper process.                          *)
(***************************************************************************)
EXTENDS WyomingDaemon, Selection_proofs, WellFoundedInduction

-----------------------------------------------------------------------------
(* Sequences and what is spoken.                                           *)

\* A set of places has a least one.
LEMMA LeastPlace ==
  ASSUME NEW I, I \subseteq Nat, I # {}
  PROVE  \E i \in I : \A j \in I : i <= j
<1>1. PICK i \in I : \A j \in I : ~(<<j, i>> \in OpToRel(<, Nat))
  BY NatLessThanWellFounded, WFMin, Zenon
<1>2. \A j \in I : ~(j < i)
  BY <1>1 DEF OpToRel
<1> QED BY <1>2

\* A sequence is its first n elements and the others.
LEMMA Parted ==
  ASSUME NEW S, NEW s \in Seq(S), NEW n \in 0 .. Len(s)
  PROVE  /\ SubSeq(s, 1, n) \in Seq(S) /\ Len(SubSeq(s, 1, n)) = n
         /\ SubSeq(s, n + 1, Len(s)) \in Seq(S)
         /\ Len(SubSeq(s, n + 1, Len(s))) = Len(s) - n
         /\ SubSeq(s, 1, n) \o SubSeq(s, n + 1, Len(s)) = s
         /\ \A i \in 1 .. n : SubSeq(s, 1, n)[i] = s[i]
<1>1. Len(s) \in Nat /\ n \in Nat
  OBVIOUS
<1>2. \A i \in 1 .. Len(s) : s[i] \in S
  OBVIOUS
<1>3. /\ SubSeq(s, 1, n) \in Seq(S) /\ Len(SubSeq(s, 1, n)) = n
      /\ \A i \in 1 .. n : SubSeq(s, 1, n)[i] = s[i]
  BY <1>1, <1>2
<1>4. /\ SubSeq(s, n + 1, Len(s)) \in Seq(S)
      /\ Len(SubSeq(s, n + 1, Len(s))) = Len(s) - n
  BY <1>1, <1>2
<1>5. SubSeq(s, 1, n) \o SubSeq(s, n + 1, Len(s)) = SubSeq(s, 1, Len(s))
  <2>1. 1 \in 1 .. Len(s) + 1 /\ n \in 1 - 1 .. Len(s) /\ Len(s) \in n .. Len(s)
    BY <1>1
  <2> QED BY <2>1, ConcatAdjacentSubSeq
<1>6. SubSeq(s, 1, Len(s)) = s
  BY SubSeqFull
<1> QED BY <1>3, <1>4, <1>5, <1>6

\* A longer beginning of a sequence.
LEMMA PartedTwice ==
  ASSUME NEW S, NEW s \in Seq(S), NEW m \in 0 .. Len(s), NEW n \in 0 .. Len(s) - m
  PROVE  SubSeq(s, 1, m) \o SubSeq(SubSeq(s, m + 1, Len(s)), 1, n)
           = SubSeq(s, 1, m + n)
<1>1. Len(s) \in Nat /\ m \in Nat /\ n \in Nat
  OBVIOUS
<1>2. \A i \in 1 .. Len(s) : s[i] \in S
  OBVIOUS
<1>3. PICK t : t = SubSeq(s, m + 1, Len(s))
  OBVIOUS
<1>4. t \in Seq(S) /\ Len(t) = Len(s) - m /\ \A i \in 1 .. n : t[i] = s[m + i]
  BY <1>1, <1>2, <1>3
<1>5. PICK u : u = SubSeq(t, 1, n)
  OBVIOUS
<1>6. u \in Seq(S) /\ Len(u) = n /\ \A i \in 1 .. n : u[i] = t[i]
  BY <1>1, <1>4, <1>5, Parted
<1>7. PICK v : v = SubSeq(s, m + 1, m + n)
  OBVIOUS
<1>8. v \in Seq(S) /\ Len(v) = n /\ \A i \in 1 .. n : v[i] = s[m + i]
  BY <1>1, <1>2, <1>7
<1>9. u = v
  <2>1. \A i \in 1 .. n : u[i] = v[i]
    BY <1>4, <1>6, <1>8
  <2> QED BY <1>6, <1>8, <2>1
<1>10. SubSeq(s, 1, m) \o SubSeq(s, m + 1, m + n) = SubSeq(s, 1, m + n)
  <2>1. /\ 1 \in 1 .. Len(s) + 1 /\ m \in 1 - 1 .. Len(s)
        /\ m + n \in m .. Len(s)
    BY <1>1
  <2> QED BY <2>1, ConcatAdjacentSubSeq
<1> QED BY <1>3, <1>5, <1>7, <1>9, <1>10

\* Sequences that are equal element by element.
LEMMA SameElements ==
  ASSUME NEW S, NEW a \in Seq(S), NEW b \in Seq(S), Len(a) = Len(b),
         \A i \in 1 .. Len(a) : a[i] = b[i]
  PROVE  a = b
OBVIOUS

\* Concatenation.
LEMMA Concat ==
  ASSUME NEW S, NEW a \in Seq(S), NEW b \in Seq(S)
  PROVE  /\ a \o b \in Seq(S) /\ Len(a \o b) = Len(a) + Len(b)
         /\ a \o <<>> = a /\ <<>> \o a = a
         /\ \A i \in 1 .. Len(a) : (a \o b)[i] = a[i]
         /\ \A i \in 1 .. Len(b) : (a \o b)[Len(a) + i] = b[i]
         /\ SubSeq(a \o b, 1, Len(a)) = a
<1>1. /\ a \o b \in Seq(S) /\ Len(a \o b) = Len(a) + Len(b)
      /\ \A i \in 1 .. Len(a) : (a \o b)[i] = a[i]
      /\ \A i \in 1 .. Len(b) : (a \o b)[Len(a) + i] = b[i]
  OBVIOUS
<1>2. a \o <<>> = a /\ <<>> \o a = a
  BY ConcatEmptySeq
<1>3. SubSeq(a \o b, 1, Len(a)) = a
  <2>1. PICK s \in Seq(S) : s = a \o b
    BY <1>1
  <2>2. Len(a) \in 0 .. Len(s) /\ \A i \in 1 .. Len(a) : s[i] = a[i]
    BY <1>1, <2>1
  <2>3. PICK t : t = SubSeq(s, 1, Len(a))
    OBVIOUS
  <2>4. t \in Seq(S) /\ Len(t) = Len(a) /\ \A i \in 1 .. Len(a) : t[i] = s[i]
    BY <2>2, <2>3, Parted
  <2>5. t = a
    BY <2>2, <2>4
  <2> QED BY <2>1, <2>3, <2>5
<1> QED BY <1>1, <1>2, <1>3

\* Concatenation is associative.
LEMMA ConcatAssoc ==
  ASSUME NEW S, NEW a \in Seq(S), NEW b \in Seq(S), NEW c \in Seq(S)
  PROVE  Joins((a \o b) \o c, a, b \o c)
<1>1. (a \o b) \o c = a \o (b \o c)
  OBVIOUS
<1> QED BY <1>1 DEF Joins

\* The letters of a text.
LEMMA LettersOf ==
  ASSUME NEW a \in Seq(Chars), NEW b \in Seq(Chars)
  PROVE  /\ Letters(a) \in Seq(Chars) /\ Letters(<<>>) = <<>>
         /\ Letters(a \o b) = Letters(a) \o Letters(b)
         /\ Letters(a \o <<NL>>) = Letters(a)
<1> DEFINE Inked(s) == {i \in 1 .. Len(s) : s[i] # NL}
<1>1. \A s \in Seq(Chars) : Inked(s) \in SUBSET (1 .. Len(s)) /\ Letters(s) = ElementsAt(s, Inked(s))
  <2> TAKE s \in Seq(Chars)
  <2>1. DOMAIN s = 1 .. Len(s)
    OBVIOUS
  <2>2. Letters(s) = ElementsAt(s, Inked(s))
    BY <2>1, Zenon DEF Letters
  <2>3. Inked(s) \in SUBSET (1 .. Len(s))
    OBVIOUS
  <2> QED BY <2>2, <2>3
<1>2. \A s \in Seq(Chars) : Letters(s) \in Seq(Chars)
  <2> TAKE s \in Seq(Chars)
  <2>1. Inked(s) \in SUBSET (1 .. Len(s)) /\ Letters(s) = ElementsAt(s, Inked(s))
    BY <1>1
  <2> QED BY <2>1, ElementsAtPlaces
<1>3. \A s, t \in Seq(Chars) : Letters(s \o t) = Letters(s) \o Letters(t)
  <2> TAKE s \in Seq(Chars), t \in Seq(Chars)
  <2>1. PICK n \in Nat : n = Len(s)
    OBVIOUS
  <2>2. PICK m \in Nat : m = Len(t)
    OBVIOUS
  <2>3. PICK u : u = s \o t
    OBVIOUS
  <2>4. /\ u \in Seq(Chars) /\ Len(u) = n + m
        /\ \A i \in 1 .. n : u[i] = s[i]
        /\ \A i \in 1 .. m : u[n + i] = t[i]
    BY <2>1, <2>2, <2>3
  <2>5. Inked(u) = Inked(s) \cup Beyond(n, Inked(t))
    <3>1. ASSUME NEW i \in Inked(u) PROVE i \in Inked(s) \/ \E j \in Inked(t) : i = n + j
      <4>1. i \in 1 .. n + m /\ u[i] # NL
        BY <2>4
      <4>2. CASE i <= n
        BY <2>1, <2>4, <4>1, <4>2
      <4>3. CASE ~(i <= n)
        <5>1. i - n \in 1 .. m /\ n + (i - n) = i
          BY <4>1, <4>3
        <5>2. i - n \in Inked(t)
          BY <2>2, <2>4, <4>1, <5>1
        <5> QED BY <5>1, <5>2
      <4> QED BY <4>2, <4>3
    <3>2. ASSUME NEW i \in Inked(s) PROVE i \in Inked(u)
      BY <2>1, <2>4
    <3>3. ASSUME NEW j \in Inked(t) PROVE n + j \in Inked(u)
      BY <2>2, <2>4
    <3> QED BY <3>1, <3>2, <3>3 DEF Beyond
  <2>6. Inked(s) \in SUBSET (1 .. Len(s)) /\ Inked(t) \in SUBSET (1 .. Len(t))
    OBVIOUS
  <2> HIDE DEF Inked
  <2>7. Joins(ElementsAt(s \o t, Inked(s) \cup Beyond(Len(s), Inked(t))),
              ElementsAt(s, Inked(s)), ElementsAt(t, Inked(t)))
    BY <2>6, ElementsAtConcat
  <2> QED BY <1>1, <2>1, <2>3, <2>4, <2>5, <2>7 DEF Joins
<1>4. Letters(<<>>) = <<>> /\ Letters(<<NL>>) = <<>>
  <2>1. NL \in Chars
    BY DEF Chars
  <2>2. Inked(<<>>) = {} /\ Inked(<<NL>>) = {}
    OBVIOUS
  <2>3. <<>> \in Seq(Chars) /\ <<NL>> \in Seq(Chars)
    BY <2>1
  <2> HIDE DEF Inked
  <2>4. Letters(<<>>) = ElementsAt(<<>>, {}) /\ Letters(<<NL>>) = ElementsAt(<<NL>>, {})
    BY <1>1, <2>2, <2>3
  <2>5. ElementsAt(<<>>, {}) = <<>> /\ ElementsAt(<<NL>>, {}) = <<>>
    BY <2>3, ElementsAtAll
  <2> QED BY <2>4, <2>5
<1>5. <<NL>> \in Seq(Chars)
  BY DEF Chars
<1>6. Letters(a \o <<NL>>) = Letters(a)
  <2>1. Letters(a \o <<NL>>) = Letters(a) \o Letters(<<NL>>)
    BY <1>3, <1>5, Zenon
  <2>2. Letters(a \o <<NL>>) = Letters(a) \o <<>>
    BY <1>4, <2>1, Zenon
  <2> QED BY <1>2, <2>2, Concat
<1> QED BY <1>2, <1>3, <1>4, <1>6

\* The letters, twice each.
LEMMA SpokenIs ==
  ASSUME NEW a \in Seq(Chars)
  PROVE  /\ Spoken(a) \in Seq(Chars) /\ Len(Spoken(a)) = 2 * Len(Letters(a))
         /\ \A i \in 1 .. 2 * Len(Letters(a)) :
              Spoken(a)[i] = Letters(a)[(i + 1) \div 2]
         /\ \A i \in 1 .. Len(Letters(a)) : Spoken(a)[2 * i] = Letters(a)[i]
<1>1. PICK w : w = Letters(a)
  OBVIOUS
<1>2. w \in Seq(Chars)
  BY <1>1, LettersOf
<1>3. PICK n \in Nat : n = Len(w)
  BY <1>2
<1>4. PICK s : s = Spoken(a)
  OBVIOUS
<1>5. s = [i \in 1 .. 2 * n |-> w[(i + 1) \div 2]]
  BY <1>1, <1>3, <1>4 DEF Spoken
<1>6. \A i \in 1 .. 2 * n : (i + 1) \div 2 \in 1 .. n
  OBVIOUS
<1>7. \A i \in 1 .. n : 2 * i \in 1 .. 2 * n /\ (2 * i + 1) \div 2 = i
  OBVIOUS
<1>8. \A i \in 1 .. 2 * n : w[(i + 1) \div 2] \in Chars
  <2>1. \A i \in 1 .. n : w[i] \in Chars
    BY <1>2, <1>3
  <2> QED BY <1>6, <2>1
<1>9. 2 * n \in Nat
  OBVIOUS
<1>10. s \in Seq(Chars) /\ Len(s) = 2 * n
  BY <1>5, <1>8, <1>9
<1>11. \A i \in 1 .. 2 * n : s[i] = w[(i + 1) \div 2]
  BY <1>5
<1>12. \A i \in 1 .. n : s[2 * i] = w[i]
  BY <1>7, <1>11
<1> QED BY <1>1, <1>3, <1>4, <1>10, <1>11, <1>12

\* What is spoken of two texts, of nothing, and of a newline.
LEMMA SpokenOf ==
  ASSUME NEW a \in Seq(Chars), NEW b \in Seq(Chars)
  PROVE  /\ Joins(Spoken(a \o b), Spoken(a), Spoken(b))
         /\ Spoken(<<>>) = <<>> /\ Spoken(a \o <<NL>>) = Spoken(a)
<1>1. Spoken(a \o <<NL>>) = Spoken(a)
  BY LettersOf DEF Spoken
<1>2. Spoken(<<>>) = <<>>
  <2>1. <<>> \in Seq(Chars) /\ Letters(<<>>) = <<>>
    BY LettersOf
  <2>2. Spoken(<<>>) \in Seq(Chars) /\ Len(Spoken(<<>>)) = 2 * Len(Letters(<<>>))
    BY <2>1, SpokenIs
  <2>3. Len(<<>>) = 0
    OBVIOUS
  <2> QED BY <2>1, <2>2, <2>3
<1>3. PICK v \in Seq(Chars), w \in Seq(Chars), x \in Seq(Chars) :
        v = Letters(a) /\ w = Letters(b) /\ x = Letters(a \o b)
  <2>1. a \o b \in Seq(Chars)
    BY Concat
  <2> QED BY <2>1, LettersOf
<1>4. x = v \o w
  BY <1>3, LettersOf
<1>5. PICK n \in Nat, m \in Nat : n = Len(v) /\ m = Len(w)
  OBVIOUS
<1>6. /\ Len(x) = n + m /\ \A i \in 1 .. n : x[i] = v[i]
      /\ \A i \in 1 .. m : x[n + i] = w[i]
  BY <1>4, <1>5
<1>7. PICK r, s, t : r = Spoken(a) /\ s = Spoken(b) /\ t = Spoken(a \o b)
  OBVIOUS
<1>8. /\ r \in Seq(Chars) /\ Len(r) = 2 * n
      /\ \A i \in 1 .. 2 * n : r[i] = v[(i + 1) \div 2]
  BY <1>3, <1>5, <1>7, SpokenIs
<1>9. /\ s \in Seq(Chars) /\ Len(s) = 2 * m
      /\ \A i \in 1 .. 2 * m : s[i] = w[(i + 1) \div 2]
  BY <1>3, <1>5, <1>7, SpokenIs
<1>10. /\ t \in Seq(Chars) /\ Len(t) = 2 * (n + m)
       /\ \A i \in 1 .. 2 * (n + m) : t[i] = x[(i + 1) \div 2]
  <2>1. a \o b \in Seq(Chars)
    BY Concat
  <2> QED BY <1>3, <1>6, <1>7, <2>1, SpokenIs
<1>11. ASSUME NEW i \in 1 .. 2 * n PROVE t[i] = r[i]
  <2>1. i \in 1 .. 2 * (n + m) /\ (i + 1) \div 2 \in 1 .. n
    OBVIOUS
  <2> QED BY <1>6, <1>8, <1>10, <2>1
<1>12. ASSUME NEW i \in 1 .. 2 * m PROVE t[2 * n + i] = s[i]
  <2>1. /\ 2 * n + i \in 1 .. 2 * (n + m) /\ (i + 1) \div 2 \in 1 .. m
        /\ (2 * n + i + 1) \div 2 = n + (i + 1) \div 2
    OBVIOUS
  <2> QED BY <1>6, <1>9, <1>10, <2>1
<1>13. t = r \o s
  <2>1. PICK z \in Seq(Chars) : z = r \o s
    BY <1>8, <1>9, Concat
  <2>2. 2 * n \in Nat /\ 2 * m \in Nat /\ 2 * (n + m) = 2 * n + 2 * m
    OBVIOUS
  <2>3. /\ Len(z) = 2 * n + 2 * m
        /\ \A i \in 1 .. 2 * n : z[i] = r[i]
        /\ \A i \in 1 .. 2 * m : z[2 * n + i] = s[i]
    <3>1. /\ Len(r \o s) = Len(r) + Len(s)
          /\ \A i \in 1 .. Len(r) : (r \o s)[i] = r[i]
          /\ \A i \in 1 .. Len(s) : (r \o s)[Len(r) + i] = s[i]
      <4>1. r \in Seq(Chars) /\ s \in Seq(Chars)
        BY <1>8, <1>9
      <4> QED BY <4>1
    <3> QED BY <1>8, <1>9, <2>1, <3>1
  <2>4. ASSUME NEW i \in 1 .. 2 * n + 2 * m PROVE t[i] = z[i]
    <3>1. CASE i <= 2 * n
      BY <1>11, <2>2, <2>3, <3>1
    <3>2. CASE ~(i <= 2 * n)
      <4>1. i - 2 * n \in 1 .. 2 * m /\ 2 * n + (i - 2 * n) = i
        BY <3>2
      <4>2. t[2 * n + (i - 2 * n)] = s[i - 2 * n] /\ z[2 * n + (i - 2 * n)] = s[i - 2 * n]
        BY <1>12, <2>3, <4>1
      <4> QED BY <4>1, <4>2
    <3> QED BY <3>1, <3>2
  <2>5. t = z
    BY <1>10, <2>2, <2>3, <2>4, SameElements
  <2> QED BY <2>1, <2>5
<1> QED BY <1>1, <1>2, <1>7, <1>13 DEF Joins

\* What the child has spoken of a beginning of the text, the newline after it
\* included, is a beginning of what the text is spoken with.
LEMMA SpokenBegins ==
  ASSUME NEW s \in Seq(Chars), NEW n \in 0 .. Len(s),
         NEW d \in Seq(Chars), NEW g \in Seq(Chars),
         \/ d \o g = SubSeq(s, 1, n)
         \/ d \o g = SubSeq(s, 1, n) \o <<NL>>
  PROVE  /\ Begins(Spoken(d), Spoken(s))
         /\ g = <<>> /\ n = Len(s) => Spoken(d) = Spoken(s)
<1>1. PICK a \in Seq(Chars), b \in Seq(Chars) :
        /\ a = SubSeq(s, 1, n) /\ b = SubSeq(s, n + 1, Len(s))
        /\ s = a \o b /\ (n = Len(s) => s = a)
  <2>1. /\ SubSeq(s, 1, n) \in Seq(Chars) /\ SubSeq(s, n + 1, Len(s)) \in Seq(Chars)
        /\ SubSeq(s, 1, n) \o SubSeq(s, n + 1, Len(s)) = s
    BY Parted
  <2>2. SubSeq(s, 1, Len(s)) = s
    BY SubSeqFull
  <2> QED BY <2>1, <2>2
<1>2. Spoken(d \o g) = Spoken(a)
  BY <1>1, SpokenOf
<1>3. PICK sd \in Seq(Chars), sg \in Seq(Chars), sa \in Seq(Chars), sb \in Seq(Chars) :
        sd = Spoken(d) /\ sg = Spoken(g) /\ sa = Spoken(a) /\ sb = Spoken(b)
  BY SpokenIs
<1>4. sa = sd \o sg
  BY <1>2, <1>3, SpokenOf DEF Joins
<1>5. Spoken(s) = sa \o sb
  <2>1. Joins(Spoken(a \o b), Spoken(a), Spoken(b))
    BY SpokenOf
  <2>2. Joins(Spoken(s), sa, sb)
    BY <1>1, <1>3, <2>1, Zenon
  <2> QED BY <2>2 DEF Joins
<1>6. Spoken(s) = sd \o (sg \o sb)
  <2>1. Joins((sd \o sg) \o sb, sd, sg \o sb)
    BY ConcatAssoc
  <2> QED BY <1>4, <1>5, <2>1, Zenon DEF Joins
<1>7. sg \o sb \in Seq(Chars)
  BY Concat
<1>8. Begins(Spoken(d), Spoken(s))
  BY <1>3, <1>6, <1>7 DEF Begins
<1>9. ASSUME g = <<>>, n = Len(s) PROVE Spoken(d) = Spoken(s)
  <2>1. s = a
    BY <1>1, <1>9
  <2>2. sg = <<>>
    BY <1>3, <1>9, SpokenOf
  <2>3. sa = sd
    BY <1>4, <2>2, Concat
  <2> QED BY <1>3, <2>1, <2>3
<1> QED BY <1>8, <1>9

\* A beginning of a beginning.
LEMMA BeginsShorter ==
  ASSUME NEW a \in Seq(Chars), NEW b \in Seq(Chars), NEW t, Begins(a \o b, t)
  PROVE  Begins(a, t)
<1>1. PICK r \in Seq(Chars) : (a \o b) \o r = t
  BY DEF Begins
<1>2. a \o (b \o r) = t
  <2>1. (a \o b) \o r = a \o (b \o r)
    OBVIOUS
  <2> QED BY <1>1, <2>1, Zenon
<1>3. b \o r \in Seq(Chars)
  BY Concat
<1> QED BY <1>2, <1>3 DEF Begins

-----------------------------------------------------------------------------
(* The callback and the child keep their invariant, step by step.          *)

\* The parts of the invariant that say nothing between calls.
LEMMA NotTalking ==
  ASSUME tpc \in {"idle", "start", "fork", "wait_nomem"}
  PROVE  FlowInv
BY DEF FlowInv, Talking

\* The text of a call is a text.
LEMMA TextIsSeq ==
  ASSUME PiperInv, tpc # "idle"
  PROVE  text \in Texts /\ text \in Seq(Chars)
BY ProcessAssumption DEF PiperInv, PiperTypeOK, ParentInv

\* The callback returns.
LEMMA ReturnInv ==
  ASSUME PiperInv, NEW rc \in Codes,
         NEW audio \in Seq(Chars), NEW open, NEW waited \in BOOLEAN, Cardinality(open) \in Nat,
         Return(rc, audio, open, waited),
         cut' \in BOOLEAN, faults' \in 0 .. MaxFaults, halfPipes' \in Nat
  PROVE  PiperInv'
<1>1. PiperTypeOK'
  <2>1. zombies' \in Nat
    BY DEF PiperInv, PiperTypeOK, Return
  <2>2. answer' \in [rc : Codes, audio : Seq(Chars)]
    BY DEF Return
  <2>3. lost' \in Nat
    BY DEF PiperInv, PiperTypeOK, Return
  <2>4. /\ {buf, got, out, inp, outp}' \subseteq Seq(Chars)
        /\ Len(buf') = 0 /\ Len(inp') = 0 /\ Len(outp') = 0
    BY DEF Return
  <2> QED BY <2>1, <2>2, <2>3, <2>4, ProcessAssumption DEF PiperTypeOK, Return
<1>2. ParentInv'
  BY ProcessAssumption DEF ParentInv, Return
<1>3. ChildInv'
  BY DEF ChildInv, Return
<1>4. FlowInv'
  BY DEF FlowInv, Talking, Return
<1> QED BY <1>1, <1>2, <1>3, <1>4 DEF PiperInv

\* It is called.
LEMMA CallInv ==
  ASSUME PiperInv, NEW t \in Texts, Call(t)
  PROVE  PiperInv'
<1>1. PiperTypeOK'
  BY DEF PiperInv, PiperTypeOK, Call, childVars
<1>2. ParentInv'
  BY ProcessAssumption DEF PiperInv, ParentInv, Call, childVars
<1>3. ChildInv'
  BY DEF PiperInv, ChildInv, Call, childVars
<1>4. FlowInv'
  BY DEF FlowInv, Talking, Call
<1> QED BY <1>1, <1>2, <1>3, <1>4 DEF PiperInv

\* A failure is counted.
LEMMA FaultCounts ==
  ASSUME PiperInv, Fault
  PROVE  faults' \in 0 .. MaxFaults /\ faults' > 0
BY ProcessAssumption DEF PiperInv, PiperTypeOK, Fault

\* Up to the fork.
LEMMA StartInv ==
  ASSUME PiperInv, RejectEmpty \/ OpenPipes \/ PipeFails \/ ForkFails
  PROVE  PiperInv'
<1>1. /\ Cardinality({}) \in Nat /\ Cardinality({"in_r", "in_w"}) \in Nat
      /\ "INVAL" \in Codes /\ "IO" \in Codes
  <2>1. IsFiniteSet({}) /\ Cardinality({}) = 0
    BY FS_EmptySet
  <2>2. IsFiniteSet({"in_r"}) /\ Cardinality({"in_r"}) = 1
    BY FS_Singleton
  <2>3. Cardinality({"in_r"} \cup {"in_w"}) = 2
    BY <2>2, FS_AddElement
  <2>4. {"in_r"} \cup {"in_w"} = {"in_r", "in_w"}
    OBVIOUS
  <2>5. "INVAL" \in Codes /\ "IO" \in Codes
    BY DEF Codes
  <2> QED BY <2>1, <2>3, <2>4, <2>5
<1>2. <<>> \in Seq(Chars)
  OBVIOUS
<1>3. cut \in BOOLEAN /\ faults \in 0 .. MaxFaults /\ halfPipes \in Nat
  BY DEF PiperInv, PiperTypeOK
<1>4. CASE RejectEmpty
  <2>1. cut' \in BOOLEAN /\ faults' \in 0 .. MaxFaults /\ halfPipes' \in Nat
    BY <1>3, <1>4 DEF RejectEmpty
  <2>2. Return("INVAL", <<>>, {}, FALSE)
    BY <1>4 DEF RejectEmpty
  <2> QED BY <1>1, <1>2, <2>1, <2>2, ReturnInv, Zenon
<1>5. CASE PipeFails
  <2>1. faults' \in 0 .. MaxFaults
    BY <1>5, FaultCounts DEF PipeFails
  <2>2. cut' \in BOOLEAN /\ halfPipes' \in Nat
    <3>1. cut' = cut /\ (halfPipes' = halfPipes \/ halfPipes' = halfPipes + 1)
      BY <1>5, Zenon DEF PipeFails
    <3> QED BY <1>3, <3>1
  <2>3. Return("IO", <<>>, {}, FALSE) \/ Return("IO", <<>>, {"in_r", "in_w"}, FALSE)
    BY <1>5 DEF PipeFails
  <2> QED BY <1>1, <1>2, <2>1, <2>2, <2>3, ReturnInv, Zenon
<1>6. CASE ForkFails
  <2>1. faults' \in 0 .. MaxFaults
    BY <1>6, FaultCounts DEF ForkFails
  <2>2. cut' \in BOOLEAN /\ halfPipes' \in Nat
    BY <1>3, <1>6 DEF ForkFails
  <2>3. Return("IO", <<>>, {}, FALSE)
    BY <1>6 DEF ForkFails
  <2> QED BY <1>1, <1>2, <2>1, <2>2, <2>3, ReturnInv, Zenon
<1>7. CASE OpenPipes
  <2>1. PiperTypeOK'
    BY <1>7 DEF PiperInv, PiperTypeOK, OpenPipes, childVars
  <2>2. ParentInv'
    BY <1>7 DEF PiperInv, ParentInv, OpenPipes, childVars
  <2>3. ChildInv'
    BY <1>7 DEF PiperInv, ChildInv, OpenPipes, childVars
  <2>4. FlowInv'
    BY <1>7 DEF FlowInv, Talking, OpenPipes
  <2> QED BY <2>1, <2>2, <2>3, <2>4 DEF PiperInv
<1> QED BY <1>4, <1>5, <1>6, <1>7

\* A step that leaves the pipes, the buffer and the child's text alone.
LEMMA FlowKept ==
  ASSUME FlowInv, Talking, Talking',
         UNCHANGED <<buf, outp, out, got, inp, text, cut, fds, sent>>,
         tpc' = tpc \/ (tpc # "text" /\ tpc' # "text"),
         Speaking' <=> Speaking, child' = "exited" => child = "exited",
         tpc' \in {"text", "newline"} => tpc \in {"text", "newline"},
         tpc \in {"text", "newline"} => tpc' \in {"text", "newline"}
  PROVE  FlowInv'
<1>1. Begins(buf \o outp \o out, Spoken(text))'
  <2>1. Begins(buf \o outp \o out, Spoken(text))
    BY DEF FlowInv
  <2> QED BY <2>1, Zenon DEF Begins
<1>2. ASSUME Speaking'
      PROVE  (\E d \in Seq(Chars), t \in 0 .. Len(text) : Flow(d, t))'
  <2>1. PICK d \in Seq(Chars), t \in 0 .. Len(text) : Flow(d, t)
    BY <1>2 DEF FlowInv
  <2>2. Flow(d, t)'
    BY <2>1, Zenon DEF Flow
  <2>3. t \in (0 .. Len(text))'
    OBVIOUS
  <2> QED BY <2>2, <2>3
<1>3. tpc # "wait" /\ tpc' # "wait"
  BY DEF Talking
<1>4. tpc' \in {"text", "newline"} => child' # "exited"
  BY DEF FlowInv
<1>5. ASSUME tpc' \in {"malloc", "read", "grow", "wait"}, child' = "exited", ~cut'
      PROVE  (buf \o outp = Spoken(text))'
  <2>1. tpc \in {"malloc", "read", "grow", "wait"}
    BY <1>5 DEF Talking
  <2>2. buf \o outp = Spoken(text)
    BY <1>5, <2>1 DEF FlowInv
  <2> QED BY <2>2, Zenon
<1> QED BY <1>1, <1>2, <1>3, <1>4, <1>5, Zenon DEF FlowInv

\* The buffer is allocated or grows.
LEMMA MemoryInv ==
  ASSUME PiperInv, Malloc \/ Grow
  PROVE  PiperInv'
<1>1. PiperTypeOK' /\ ParentInv' /\ ChildInv'
  <2>1. Len(buf) <= 2 * cap
    BY DEF PiperInv, PiperTypeOK
  <2>2. cap' \in Nat /\ Len(buf') <= cap' /\ Len(buf') < cap'
    <3>1. CASE Malloc
      BY <3>1, ProcessAssumption DEF PiperInv, PiperTypeOK, ParentInv, Malloc
    <3>2. CASE Grow
      BY <3>2 DEF PiperInv, PiperTypeOK, ParentInv, Grow
    <3> QED BY <3>1, <3>2
  <2>3. PiperTypeOK'
    BY <2>2 DEF PiperInv, PiperTypeOK, Malloc, Grow, childVars
  <2>4. ParentInv'
    BY <2>2 DEF PiperInv, ParentInv, Malloc, Grow, childVars
  <2>5. ChildInv'
    BY DEF PiperInv, ChildInv, Malloc, Grow, childVars
  <2> QED BY <2>3, <2>4, <2>5
<1>2. FlowInv'
  <2>1. /\ FlowInv /\ Talking /\ Talking'
        /\ UNCHANGED <<buf, outp, out, got, inp, text, cut, fds, sent, child>>
        /\ tpc \notin {"text", "newline"} /\ tpc' \notin {"text", "newline"}
    BY DEF PiperInv, Talking, Malloc, Grow, childVars
  <2> QED BY <2>1, FlowKept DEF Speaking
<1> QED BY <1>1, <1>2 DEF PiperInv

\* It cannot be.
LEMMA NoMemoryInv ==
  ASSUME PiperInv, NoMemory
  PROVE  PiperInv'
<1>1. faults' \in 0 .. MaxFaults
  BY FaultCounts DEF NoMemory
<1>2. PiperTypeOK'
  BY <1>1 DEF PiperInv, PiperTypeOK, NoMemory, childVars
<1>3. ParentInv'
  BY DEF PiperInv, ParentInv, NoMemory, childVars
<1>4. ChildInv'
  BY DEF PiperInv, ChildInv, NoMemory, childVars
<1>5. FlowInv'
  BY DEF FlowInv, Talking, NoMemory
<1> QED BY <1>2, <1>3, <1>4, <1>5 DEF PiperInv

\* The child has gone: what it said is in the buffer.
LEMMA ReadEndInv ==
  ASSUME PiperInv, ReadEnd
  PROVE  PiperInv'
<1>1. PiperTypeOK'
  BY DEF PiperInv, PiperTypeOK, ReadEnd, StopReading, childVars
<1>2. ParentInv'
  BY DEF PiperInv, ParentInv, ReadEnd, StopReading, childVars
<1>3. ChildInv'
  BY DEF PiperInv, ChildInv, ReadEnd, StopReading, childVars
<1>4. outp = <<>> /\ ~OutHasWriter
  BY DEF PiperInv, PiperTypeOK, ParentInv, ReadEnd
<1>5. ~Speaking /\ out = <<>>
  BY <1>4 DEF PiperInv, ChildInv, OutHasWriter, Ends, Speaking
<1>6. buf \in Seq(Chars)
  BY DEF PiperInv, PiperTypeOK
<1>7. buf \o outp = buf /\ buf \o outp \o out = buf
  BY <1>4, <1>5, <1>6, Concat
<1>8. /\ tpc' = "wait" /\ tpc = "read"
      /\ UNCHANGED <<buf, text, child, cut, outp>>
  BY DEF ReadEnd, StopReading, childVars
<1>9. Begins(buf, Spoken(text))'
  <2>1. Begins(buf, Spoken(text))
    BY <1>7, <1>8 DEF PiperInv, FlowInv, Talking
  <2> QED BY <1>8, <2>1, Zenon DEF Begins
<1>10. ~Speaking' /\ outp' = <<>>
  BY <1>4, <1>5, <1>8 DEF Speaking
<1>11. ASSUME child' = "exited", ~cut' PROVE (buf \o outp = Spoken(text))'
  <2>1. buf \o outp = Spoken(text)
    BY <1>8, <1>11 DEF PiperInv, FlowInv
  <2> QED BY <1>8, <2>1, Zenon
<1>12. FlowInv'
  <2>1. ~Talking' /\ tpc' \notin {"text", "newline"}
    BY <1>8 DEF Talking
  <2> QED BY <1>9, <1>10, <1>11, <2>1, Zenon DEF FlowInv
<1> QED BY <1>1, <1>2, <1>3, <1>12 DEF PiperInv

\* Nothing is written, nothing spoken.
LEMMA ForkInv ==
  ASSUME PiperInv, Fork
  PROVE  PiperInv'
<1>1. /\ tpc = "fork" /\ tpc' = "text" /\ child' = "forked" /\ fds = Ends
      /\ buf = <<>> /\ out = <<>> /\ outp = <<>> /\ got = <<>> /\ inp = <<>>
      /\ UNCHANGED <<buf, out, outp, got, inp, text, sent>> /\ sent = 0
  BY DEF PiperInv, ParentInv, ChildInv, Fork
<1>2. fds' = {"in_w", "out_r"}
  BY <1>1 DEF Fork, Ends
<1>3. text \in Seq(Chars) /\ text # <<>>
  <2>1. text \in Seq(Chars)
    BY <1>1, TextIsSeq
  <2> QED BY <1>1, <2>1 DEF PiperInv, ParentInv
<1>4. PiperTypeOK'
  BY <1>1, <1>2 DEF PiperInv, PiperTypeOK, Fork, Ends
<1>5. ParentInv'
  <2>1. sent' < Len(text')
    BY <1>1, <1>3
  <2> QED BY <1>1, <1>2, <2>1 DEF PiperInv, ParentInv, Fork
<1>6. ChildInv'
  BY <1>1 DEF ChildInv, Fork
<1>7. Begins(buf \o outp \o out, Spoken(text))'
  <2>1. Spoken(text) \in Seq(Chars)
    BY <1>3, SpokenIs
  <2>2. (<<>> \o <<>>) \o <<>> = <<>>
    OBVIOUS
  <2>3. <<>> \o Spoken(text) = Spoken(text)
    BY <2>1, Concat
  <2>4. (buf \o outp \o out)' = <<>> /\ text' = text
    BY <1>1, <2>2
  <2> QED BY <2>1, <2>3, <2>4, Zenon DEF Begins
<1>8. (\E d \in Seq(Chars), t \in 0 .. Len(text) : Flow(d, t))'
  <2>1. Spoken(<<>>) = <<>>
    BY SpokenOf, <1>3
  <2>2. (<<>> \o <<>>) \o <<>> = <<>> /\ SubSeq(text, 1, 0) = <<>>
    BY <1>3
  <2>3. Flow(<<>>, 0)'
    <3>1. (buf \o outp \o out)' = Spoken(<<>>)
      BY <1>1, <2>1, <2>2
    <3>2. <<>> \o got' \o inp' = SubSeq(text', 1, 0)
      BY <1>1, <2>2
    <3>3. fds' # {"out_r"} /\ tpc' = "text" /\ 0 = sent'
      BY <1>1, <1>2
    <3> QED BY <3>1, <3>2, <3>3, Zenon DEF Flow
  <2>4. <<>> \in Seq(Chars) /\ 0 \in 0 .. Len(text')
    BY <1>1, <1>3
  <2> QED BY <2>3, <2>4, Zenon
<1>9. FlowInv'
  BY <1>1, <1>7, <1>8 DEF FlowInv
<1> QED BY <1>4, <1>5, <1>6, <1>9 DEF PiperInv

\* The reader has gone, and so the child has failed.
LEMMA WriteBrokenInv ==
  ASSUME PiperInv, WriteBroken
  PROVE  PiperInv'
<1>1. /\ tpc \in {"text", "newline"} /\ sent' = 0
      /\ UNCHANGED <<text, buf, cap, answer, cut, lost, zombies, faults, halfPipes>>
      /\ UNCHANGED <<child, cfds, got, out, inp, outp>>
      /\ \/ tpc' = "newline" /\ fds' = fds
         \/ tpc' = "malloc" /\ fds' = fds \ {"in_w"}
      /\ tpc = "text" <=> tpc' = "newline"
  BY DEF WriteBroken, AfterWrite, childVars
<1>2. child = "failed"
  BY <1>1 DEF PiperInv, PiperTypeOK, ParentInv, ChildInv, FlowInv, WriteBroken,
     InHasReader, Ends
<1>3. PiperTypeOK'
  BY <1>1 DEF PiperInv, PiperTypeOK
<1>4. ParentInv'
  BY <1>1 DEF PiperInv, ParentInv
<1>5. ChildInv'
  BY <1>1 DEF PiperInv, ChildInv
<1>6. Begins(buf \o outp \o out, Spoken(text))'
  <2>1. Begins(buf \o outp \o out, Spoken(text))
    BY <1>1 DEF PiperInv, FlowInv, Talking
  <2> QED BY <1>1, <2>1, Zenon DEF Begins
<1>7. FlowInv'
  BY <1>1, <1>2, <1>6 DEF FlowInv, Speaking
<1> QED BY <1>3, <1>4, <1>5, <1>7 DEF PiperInv

\* The buffer takes the beginning of what is in the pipe.
LEMMA ReadSomeInv ==
  ASSUME PiperInv, ReadSome
  PROVE  PiperInv'
<1>1. PICK n \in Nat : n = Min2(Len(outp), cap - Len(buf))
  BY DEF PiperInv, PiperTypeOK, ReadSome, Min2
<1>2. {buf, got, out, inp, outp} \subseteq Seq(Chars) /\ cap \in Nat
  BY DEF PiperInv, PiperTypeOK
<1>3. n \in 0 .. Len(outp) /\ Len(buf) + n <= cap
  BY <1>1, <1>2 DEF Min2, ReadSome
<1>4. PICK a, b : a = SubSeq(outp, 1, n) /\ b = SubSeq(outp, n + 1, Len(outp))
  OBVIOUS
<1>5. /\ a \in Seq(Chars) /\ b \in Seq(Chars) /\ Len(a) = n
      /\ Len(b) = Len(outp) - n /\ a \o b = outp
  BY <1>2, <1>3, <1>4, Parted
<1>6. /\ tpc = "read" /\ tpc' \in {"read", "grow"} /\ buf' = buf \o a /\ outp' = b
      /\ tpc' = IF Full THEN "grow" ELSE "read"
      /\ UNCHANGED <<text, sent, fds, cap, answer, cut, lost, zombies>>
      /\ UNCHANGED <<child, cfds, got, out, inp, faults, halfPipes>>
  BY <1>1, <1>4 DEF ReadSome
<1>7. buf' \in Seq(Chars) /\ Len(buf') = Len(buf) + n /\ outp' \in Seq(Chars)
  BY <1>2, <1>5, <1>6, Concat
<1>8. PiperTypeOK'
  <2>1. Len(outp') <= OutCap
    BY <1>2, <1>3, <1>5, <1>6, ProcessAssumption DEF PiperInv, PiperTypeOK
  <2>2. Len(buf') <= cap'
    BY <1>3, <1>6, <1>7
  <2> QED BY <1>2, <1>6, <1>7, <2>1, <2>2 DEF PiperInv, PiperTypeOK
<1>9. ParentInv'
  <2>1. tpc' = "read" => Len(buf') < cap'
    BY <1>2, <1>6, <1>7 DEF Full
  <2>2. tpc' = "grow" => cap' > 0
    BY <1>2, <1>6 DEF ReadSome
  <2> QED BY <1>6, <2>1, <2>2 DEF PiperInv, ParentInv
<1>10. ChildInv'
  BY <1>6 DEF PiperInv, ParentInv, ChildInv
<1>11. (buf \o outp)' = buf \o outp
  <2>1. Joins((buf \o a) \o b, buf, a \o b)
    BY <1>2, <1>5, ConcatAssoc
  <2> QED BY <1>5, <1>6, <2>1, Zenon DEF Joins
<1>12. Begins(buf \o outp \o out, Spoken(text))'
  <2>1. Begins(buf \o outp \o out, Spoken(text))
    BY <1>6 DEF PiperInv, FlowInv, Talking
  <2>2. (buf \o outp \o out)' = buf \o outp \o out /\ text' = text
    BY <1>6, <1>11, Zenon
  <2> QED BY <2>1, <2>2, Zenon DEF Begins
<1>13. ASSUME Speaking'
       PROVE  (\E d \in Seq(Chars), t \in 0 .. Len(text) : Flow(d, t))'
  <2>1. PICK d \in Seq(Chars), t \in 0 .. Len(text) : Flow(d, t)
    BY <1>6, <1>13 DEF PiperInv, FlowInv, Talking, Speaking
  <2>2. (buf \o outp \o out)' = buf \o outp \o out
    BY <1>6, <1>11, Zenon
  <2>3. tpc # "text" /\ tpc' # "text"
    BY <1>6
  <2>4. Flow(d, t)'
    BY <1>6, <2>1, <2>2, <2>3, Zenon DEF Flow
  <2>5. t \in (0 .. Len(text))'
    BY <1>6
  <2> QED BY <2>4, <2>5
<1>14. ASSUME child' = "exited", ~cut' PROVE (buf \o outp = Spoken(text))'
  <2>1. buf \o outp = Spoken(text)
    BY <1>6, <1>14 DEF PiperInv, FlowInv
  <2> QED BY <1>6, <1>11, <2>1, Zenon
<1>15. FlowInv'
  <2>1. tpc' # "wait" /\ tpc' \notin {"text", "newline"}
    BY <1>6
  <2> QED BY <1>12, <1>13, <1>14, <2>1, Zenon DEF FlowInv
<1> QED BY <1>8, <1>9, <1>10, <1>15 DEF PiperInv

\* The pipe takes the next part of the text, or the newline after it.
LEMMA WriteSomeInv ==
  ASSUME PiperInv, WriteSome
  PROVE  PiperInv'
<1>1. /\ {buf, got, out, inp, outp} \subseteq Seq(Chars) /\ sent \in Nat
      /\ Len(inp) \in Nat /\ Len(inp) <= InCap /\ InCap \in Nat
      /\ tpc \in {"text", "newline"} /\ fds = {"in_w", "out_r"}
  <2>1. {buf, got, out, inp, outp} \subseteq Seq(Chars) /\ sent \in Nat
        /\ Len(inp) <= InCap
    BY DEF PiperInv, PiperTypeOK
  <2>2. Len(inp) \in Nat /\ InCap \in Nat
    BY <2>1, ProcessAssumption
  <2>3. tpc \in {"text", "newline"} /\ fds = {"in_w", "out_r"}
    BY DEF PiperInv, ParentInv, WriteSome
  <2> QED BY <2>1, <2>2, <2>3
<1>2. text \in Seq(Chars)
  BY <1>1, TextIsSeq
<1>3. PICK w \in Seq(Chars) : w = ToWrite /\ Len(w) > 0
  <2>1. CASE tpc = "text"
    <3>1. sent \in 0 .. Len(text) /\ sent < Len(text)
      BY <1>1, <1>2, <2>1 DEF PiperInv, ParentInv
    <3>2. ToWrite = SubSeq(text, sent + 1, Len(text))
      BY <2>1 DEF ToWrite
    <3>3. /\ SubSeq(text, sent + 1, Len(text)) \in Seq(Chars)
          /\ Len(SubSeq(text, sent + 1, Len(text))) = Len(text) - sent
      BY <1>2, <3>1, Parted
    <3>4. Len(text) - sent > 0
      BY <1>1, <1>2, <3>1
    <3> QED BY <3>2, <3>3, <3>4
  <2>2. CASE tpc = "newline"
    <3>1. ToWrite = <<NL>> /\ NL \in Chars
      BY <2>2 DEF ToWrite, Chars
    <3>2. <<NL>> \in Seq(Chars) /\ Len(<<NL>>) > 0
      BY <3>1
    <3> QED BY <3>1, <3>2, Zenon
  <2> QED BY <1>1, <2>1, <2>2
<1>4. PICK n \in 1 .. Len(w) : n = Min2(Room, Len(w)) /\ Len(inp) + n <= InCap
  <2>1. Room > 0 /\ Room = InCap - Len(inp)
    BY DEF WriteSome, Room
  <2>2. Len(w) \in Nat
    BY <1>3
  <2>3. Min2(Room, Len(w)) \in 1 .. Len(w) /\ Len(inp) + Min2(Room, Len(w)) <= InCap
    BY <1>1, <1>3, <2>1, <2>2 DEF Min2
  <2> QED BY <2>3
<1>5. PICK a : a = SubSeq(w, 1, n)
  OBVIOUS
<1>6. n \in 0 .. Len(w) /\ a \in Seq(Chars) /\ Len(a) = n
  <2>1. n \in 0 .. Len(w)
    BY <1>3
  <2> QED BY <1>3, <1>5, <2>1, Parted
<1>7. /\ inp' = inp \o a
      /\ \/ n = Len(w) /\ AfterWrite /\ sent' = 0
         \/ n # Len(w) /\ sent' = sent + n /\ UNCHANGED <<tpc, fds>>
      /\ UNCHANGED <<text, buf, cap, answer, cut, lost, zombies, child, cfds, got>>
      /\ UNCHANGED <<out, outp, faults, halfPipes>>
  BY <1>3, <1>4, <1>5 DEF WriteSome
<1>8. tpc = "newline" => n = Len(w) /\ a = <<NL>>
  <2> SUFFICES ASSUME tpc = "newline" PROVE n = Len(w) /\ a = <<NL>>
    OBVIOUS
  <2>1. w = <<NL>> /\ Len(w) = 1
    BY <1>3 DEF ToWrite
  <2>2. n = 1
    BY <2>1
  <2>3. SubSeq(w, 1, Len(w)) = w
    BY <1>3, SubSeqFull
  <2> QED BY <1>5, <2>1, <2>2, <2>3
<1>9. \/ tpc = "text" /\ n # Len(w) /\ tpc' = "text" /\ fds' = fds /\ sent' = sent + n
      \/ tpc = "text" /\ n = Len(w) /\ tpc' = "newline" /\ fds' = fds /\ sent' = 0
      \/ tpc = "newline" /\ tpc' = "malloc" /\ fds' = {"out_r"} /\ sent' = 0
  BY <1>1, <1>7, <1>8 DEF AfterWrite
<1>10. tpc = "text" => sent \in 0 .. Len(text) /\ Len(w) = Len(text) - sent
                       /\ w = SubSeq(text, sent + 1, Len(text))
  <2> SUFFICES ASSUME tpc = "text"
               PROVE  sent \in 0 .. Len(text) /\ Len(w) = Len(text) - sent
                      /\ w = SubSeq(text, sent + 1, Len(text))
    OBVIOUS
  <2>1. w = SubSeq(text, sent + 1, Len(text))
    BY <1>3 DEF ToWrite
  <2>2. sent \in 0 .. Len(text)
    BY <1>1, <1>2 DEF PiperInv, ParentInv
  <2>3. Len(SubSeq(text, sent + 1, Len(text))) = Len(text) - sent
    BY <1>2, <2>2, Parted
  <2> QED BY <2>1, <2>2, <2>3
<1>11. Len(w) \in Nat /\ Len(text) \in Nat
  BY <1>2, <1>3
<1>12. PiperTypeOK'
  <2>1. inp' \in Seq(Chars) /\ Len(inp') = Len(inp) + n
    BY <1>1, <1>6, <1>7, Concat
  <2>2. Len(inp') <= InCap
    BY <1>4, <2>1
  <2>3. sent' \in Nat /\ tpc' \in {"text", "newline", "malloc"} /\ fds' \subseteq Ends
    BY <1>1, <1>4, <1>9, <1>11 DEF Ends
  <2> QED BY <1>1, <1>7, <2>1, <2>2, <2>3 DEF PiperInv, PiperTypeOK
<1>13. ParentInv'
  <2>1. tpc' = "text" => sent' < Len(text')
    BY <1>4, <1>7, <1>9, <1>10, <1>11
  <2>2. tpc' # "text" => sent' = 0
    BY <1>9
  <2>3. /\ text # None /\ child # "none" /\ buf = <<>>
        /\ tpc' \in {"text", "newline"} => fds' = {"in_w", "out_r"}
        /\ tpc' = "malloc" => fds' = {"out_r"}
        /\ tpc' \in {"text", "newline", "malloc"}
    BY <1>1, <1>9 DEF PiperInv, ParentInv
  <2> QED BY <1>7, <2>1, <2>2, <2>3 DEF ParentInv
<1>14. Speaking /\ ChildInv'
  <2>1. Speaking
    BY <1>1 DEF PiperInv, PiperTypeOK, ChildInv, WriteSome, InHasReader, Speaking
  <2> QED BY <1>7, <2>1 DEF PiperInv, ChildInv, Speaking
<1>15. (buf \o outp \o out)' = buf \o outp \o out /\ text' = text
  BY <1>7, Zenon
<1>16. Begins(buf \o outp \o out, Spoken(text))'
  <2>1. Begins(buf \o outp \o out, Spoken(text))
    BY <1>1 DEF PiperInv, FlowInv, Talking
  <2> QED BY <1>15, <2>1, Zenon DEF Begins
<1>17. (\E d \in Seq(Chars), t \in 0 .. Len(text) : Flow(d, t))'
  <2>1. PICK d \in Seq(Chars), t \in 0 .. Len(text) : Flow(d, t)
    BY <1>1, <1>14 DEF PiperInv, FlowInv, Talking, Speaking
  <2>2. /\ buf \o outp \o out = Spoken(d) /\ (d = <<>> \/ d[Len(d)] = NL)
        /\ d \o got \o inp = SubSeq(text, 1, t)
        /\ tpc = "text" => t = sent
        /\ tpc # "text" /\ ~cut => t = Len(text)
    <3>1. "in_w" \in fds /\ fds # {"out_r"}
      <4>1. "in_w" \in fds /\ "in_w" \notin {"out_r"}
        BY <1>1
      <4> QED BY <4>1
    <3> QED BY <2>1, <3>1, Zenon DEF Flow
  <2>3. d \o got' \o inp' = SubSeq(text, 1, t) \o a
    <3>1. d \o got \in Seq(Chars)
      BY <1>1, Concat
    <3>2. Joins(((d \o got) \o inp) \o a, d \o got, inp \o a)
      BY <1>1, <1>6, <3>1, ConcatAssoc
    <3> QED BY <1>7, <2>2, <3>2, Zenon DEF Joins
  <2>4. CASE tpc = "text"
    <3>1. t = sent /\ n \in 0 .. Len(text) - sent
      BY <1>4, <1>10, <1>11, <2>2, <2>4
    <3>2. SubSeq(text, 1, sent) \o SubSeq(SubSeq(text, sent + 1, Len(text)), 1, n)
            = SubSeq(text, 1, sent + n)
      BY <1>2, <1>10, <2>4, <3>1, PartedTwice
    <3>3. d \o got' \o inp' = SubSeq(text, 1, sent + n)
      BY <1>5, <1>10, <2>3, <2>4, <3>1, <3>2, Zenon
    <3>4. PICK m \in 0 .. Len(text) : m = sent + n
      <4>1. sent + n \in 0 .. Len(text)
        BY <1>1, <1>11, <3>1
      <4> QED BY <4>1, Zenon
    <3>5. (tpc' = "text" => m = sent') /\ (tpc' # "text" => m = Len(text))
      <4>1. n = Len(w) => m = Len(text)
        BY <1>1, <1>10, <1>11, <2>4, <3>4
      <4> QED BY <1>9, <2>4, <3>4, <4>1
    <3>6. fds' # {"out_r"} /\ "in_w" \in fds'
      <4>1. "in_w" \in fds' /\ "in_w" \notin {"out_r"}
        BY <1>1, <1>9, <2>4
      <4> QED BY <4>1
    <3>7. Flow(d, m)'
      BY <1>15, <2>2, <3>3, <3>4, <3>5, <3>6, Zenon DEF Flow
    <3> QED BY <1>15, <3>7, Zenon
  <2>5. CASE tpc = "newline"
    <3>1. d \o got' \o inp' = SubSeq(text, 1, t) \o <<NL>>
      BY <1>8, <2>3, <2>5, Zenon
    <3>2. fds' = {"out_r"} /\ "in_w" \notin fds' /\ tpc' # "text"
      BY <1>9, <2>5
    <3>3. ~cut' => t = Len(text')
      BY <1>7, <2>2, <2>5
    <3>4. Flow(d, t)'
      BY <1>15, <2>2, <3>1, <3>2, <3>3, Zenon DEF Flow
    <3> QED BY <1>15, <3>4, Zenon
  <2> QED BY <1>1, <2>4, <2>5
<1>18. FlowInv'
  <2>1. tpc' # "wait" /\ child' # "exited"
    BY <1>7, <1>9, <1>14 DEF Speaking
  <2> QED BY <1>16, <1>17, <2>1, Zenon DEF FlowInv
<1> QED BY <1>12, <1>13, <1>14, <1>18 DEF PiperInv

\* The samples of the audio that was read.
LEMMA SamplesIs ==
  ASSUME buf \in Seq(Chars)
  PROVE  /\ Samples \in Seq(Chars) /\ Len(Samples) = Len(buf) \div 2
         /\ \A i \in 1 .. Len(buf) \div 2 : 2 * i \in 1 .. Len(buf) /\ Samples[i] = buf[2 * i]
<1>1. PICK n \in Nat : n = Len(buf)
  OBVIOUS
<1>2. n \div 2 \in Nat /\ \A i \in 1 .. n \div 2 : 2 * i \in 1 .. n
  OBVIOUS
<1>3. \A i \in 1 .. n : buf[i] \in Chars
  BY <1>1
<1>4. Samples = [i \in 1 .. n \div 2 |-> buf[2 * i]]
  BY <1>1 DEF Samples
<1>5. PICK h \in Nat : h = n \div 2
  BY <1>2
<1>6. PICK s : s = Samples
  OBVIOUS
<1>7. s = [i \in 1 .. h |-> buf[2 * i]] /\ \A i \in 1 .. h : buf[2 * i] \in Chars
  BY <1>2, <1>3, <1>4, <1>5, <1>6
<1>8. s \in Seq(Chars) /\ Len(s) = h /\ \A i \in 1 .. h : s[i] = buf[2 * i]
  BY <1>7
<1> QED BY <1>1, <1>2, <1>5, <1>6, <1>8

\* The codes and the audio of an answer.
LEMMA AnswerIs ==
  ASSUME PiperInv, NEW good \in BOOLEAN
  PROVE  /\ AnswerOf(good).rc \in Codes /\ AnswerOf(good).audio \in Seq(Chars)
         /\ AnswerOf(good).rc = "OK" =>
              good /\ AnswerOf(good).audio = Samples
         /\ AnswerOf(good).rc # "OK" => AnswerOf(good).audio = <<>>
<1>1. buf \in Seq(Chars)
  BY DEF PiperInv, PiperTypeOK
<1>2. Samples \in Seq(Chars)
  BY <1>1, SamplesIs
<1>3. CASE good /\ Len(buf) >= 2
  BY <1>2, <1>3 DEF AnswerOf, Codes
<1>4. CASE ~(good /\ Len(buf) >= 2)
  BY <1>4 DEF AnswerOf, Codes
<1> QED BY <1>3, <1>4

\* waitpid returns.
LEMMA WaitedInv ==
  ASSUME PiperInv, Waited
  PROVE  PiperInv'
<1>1. fds = {}
  BY DEF PiperInv, ParentInv, Waited
<1>2. Cardinality(fds) \in Nat
  BY <1>1, FS_EmptySet
<1>3. cut' \in BOOLEAN /\ faults' \in 0 .. MaxFaults /\ halfPipes' \in Nat
  BY DEF Waited, PiperInv, PiperTypeOK
<1>4. PICK good \in BOOLEAN : good = (child = "exited")
  OBVIOUS
<1>5. CASE ReturnAnswer(good, TRUE)
  <2>1. Return(AnswerOf(good).rc, AnswerOf(good).audio, fds, TRUE)
    BY <1>5 DEF ReturnAnswer
  <2>2. AnswerOf(good).rc \in Codes /\ AnswerOf(good).audio \in Seq(Chars)
    BY AnswerIs
  <2> QED BY <1>2, <1>3, <2>1, <2>2, ReturnInv, Zenon
<1>6. CASE Return("NOMEM", <<>>, fds, TRUE)
  <2>1. "NOMEM" \in Codes /\ <<>> \in Seq(Chars)
    BY DEF Codes
  <2> QED BY <1>2, <1>3, <1>6, <2>1, ReturnInv, Zenon
<1> QED BY <1>4, <1>5, <1>6 DEF Waited

\* A signal cuts the call off: what was read stays a beginning of the audio.
LEMMA InterruptInv ==
  ASSUME PiperInv, Interrupt
  PROVE  PiperInv'
<1>1. cut' \in BOOLEAN /\ faults' \in 0 .. MaxFaults /\ halfPipes' \in Nat
  BY DEF Interrupt, PiperInv, PiperTypeOK
<1>2. CASE WriteBlocked /\ AfterWrite /\ sent' = 0
           /\ UNCHANGED <<text, buf, cap, answer, lost, zombies, childVars>>
  <2>1. /\ tpc \in {"text", "newline"} /\ sent' = 0 /\ cut' = TRUE
        /\ UNCHANGED <<text, buf, cap, answer, lost, zombies, faults, halfPipes>>
        /\ UNCHANGED <<child, cfds, got, out, inp, outp>>
        /\ \/ tpc' = "newline" /\ fds' = fds
           \/ tpc' = "malloc" /\ fds' = fds \ {"in_w"}
        /\ tpc = "text" <=> tpc' = "newline"
    BY <1>2 DEF Interrupt, WriteBlocked, AfterWrite, childVars
  <2>2. fds = {"in_w", "out_r"}
    BY <2>1 DEF PiperInv, ParentInv
  <2>3. PiperTypeOK'
    BY <1>1, <2>1 DEF PiperInv, PiperTypeOK
  <2>4. ParentInv'
    BY <2>1 DEF PiperInv, ParentInv
  <2>5. ChildInv'
    BY <2>1 DEF PiperInv, ChildInv
  <2>6. Begins(buf \o outp \o out, Spoken(text))'
    <3>1. Begins(buf \o outp \o out, Spoken(text))
      BY <2>1 DEF PiperInv, FlowInv, Talking
    <3> QED BY <2>1, <3>1, Zenon DEF Begins
  <2>7. ASSUME Speaking'
        PROVE  (\E d \in Seq(Chars), t \in 0 .. Len(text) : Flow(d, t))'
    <3>1. PICK d \in Seq(Chars), t \in 0 .. Len(text) : Flow(d, t)
      BY <2>1, <2>7 DEF PiperInv, FlowInv, Talking, Speaking
    <3>2. "in_w" \in fds /\ fds # {"out_r"} /\ tpc' # "text"
      <4>1. "in_w" \in fds /\ "in_w" \notin {"out_r"}
        BY <2>2
      <4> QED BY <2>1, <4>1
    <3>3. /\ buf \o outp \o out = Spoken(d) /\ (d = <<>> \/ d[Len(d)] = NL)
          /\ d \o got \o inp = SubSeq(text, 1, t)
      BY <3>1, <3>2, Zenon DEF Flow
    <3>4. Flow(d, t)'
      BY <2>1, <3>2, <3>3, Zenon DEF Flow
    <3> QED BY <2>1, <3>4, Zenon
  <2>8. FlowInv'
    <3>1. tpc' # "wait" /\ cut' /\ (tpc' \in {"text", "newline"} => child' # "exited")
      BY <2>1 DEF PiperInv, FlowInv
    <3> QED BY <2>6, <2>7, <3>1, Zenon DEF FlowInv
  <2> QED BY <2>3, <2>4, <2>5, <2>8 DEF PiperInv
<1>3. CASE ReadBlocked /\ StopReading
           /\ UNCHANGED <<text, sent, buf, cap, answer, lost, zombies, childVars>>
  <2>1. /\ tpc = "read" /\ tpc' = "wait" /\ cut' = TRUE /\ fds' = fds \ {"out_r"}
        /\ UNCHANGED <<text, sent, buf, cap, answer, lost, zombies, faults, halfPipes>>
        /\ UNCHANGED <<child, cfds, got, out, inp, outp>>
    BY <1>3 DEF Interrupt, ReadBlocked, StopReading, childVars
  <2>2. PiperTypeOK'
    BY <2>1 DEF PiperInv, PiperTypeOK
  <2>3. ParentInv'
    BY <2>1 DEF PiperInv, ParentInv
  <2>4. ChildInv'
    BY <2>1 DEF PiperInv, ChildInv
  <2>5. buf \in Seq(Chars) /\ outp \in Seq(Chars) /\ out \in Seq(Chars)
    BY DEF PiperInv, PiperTypeOK
  <2>6. Begins(buf, Spoken(text))
    <3>1. Begins(buf \o outp \o out, Spoken(text))
      BY <2>1 DEF PiperInv, FlowInv, Talking
    <3>2. buf \o outp \in Seq(Chars)
      BY <2>5, Concat
    <3>3. Begins(buf \o outp, Spoken(text))
      BY <2>5, <3>1, <3>2, BeginsShorter, Zenon
    <3> QED BY <2>5, <3>3, BeginsShorter, Zenon
  <2>7. Begins(buf, Spoken(text))'
    BY <2>1, <2>6, Zenon DEF Begins
  <2>8. FlowInv'
    BY <2>1, <2>7 DEF FlowInv, Talking
  <2> QED BY <2>2, <2>3, <2>4, <2>8 DEF PiperInv
<1>4. CASE tpc = "wait" /\ \E good \in BOOLEAN : ReturnAnswer(good, FALSE)
  <2>1. PICK good \in BOOLEAN : ReturnAnswer(good, FALSE)
    BY <1>4
  <2>2. Return(AnswerOf(good).rc, AnswerOf(good).audio, fds, FALSE)
    BY <2>1 DEF ReturnAnswer
  <2>3. AnswerOf(good).rc \in Codes /\ AnswerOf(good).audio \in Seq(Chars)
    BY AnswerIs
  <2>4. Cardinality(fds) \in Nat
    BY <1>4, FS_EmptySet DEF PiperInv, ParentInv
  <2> QED BY <1>1, <2>2, <2>3, <2>4, ReturnInv, Zenon
<1>5. CASE tpc = "wait_nomem" /\ Return("NOMEM", <<>>, fds, FALSE)
  <2>1. "NOMEM" \in Codes /\ <<>> \in Seq(Chars)
    BY DEF Codes
  <2>2. Cardinality(fds) \in Nat
    BY <1>5, FS_EmptySet DEF PiperInv, ParentInv
  <2> QED BY <1>1, <1>5, <2>1, <2>2, ReturnInv, Zenon
<1> QED BY <1>2, <1>3, <1>4, <1>5 DEF Interrupt

\* What a step of the child leaves alone.
ChildAlone ==
  UNCHANGED <<tpc, text, sent, fds, buf, cap, answer, cut, lost, zombies, halfPipes>>

\* The child becomes piper.
LEMMA ExecInv ==
  ASSUME PiperInv, Exec
  PROVE  PiperInv'
<1>1. /\ ChildAlone /\ UNCHANGED <<got, out, inp, outp, faults>>
      /\ child = "forked" /\ child' = "running" /\ cfds' = cfds \cap {"in_r", "out_w"}
  BY DEF Exec, ChildAlone, parentVars, ChildEnds
<1>2. PiperTypeOK'
  BY <1>1 DEF PiperInv, PiperTypeOK, ChildAlone
<1>3. ParentInv'
  BY <1>1 DEF PiperInv, ParentInv, ChildAlone
<1>4. ChildInv'
  BY <1>1 DEF PiperInv, ChildInv, Ends
<1>5. FlowInv'
  <2>1. CASE Talking
    BY <1>1, <2>1, FlowKept DEF PiperInv, ChildAlone, Talking, Speaking
  <2>2. CASE ~Talking
    <3>1. tpc' = tpc /\ UNCHANGED <<buf, text, cut, outp>> /\ child' = "running"
      BY <1>1 DEF ChildAlone
    <3>2. tpc = "wait" => cut
      BY <1>1 DEF PiperInv, FlowInv, Speaking
    <3>3. tpc = "wait" => Begins(buf, Spoken(text))'
      <4>1. tpc = "wait" => Begins(buf, Spoken(text))
        BY DEF PiperInv, FlowInv
      <4> QED BY <1>1, <4>1, Zenon DEF Begins, ChildAlone
    <3>4. tpc' = tpc /\ cut' = cut /\ ~Talking' /\ child' # "exited"
      BY <1>1, <2>2 DEF ChildAlone, Talking
    <3> QED BY <3>2, <3>3, <3>4, Zenon DEF FlowInv
  <2> QED BY <2>1, <2>2
<1> QED BY <1>2, <1>3, <1>4, <1>5 DEF PiperInv

\* The child ends, and with it what it had not yet written.  It may have
\* said everything.
LEMMA ChildEndedInv ==
  ASSUME PiperInv, NEW how \in {"exited", "failed"}, ChildEnded(how), Speaking,
         faults' \in 0 .. MaxFaults,
         Talking /\ how = "exited" =>
           /\ tpc \notin {"text", "newline"}
           /\ ~cut => buf \o outp = Spoken(text)
  PROVE  PiperInv'
<1>1. /\ ChildAlone /\ UNCHANGED <<got, inp, outp>>
      /\ child' = how /\ cfds' = {} /\ out' = <<>>
  BY DEF ChildEnded, ChildAlone, parentVars
<1>2. PiperTypeOK'
  BY <1>1 DEF PiperInv, PiperTypeOK, ChildAlone
<1>3. ParentInv'
  BY <1>1 DEF PiperInv, ParentInv, ChildAlone, Speaking
<1>4. ChildInv'
  BY <1>1 DEF ChildInv
<1>5. {buf, outp, out} \subseteq Seq(Chars)
  BY DEF PiperInv, PiperTypeOK
<1>6. Talking => Begins(buf \o outp \o out, Spoken(text))'
  <2> SUFFICES ASSUME Talking PROVE Begins(buf \o outp \o out, Spoken(text))'
    OBVIOUS
  <2>1. buf \o outp \in Seq(Chars)
    BY <1>5, Concat
  <2>2. (buf \o outp) \o <<>> = buf \o outp
    BY <2>1, Concat
  <2>3. Begins(buf \o outp \o out, Spoken(text))
    BY DEF PiperInv, FlowInv
  <2>4. Begins(buf \o outp, Spoken(text))
    BY <1>5, <2>1, <2>3, BeginsShorter
  <2>5. (buf \o outp \o out)' = buf \o outp /\ text' = text
    BY <1>1, <2>2, Zenon DEF ChildAlone
  <2> QED BY <2>4, <2>5, Zenon DEF Begins
<1>7. tpc = "wait" => cut /\ Begins(buf, Spoken(text))'
  <2>1. tpc = "wait" => cut /\ Begins(buf, Spoken(text))
    BY DEF PiperInv, FlowInv
  <2> QED BY <1>1, <2>1, Zenon DEF Begins, ChildAlone
<1>8. /\ tpc' = tpc /\ cut' = cut /\ (Talking' <=> Talking) /\ ~Speaking'
      /\ (buf \o outp)' = buf \o outp /\ text' = text
  BY <1>1 DEF ChildAlone, Talking, Speaking
<1>9. ASSUME tpc \in {"text", "newline"} PROVE child' # "exited"
  BY <1>1, <1>9 DEF Talking
<1>10. ASSUME tpc \in {"malloc", "read", "grow", "wait"}, child' = "exited", ~cut
       PROVE  (buf \o outp = Spoken(text))'
  <2>1. Talking /\ how = "exited"
    BY <1>1, <1>7, <1>10 DEF Talking
  <2>2. buf \o outp = Spoken(text)
    BY <1>10, <2>1
  <2> QED BY <1>8, <2>2, Zenon
<1>11. FlowInv'
  BY <1>6, <1>7, <1>8, <1>9, <1>10, Zenon DEF FlowInv
<1> QED BY <1>2, <1>3, <1>4, <1>11 DEF PiperInv

\* The child fails.
LEMMA ChildFailsInv ==
  ASSUME PiperInv, ChildFails
  PROVE  PiperInv'
<1>1. Speaking /\ faults' \in 0 .. MaxFaults
  BY FaultCounts DEF ChildFails, Speaking
<1> QED BY <1>1, ChildEndedInv DEF ChildFails

\* The child writes only while it lives.
LEMMA OutMeansSpeaking ==
  ASSUME PiperInv, out # <<>> \/ child = "running"
  PROVE  Speaking /\ child = "running"
BY DEF PiperInv, PiperTypeOK, ChildInv, Speaking

\* Nobody reads its audio.
LEMMA ChildBrokenInv ==
  ASSUME PiperInv, ChildBroken
  PROVE  PiperInv'
<1>1. Speaking /\ ~Talking
  BY OutMeansSpeaking DEF PiperInv, ParentInv, ChildBroken, OutHasReader, Talking
<1>2. faults' \in 0 .. MaxFaults
  BY DEF PiperInv, PiperTypeOK, ChildBroken
<1>3. CASE ChildEnded("exited") \/ ChildEnded("failed")
  BY <1>1, <1>2, <1>3, ChildEndedInv
<1>4. CASE out' = <<>> /\ UNCHANGED <<parentVars, child, cfds, got, inp, outp, halfPipes>>
  <2>1. ChildAlone /\ UNCHANGED <<child, cfds, got, inp, outp, faults>> /\ out' = <<>>
    BY <1>4 DEF ChildBroken, ChildAlone, parentVars
  <2>2. PiperTypeOK'
    BY <2>1 DEF PiperInv, PiperTypeOK, ChildAlone
  <2>3. ParentInv'
    BY <2>1 DEF PiperInv, ParentInv, ChildAlone
  <2>4. ChildInv'
    BY <2>1 DEF PiperInv, ChildInv
  <2>5. tpc = "wait" => cut /\ Begins(buf, Spoken(text))'
    <3>1. tpc = "wait" => cut /\ Begins(buf, Spoken(text))
      BY <1>1 DEF PiperInv, FlowInv
    <3> QED BY <2>1, <3>1, Zenon DEF Begins, ChildAlone
  <2>6. /\ tpc' = tpc /\ cut' = cut /\ ~Talking'
        /\ tpc \notin {"text", "newline", "malloc", "read", "grow"}
    BY <1>1, <2>1 DEF ChildAlone, Talking
  <2>7. FlowInv'
    BY <2>5, <2>6 DEF FlowInv
  <2> QED BY <2>2, <2>3, <2>4, <2>7 DEF PiperInv
<1> QED BY <1>3, <1>4 DEF ChildBroken

\* The child moves data: what was spoken and is to be spoken still add up.
LEMMA MovesInv ==
  ASSUME PiperInv, ChildAlone, UNCHANGED <<child, cfds, faults>>, child = "running",
         {got, out, inp, outp}' \subseteq Seq(Chars),
         Len(inp') <= InCap, Len(outp') <= OutCap,
         Talking => \E d \in Seq(Chars), t \in 0 .. Len(text) : Flow(d, t)'
  PROVE  PiperInv'
<1>1. PiperTypeOK'
  BY DEF PiperInv, PiperTypeOK, ChildAlone
<1>2. ParentInv'
  BY DEF PiperInv, ParentInv, ChildAlone
<1>3. ChildInv'
  BY DEF PiperInv, ChildInv
<1>4. /\ tpc' = tpc /\ text' = text /\ cut' = cut /\ buf' = buf
      /\ (Talking' <=> Talking) /\ Speaking /\ child' # "exited"
  BY DEF ChildAlone, Talking, Speaking
<1>5. tpc = "wait" => cut /\ Begins(buf, Spoken(text))'
  <2>1. tpc = "wait" => cut /\ Begins(buf, Spoken(text))
    BY <1>4 DEF PiperInv, FlowInv
  <2> QED BY <1>4, <2>1, Zenon DEF Begins
<1>6. ASSUME Talking
      PROVE  /\ Begins(buf \o outp \o out, Spoken(text))'
             /\ (\E d \in Seq(Chars), t \in 0 .. Len(text) : Flow(d, t))'
  <2>1. PICK d \in Seq(Chars), t \in 0 .. Len(text) : Flow(d, t)'
    BY <1>6
  <2>2. text \in Seq(Chars)
    BY <1>6, TextIsSeq DEF Talking
  <2>3. PICK g \in Seq(Chars), i \in Seq(Chars) : g = got' /\ i = inp'
    OBVIOUS
  <2>4. PICK h \in Seq(Chars) : h = g \o i
    BY Concat
  <2>5. d \o h = d \o g \o i
    <3>1. Joins((d \o g) \o i, d, g \o i)
      BY ConcatAssoc
    <3> QED BY <2>4, <3>1, Zenon DEF Joins
  <2>6. /\ (buf \o outp \o out)' = Spoken(d)
        /\ \/ d \o g \o i = SubSeq(text, 1, t)
           \/ d \o g \o i = SubSeq(text, 1, t) \o <<NL>>
    BY <1>4, <2>1, <2>3, Zenon DEF Flow
  <2>7. d \o h = SubSeq(text, 1, t) \/ d \o h = SubSeq(text, 1, t) \o <<NL>>
    BY <2>5, <2>6, Zenon
  <2>8. Begins(Spoken(d), Spoken(text))
    BY <2>2, <2>7, SpokenBegins
  <2>9. Begins(buf \o outp \o out, Spoken(text))'
    BY <1>4, <2>6, <2>8, Zenon DEF Begins
  <2> QED BY <1>4, <2>1, <2>9, Zenon
<1>7. FlowInv'
  BY <1>4, <1>5, <1>6, Zenon DEF FlowInv
<1> QED BY <1>1, <1>2, <1>3, <1>7 DEF PiperInv

\* The child writes audio.
LEMMA ChildWritesInv ==
  ASSUME PiperInv, ChildWrites
  PROVE  PiperInv'
<1>1. {buf, got, out, inp, outp} \subseteq Seq(Chars) /\ child = "running" /\ Speaking
  BY OutMeansSpeaking DEF PiperInv, PiperTypeOK, ChildWrites
<1>2. PICK n \in 0 .. Len(out) : n = Min2(OutCap - Len(outp), Len(out))
                                 /\ Len(outp) + n <= OutCap
  <2>1. Len(out) \in Nat /\ Len(outp) \in Nat /\ OutCap \in Nat /\ Len(outp) < OutCap
    BY <1>1, ProcessAssumption DEF ChildWrites
  <2> QED BY <2>1 DEF Min2
<1>3. PICK a, b : a = SubSeq(out, 1, n) /\ b = SubSeq(out, n + 1, Len(out))
  OBVIOUS
<1>4. a \in Seq(Chars) /\ b \in Seq(Chars) /\ Len(a) = n /\ a \o b = out
  BY <1>1, <1>3, Parted
<1>5. /\ outp' = outp \o a /\ out' = b /\ ChildAlone
      /\ UNCHANGED <<child, cfds, got, inp, faults>>
  BY <1>2, <1>3 DEF ChildWrites, ChildAlone, parentVars
<1>6. outp' \in Seq(Chars) /\ Len(outp') = Len(outp) + n
  BY <1>1, <1>4, <1>5, Concat
<1>7. /\ {got, out, inp, outp}' \subseteq Seq(Chars)
      /\ Len(inp') <= InCap /\ Len(outp') <= OutCap
  BY <1>1, <1>2, <1>4, <1>5, <1>6 DEF PiperInv, PiperTypeOK
<1>8. ASSUME Talking
      PROVE  \E d \in Seq(Chars), t \in 0 .. Len(text) : Flow(d, t)'
  <2>1. PICK d \in Seq(Chars), t \in 0 .. Len(text) : Flow(d, t)
    BY <1>1, <1>8 DEF PiperInv, FlowInv
  <2>2. (buf \o outp \o out)' = buf \o outp \o out
    <3>1. PICK e \in Seq(Chars) : e = buf \o outp
      BY <1>1, Concat
    <3>2. Joins((buf \o outp) \o a, buf, outp \o a)
      BY <1>1, <1>4, ConcatAssoc
    <3>3. Joins((e \o a) \o b, e, a \o b)
      BY <1>4, ConcatAssoc
    <3>4. (buf \o outp \o out)' = (buf \o (outp \o a)) \o b
      BY <1>5, Zenon DEF ChildAlone
    <3> QED BY <1>4, <3>1, <3>2, <3>3, <3>4, Zenon DEF Joins
  <2>3. Flow(d, t)'
    BY <1>5, <2>1, <2>2, Zenon DEF Flow, ChildAlone
  <2> QED BY <2>3
<1> QED BY <1>1, <1>5, <1>7, <1>8, MovesInv

\* The child reads text.
LEMMA ChildReadsInv ==
  ASSUME PiperInv, ChildReads
  PROVE  PiperInv'
<1>1. {buf, got, out, inp, outp} \subseteq Seq(Chars) /\ child = "running" /\ Speaking
  BY DEF PiperInv, PiperTypeOK, ChildReads, Listening, Speaking
<1>2. PICK n \in 1 .. Len(inp) : got' = got \o SubSeq(inp, 1, n)
                                 /\ inp' = SubSeq(inp, n + 1, Len(inp))
  BY DEF ChildReads
<1>3. PICK a, b : a = SubSeq(inp, 1, n) /\ b = SubSeq(inp, n + 1, Len(inp))
  OBVIOUS
<1>4. Len(inp) \in Nat /\ n \in 0 .. Len(inp)
  BY <1>1
<1>5. /\ a \in Seq(Chars) /\ b \in Seq(Chars) /\ Len(b) = Len(inp) - n
      /\ a \o b = inp
  BY <1>1, <1>3, <1>4, Parted
<1>6. /\ got' = got \o a /\ inp' = b /\ ChildAlone
      /\ UNCHANGED <<child, cfds, out, outp, faults>>
  BY <1>2, <1>3 DEF ChildReads, ChildAlone, parentVars
<1>7. got' \in Seq(Chars)
  BY <1>1, <1>5, <1>6, Concat
<1>8. /\ {got, out, inp, outp}' \subseteq Seq(Chars)
      /\ Len(inp') <= InCap /\ Len(outp') <= OutCap
  <2>1. Len(inp') <= Len(inp) /\ Len(inp) <= InCap /\ Len(outp) <= OutCap
    BY <1>4, <1>5, <1>6 DEF PiperInv, PiperTypeOK
  <2> QED BY <1>1, <1>4, <1>5, <1>6, <1>7, <2>1, ProcessAssumption
<1>9. ASSUME Talking
      PROVE  \E d \in Seq(Chars), t \in 0 .. Len(text) : Flow(d, t)'
  <2>1. PICK d \in Seq(Chars), t \in 0 .. Len(text) : Flow(d, t)
    BY <1>1, <1>9 DEF PiperInv, FlowInv
  <2>2. d \o got' \o inp' = d \o got \o inp
    <3>1. PICK e \in Seq(Chars) : e = d \o got
      BY <1>1, Concat
    <3>2. Joins((d \o got) \o a, d, got \o a)
      BY <1>1, <1>5, ConcatAssoc
    <3>3. Joins((e \o a) \o b, e, a \o b)
      BY <1>5, ConcatAssoc
    <3> QED BY <1>5, <1>6, <3>1, <3>2, <3>3, Zenon DEF Joins
  <2>3. Flow(d, t)'
    BY <1>6, <2>1, <2>2, Zenon DEF Flow, ChildAlone
  <2> QED BY <2>3
<1> QED BY <1>1, <1>6, <1>8, <1>9, MovesInv

\* The child speaks a line, or what is left when nobody writes any more.
LEMMA ChildSpeaksInv ==
  ASSUME PiperInv, ChildSpeaks
  PROVE  PiperInv'
<1>1. /\ {buf, got, out, inp, outp} \subseteq Seq(Chars) /\ child = "running" /\ Speaking
      /\ out = <<>> /\ Len(got) \in Nat
  BY DEF PiperInv, PiperTypeOK, ChildSpeaks, Speaking
<1> DEFINE End == IF Lines = {} THEN Len(got)
                  ELSE CHOOSE i \in Lines : \A j \in Lines : i <= j
<1>2. /\ Lines = {} => End = Len(got)
      /\ Lines # {} => End = CHOOSE i \in Lines : \A j \in Lines : i <= j
  OBVIOUS
<1>3. /\ out' = Spoken(SubSeq(got, 1, End))
      /\ got' = SubSeq(got, End + 1, Len(got))
  BY DEF ChildSpeaks
<1> HIDE DEF End
<1>4. PICK n : n = End
  OBVIOUS
<1>5. Lines # {} => n \in Lines
  <2>1. Lines \subseteq Nat
    BY <1>1 DEF Lines
  <2>2. Lines # {} => \E i \in Lines : \A j \in Lines : i <= j
    BY <2>1, LeastPlace
  <2> QED BY <1>2, <1>4, <2>2
<1>6. n \in 0 .. Len(got) /\ (Lines # {} => n \in 1 .. Len(got) /\ got[n] = NL)
  <2>1. Lines # {} => n \in 1 .. Len(got) /\ got[n] = NL
    <3>1. DOMAIN got = 1 .. Len(got)
      BY <1>1
    <3> QED BY <1>5, <3>1 DEF Lines
  <2>2. Lines = {} => n = Len(got)
    BY <1>2, <1>4
  <2> QED BY <1>1, <2>1, <2>2
<1>7. PICK a, b : a = SubSeq(got, 1, n) /\ b = SubSeq(got, n + 1, Len(got))
  OBVIOUS
<1>8. /\ a \in Seq(Chars) /\ b \in Seq(Chars) /\ Len(a) = n /\ a \o b = got
      /\ \A i \in 1 .. n : a[i] = got[i]
  BY <1>1, <1>6, <1>7, Parted
<1>9. /\ out' = Spoken(a) /\ got' = b /\ ChildAlone
      /\ UNCHANGED <<child, cfds, inp, outp, faults>>
  BY <1>3, <1>4, <1>7 DEF ChildSpeaks, ChildAlone, parentVars
<1>10. /\ {got, out, inp, outp}' \subseteq Seq(Chars)
      /\ Len(inp') <= InCap /\ Len(outp') <= OutCap
  <2>1. Spoken(a) \in Seq(Chars)
    BY <1>8, SpokenIs
  <2> QED BY <1>1, <1>8, <1>9, <2>1 DEF PiperInv, PiperTypeOK
<1>11. ASSUME Talking
      PROVE  \E d \in Seq(Chars), t \in 0 .. Len(text) : Flow(d, t)'
  <2>1. PICK d \in Seq(Chars), t \in 0 .. Len(text) : Flow(d, t)
    BY <1>1, <1>11 DEF PiperInv, FlowInv
  <2>2. PICK e \in Seq(Chars) : e = d \o a
    BY <1>8, Concat
  <2>3. (buf \o outp \o out)' = Spoken(e)
    <3>1. PICK p \in Seq(Chars) : p = buf \o outp
      BY <1>1, Concat
    <3>2. p \o <<>> = p
      BY Concat
    <3>3. p = Spoken(d)
      BY <1>1, <2>1, <3>1, <3>2, Zenon DEF Flow
    <3>4. Joins(Spoken(d \o a), Spoken(d), Spoken(a))
      BY <1>8, SpokenOf
    <3>5. (buf \o outp \o out)' = p \o Spoken(a)
      BY <1>9, <3>1, Zenon DEF ChildAlone
    <3> QED BY <2>2, <3>3, <3>4, <3>5, Zenon DEF Joins
  <2>4. e \o got' \o inp' = d \o got \o inp
    <3>1. Joins((d \o a) \o b, d, a \o b)
      BY <1>8, ConcatAssoc
    <3> QED BY <1>8, <1>9, <2>2, <3>1, Zenon DEF Joins
  <2>5. "in_w" \in fds => e[Len(e)] = NL
    <3> SUFFICES ASSUME "in_w" \in fds PROVE e[Len(e)] = NL
      OBVIOUS
    <3>1. Lines # {}
      BY DEF ChildSpeaks, EndOfInput, InHasWriter
    <3>2. n \in 1 .. Len(a) /\ a[n] = NL
      BY <1>6, <1>8, <3>1
    <3>3. Len(e) = Len(d) + n /\ e[Len(d) + n] = a[n]
      <4>1. /\ Len(d \o a) = Len(d) + Len(a)
            /\ \A i \in 1 .. Len(a) : (d \o a)[Len(d) + i] = a[i]
        <5>1. a \in Seq(Chars)
          BY <1>8
        <5> QED BY <5>1
      <4> QED BY <1>8, <2>2, <3>2, <4>1
    <3> QED BY <3>2, <3>3
  <2>6. Flow(e, t)'
    BY <1>9, <2>1, <2>3, <2>4, <2>5, Zenon DEF Flow, ChildAlone
  <2> QED BY <2>6
<1> QED BY <1>1, <1>9, <1>10, <1>11, MovesInv

\* The child exits when it has said all it was given.
LEMMA ChildExitsInv ==
  ASSUME PiperInv, ChildExits
  PROVE  PiperInv'
<1>1. /\ {buf, outp} \subseteq Seq(Chars) /\ child = "running" /\ Speaking
      /\ out = <<>> /\ got = <<>> /\ inp = <<>> /\ ~InHasWriter
      /\ faults' \in 0 .. MaxFaults /\ ChildEnded("exited")
  BY DEF PiperInv, PiperTypeOK, ChildExits, EndOfInput, Listening, Speaking
<1>2. tpc \notin {"text", "newline"}
  BY <1>1 DEF InHasWriter, PiperInv, ParentInv
<1>3. ASSUME Talking, ~cut PROVE buf \o outp = Spoken(text)
  <2>1. PICK d \in Seq(Chars), t \in 0 .. Len(text) : Flow(d, t)
    BY <1>1, <1>3 DEF PiperInv, FlowInv
  <2>2. text \in Seq(Chars)
    BY <1>3, TextIsSeq DEF Talking
  <2>3. (d \o <<>>) \o <<>> = d \o <<>> /\ <<>> \in Seq(Chars)
    BY Concat
  <2>4. /\ (buf \o outp) \o <<>> = Spoken(d) /\ t = Len(text)
        /\ \/ d \o <<>> = SubSeq(text, 1, t)
           \/ d \o <<>> = SubSeq(text, 1, t) \o <<NL>>
    BY <1>1, <1>2, <1>3, <2>1, <2>3, Zenon DEF Flow
  <2>5. Spoken(d) = Spoken(text)
    BY <2>2, <2>3, <2>4, SpokenBegins
  <2>6. (buf \o outp) \o <<>> = buf \o outp
    <3>1. buf \o outp \in Seq(Chars)
      BY <1>1, Concat
    <3> QED BY <3>1, Concat
  <2> QED BY <2>4, <2>5, <2>6, Zenon
<1> QED BY <1>1, <1>2, <1>3, ChildEndedInv

\* Every step of the callback and of the child keeps the invariant.
LEMMA PiperStepInv ==
  ASSUME PiperInv, Parent \/ Child \/ ChildFails
  PROVE  PiperInv'
<1>1. CASE Parent
  BY <1>1, StartInv, ForkInv, WriteSomeInv, WriteBrokenInv, MemoryInv, NoMemoryInv,
     ReadSomeInv, ReadEndInv, WaitedInv DEF Parent
<1>2. CASE Child
  BY <1>2, ExecInv, ChildReadsInv, ChildSpeaksInv, ChildWritesInv, ChildBrokenInv,
     ChildExitsInv DEF Child
<1>3. CASE ChildFails
  BY <1>3, ChildFailsInv
<1> QED BY <1>1, <1>2, <1>3

\* The samples of a beginning of the audio are a beginning of the letters.
LEMMA SamplesBegin ==
  ASSUME buf \in Seq(Chars), NEW s \in Seq(Chars), Begins(buf, Spoken(s))
  PROVE  /\ Len(Samples) <= Len(Letters(s))
         /\ Samples = SubSeq(Letters(s), 1, Len(Samples))
         /\ buf = Spoken(s) => Samples = Letters(s)
<1>1. PICK w, v \in Seq(Chars) : w = Letters(s) /\ v = Spoken(s)
  BY LettersOf, SpokenIs
<1>2. PICK n \in Nat : n = Len(w)
  OBVIOUS
<1>3. /\ v \in Seq(Chars) /\ Len(v) = 2 * n
      /\ \A i \in 1 .. n : v[2 * i] = w[i]
  BY <1>1, <1>2, SpokenIs
<1>4. PICK r \in Seq(Chars) : buf \o r = v
  BY <1>1 DEF Begins
<1>5. PICK m \in Nat : m = Len(buf) /\ m <= 2 * n /\ \A i \in 1 .. m : v[i] = buf[i]
  <2>1. Len(buf \o r) = Len(buf) + Len(r) /\ \A i \in 1 .. Len(buf) : (buf \o r)[i] = buf[i]
    OBVIOUS
  <2>2. Len(buf) \in Nat /\ Len(r) \in Nat
    OBVIOUS
  <2> QED BY <1>3, <1>4, <2>1, <2>2
<1>6. PICK a : a = Samples
  OBVIOUS
<1>7. PICK h \in Nat : h = m \div 2 /\ h <= n
  BY <1>5
<1>8. /\ a \in Seq(Chars) /\ Len(a) = h
      /\ \A i \in 1 .. h : 2 * i \in 1 .. m /\ a[i] = buf[2 * i]
  BY <1>5, <1>6, <1>7, SamplesIs
<1>9. \A i \in 1 .. h : a[i] = w[i]
  <2> TAKE i \in 1 .. h
  <2>1. i \in 1 .. n /\ 2 * i \in 1 .. m
    BY <1>7, <1>8
  <2> QED BY <1>3, <1>5, <1>8, <2>1
<1>10. a = SubSeq(w, 1, h)
  <2>1. h \in 0 .. Len(w)
    BY <1>2, <1>7
  <2>2. /\ SubSeq(w, 1, h) \in Seq(Chars) /\ Len(SubSeq(w, 1, h)) = h
        /\ \A i \in 1 .. h : SubSeq(w, 1, h)[i] = w[i]
    BY <2>1, Parted
  <2> QED BY <1>8, <1>9, <2>2, SameElements
<1>11. buf = v => a = w
  <2> SUFFICES ASSUME buf = v PROVE a = w
    OBVIOUS
  <2>1. m = 2 * n
    BY <1>3, <1>5
  <2>2. h = n
    BY <1>7, <2>1
  <2> QED BY <1>2, <1>8, <1>9, <2>2, SameElements
<1> QED BY <1>1, <1>2, <1>6, <1>7, <1>8, <1>10, <1>11

\* The answer after a wait: all the audio, or a beginning of it after a cut.
LEMMA AnswerRefines ==
  ASSUME PiperInv, tpc = "wait", NEW good \in BOOLEAN, NEW waited \in BOOLEAN,
         ReturnAnswer(good, waited),
         cut' = TRUE \/ (cut' = cut /\ (good => child = "exited"))
  PROVE  Tts!Answer
<1>1. /\ text' = None
      /\ answer' = [rc |-> AnswerOf(good).rc, audio |-> AnswerOf(good).audio]
  BY DEF ReturnAnswer, Return
<1>2. text # None /\ text \in Seq(Chars) /\ {buf, outp} \subseteq Seq(Chars)
  BY TextIsSeq DEF PiperInv, ParentInv, PiperTypeOK
<1>3. cut' \in {cut, TRUE}
  OBVIOUS
<1>4. CASE AnswerOf(good).rc # "OK"
  <2>1. answer' \in [rc : Codes \ {"OK"}, audio : {<<>>}]
    BY <1>1, <1>4, AnswerIs
  <2> QED BY <1>1, <1>2, <1>3, <2>1 DEF Tts!Answer, Tts!Failures
<1>5. CASE AnswerOf(good).rc = "OK"
  <2>1. good /\ answer'.audio = Samples /\ answer'.rc = "OK"
    BY <1>1, <1>5, AnswerIs
  <2>2. Begins(buf, Spoken(text))
    BY DEF PiperInv, FlowInv
  <2>3. CASE cut'
    <3>1. Len(Samples) <= Len(Letters(text)) /\ Samples = SubSeq(Letters(text), 1, Len(Samples))
      BY <1>2, <2>2, SamplesBegin
    <3>2. Tts!Prefix(answer'.audio, Letters(text))
      BY <2>1, <3>1, Zenon DEF Tts!Prefix
    <3> QED BY <1>1, <1>2, <1>3, <2>1, <2>3, <3>2, Zenon DEF Tts!Answer, Tts!Part
  <2>4. CASE ~cut'
    <3>1. ~cut /\ child = "exited"
      BY <2>1, <2>4
    <3>2. outp = <<>> /\ buf \o outp = Spoken(text)
      BY <3>1 DEF PiperInv, FlowInv
    <3>3. buf \o <<>> = buf
      BY <1>2, Concat
    <3>4. buf = Spoken(text)
      BY <3>2, <3>3, Zenon
    <3>5. Samples = Letters(text)
      BY <1>2, <2>2, <3>4, SamplesBegin
    <3>6. Tts!Whole(answer')
      BY <2>1, <3>5, Zenon DEF Tts!Whole
    <3> QED BY <1>1, <1>2, <1>3, <2>1, <3>6, Zenon DEF Tts!Answer
  <2> QED BY <2>3, <2>4
<1> QED BY <1>4, <1>5

\* An error without audio.
LEMMA FailureRefines ==
  ASSUME PiperInv, tpc # "idle", NEW rc \in Codes \ {"OK"}, NEW open, NEW waited,
         Return(rc, <<>>, open, waited), cut' \in {cut, TRUE}
  PROVE  Tts!Answer
<1>1. text' = None /\ answer' = [rc |-> rc, audio |-> <<>>] /\ text # None
  BY DEF PiperInv, ParentInv, Return
<1>2. answer' \in [rc : Codes \ {"OK"}, audio : {<<>>}]
  BY <1>1
<1> QED BY <1>1, <1>2 DEF Tts!Answer, Tts!Failures

\* Parent and child wait for each other only over a long text of several
\* lines.
LEMMA StuckOnLongLines ==
  ASSUME PiperInv
  PROVE  StuckOnlyOnLongLines
<1> SUFFICES ASSUME Stuck
             PROVE  \E i \in DOMAIN text :
                      /\ text[i] = NL
                      /\ Len(Spoken(SubSeq(text, 1, i))) > OutCap
                      /\ Len(text) + 1 - i > InCap
  BY DEF StuckOnlyOnLongLines
<1>1. /\ {buf, got, out, inp, outp} \subseteq Seq(Chars)
      /\ tpc \in {"text", "newline"} /\ fds = {"in_w", "out_r"} /\ buf = <<>>
      /\ out # <<>> /\ Len(outp) = OutCap /\ Len(inp) = InCap
      /\ InCap \in Nat /\ OutCap \in Nat
  BY ProcessAssumption DEF PiperInv, PiperTypeOK, ParentInv, Stuck, WriteBlocked, Room
<1>2. text \in Seq(Chars) /\ Speaking /\ Talking
  BY <1>1, TextIsSeq, OutMeansSpeaking DEF Talking
<1>3. PICK d \in Seq(Chars), t \in 0 .. Len(text) : Flow(d, t)
  BY <1>2 DEF PiperInv, FlowInv
<1>4. /\ <<>> \o outp \o out = Spoken(d) /\ (d = <<>> \/ d[Len(d)] = NL)
      /\ d \o got \o inp = SubSeq(text, 1, t)
  <2>1. "in_w" \in fds /\ fds # {"out_r"}
    <3>1. "in_w" \in fds /\ "in_w" \notin {"out_r"}
      BY <1>1
    <3> QED BY <3>1
  <2> QED BY <1>1, <1>3, <2>1, Zenon DEF Flow
<1>5. Len(Spoken(d)) > OutCap /\ Spoken(d) # <<>>
  <2>1. <<>> \o outp = outp
    BY <1>1, Concat
  <2>2. outp \o out = Spoken(d)
    BY <1>4, <2>1, Zenon
  <2>3. Len(outp \o out) = Len(outp) + Len(out) /\ Len(out) \in Nat /\ Len(out) # 0
    <3>1. outp \in Seq(Chars) /\ out \in Seq(Chars) /\ out # <<>>
      BY <1>1
    <3>2. Len(outp \o out) = Len(outp) + Len(out)
      BY <3>1
    <3> QED BY <3>1, <3>2
  <2>4. Len(Spoken(d)) > OutCap
    BY <1>1, <2>2, <2>3
  <2>5. Len(<<>>) = 0
    OBVIOUS
  <2> QED BY <1>1, <2>4, <2>5
<1>6. d # <<>> /\ d[Len(d)] = NL
  BY <1>4, <1>5, SpokenOf
<1>7. PICK i \in Nat : i = Len(d) /\ i > 0
  BY <1>6
<1>8. PICK p \in Seq(Chars) : p = SubSeq(text, 1, t) /\ Len(p) = t
                              /\ \A j \in 1 .. t : p[j] = text[j]
  <2>1. /\ SubSeq(text, 1, t) \in Seq(Chars) /\ Len(SubSeq(text, 1, t)) = t
        /\ \A j \in 1 .. t : SubSeq(text, 1, t)[j] = text[j]
    BY <1>2, Parted
  <2> QED BY <2>1, Zenon
<1>9. i + Len(got) + Len(inp) = t
  <2>1. Len(d \o got) = i + Len(got) /\ d \o got \in Seq(Chars)
    BY <1>1, <1>7, Concat
  <2>2. Len(d \o got \o inp) = i + Len(got) + Len(inp)
    <3>1. PICK e \in Seq(Chars) : e = d \o got
      BY <2>1
    <3>2. inp \in Seq(Chars)
      BY <1>1
    <3>3. Len(e \o inp) = Len(e) + Len(inp)
      BY <3>2
    <3> QED BY <2>1, <3>1, <3>3
  <2> QED BY <1>4, <1>8, <2>2
<1>10. i \in 1 .. t /\ Len(text) \in Nat /\ t <= Len(text) /\ Len(text) - i >= InCap
  BY <1>1, <1>2, <1>7, <1>9
<1>11. \A j \in 1 .. i : p[j] = d[j]
  <2>1. PICK h \in Seq(Chars) : h = got \o inp
    BY <1>1, Concat
  <2>2. Joins((d \o got) \o inp, d, got \o inp)
    BY <1>1, ConcatAssoc
  <2>3. p = d \o h
    BY <1>4, <1>8, <2>1, <2>2, Zenon DEF Joins
  <2>4. \A j \in 1 .. Len(d) : (d \o h)[j] = d[j]
    OBVIOUS
  <2> QED BY <1>7, <2>3, <2>4
<1>12. SubSeq(text, 1, i) = d
  <2>1. i \in 0 .. Len(text)
    BY <1>10
  <2>2. /\ SubSeq(text, 1, i) \in Seq(Chars) /\ Len(SubSeq(text, 1, i)) = i
        /\ \A j \in 1 .. i : SubSeq(text, 1, i)[j] = text[j]
    BY <1>2, <2>1, Parted
  <2>3. \A j \in 1 .. i : text[j] = d[j]
    BY <1>8, <1>10, <1>11
  <2> QED BY <1>7, <2>2, <2>3, SameElements
<1>13. text[i] = NL
  BY <1>6, <1>7, <1>8, <1>10, <1>11
<1>14. i \in DOMAIN text /\ Len(text) + 1 - i > InCap
  BY <1>1, <1>2, <1>10
<1> QED BY <1>5, <1>12, <1>13, <1>14

-----------------------------------------------------------------------------
(* The configuration.                                                      *)

\* The lines and the values they hold.
LEMMA FileIs ==
  ASSUME file \in Files
  PROVE  /\ file \in Seq(FileLines) /\ Len(file) \in Nat
         /\ \A i \in 1 .. Len(file) :
              file[i].kind = "entry" =>
                IsValue(file[i].value.is) /\ file[i].value.quoted \in BOOLEAN
<1>1. file \in Seq(FileLines) /\ Len(file) \in Nat
  BY DaemonAssumption
<1>2. \A i \in 1 .. Len(file) : file[i] \in FileLines
  BY <1>1
<1> QED BY <1>1, <1>2, DaemonAssumption

\* The section after a line.
LEMMA SectionNext ==
  ASSUME file \in Files, NEW n \in 0 .. Len(file) - 1, section = SectionOf(n + 1)
  PROVE  SectionOf(n + 2) = NewSection(file[n + 1])
<1> DEFINE Last(H) == CHOOSE h \in H : \A g \in H : g <= h
<1> DEFINE Name(H) == IF H = {} THEN "general" ELSE file[Last(H)].name
<1>0. SectionOf(n + 1) = Name(Headers(n + 1)) /\ SectionOf(n + 2) = Name(Headers(n + 2))
  BY Zenon DEF SectionOf
<1>1. n \in Nat
  BY FileIs
<1>2. CASE file[n + 1].kind = "section" /\ file[n + 1].closed
  <2>1. Headers(n + 2) = Headers(n + 1) \cup {n + 1}
    <3>1. \A h : h \in 1 .. (n + 2) - 1 <=> h \in 1 .. (n + 1) - 1 \/ h = n + 1
      BY <1>1
    <3> QED BY <1>2, <3>1 DEF Headers
  <2>2. \A h \in Headers(n + 1) : h \in Nat /\ h <= n
    BY <1>1 DEF Headers
  <2>3. \A h \in Headers(n + 2) : (\A g \in Headers(n + 2) : g <= h) <=> h = n + 1
    BY <1>1, <2>1, <2>2
  <2>4. Headers(n + 2) # {} /\ n + 1 \in Headers(n + 2)
    BY <2>1
  <2>5. Last(Headers(n + 2)) = n + 1
    BY <2>3, <2>4
  <2> HIDE DEF Last
  <2>6. SectionOf(n + 2) = file[n + 1].name
    BY <1>0, <2>4, <2>5
  <2> QED BY <1>2, <2>6 DEF NewSection
<1>3. CASE ~(file[n + 1].kind = "section" /\ file[n + 1].closed)
  <2>1. Headers(n + 2) = Headers(n + 1)
    <3>1. \A h : h \in 1 .. (n + 2) - 1 <=> h \in 1 .. (n + 1) - 1 \/ h = n + 1
      BY <1>1
    <3> QED BY <1>3, <3>1 DEF Headers
  <2> HIDE DEF Name
  <2>2. SectionOf(n + 2) = SectionOf(n + 1)
    BY <1>0, <2>1
  <2> QED BY <1>3, <2>2 DEF NewSection
<1> QED BY <1>2, <1>3

\* The entries among the lines, one line further.
LEMMA EntryLinesNext ==
  ASSUME file \in Files, NEW n \in 0 .. Len(file) - 1
  PROVE  /\ IsFiniteSet(EntryLines(n)) /\ Cardinality(EntryLines(n)) \in Nat
         /\ IF file[n + 1].kind = "entry"
            THEN /\ EntryLines(n + 1) = EntryLines(n) \cup {n + 1}
                 /\ Cardinality(EntryLines(n + 1)) = Cardinality(EntryLines(n)) + 1
            ELSE EntryLines(n + 1) = EntryLines(n)
<1>1. n \in Nat
  BY FileIs
<1>2. EntryLines(n) \in SUBSET (1 .. n)
  BY DEF EntryLines
<1>3. IsFiniteSet(EntryLines(n)) /\ Cardinality(EntryLines(n)) \in Nat
  BY <1>1, <1>2, Ranks
<1>4. \A h : h \in 1 .. n + 1 <=> h \in 1 .. n \/ h = n + 1
  BY <1>1
<1>5. n + 1 \notin EntryLines(n)
  BY <1>1, <1>2
<1>6. CASE file[n + 1].kind = "entry"
  <2>1. EntryLines(n + 1) = EntryLines(n) \cup {n + 1}
    BY <1>4, <1>6 DEF EntryLines
  <2>2. Cardinality(EntryLines(n) \cup {n + 1}) = Cardinality(EntryLines(n)) + 1
    BY <1>3, <1>5, FS_AddElement
  <2> QED BY <1>3, <1>6, <2>1, <2>2
<1>7. CASE file[n + 1].kind # "entry"
  <2>1. EntryLines(n + 1) = EntryLines(n)
    BY <1>4, <1>7 DEF EntryLines
  <2> QED BY <1>3, <1>7, <2>1
<1> QED BY <1>6, <1>7

\* And the entries that are kept.
LEMMA KeptNext ==
  ASSUME file \in Files, NEW n \in 0 .. Len(file) - 1
  PROVE  /\ KeptTo(n) \in SUBSET (1 .. n)
         /\ KeptTo(n + 1) =
              IF file[n + 1].kind = "entry" /\ Cardinality(EntryLines(n)) < MaxEntries
              THEN KeptTo(n) \cup {n + 1} ELSE KeptTo(n)
<1>1. n \in Nat /\ MaxEntries \in Nat
  BY FileIs, DaemonAssumption
<1>2. KeptTo(n) \in SUBSET (1 .. n)
  BY DEF KeptTo, EntryLines
<1>3. CASE file[n + 1].kind = "entry"
  <2>1. /\ EntryLines(n + 1) = EntryLines(n) \cup {n + 1}
        /\ Cardinality(EntryLines(n + 1)) = Cardinality(EntryLines(n)) + 1
        /\ Cardinality(EntryLines(n)) \in Nat
    BY <1>3, EntryLinesNext
  <2>2. Cardinality(EntryLines(n + 1)) <= MaxEntries <=> Cardinality(EntryLines(n)) < MaxEntries
    BY <1>1, <2>1
  <2>3. \A i : i \in KeptTo(n + 1) <=>
                 i \in KeptTo(n) \/ (i = n + 1 /\ Cardinality(EntryLines(i)) <= MaxEntries)
    BY <2>1, Zenon DEF KeptTo
  <2>4. CASE Cardinality(EntryLines(n)) < MaxEntries
    BY <1>2, <1>3, <2>2, <2>3, <2>4
  <2>5. CASE ~(Cardinality(EntryLines(n)) < MaxEntries)
    BY <1>2, <1>3, <2>2, <2>3, <2>5
  <2> QED BY <2>4, <2>5
<1>4. CASE file[n + 1].kind # "entry"
  <2>1. EntryLines(n + 1) = EntryLines(n)
    BY <1>4, EntryLinesNext
  <2>2. KeptTo(n + 1) = KeptTo(n)
    BY <2>1, Zenon DEF KeptTo
  <2> QED BY <1>2, <1>4, <2>2
<1> QED BY <1>3, <1>4

\* How the file reads does not change while the daemon runs.
LEMMA FileKept ==
  ASSUME UNCHANGED file
  PROVE  /\ \A n : SectionOf(n)' = SectionOf(n) /\ KeptTo(n)' = KeptTo(n)
                   /\ EntryLines(n)' = EntryLines(n) /\ EntriesTo(n)' = EntriesTo(n)
         /\ SaidTts' = SaidTts /\ SaidAsr' = SaidAsr
<1>1. ASSUME NEW n PROVE SectionOf(n)' = SectionOf(n)
  BY DEF SectionOf, Headers
<1>2. ASSUME NEW n PROVE KeptTo(n)' = KeptTo(n) /\ EntryLines(n)' = EntryLines(n)
  BY Zenon DEF KeptTo, EntryLines
<1>3. ASSUME NEW n PROVE EntriesTo(n)' = EntriesTo(n)
  BY Zenon DEF EntriesTo, EntryOf, SectionOf, Headers
<1>4. Kept' = Kept
  BY Zenon DEF Kept, KeptTo, EntryLines
<1>5. ASSUME NEW s, NEW k, NEW i PROVE Means(s, k, i)' <=> Means(s, k, i)
  BY <1>1, <1>4 DEF Means
<1>6. \A s, k, v : (Says(s, k, v)' <=> Says(s, k, v)) /\ (Mentions(s, k)' <=> Mentions(s, k))
  BY <1>4, <1>5, Zenon DEF Says, Mentions
<1>7. SaidTts' = SaidTts
  BY <1>6 DEF SaidTts
<1>8. SaidAsr' = SaidAsr
  BY <1>6 DEF SaidAsr
<1> QED BY <1>1, <1>2, <1>3, <1>7, <1>8

\* A line that is read.
LEMMA ReadLineInv ==
  ASSUME LoadInv, line \in 0 .. Len(file), ReadLine
  PROVE  LoadInv'
<1>1. PICK n \in 0 .. Len(file) - 1 : n = line
  BY FileIs DEF LoadInv, ReadLine
<1>2. file \in Files /\ n \in Nat /\ Len(file) \in Nat /\ MaxEntries \in Nat
  BY FileIs, DaemonAssumption DEF LoadInv
<1>3. /\ file' = file /\ line' = n + 1 /\ section' = NewSection(file[n + 1])
      /\ entries' = IF file[n + 1].kind = "entry" /\ Fits
                    THEN Append(entries, [section |-> section, key |-> file[n + 1].key,
                                          value |-> Stored(file[n + 1].value)])
                    ELSE entries
  BY <1>1 DEF ReadLine
<1>4. section = SectionOf(n + 1)
  BY <1>1 DEF LoadInv
<1>5. section' = SectionOf(line + 1)'
  <2>1. SectionOf(n + 2) = section'
    BY <1>2, <1>3, <1>4, SectionNext
  <2>2. SectionOf(n + 2)' = SectionOf(n + 2)
    BY <1>3, FileKept
  <2>3. line' + 1 = n + 2
    BY <1>2, <1>3
  <2>4. PICK m : m = line' + 1
    OBVIOUS
  <2>5. SectionOf(line + 1)' = SectionOf(m)'
    BY <2>4 DEF SectionOf, Headers
  <2> QED BY <2>1, <2>2, <2>3, <2>4, <2>5
<1>6. PICK c \in Nat : c = Cardinality(EntryLines(n)) /\ Len(entries) = Min2(c, MaxEntries)
  BY <1>1, <1>2, EntryLinesNext DEF LoadInv
<1>7. Fits <=> c < MaxEntries
  BY <1>2, <1>6 DEF Fits, Min2
<1> DEFINE S == {EntryOf(i) : i \in 1 .. Len(file)}
<1>8. PICK e : e = EntriesTo(n)
  OBVIOUS
<1>9. PICK x \in S : x = EntryOf(n + 1)
  BY <1>2
<1>10. e \in Seq(S) /\ Len(e) = n /\ Append(e, x) = EntriesTo(n + 1)
  <2>1. \A i \in 1 .. n : EntryOf(i) \in S
    BY <1>2
  <2>2. PICK f : f = EntriesTo(n + 1)
    OBVIOUS
  <2> HIDE DEF S
  <2>3. e \in Seq(S) /\ Len(e) = n /\ \A i \in 1 .. n : e[i] = EntryOf(i)
    BY <1>2, <1>8, <2>1 DEF EntriesTo
  <2>4. \A i \in 1 .. n + 1 : EntryOf(i) \in S
    BY <1>2, <1>9, <2>1
  <2>5. f \in Seq(S) /\ Len(f) = n + 1 /\ \A i \in 1 .. n + 1 : f[i] = EntryOf(i)
    BY <1>2, <2>2, <2>4 DEF EntriesTo
  <2>6. PICK g \in Seq(S) : g = Append(e, x)
    BY <1>9, <2>3, AppendProperties
  <2>7. Len(g) = n + 1 /\ g[n + 1] = x /\ \A i \in 1 .. n : g[i] = e[i]
    BY <1>2, <2>3, <2>6
  <2>8. \A i \in 1 .. n + 1 : f[i] = g[i]
    BY <1>2, <1>9, <2>3, <2>5, <2>7
  <2>9. f = g
    BY <2>5, <2>7, <2>8, SameElements
  <2> QED BY <2>2, <2>3, <2>6, <2>9
<1> HIDE DEF S
<1>11. KeptTo(n) \in SUBSET (1 .. n)
  BY <1>2, KeptNext
<1>12. entries = ElementsAt(e, KeptTo(n))
  BY <1>1, <1>8 DEF LoadInv
<1>13. /\ ElementsAt(Append(e, x), KeptTo(n)) = entries
       /\ ElementsAt(Append(e, x), KeptTo(n) \cup {n + 1}) = Append(entries, x)
  <2>1. KeptTo(n) \in SUBSET (1 .. Len(e))
    BY <1>10, <1>11
  <2>2. ElementsAt(Append(e, x), KeptTo(n)) = ElementsAt(e, KeptTo(n))
    BY <1>10, <2>1, ElementsAtSame
  <2>3. ElementsAt(Append(e, x), KeptTo(n) \cup {Len(e) + 1})
          = Append(ElementsAt(e, KeptTo(n)), x)
    BY <1>10, <2>1, ElementsAtAppend
  <2> QED BY <1>10, <1>12, <2>2, <2>3
<1>14. entries \in Seq(S)
  BY <1>10, <1>11, <1>12, ElementsAtPlaces
<1>15. entries' = ElementsAt(EntriesTo(n + 1), KeptTo(n + 1))
  <2>1. KeptTo(n + 1) = IF file[n + 1].kind = "entry" /\ c < MaxEntries
                        THEN KeptTo(n) \cup {n + 1} ELSE KeptTo(n)
    BY <1>2, <1>6, KeptNext
  <2>2. x = [section |-> section, key |-> file[n + 1].key,
             value |-> Stored(file[n + 1].value)]
    BY <1>4, <1>9 DEF EntryOf
  <2>3. CASE file[n + 1].kind = "entry" /\ c < MaxEntries
    BY <1>3, <1>7, <1>10, <1>13, <2>1, <2>2, <2>3
  <2>4. CASE ~(file[n + 1].kind = "entry" /\ c < MaxEntries)
    BY <1>3, <1>7, <1>10, <1>13, <2>1, <2>4
  <2> QED BY <2>3, <2>4
<1>16. entries' = ElementsAt(EntriesTo(line), KeptTo(line))'
  <2>1. EntriesTo(n + 1)' = EntriesTo(n + 1) /\ KeptTo(n + 1)' = KeptTo(n + 1)
    BY <1>3, FileKept
  <2>2. EntriesTo(line)' = EntriesTo(n + 1)' /\ KeptTo(line)' = KeptTo(n + 1)'
    BY <1>3 DEF EntriesTo, EntryOf, KeptTo, EntryLines
  <2> QED BY <1>15, <2>1, <2>2, Zenon
<1>17. Len(entries') = Min2(Cardinality(EntryLines(n + 1)), MaxEntries)
  <2>1. IF file[n + 1].kind = "entry"
        THEN Cardinality(EntryLines(n + 1)) = c + 1
        ELSE Cardinality(EntryLines(n + 1)) = c
    BY <1>2, <1>6, EntryLinesNext
  <2>2. Len(Append(entries, x)) = Len(entries) + 1
    BY <1>14
  <2>3. CASE file[n + 1].kind = "entry" /\ Fits
    <3>1. Len(entries') = Len(entries) + 1
      BY <1>3, <1>4, <1>9, <2>2, <2>3 DEF EntryOf
    <3> QED BY <1>2, <1>6, <1>7, <2>1, <2>3, <3>1 DEF Min2
  <2>4. CASE ~(file[n + 1].kind = "entry" /\ Fits)
    <3>1. entries' = entries
      BY <1>3, <2>4
    <3> QED BY <1>2, <1>6, <1>7, <2>1, <2>4, <3>1 DEF Min2
  <2> QED BY <2>3, <2>4
<1>18. Len(entries)' = Min2(Cardinality(EntryLines(line)), MaxEntries)'
  <2>1. EntryLines(n + 1)' = EntryLines(n + 1)
    BY <1>3, FileKept
  <2>2. EntryLines(line)' = EntryLines(n + 1)'
    BY <1>3 DEF EntryLines
  <2> QED BY <1>17, <2>1, <2>2 DEF Min2
<1> QED BY <1>2, <1>3, <1>5, <1>16, <1>18 DEF LoadInv

\* Once the file is read, the first entry of a name is what the file says.
LEMMA GetMeans ==
  ASSUME LoadInv, line = Len(file), NEW s, NEW k
  PROVE  /\ Has(s, k) <=> Mentions(s, k)
         /\ \A v : IsValue(v) => (Get(s, k) = v <=> Says(s, k, v))
<1>1. PICK n \in Nat : n = Len(file)
  BY FileIs DEF LoadInv
<1>2. PICK I : I = KeptTo(n) /\ I = Kept
  BY <1>1 DEF Kept
<1>3. /\ I \in SUBSET (1 .. n)
      /\ \A i \in I : /\ i \in Nat /\ file[i].value.quoted \in BOOLEAN
                      /\ IsValue(file[i].value.is)
  <2>1. \A i \in I : i \in 1 .. n /\ file[i].kind = "entry"
    BY <1>2 DEF KeptTo, EntryLines
  <2> QED BY <1>1, <2>1, FileIs DEF LoadInv
<1> DEFINE S == {EntryOf(i) : i \in 1 .. n}
<1>4. PICK e : e = EntriesTo(n)
  OBVIOUS
<1>5. e \in Seq(S) /\ Len(e) = n /\ \A i \in 1 .. n : e[i] = EntryOf(i)
  <2>1. \A i \in 1 .. n : EntryOf(i) \in S
    OBVIOUS
  <2> HIDE DEF S
  <2> QED BY <1>4, <2>1 DEF EntriesTo
<1> HIDE DEF S
<1>6. entries = ElementsAt(e, I)
  BY <1>1, <1>2, <1>4 DEF LoadInv
<1>7. PICK c \in Nat : c = Cardinality(I)
  BY <1>3, Ranks
<1>8. /\ entries \in Seq(S) /\ Len(entries) = c
      /\ \A i \in I : RankIn(i, I) \in 1 .. c /\ entries[RankIn(i, I)] = EntryOf(i)
      /\ \A q \in 1 .. c : \E i \in I : RankIn(i, I) = q /\ entries[q] = EntryOf(i)
      /\ \A i, j \in I : i < j => RankIn(i, I) < RankIn(j, I)
  <2>1. I \in SUBSET (1 .. Len(e))
    BY <1>3, <1>5
  <2>2. /\ entries \in Seq(S) /\ Len(entries) = Cardinality(I)
        /\ \A i \in I : entries[RankIn(i, I)] = e[i]
        /\ \A q \in 1 .. Cardinality(I) : \E i \in I : RankIn(i, I) = q /\ entries[q] = e[i]
    BY <1>5, <1>6, <2>1, ElementsAtPlaces
  <2>3. /\ \A i \in I : RankIn(i, I) \in 1 .. Cardinality(I)
        /\ \A i, j \in I : i < j => RankIn(i, I) < RankIn(j, I)
    BY <1>3, Ranks
  <2> QED BY <1>3, <1>5, <1>7, <2>2, <2>3
<1> DEFINE hits == {q \in DOMAIN entries : entries[q].section = s /\ entries[q].key = k}
<1> DEFINE Named(i) == SectionOf(i) = s /\ file[i].key = k
<1>9. DOMAIN entries = 1 .. c
  BY <1>8
<1>10. \A i : EntryOf(i).section = SectionOf(i) /\ EntryOf(i).key = file[i].key
              /\ EntryOf(i).value = Stored(file[i].value)
  BY DEF EntryOf
<1>11. \A i \in I : RankIn(i, I) \in hits <=> Named(i)
  BY <1>8, <1>9, <1>10
<1>12. \A i : Means(s, k, i) <=> i \in I /\ Named(i) /\ ~\E j \in I : j < i /\ Named(j)
  BY <1>2 DEF Means
<1>13. CASE hits = {}
  <2>1. \A i \in I : ~Named(i)
    BY <1>11, <1>13
  <2>2. Get(s, k) = NoValue
    BY <1>13 DEF Get
  <2>3. ~Mentions(s, k) /\ \A v : ~Says(s, k, v)
    BY <1>2, <1>12, <2>1 DEF Mentions, Says
  <2> QED BY <2>2, <2>3 DEF Has, IsValue
<1>14. CASE hits # {}
  <2> DEFINE First == CHOOSE q \in hits : \A r \in hits : q <= r
  <2>1. hits \subseteq Nat
    BY <1>9
  <2>2. First \in hits /\ \A r \in hits : First <= r
    BY <1>14, <2>1, LeastPlace
  <2>3. Get(s, k) = entries[First].value
    BY <1>14 DEF Get
  <2> HIDE DEF First
  <2>4. First \in 1 .. c
    BY <1>9, <2>2
  <2>5. PICK i \in I : RankIn(i, I) = First /\ entries[First] = EntryOf(i)
    BY <1>8, <2>4
  <2>6. Named(i)
    BY <1>11, <2>2, <2>5
  <2>7. ~\E j \in I : j < i /\ Named(j)
    <3> SUFFICES ASSUME NEW j \in I, j < i, Named(j) PROVE FALSE
      OBVIOUS
    <3>1. RankIn(j, I) < First /\ RankIn(j, I) \in hits
      BY <1>8, <1>11, <2>5
    <3>2. First <= RankIn(j, I) /\ RankIn(j, I) \in Nat
      BY <2>1, <2>2, <3>1
    <3> QED BY <2>4, <3>1, <3>2
  <2>8. Means(s, k, i)
    BY <1>12, <2>6, <2>7
  <2>9. \A j : Means(s, k, j) => j = i
    <3> SUFFICES ASSUME NEW j, Means(s, k, j) PROVE j = i
      OBVIOUS
    <3>1. j \in I /\ ~(i < j) /\ ~(j < i)
      BY <1>12, <2>6, <2>7
    <3> QED BY <1>3, <3>1
  <2>10. Get(s, k) = Stored(file[i].value)
    BY <1>10, <2>3, <2>5
  <2>11. Mentions(s, k)
    BY <1>2, <2>8 DEF Mentions
  <2>12. \A v : Says(s, k, v) <=> file[i].value.is = v /\ ~file[i].value.quoted
    BY <1>2, <2>8, <2>9 DEF Says
  <2>13. \A v : IsValue(v) <=> v # NoValue /\ v # "quoted"
    BY DEF IsValue
  <2>14. NoValue # "quoted"
    BY DEF NoValue
  <2>15. CASE file[i].value.quoted
    <3>1. Get(s, k) = "quoted"
      BY <2>10, <2>15 DEF Stored
    <3> QED BY <2>11, <2>12, <2>13, <2>14, <2>15, <3>1 DEF Has
  <2>16. CASE ~file[i].value.quoted
    <3>1. Get(s, k) = file[i].value.is
      BY <2>10, <2>16 DEF Stored
    <3> QED BY <1>3, <2>11, <2>12, <2>13, <2>16, <3>1 DEF Has
  <2> QED BY <1>3, <2>15, <2>16
<1> QED BY <1>13, <1>14

\* The values main knows.
LEMMA KnownValues ==
  /\ \A v \in {"piper", "piper-native", "sherpa", "on", "yes", "true", "1"} : IsValue(v)
  /\ \A kind : \A t \in Types(kind) : IsValue(t)
  /\ \A m \in Installed : IsValue(m)
BY DaemonAssumption DEF IsValue, NoValue, Types

\* main registers the voice the file names.
LEMMA SetupTtsSaid ==
  ASSUME LoadInv, line = Len(file), SetupTts, faults \in Nat
  PROVE  TtsAsSaid' /\ tts' \in {"none", "piper", "piper-native"}
<1>1. /\ WantsNative <=> Says("tts", "engine", "piper-native") /\ Mentions("tts", "model")
      /\ WantsPiper <=> Says("tts", "engine", "piper") /\ Mentions("tts", "model")
      /\ Get("tts", "model") \in Installed <=> \E m \in Installed : Says("tts", "model", m)
  <2>1. IsValue("piper") /\ IsValue("piper-native")
    BY KnownValues
  <2>2. Has("tts", "model") <=> Mentions("tts", "model")
    BY GetMeans
  <2>3. \A v : IsValue(v) => /\ Get("tts", "engine") = v <=> Says("tts", "engine", v)
                             /\ Get("tts", "model") = v <=> Says("tts", "model", v)
    BY GetMeans
  <2>4. \A m \in Installed : IsValue(m)
    BY KnownValues
  <2>5. Get("tts", "model") \in Installed <=> \E m \in Installed : Says("tts", "model", m)
    BY <2>3, <2>4, Zenon
  <2> QED BY <2>1, <2>2, <2>3, <2>5 DEF WantsNative, WantsPiper
<1>2. (\E m \in Installed : Says("tts", "model", m)) => Mentions("tts", "model")
  BY DEF Says, Mentions
<1>3. ~(WantsNative /\ WantsPiper)
  BY DEF WantsNative, WantsPiper
<1> DEFINE Piper1 == WantsPiper /\ Get("tts", "model") \in Installed
<1>4. SaidTts = IF WantsNative THEN "piper-native" ELSE IF Piper1 THEN "piper" ELSE "none"
  <2>1. Piper1 <=> /\ Says("tts", "engine", "piper")
                   /\ \E m \in Installed : Says("tts", "model", m)
    BY <1>1, <1>2
  <2> HIDE DEF Piper1
  <2>2. CASE WantsNative
    BY <1>1, <1>2, <1>3, <2>1, <2>2 DEF SaidTts, Piper1
  <2>3. CASE ~WantsNative /\ Piper1
    BY <1>1, <2>1, <2>3 DEF SaidTts
  <2>4. CASE ~WantsNative /\ ~Piper1
    BY <1>1, <2>1, <2>4 DEF SaidTts
  <2> QED BY <2>2, <2>3, <2>4
<1>5. SaidTts' = SaidTts
  BY FileKept DEF SetupTts, configVars
<1>6. \/ /\ tts' = (CASE Piper1 -> "piper"
                     [] WantsNative -> "piper-native"
                     [] OTHER -> "none")
         /\ faults' = faults
      \/ WantsNative /\ faults' = faults + 1 /\ tts' = "none"
  BY DEF SetupTts, Fault
<1>7. \/ tts' = IF WantsNative THEN "piper-native" ELSE IF Piper1 THEN "piper" ELSE "none"
      \/ WantsNative /\ faults' = faults + 1 /\ tts' = "none"
  <2>1. CASE tts' = (CASE Piper1 -> "piper"
                       [] WantsNative -> "piper-native"
                       [] OTHER -> "none")
    BY <1>3, <2>1
  <2> QED BY <1>6, <2>1
<1> HIDE DEF Piper1
<1>8. faults + 1 > 0
  OBVIOUS
<1> QED BY <1>4, <1>5, <1>7, <1>8 DEF TtsAsSaid

\* main registers the recognizer the file describes.
LEMMA SetupAsrSaid ==
  ASSUME LoadInv, line = Len(file), SetupAsr, faults \in Nat
  PROVE  AsrAsSaid' /\ asr' \in {"none", "batch", "streaming"}
<1>1. GetBool("asr", "streaming")
        <=> \E v \in {"on", "yes", "true", "1"} : Says("asr", "streaming", v)
  <2>1. \A v : IsValue(v) => (Get("asr", "streaming") = v <=> Says("asr", "streaming", v))
    BY GetMeans
  <2>2. IsValue("on") /\ IsValue("yes") /\ IsValue("true") /\ IsValue("1")
    BY KnownValues
  <2> QED BY <2>1, <2>2 DEF GetBool
<1>2. WantsSherpa <=> Says("asr", "engine", "sherpa") /\ Mentions("asr", "model_dir")
  <2>1. IsValue("sherpa")
    BY KnownValues
  <2>2. Has("asr", "model_dir") <=> Mentions("asr", "model_dir")
    BY GetMeans
  <2>3. \A v : IsValue(v) => (Get("asr", "engine") = v <=> Says("asr", "engine", v))
    BY GetMeans
  <2> QED BY <2>1, <2>2, <2>3 DEF WantsSherpa
<1>3. PICK kind \in {"streaming", "batch"} : kind = SherpaKind
  BY DEF SherpaKind
<1>4. ModelType \in Types(kind)
        <=> \/ \E t \in Types(kind) : Says("asr", "model_type", t)
            \/ ~Mentions("asr", "model_type") /\ kind = "batch"
  <2>1. Has("asr", "model_type") <=> Mentions("asr", "model_type")
    BY GetMeans
  <2>2. \A v : IsValue(v) => (Get("asr", "model_type") = v <=> Says("asr", "model_type", v))
    BY GetMeans
  <2>3. \A t \in Types(kind) : IsValue(t)
    BY KnownValues
  <2>4. Get("asr", "model_type") \in Types(kind)
          <=> \E t \in Types(kind) : Says("asr", "model_type", t)
    BY <2>2, <2>3, Zenon
  <2>5. (\E t \in Types(kind) : Says("asr", "model_type", t)) => Mentions("asr", "model_type")
    BY DEF Says, Mentions
  <2>6. "whisper" \in Types(kind) <=> kind = "batch"
    BY <1>3 DEF Types
  <2>7. CASE Mentions("asr", "model_type")
    BY <2>1, <2>4, <2>7 DEF ModelType
  <2>8. CASE ~Mentions("asr", "model_type")
    BY <2>1, <2>5, <2>6, <2>8 DEF ModelType
  <2> QED BY <2>7, <2>8
<1>5. SaidAsr = IF LoadsSherpa THEN kind ELSE "none"
  <2>1. kind = IF \E v \in {"on", "yes", "true", "1"} : Says("asr", "streaming", v)
               THEN "streaming" ELSE "batch"
    BY <1>1, <1>3 DEF SherpaKind
  <2>2. LoadsSherpa <=> /\ Says("asr", "engine", "sherpa") /\ Mentions("asr", "model_dir")
                        /\ \/ \E t \in Types(kind) : Says("asr", "model_type", t)
                           \/ ~Mentions("asr", "model_type") /\ kind = "batch"
    BY <1>2, <1>3, <1>4 DEF LoadsSherpa
  <2> QED BY <2>1, <2>2 DEF SaidAsr
<1>6. SaidAsr' = SaidAsr
  BY FileKept DEF SetupAsr, configVars
<1>7. \/ asr' = IF LoadsSherpa THEN kind ELSE "none"
      \/ faults' = faults + 1 /\ asr' = "none"
  BY <1>3 DEF SetupAsr, Fault
<1>8. faults + 1 > 0
  OBVIOUS
<1> QED BY <1>3, <1>5, <1>6, <1>7, <1>8 DEF AsrAsSaid

-----------------------------------------------------------------------------
(* The daemon.                                                             *)

\* What a step of main leaves alone, but for a fault.
LEMMA PiperKept ==
  ASSUME PiperInv, UNCHANGED <<parentVars, childVars, halfPipes>>,
         faults' \in 0 .. MaxFaults
  PROVE  PiperInv'
<1>1. /\ UNCHANGED <<tpc, text, sent, fds, buf, cap, answer, cut, lost, zombies>>
      /\ UNCHANGED <<child, cfds, got, out, inp, outp, halfPipes>>
  BY DEF parentVars, childVars
<1>2. PiperTypeOK'
  BY <1>1 DEF PiperInv, PiperTypeOK
<1>3. ParentInv'
  BY <1>1 DEF PiperInv, ParentInv
<1>4. ChildInv'
  BY <1>1 DEF PiperInv, ChildInv
<1>5. FlowInv'
  <2>1. CASE Talking
    BY <1>1, <2>1, FlowKept DEF PiperInv, Talking, Speaking
  <2>2. CASE ~Talking
    <3>1. /\ (tpc = "wait" => Begins(buf, Spoken(text)))
          /\ (tpc = "wait" /\ ~cut => ~Speaking /\ outp = <<>>)
          /\ (tpc = "wait" /\ child = "exited" /\ ~cut => buf \o outp = Spoken(text))
      BY DEF PiperInv, FlowInv
    <3>2. tpc = "wait" => Begins(buf, Spoken(text))'
      BY <1>1, <3>1, Zenon DEF Begins
    <3>3. tpc = "wait" /\ child = "exited" /\ ~cut => (buf \o outp = Spoken(text))'
      BY <1>1, <3>1, Zenon
    <3>4. (Speaking' <=> Speaking) /\ ~Talking'
          /\ tpc \notin {"text", "newline", "malloc", "read", "grow"}
      BY <1>1, <2>2 DEF Speaking, Talking
    <3> QED BY <1>1, <3>1, <3>2, <3>3, <3>4 DEF FlowInv
  <2> QED BY <2>1, <2>2
<1> QED BY <1>2, <1>3, <1>4, <1>5 DEF PiperInv

\* The loader's state stays as it is.
LEMMA LoadKept ==
  ASSUME LoadInv, UNCHANGED configVars
  PROVE  LoadInv'
<1>1. UNCHANGED <<file, line, section, entries>>
  BY DEF configVars
<1>2. /\ \A n : SectionOf(n)' = SectionOf(n) /\ KeptTo(n)' = KeptTo(n)
      /\ \A n : EntryLines(n)' = EntryLines(n) /\ EntriesTo(n)' = EntriesTo(n)
  BY <1>1, FileKept, Zenon
<1>3. PICK n : n = line
  OBVIOUS
<1>4. /\ SectionOf(line + 1)' = SectionOf(n + 1)'
      /\ KeptTo(line)' = KeptTo(n)' /\ EntryLines(line)' = EntryLines(n)'
      /\ EntriesTo(line)' = EntriesTo(n)'
  BY <1>1, <1>3 DEF SectionOf, Headers, KeptTo, EntryLines, EntriesTo, EntryOf
<1>5. /\ SectionOf(line + 1)' = SectionOf(line + 1)
      /\ KeptTo(line)' = KeptTo(line) /\ EntryLines(line)' = EntryLines(line)
      /\ EntriesTo(line)' = EntriesTo(line)
  BY <1>2, <1>3, <1>4
<1> QED BY <1>1, <1>5 DEF LoadInv, Min2

\* What was set up stays so.
LEMMA SetupKept ==
  ASSUME SetupInv, UNCHANGED <<configVars, engineVars>>,
         faults \in Nat, faults' \in Nat, faults' >= faults,
         \/ pc' = pc \/ pc' \in {"args", "load", "exit", "killed"}
         \/ pc \notin {"args", "load", "create", "tts", "asr"} /\ ~Ended
  PROVE  SetupInv'
<1>1. UNCHANGED <<file, line, tts, asr>>
  BY DEF configVars, engineVars
<1>2. SaidTts' = SaidTts /\ SaidAsr' = SaidAsr
  BY <1>1, FileKept
<1>3. TtsAsSaid => TtsAsSaid'
  BY <1>1, <1>2 DEF TtsAsSaid
<1>4. AsrAsSaid => AsrAsSaid'
  BY <1>1, <1>2 DEF AsrAsSaid
<1> QED BY <1>1, <1>3, <1>4 DEF SetupInv, Ended

\* Pipe ends and children over a step of the callback or the child.
LEMMA LeakStep ==
  ASSUME PiperInv, Parent \/ Child \/ ChildFails
  PROVE  (lost = 2 * halfPipes => lost' = 2 * halfPipes') /\ zombies' = zombies
<1>1. Cardinality({}) = 0 /\ Cardinality({"in_r", "in_w"}) = 2
  <2>1. IsFiniteSet({}) /\ Cardinality({}) = 0
    BY FS_EmptySet
  <2>2. IsFiniteSet({"in_r"}) /\ Cardinality({"in_r"}) = 1
    BY FS_Singleton
  <2>3. Cardinality({"in_r"} \cup {"in_w"}) = 2
    BY <2>2, FS_AddElement
  <2>4. {"in_r"} \cup {"in_w"} = {"in_r", "in_w"}
    OBVIOUS
  <2> QED BY <2>1, <2>3, <2>4
<1>2. /\ lost \in Nat /\ halfPipes \in Nat /\ zombies \in Nat
      /\ (tpc \in {"start", "fork"} => child = "none")
      /\ (tpc \in {"wait", "wait_nomem"} => fds = {})
  BY DEF PiperInv, PiperTypeOK, ParentInv
<1>3. CASE RejectEmpty
  BY <1>1, <1>2, <1>3 DEF RejectEmpty, Return
<1>4. CASE PipeFails
  <2>1. /\ zombies' = zombies
        /\ \/ halfPipes' = halfPipes /\ lost' = lost + 0
           \/ halfPipes' = halfPipes + 1 /\ lost' = lost + 2
    BY <1>1, <1>2, <1>4 DEF PipeFails, Return
  <2> QED BY <1>2, <2>1
<1>5. CASE ForkFails
  BY <1>1, <1>2, <1>5 DEF ForkFails, Return
<1>6. CASE Waited
  <2>1. lost' = lost + Cardinality(fds) /\ zombies' = zombies /\ fds = {}
        /\ halfPipes' = halfPipes
    BY <1>2, <1>6 DEF Waited, ReturnAnswer, Return
  <2> QED BY <1>1, <1>2, <2>1
<1>7. CASE OpenPipes \/ Fork \/ WriteSome \/ WriteBroken \/ Malloc \/ NoMemory
           \/ ReadSome \/ Grow \/ ReadEnd
  BY <1>7 DEF OpenPipes, Fork, WriteSome, WriteBroken, Malloc, NoMemory, ReadSome,
     Grow, ReadEnd
<1>8. CASE Child
  BY <1>8 DEF Child, Exec, ChildReads, ChildSpeaks, ChildWrites, ChildBroken,
     ChildExits, ChildEnded, parentVars
<1>9. CASE ChildFails
  BY <1>9 DEF ChildFails, ChildEnded, parentVars
<1> QED BY <1>3, <1>4, <1>5, <1>6, <1>7, <1>8, <1>9 DEF Parent

\* Pipe ends and children when a signal interrupts the callback.
LEMMA LeakInterrupt ==
  ASSUME PiperInv, Interrupt
  PROVE  /\ lost' = lost /\ halfPipes' = halfPipes
         /\ zombies' \in Nat /\ zombies' <= zombies + 1
<1>1. Cardinality({}) = 0
  BY FS_EmptySet
<1>2. /\ lost \in Nat /\ zombies \in Nat
      /\ (tpc \in {"wait", "wait_nomem"} => fds = {})
  BY DEF PiperInv, PiperTypeOK, ParentInv
<1>3. halfPipes' = halfPipes
  BY DEF Interrupt
<1>4. \/ UNCHANGED <<lost, zombies>>
      \/ /\ fds = {} /\ lost' = lost + Cardinality(fds)
         /\ zombies' = zombies \/ zombies' = zombies + 1
  BY <1>2 DEF Interrupt, ReturnAnswer, Return
<1> QED BY <1>1, <1>2, <1>3, <1>4

\* The piper process before the first request.
LEMMA PiperInitInv ==
  ASSUME PiperInit
  PROVE  PiperInv
<1>1. <<>> \in Seq(Chars) /\ Len(<<>>) = 0
  OBVIOUS
<1>2. PiperTypeOK
  <2>1. answer \in [rc : Codes, audio : Seq(Chars)]
    BY <1>1 DEF PiperInit, Codes
  <2>2. {buf, got, out, inp, outp} \subseteq Seq(Chars)
    BY <1>1 DEF PiperInit
  <2>3. /\ Len(buf) <= cap /\ Len(inp) <= InCap /\ Len(outp) <= OutCap
        /\ faults \in 0 .. MaxFaults
    BY <1>1, ProcessAssumption DEF PiperInit
  <2> QED BY <2>1, <2>2, <2>3 DEF PiperInit, PiperTypeOK
<1>3. ParentInv /\ ChildInv
  BY <1>1 DEF PiperInit, ParentInv, ChildInv
<1>4. FlowInv
  BY NotTalking DEF PiperInit
<1> QED BY <1>2, <1>3, <1>4 DEF PiperInv

\* Nothing has been read.
LEMMA LoadInitInv ==
  ASSUME Init
  PROVE  LoadInv /\ line \in 0 .. Len(file) /\ Len(entries) <= MaxEntries
<1>1. /\ file \in Files /\ line = 0 /\ section = "general" /\ entries = <<>>
      /\ MaxEntries \in Nat
  BY DaemonAssumption DEF Init
<1>2. Len(file) \in Nat
  BY <1>1, FileIs
<1>3. Headers(1) = {} /\ EntryLines(0) = {}
  BY DEF Headers, EntryLines
<1>4. SectionOf(1) = "general"
  BY <1>3 DEF SectionOf
<1>5. KeptTo(0) = {}
  BY <1>3 DEF KeptTo
<1>6. EntriesTo(0) \in Seq({})
  BY DEF EntriesTo
<1>7. ElementsAt(EntriesTo(0), {}) = <<>>
  BY <1>6, ElementsAtAll
<1>8. Cardinality({}) = 0
  BY FS_EmptySet
<1>9. line + 1 = 1
  BY <1>1
<1>10. Len(entries) = 0 /\ Min2(0, MaxEntries) = 0
  BY <1>1 DEF Min2
<1>11. Len(entries) = Min2(Cardinality(EntryLines(line)), MaxEntries)
  BY <1>1, <1>3, <1>8, <1>10
<1>12. entries = ElementsAt(EntriesTo(line), KeptTo(line))
  BY <1>1, <1>5, <1>7
<1>13. section = SectionOf(line + 1)
  BY <1>1, <1>4, <1>9
<1> QED BY <1>1, <1>2, <1>10, <1>11, <1>12, <1>13 DEF LoadInv

\* The daemon before its first step.
LEMMA DaemonInit ==
  ASSUME Init
  PROVE  DaemonInv
<1>1. PiperInv
  BY PiperInitInv DEF Init
<1>2. LoadInv /\ line \in 0 .. Len(file) /\ Len(entries) <= MaxEntries
  BY LoadInitInv
<1>3. TypeOK /\ sigs \in Nat
  BY <1>1, <1>2 DEF Init, TypeOK, PiperInv, Signals
<1>4. SetupInv
  BY DEF Init, SetupInv
<1>5. LeaksExplained
  BY DEF Init, PiperInit, LeaksExplained
<1> QED BY <1>1, <1>2, <1>3, <1>4, <1>5 DEF DaemonInv

\* A step of main that reads nothing and sets up nothing: what may change is
\* the place and what depends on it alone.
LEMMA MainStep ==
  ASSUME DaemonInv, UNCHANGED <<configVars, engineVars, sigVars>>,
         UNCHANGED <<parentVars, childVars, halfPipes>>,
         faults' = faults \/ Fault,
         \/ pc' = pc \/ pc' \in {"args", "load", "exit", "killed"}
         \/ pc \notin {"args", "load", "create", "tts", "asr"} /\ ~Ended,
         pc' \in {"args", "load", "create", "tts", "asr", "publish", "sigint",
             "sigterm", "run", "loop", "destroy", "destroyed", "exit", "killed"},
         srv' \in {"none", "live", "freed"}, gserver' \in BOOLEAN,
         handlers' \subseteq Signals, running' \in BOOLEAN,
         stopPipe' \in BOOLEAN, status' \in {0, 1},
         conn' \in {"none", "head", "read", "call", "write"}
  PROVE  DaemonInv'
<1>1. /\ faults \in Nat /\ faults' \in 0 .. MaxFaults /\ faults' >= faults
      /\ MaxFaults \in Nat
  BY ProcessAssumption DEF DaemonInv, PiperInv, PiperTypeOK, Fault
<1>2. PiperInv'
  BY <1>1, PiperKept DEF DaemonInv
<1>3. LoadInv'
  BY LoadKept DEF DaemonInv
<1>4. SetupInv'
  BY <1>1, SetupKept DEF DaemonInv
<1>5. TypeOK' /\ sigs' \in Nat
  BY <1>2 DEF DaemonInv, PiperInv, TypeOK, configVars, engineVars, sigVars
<1>6. LeaksExplained'
  BY DEF DaemonInv, LeaksExplained, parentVars, sigVars
<1> QED BY <1>2, <1>3, <1>4, <1>5, <1>6 DEF DaemonInv

\* The steps of main that only move on.
LEMMA MainStepsInv ==
  ASSUME DaemonInv,
         \/ Arguments \/ Publish \/ SigAction \/ RunStarts \/ SeeStop
         \/ RunEnds \/ Destroy \/ Finish \/ Failing
  PROVE  DaemonInv'
<1>0. /\ srv \in {"none", "live", "freed"} /\ gserver \in BOOLEAN
      /\ handlers \subseteq Signals /\ running \in BOOLEAN
      /\ stopPipe \in BOOLEAN /\ status \in {0, 1}
      /\ conn \in {"none", "head", "read", "call", "write"}
  BY DEF DaemonInv, TypeOK
<1>1. CASE Arguments
  BY <1>0, <1>1, MainStep DEF clientVars, Arguments, Exit, stopVars, piperVars
<1>2. CASE Publish
  BY <1>0, <1>2, MainStep DEF clientVars, Publish, stopVars, piperVars, Ended
<1>3. CASE SigAction
  BY <1>0, <1>3, MainStep DEF clientVars, SigAction, stopVars, piperVars, Ended, Signals
<1>4. CASE RunStarts
  BY <1>0, <1>4, MainStep DEF clientVars, RunStarts, piperVars, Ended
<1>5. CASE SeeStop
  BY <1>0, <1>5, MainStep DEF clientVars, SeeStop, piperVars, DaemonInv, TypeOK
<1>6. CASE RunEnds
  BY <1>0, <1>6, MainStep DEF clientVars, RunEnds, stopVars, piperVars, Ended
<1>7. CASE Destroy
  BY <1>0, <1>7, MainStep DEF clientVars, Destroy, stopVars, piperVars, Ended
<1>8. CASE Finish
  BY <1>0, <1>8, MainStep DEF clientVars, Finish, Exit, stopVars, piperVars
<1>9. CASE LoadFails \/ CreateFails
  BY <1>0, <1>9, MainStep DEF clientVars, LoadFails, CreateFails, Exit, stopVars
<1>10. CASE RunFails \/ WaitFails
  BY <1>0, <1>10, MainStep DEF clientVars, RunFails, WaitFails, stopVars, Ended
<1> QED BY <1>1, <1>2, <1>3, <1>4, <1>5, <1>6, <1>7, <1>8, <1>9, <1>10 DEF Failing

\* The steps of handle_client and of its client, but for the call.
LEMMA HandlerStepsInv ==
  ASSUME DaemonInv, Handler \/ Accept \/ ServeOther \/ AnswerTaken
  PROVE  DaemonInv'
<1>0. /\ srv \in {"none", "live", "freed"} /\ gserver \in BOOLEAN
      /\ handlers \subseteq Signals /\ running \in BOOLEAN
      /\ stopPipe \in BOOLEAN /\ status \in {0, 1}
      /\ pc \in {"args", "load", "create", "tts", "asr", "publish", "sigint",
             "sigterm", "run", "loop", "destroy", "destroyed", "exit", "killed"}
  BY DEF DaemonInv, TypeOK
<1>1. /\ UNCHANGED <<pc, configVars, srv, gserver, engineVars, handlers>>
      /\ UNCHANGED <<running, stopPipe, status, sigVars>>
      /\ UNCHANGED <<parentVars, childVars, halfPipes, faults>>
      /\ conn' \in {"none", "head", "read", "call", "write"}
  BY DEF Handler, LoopHead, ReadEnds, CallReturns, Accept, ServeOther, AnswerTaken,
     MoveTo, stopVars, piperVars
<1> QED BY <1>0, <1>1, MainStep

\* Reading the file.
LEMMA LoadStepsInv ==
  ASSUME DaemonInv, ReadLine \/ LoadEnds \/ Create
  PROVE  DaemonInv'
<1>0. /\ PiperInv /\ LoadInv /\ SetupInv /\ TypeOK /\ sigs \in Nat
      /\ line \in 0 .. Len(file) /\ file \in Files /\ MaxEntries \in Nat
      /\ faults \in 0 .. MaxFaults /\ faults \in Nat /\ MaxFaults \in Nat
  <2>1. PiperInv /\ LoadInv /\ SetupInv /\ TypeOK /\ sigs \in Nat
    BY DEF DaemonInv
  <2>2. line \in 0 .. Len(file) /\ file \in Files
    BY <2>1 DEF TypeOK, LoadInv
  <2>3. MaxEntries \in Nat /\ MaxFaults \in Nat
    BY DaemonAssumption, ProcessAssumption
  <2>4. faults \in 0 .. MaxFaults
    BY <2>1 DEF PiperInv, PiperTypeOK
  <2> QED BY <2>1, <2>2, <2>3, <2>4
<1>1. /\ UNCHANGED <<parentVars, childVars, halfPipes, faults, engineVars>>
      /\ UNCHANGED <<sigVars, gserver, handlers, stopVars, status, file, conn>>
  BY DEF ReadLine, LoadEnds, Create, piperVars, configVars, clientVars
<1>2. PiperInv'
  BY <1>0, <1>1, PiperKept
<1>3. LeaksExplained'
  BY <1>1 DEF DaemonInv, LeaksExplained, parentVars, sigVars
<1>4. CASE ReadLine
  <2>1. LoadInv'
    BY <1>0, <1>4, ReadLineInv
  <2>2. pc = "load" /\ pc' = "load" /\ line < Len(file) /\ line' = line + 1
        /\ UNCHANGED srv
    BY <1>4 DEF ReadLine
  <2>3. Len(file) \in Nat
    BY <1>0, FileIs
  <2>4. PICK n : n = line
    OBVIOUS
  <2>5. n \in 0 .. Len(file) - 1 /\ line' = n + 1
    BY <1>0, <2>2, <2>3, <2>4
  <2>6. Cardinality(EntryLines(n + 1)) \in Nat
    <3>1. /\ Cardinality(EntryLines(n)) \in Nat
          /\ Cardinality(EntryLines(n + 1)) \in
               {Cardinality(EntryLines(n)), Cardinality(EntryLines(n)) + 1}
      BY <1>0, <2>5, EntryLinesNext
    <3> QED BY <3>1
  <2>7. EntryLines(line)' = EntryLines(n + 1)
    BY <1>1, <2>5 DEF EntryLines
  <2>8. Len(entries') <= MaxEntries
    <3>1. Len(entries') = Min2(Cardinality(EntryLines(n + 1)), MaxEntries)
      BY <2>1, <2>7 DEF LoadInv, Min2
    <3> QED BY <1>0, <2>6, <3>1 DEF Min2
  <2>9. line' \in 0 .. Len(file')
    BY <1>0, <1>1, <2>2, <2>3
  <2>10. TypeOK' /\ sigs' \in Nat
    BY <1>0, <1>1, <1>2, <2>2, <2>8, <2>9 DEF PiperInv, TypeOK, engineVars, sigVars,
       stopVars
  <2>11. SetupInv'
    BY <2>2 DEF SetupInv, Ended
  <2> QED BY <1>2, <1>3, <2>1, <2>10, <2>11 DEF DaemonInv
<1>5. CASE LoadEnds \/ Create
  <2>1. UNCHANGED configVars /\ line = Len(file)
        /\ pc' \in {"create", "tts"} /\ srv' \in {srv, "live"}
    BY <1>0, <1>5 DEF LoadEnds, Create, SetupInv, Ended
  <2>2. LoadInv'
    BY <1>0, <2>1, LoadKept
  <2>3. TypeOK' /\ sigs' \in Nat
    BY <1>0, <1>1, <1>2, <2>1 DEF PiperInv, TypeOK, engineVars, sigVars, stopVars,
       configVars
  <2>4. SetupInv'
    BY <2>1 DEF SetupInv, configVars
  <2> QED BY <1>2, <1>3, <2>2, <2>3, <2>4 DEF DaemonInv
<1> QED BY <1>4, <1>5

\* Setting up the engines.
LEMMA SetupStepsInv ==
  ASSUME DaemonInv, SetupTts \/ SetupAsr
  PROVE  DaemonInv'
<1>0. /\ PiperInv /\ LoadInv /\ SetupInv /\ TypeOK /\ sigs \in Nat
      /\ faults \in Nat /\ faults \in 0 .. MaxFaults
  BY ProcessAssumption DEF DaemonInv, PiperInv, PiperTypeOK
<1>1. /\ UNCHANGED <<configVars, srv, gserver, handlers, stopVars, status>>
      /\ UNCHANGED <<sigVars, parentVars, childVars, halfPipes, conn>>
      /\ faults' = faults \/ Fault
  BY DEF SetupTts, SetupAsr, clientVars
<1>2. /\ faults' \in 0 .. MaxFaults /\ faults' \in Nat /\ faults' >= faults
      /\ UNCHANGED <<file, line>>
  BY <1>0, <1>1, ProcessAssumption DEF Fault, configVars
<1>3. PiperInv' /\ LoadInv'
  BY <1>0, <1>1, <1>2, PiperKept, LoadKept
<1>4. LeaksExplained'
  BY <1>1 DEF DaemonInv, LeaksExplained, parentVars, sigVars
<1>5. CASE SetupTts
  <2>1. pc = "tts" /\ pc' = "asr" /\ asr' = asr
    BY <1>5 DEF SetupTts
  <2>2. line = Len(file)
    BY <1>0, <2>1 DEF SetupInv, Ended
  <2>3. TtsAsSaid' /\ tts' \in {"none", "piper", "piper-native"}
    BY <1>0, <1>5, <2>2, SetupTtsSaid
  <2>4. SetupInv'
    BY <1>2, <2>1, <2>2, <2>3 DEF SetupInv
  <2>5. TypeOK' /\ sigs' \in Nat
    BY <1>0, <1>1, <1>3, <2>1, <2>3 DEF PiperInv, TypeOK, sigVars, stopVars, configVars
  <2> QED BY <1>3, <1>4, <2>4, <2>5 DEF DaemonInv
<1>6. CASE SetupAsr
  <2>1. pc = "asr" /\ pc' = "publish" /\ tts' = tts
    BY <1>6 DEF SetupAsr
  <2>2. line = Len(file) /\ TtsAsSaid
    BY <1>0, <2>1 DEF SetupInv, Ended
  <2>3. AsrAsSaid' /\ asr' \in {"none", "batch", "streaming"}
    BY <1>0, <1>6, <2>2, SetupAsrSaid
  <2>4. SaidTts' = SaidTts
    BY <1>2, FileKept
  <2>5. TtsAsSaid'
    BY <1>0, <1>2, <2>1, <2>2, <2>4 DEF TtsAsSaid
  <2>6. SetupInv'
    BY <1>2, <2>1, <2>2, <2>3, <2>5 DEF SetupInv
  <2>7. TypeOK' /\ sigs' \in Nat
    BY <1>0, <1>1, <1>3, <2>1, <2>3 DEF PiperInv, TypeOK, sigVars, stopVars, configVars
  <2> QED BY <1>3, <1>4, <2>6, <2>7 DEF DaemonInv
<1> QED BY <1>5, <1>6

\* A request, and the steps that answer it.
LEMMA RequestStepsInv ==
  ASSUME DaemonInv, Serve \/ Piper
  PROVE  DaemonInv'
<1>0. PiperInv /\ LoadInv /\ SetupInv /\ TypeOK /\ sigs \in Nat /\ faults \in Nat
  BY ProcessAssumption DEF DaemonInv, PiperInv, PiperTypeOK
<1>1. /\ UNCHANGED <<configVars, engineVars, srv, gserver, handlers, stopVars, status>>
      /\ UNCHANGED <<pc, sigVars>> /\ (conn' = conn \/ conn' = "call")
  BY DEF Serve, Piper, mainVars, clientVars
<1>2. PiperInv'
  <2>1. CASE Serve
    BY <1>0, <2>1, CallInv DEF Serve
  <2>2. CASE Piper
    BY <1>0, <2>2, PiperStepInv DEF Piper
  <2> QED BY <2>1, <2>2
<1>3. faults' \in Nat /\ faults' >= faults
  <2>1. faults' = faults \/ Fault
    BY DEF Serve, Call, Piper, Parent, RejectEmpty, OpenPipes, PipeFails, ForkFails, Fork,
       WriteSome, WriteBroken, Malloc, NoMemory, ReadSome, Grow, ReadEnd, Waited,
       Child, Exec, ChildReads, ChildSpeaks, ChildWrites, ChildBroken, ChildExits,
       ChildFails
  <2> QED BY <1>0, <2>1 DEF Fault
<1>4. LoadInv' /\ SetupInv'
  BY <1>0, <1>1, <1>3, LoadKept, SetupKept
<1>5. LeaksExplained'
  <2>1. lost = 2 * halfPipes /\ zombies <= (IF caught THEN sigs ELSE 0)
    BY DEF DaemonInv, LeaksExplained
  <2>2. lost' = 2 * halfPipes' /\ zombies' = zombies
    BY <1>0, <2>1, LeakStep DEF Serve, Call, Piper
  <2> QED BY <1>1, <2>1, <2>2 DEF LeaksExplained, sigVars
<1>6. TypeOK' /\ sigs' \in Nat
  BY <1>0, <1>1, <1>2 DEF PiperInv, TypeOK, sigVars, stopVars, configVars, engineVars
<1> QED BY <1>2, <1>4, <1>5, <1>6 DEF DaemonInv

\* A signal, handled or not, at any point of main and of a request.
LEMMA SignalInv ==
  ASSUME DaemonInv, Signal
  PROVE  DaemonInv'
<1>0. /\ PiperInv /\ LoadInv /\ SetupInv /\ TypeOK /\ sigs \in Nat
      /\ faults \in Nat /\ faults \in 0 .. MaxFaults /\ zombies \in Nat
  BY ProcessAssumption DEF DaemonInv, PiperInv, PiperTypeOK
<1>1. PICK sig \in Signals : Kill(sig) \/ Handle(sig)
  BY DEF Signal
<1>2. /\ UNCHANGED <<configVars, srv, gserver, engineVars, status>>
      /\ sigs' = sigs + 1 /\ UNCHANGED <<handlers, conn>>
  BY <1>1 DEF Signal, Kill, Handle, clientVars
<1>3. PiperInv' /\ faults' = faults
  <2>1. CASE UNCHANGED piperVars
    BY <1>0, <2>1, PiperKept DEF piperVars
  <2>2. CASE Interrupt
    BY <1>0, <2>2, InterruptInv DEF Interrupt
  <2> QED BY <1>1, <2>1, <2>2 DEF Kill, Handle
<1>4. pc' = pc \/ pc' = "killed"
  BY <1>1 DEF Kill, Handle
<1>5. LoadInv' /\ SetupInv'
  BY <1>0, <1>2, <1>3, <1>4, LoadKept, SetupKept
<1>6. /\ running' \in BOOLEAN /\ stopPipe' \in BOOLEAN
      /\ caught' \in BOOLEAN /\ usedFreed' \in BOOLEAN
  BY <1>0, <1>1 DEF TypeOK, Kill, Handle, Stop, stopVars
<1>7. TypeOK' /\ sigs' \in Nat
  BY <1>0, <1>2, <1>3, <1>4, <1>6 DEF PiperInv, TypeOK, configVars, engineVars
<1>8. LeaksExplained'
  <2>1. lost = 2 * halfPipes /\ zombies <= (IF caught THEN sigs ELSE 0)
    BY DEF DaemonInv, LeaksExplained
  <2>2. CASE UNCHANGED piperVars
    <3>1. UNCHANGED <<lost, halfPipes, zombies>>
      BY <2>2 DEF piperVars, parentVars
    <3>2. caught' = caught \/ caught' = TRUE
      BY <1>1 DEF Kill, Handle
    <3> QED BY <1>0, <1>2, <2>1, <3>1, <3>2 DEF LeaksExplained
  <2>3. CASE Handle(sig) /\ Interrupt
    <3>1. /\ UNCHANGED <<lost, halfPipes>>
          /\ zombies' \in Nat /\ zombies' <= zombies + 1
      BY <1>0, <2>3, LeakInterrupt
    <3>2. caught' = TRUE
      BY <2>3 DEF Handle
    <3> QED BY <1>0, <1>2, <2>1, <3>1, <3>2 DEF LeaksExplained
  <2> QED BY <1>1, <2>2, <2>3 DEF Kill, Handle
<1> QED BY <1>3, <1>5, <1>7, <1>8 DEF DaemonInv

\* DaemonInv is inductive.
LEMMA DaemonStep ==
  ASSUME DaemonInv, [Next]_vars
  PROVE  DaemonInv'
<1>1. CASE UNCHANGED vars
  <2>1. /\ UNCHANGED mainVars
        /\ UNCHANGED <<parentVars, childVars, halfPipes, faults>>
    BY <1>1 DEF vars, piperVars
  <2>2. /\ UNCHANGED <<configVars, engineVars, sigVars>>
        /\ UNCHANGED <<pc, srv, gserver, handlers, running, stopPipe, status, conn>>
    BY <2>1 DEF mainVars, stopVars, clientVars
  <2> QED BY <2>1, <2>2, MainStep DEF DaemonInv, TypeOK
<1>2. CASE Main \/ Failing
  BY <1>2, MainStepsInv, LoadStepsInv, SetupStepsInv DEF Main
<1>3. CASE Serve \/ Piper
  BY <1>3, RequestStepsInv
<1>4. CASE Signal
  BY <1>4, SignalInv
<1>5. CASE Handler \/ Accept \/ ServeOther \/ AnswerTaken
  BY <1>5, HandlerStepsInv
<1> QED BY <1>1, <1>2, <1>3, <1>4, <1>5 DEF Next, Client, Done, Waiting

\* And so always holds.
LEMMA DaemonInvariance == Spec => []DaemonInv
<1>1. Init => DaemonInv
  BY DaemonInit
<1>2. DaemonInv /\ [Next]_vars => DaemonInv'
  BY DaemonStep
<1> QED BY <1>1, <1>2, PTL DEF Spec

\* Every state main and the piper process reach is well formed, whatever the
\* configuration file, the texts and the sizes of pipes and buffer: the audio
\* never overruns its buffer nor a pipe what it holds, and the entries never
\* overrun their array (wyoming-server.c:71-162, wyoming_config.c:38-106).
THEOREM DaemonTypeCorrect == Spec => []TypeOK
<1>1. DaemonInv => TypeOK
  BY DEF DaemonInv
<1> QED BY <1>1, DaemonInvariance, PTL

\* A daemon that runs offers what its configuration file says, for every
\* file, every array size and every set of models: the loader's sections and
\* entries, the look-up and main's checks agree with how the file reads
\* (wyoming_config.c:38-124 with wyoming-server.c:273-380).
THEOREM ServesItsConfiguration == Spec => []ServesConfiguration
<1>1. DaemonInv => ServesConfiguration
  BY DEF DaemonInv, SetupInv, ServesConfiguration, Ended
<1> QED BY <1>1, DaemonInvariance, PTL

\* Over any number of requests, failures and signals, pipe ends are lost only
\* by a failing second pipe(), two by each, and children left unwaited only
\* by a handled signal, one by each (wyoming-server.c:85-93, 121-148).
THEOREM LeaksAreExplained == Spec => []LeaksExplained
<1>1. DaemonInv => LeaksExplained
  BY DEF DaemonInv
<1> QED BY <1>1, DaemonInvariance, PTL

\* The callback and its piper process wait for each other for ever only over
\* a text of several lines, with more audio up to the end of one and more
\* text after it than a pipe holds, whatever its size
\* (wyoming-server.c:124-135).
THEOREM StuckOnlyOverLongLines == Spec => []StuckOnlyOnLongLines
<1>1. DaemonInv => StuckOnlyOnLongLines
  BY StuckOnLongLines DEF DaemonInv
<1> QED BY <1>1, DaemonInvariance, PTL

-----------------------------------------------------------------------------
(* The callback implements TtsCallback.                                    *)

\* A step of the callback or of the child answers, or is not seen.
LEMMA PiperRefines ==
  ASSUME PiperInv, Parent \/ Child \/ ChildFails
  PROVE  Tts!Answer \/ UNCHANGED <<text, cut, answer>>
<1>1. CASE RejectEmpty
  BY <1>1, FailureRefines DEF RejectEmpty, Codes
<1>2. CASE PipeFails
  BY <1>2, FailureRefines DEF PipeFails, Codes
<1>3. CASE ForkFails
  BY <1>3, FailureRefines DEF ForkFails, Codes
<1>4. CASE Waited
  <2>1. CASE tpc = "wait"
    BY <1>4, <2>1, AnswerRefines DEF Waited
  <2>2. CASE tpc = "wait_nomem"
    BY <1>4, <2>2, FailureRefines DEF Waited, Codes
  <2> QED BY <1>4, <2>1, <2>2 DEF Waited
<1>5. CASE OpenPipes \/ Fork \/ WriteSome \/ WriteBroken \/ Malloc \/ NoMemory
           \/ ReadSome \/ Grow \/ ReadEnd
  BY <1>5 DEF OpenPipes, Fork, WriteSome, WriteBroken, Malloc, NoMemory, ReadSome,
     Grow, ReadEnd
<1>6. CASE Child \/ ChildFails
  BY <1>6 DEF Child, Exec, ChildReads, ChildSpeaks, ChildWrites, ChildBroken,
     ChildExits, ChildFails, ChildEnded, parentVars
<1> QED BY <1>1, <1>2, <1>3, <1>4, <1>5, <1>6 DEF Parent

\* A signal disturbs the call, or ends its wait.
LEMMA InterruptRefines ==
  ASSUME PiperInv, Interrupt
  PROVE  Tts!Disturb \/ Tts!Answer
<1>1. cut' = TRUE
  BY DEF Interrupt
<1>2. CASE UNCHANGED <<text, answer>> /\ (WriteBlocked \/ ReadBlocked)
  <2>1. text # None
    BY <1>2 DEF PiperInv, ParentInv, WriteBlocked, ReadBlocked
  <2> QED BY <1>1, <1>2, <2>1 DEF Tts!Disturb
<1>3. CASE tpc = "wait" /\ \E good \in BOOLEAN : ReturnAnswer(good, FALSE)
  BY <1>1, <1>3, AnswerRefines
<1>4. CASE tpc = "wait_nomem" /\ Return("NOMEM", <<>>, fds, FALSE)
  BY <1>1, <1>4, FailureRefines DEF Codes
<1> QED BY <1>2, <1>3, <1>4 DEF Interrupt

\* Every step is one of TtsCallback or leaves its variables alone.
LEMMA StepRefines ==
  ASSUME DaemonInv, [Next]_vars
  PROVE  Tts!Next \/ UNCHANGED <<text, cut, answer>>
<1>0. PiperInv
  BY DEF DaemonInv
<1>1. CASE Serve
  <2>1. PICK t \in Texts : Call(t)
    BY <1>1 DEF Serve
  <2>2. text = None /\ text' \in Texts /\ cut' = FALSE /\ answer' = answer
    BY <1>0, <2>1 DEF Call, PiperInv, ParentInv
  <2> QED BY <2>2 DEF Tts!Next, Tts!Ask
<1>2. CASE Piper
  BY <1>0, <1>2, PiperRefines DEF Piper, Tts!Next
<1>3. CASE Signal
  <2>1. Interrupt \/ UNCHANGED piperVars
    BY <1>3 DEF Signal, Kill, Handle
  <2> QED BY <1>0, <2>1, InterruptRefines DEF Tts!Next, piperVars, parentVars
<1>4. CASE Main \/ Failing \/ UNCHANGED vars
  <2>1. UNCHANGED parentVars
    BY <1>4 DEF Main, Failing, Arguments, ReadLine, LoadEnds, Create, SetupTts, SetupAsr,
       Publish, SigAction, RunStarts, SeeStop, RunEnds, Destroy, Finish, LoadFails,
       CreateFails, RunFails, WaitFails, vars, piperVars
  <2> QED BY <2>1 DEF parentVars
<1>5. CASE Handler \/ Accept \/ ServeOther \/ AnswerTaken
  <2>1. UNCHANGED parentVars
    BY <1>5 DEF Handler, LoopHead, ReadEnds, CallReturns, Accept, ServeOther,
       AnswerTaken, MoveTo, piperVars
  <2> QED BY <2>1 DEF parentVars
<1> QED BY <1>1, <1>2, <1>3, <1>4, <1>5 DEF Next, Client, Done, Waiting

\* The callback with its pipes, its buffer and its process, under any
\* interleaving with the child, any failing call and any signal, is the
\* text-to-speech engine handle_client relies on: WYOMING_OK comes with all
\* of this call's audio, or with a beginning of it when a signal interrupted
\* the call (wyoming-server.c:71-162).
THEOREM PiperProcessIsTtsCallback == Spec => ImplementsTts
<1>1. Init => Tts!Init
  <2> SUFFICES ASSUME Init PROVE Tts!Init
    OBVIOUS
  <2>1. text = None /\ cut = FALSE /\ answer = [rc |-> "IO", audio |-> <<>>]
    BY DEF Init, PiperInit
  <2>2. answer \in [rc : Codes \ {"OK"}, audio : {<<>>}]
    BY <2>1 DEF Codes
  <2> QED BY <2>1, <2>2 DEF Tts!Init, Tts!Failures
<1>2. DaemonInv /\ [Next]_vars => [Tts!Next]_(Tts!vars)
  BY StepRefines DEF Tts!vars
<1> QED BY <1>1, <1>2, DaemonInvariance, PTL DEF Spec, ImplementsTts, Tts!Spec

=============================================================================
