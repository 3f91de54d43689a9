--------------------------- MODULE TranslateProofs ---------------------------
(***************************************************************************)
(* The invariants of Translate hold for every number of events.            *)
(*                                                                         *)
(* The texts are flattened sequences of sequences.  What flattening yields *)
(* is proved first, by induction over a set of numbers (Induction): with   *)
(* it, the text of one more item or event is the text before with one part *)
(* added (ContentAppend, AggregatedAppend).  The steps of claude are then  *)
(* reduced to what they say and show (Told), and each part of IInv is kept *)
(* by every such step.                                                     *)
(***************************************************************************)
EXTENDS Translate, Integers, SequenceTheorems, FiniteSetTheorems, WellFoundedInduction, TLAPS

\* Induction, of a set.  (A theorem about every predicate could not be
\* instantiated by the provers.)
LEMMA Induction ==
  ASSUME NEW S, 0 \in S, \A n \in Nat : n \in S => n + 1 \in S
  PROVE  Nat \subseteq S
<1> SUFFICES ASSUME Nat \ S # {}  PROVE FALSE
  OBVIOUS
<1> DEFINE T == Nat \ S
           R == {ss \in Nat \X Nat : ss[1] < ss[2]}
<1>1. IsWellFoundedOn(R, Nat)  BY NatLessThanWellFounded DEF OpToRel
<1>2. \E x \in T : \A y \in T : ~ (<<y, x>> \in R)
  <2> HIDE DEF R
  <2> QED  BY <1>1, WFMin
<1>3. PICK x \in T : \A y \in T : ~ (<<y, x>> \in R)  BY <1>2
<1>4. x # 0 /\ x - 1 \in Nat  OBVIOUS
<1>5. <<x - 1, x>> \in R  BY <1>4
<1>6. x - 1 \in S  BY <1>3, <1>4, <1>5
<1> QED  BY <1>4, <1>6

\* The same over sequences.
LEMMA SeqInduction ==
  ASSUME NEW S, NEW Q, <<>> \in Q, \A s \in Seq(S), x \in S : s \in Q => Append(s, x) \in Q
  PROVE  Seq(S) \subseteq Q
<1> DEFINE P == {n \in Nat : \A s \in Seq(S) : Len(s) = n => s \in Q}
<1>1. 0 \in P  OBVIOUS
<1>2. ASSUME NEW n \in Nat, n \in P  PROVE n + 1 \in P
  <2> SUFFICES ASSUME NEW s \in Seq(S), Len(s) = n + 1  PROVE s \in Q
    OBVIOUS
  <2>1. s # <<>>  OBVIOUS
  <2>2. PICK r \in Seq(S), x \in S : s = Append(r, x)  BY <2>1, SequenceEmptyOrAppend
  <2>3. Len(r) = n  BY <2>2
  <2> QED  BY <1>2, <2>2, <2>3
<1> HIDE DEF P
<1>3. Nat \subseteq P  BY <1>1, <1>2, Induction
<1> QED  BY <1>3 DEF P

\* The recursion that FlattenSeq stands for.
Flattens(f, n, s) == f = [i \in 1 .. n |-> IF i = 1 THEN s[i] ELSE f[i - 1] \o s[i]]

\* Its value at i.
LEMMA FlattensAt ==
  ASSUME NEW s, NEW n, NEW f, Flattens(f, n, s), NEW i \in 1 .. n
  PROVE  f[i] = IF i = 1 THEN s[i] ELSE f[i - 1] \o s[i]
  BY Zenon DEF Flattens

\* Its first value.
LEMMA FlattensFirst ==
  ASSUME NEW s, NEW n \in Nat, NEW f, Flattens(f, n, s), n # 0
  PROVE  f[1] = s[1]
  BY SMT DEF Flattens

\* Each value is the one before with one element more.
LEMMA FlattensNext ==
  ASSUME NEW s, NEW n \in Nat, NEW f, Flattens(f, n, s), NEW k \in 1 .. n - 1
  PROVE  f[k + 1] = f[k] \o s[k + 1]
<1>1. k + 1 \in 1 .. n /\ k + 1 # 1 /\ (k + 1) - 1 = k  OBVIOUS
<1>2. f[k + 1] = f[(k + 1) - 1] \o s[k + 1]
  <2> SUFFICES ASSUME k + 1 \in 1 .. n, k + 1 # 1  PROVE f[k + 1] = f[(k + 1) - 1] \o s[k + 1]
    BY <1>1
  <2> QED  BY Zenon DEF Flattens
<1> QED  BY <1>1, <1>2

\* There is such a function, by induction over n.
LEMMA FlattenExists ==
  ASSUME NEW s, NEW n \in Nat
  PROVE  \E f : Flattens(f, n, s)
<1> DEFINE P == {k \in Nat : \E f : Flattens(f, k, s)}
<1>1. 0 \in P
  <2>1. Flattens([i \in 1 .. 0 |-> s], 0, s)  BY DEF Flattens
  <2> QED  BY <2>1
<1>2. ASSUME NEW k \in Nat, k \in P  PROVE k + 1 \in P
  <2>1. PICK f : Flattens(f, k, s)  BY <1>2
  <2> DEFINE g == [i \in 1 .. k + 1 |-> IF i <= k THEN f[i] ELSE IF i = 1 THEN s[i] ELSE f[i - 1] \o s[i]]
  <2>2. \A i \in 1 .. k + 1 : g[i] = IF i = 1 THEN s[i] ELSE g[i - 1] \o s[i]
    <3> TAKE i \in 1 .. k + 1
    <3>1. CASE i <= k
      <4>1. i \in 1 .. k /\ (i # 1 => i - 1 \in 1 .. k /\ i - 1 \in 1 .. k + 1)  BY <3>1
      <4>2. f[i] = IF i = 1 THEN s[i] ELSE f[i - 1] \o s[i]  BY <2>1, <4>1, FlattensAt
      <4>3. g[i] = f[i] /\ (i # 1 => g[i - 1] = f[i - 1])  BY <3>1, <4>1
      <4> HIDE DEF g
      <4> QED  BY <4>2, <4>3, Zenon
    <3>2. CASE ~ (i <= k)
      <4>1. i # 1 => i - 1 \in 1 .. k + 1 /\ i - 1 <= k  BY <3>2
      <4> QED  BY <3>2, <4>1, Zenon
    <3> QED  BY <3>1, <3>2
  <2>3. g = [i \in 1 .. k + 1 |-> g[i]]  OBVIOUS
  <2>4. Flattens(g, k + 1, s)
    <3> HIDE DEF g
    <3> QED  BY <2>2, <2>3 DEF Flattens
  <2> QED  BY <2>4
<1> HIDE DEF P
<1>3. Nat \subseteq P  BY <1>1, <1>2, Induction
<1> QED  BY <1>3 DEF P

Agree(s, t, n) == \A i \in 1 .. n : s[i] = t[i]

\* What is flattened of a prefix is a prefix of the flattening's values.
LEMMA FlattenUnique ==
  ASSUME NEW m \in Nat, NEW n \in Nat, m <= n, NEW s, NEW t, Agree(s, t, m),
         NEW f, NEW g, Flattens(f, m, s), Flattens(g, n, t)
  PROVE  Agree(f, g, m)
<1> DEFINE P == {k \in Nat : k \in 1 .. m => f[k] = g[k]}
<1>1. 0 \in P  OBVIOUS
<1>2. ASSUME NEW k \in Nat, k \in P  PROVE k + 1 \in P
  <2> SUFFICES ASSUME k + 1 \in 1 .. m  PROVE f[k + 1] = g[k + 1]
    OBVIOUS
  <2>1. CASE k = 0
    <3>1. f[1] = s[1] /\ g[1] = t[1]  BY FlattensFirst
    <3> QED  BY <2>1, <3>1 DEF Agree
  <2>2. CASE k # 0
    <3>1. k \in 1 .. m - 1 /\ k \in 1 .. n - 1 /\ f[k] = g[k] /\ s[k + 1] = t[k + 1]
      BY <1>2, <2>2 DEF Agree
    <3>2. f[k + 1] = f[k] \o s[k + 1]  BY <3>1, FlattensNext
    <3>3. g[k + 1] = g[k] \o t[k + 1]  BY <3>1, FlattensNext
    <3> QED  BY <3>1, <3>2, <3>3
  <2> QED  BY <2>1, <2>2
<1> HIDE DEF P
<1>3. Nat \subseteq P  BY <1>1, <1>2, Induction
<1> QED  BY <1>3 DEF P, Agree

\* FlattenSeq of nothing.
LEMMA FlattenEmpty == FlattenSeq(<<>>) = <<>>
  BY DEF FlattenSeq

\* The equation, with the values that it goes through.
LEMMA FlattenDef ==
  ASSUME NEW s, Len(s) \in Nat \ {0}
  PROVE  \E f : Flattens(f, Len(s), s) /\ FlattenSeq(s) = f[Len(s)]
<1> DEFINE c == CHOOSE f : Flattens(f, Len(s), s)
<1>1. Flattens(c, Len(s), s)  BY FlattenExists
<1>2. FlattenSeq(s) = c[Len(s)]  BY DEF FlattenSeq, Flattens
<1> QED  BY <1>1, <1>2

\* FlattenSeq of one more element.
LEMMA FlattenAppend ==
  ASSUME NEW S, NEW s \in Seq(Seq(S)), NEW x \in Seq(S)
  PROVE  FlattenSeq(Append(s, x)) = FlattenSeq(s) \o x
<1> DEFINE t == Append(s, x)
           m == Len(s)
           n == Len(t)
<1>1. /\ m \in Nat /\ n \in Nat /\ n = m + 1 /\ t[n] = x
      /\ \A i \in 1 .. m : s[i] = t[i]
      /\ s # <<>> => m # 0
      /\ s = <<>> => m = 0
  OBVIOUS
<1> HIDE DEF m, n, t
<1>2. PICK g : Flattens(g, n, t) /\ FlattenSeq(t) = g[n]
  BY <1>1, FlattenDef, SMTT(40) DEF n
<1>3. CASE s = <<>>
  <2>1. n # 0 /\ n = 1  BY <1>1, <1>3
  <2>2. g[1] = t[1]  BY <1>1, <1>2, <2>1, FlattensFirst
  <2>3. <<>> \o x = x  BY ConcatEmptySeq
  <2> QED  BY <1>1, <1>2, <1>3, <2>1, <2>2, <2>3, FlattenEmpty DEF t
<1>4. CASE s # <<>>
  <2>1. PICK f : Flattens(f, m, s) /\ FlattenSeq(s) = f[m]  BY <1>1, <1>4, FlattenDef DEF m
  <2>2. m <= n /\ m \in 1 .. m /\ m \in 1 .. n - 1  BY <1>1, <1>4
  <2>3. Agree(s, t, m)  BY <1>1 DEF Agree
  <2>4. Agree(f, g, m)  BY <1>1, <1>2, <2>1, <2>2, <2>3, FlattenUnique
  <2>5. g[m + 1] = g[m] \o t[m + 1]  BY <1>1, <1>2, <2>2, FlattensNext
  <2> QED  BY <1>1, <1>2, <2>1, <2>2, <2>4, <2>5 DEF t, Agree
<1> QED  BY <1>3, <1>4

\* The type, by induction over the length.
LEMMA FlattenType ==
  ASSUME NEW S, NEW s \in Seq(Seq(S))
  PROVE  FlattenSeq(s) \in Seq(S)
<1>1. CASE s = <<>>
  <2>1. FlattenSeq(s) = <<>>  BY <1>1, FlattenEmpty, Zenon
  <2> QED  BY <2>1
<1>2. CASE s # <<>>
  <2>1. PICK f : Flattens(f, Len(s), s) /\ FlattenSeq(s) = f[Len(s)]  BY <1>2, FlattenDef
  <2> DEFINE P == {k \in Nat : k \in 1 .. Len(s) => f[k] \in Seq(S)}
  <2>2. 0 \in P  OBVIOUS
  <2>3. ASSUME NEW k \in Nat, k \in P  PROVE k + 1 \in P
    <3> SUFFICES ASSUME k + 1 \in 1 .. Len(s)  PROVE f[k + 1] \in Seq(S)
      OBVIOUS
    <3>1. s[k + 1] \in Seq(S)  BY ElementOfSeq
    <3>2. CASE k = 0
      <4>1. f[1] = s[1]  BY <2>1, FlattensFirst
      <4> QED  BY <3>1, <3>2, <4>1
    <3>3. CASE k # 0
      <4> DEFINE n == Len(s)
      <4>1. n \in Nat /\ k \in 1 .. n - 1 /\ f[k] \in Seq(S)  BY <2>3, <3>3
      <4>2. f[k + 1] = f[k] \o s[k + 1]
        <5>1. Flattens(f, n, s)  BY <2>1
        <5> HIDE DEF n, P
        <5> QED  BY <4>1, <5>1, FlattensNext
      <4> QED  BY <3>1, <4>1, <4>2
    <3> QED  BY <3>2, <3>3
  <2> HIDE DEF P
  <2>4. Nat \subseteq P  BY <2>2, <2>3, Induction
  <2>5. Len(s) \in P /\ Len(s) \in 1 .. Len(s)  BY <1>2, <2>4
  <2> QED  BY <2>1, <2>5 DEF P
<1> QED  BY <1>1, <1>2

Maps(F, S, T) == F \in [S -> Seq(T)]

Mapped(F, c) == [i \in DOMAIN c |-> F[c[i]]]

\* What every element contributes, put together: one more element adds its own.
LEMMA MapAppend ==
  ASSUME NEW S, NEW T, NEW F, Maps(F, S, T), NEW c \in Seq(S), NEW x \in S
  PROVE  /\ FlattenSeq(Mapped(F, c)) \in Seq(T)
         /\ FlattenSeq(Mapped(F, Append(c, x))) = FlattenSeq(Mapped(F, c)) \o F[x]
<1> DEFINE m == Mapped(F, c)
           n == Mapped(F, Append(c, x))
           e == Append(m, F[x])
<1>1. Len(c) \in Nat /\ DOMAIN c = 1 .. Len(c) /\ DOMAIN Append(c, x) = 1 .. Len(c) + 1
  OBVIOUS
<1>2. F[x] \in Seq(T) /\ \A i \in 1 .. Len(c) : F[c[i]] \in Seq(T)  BY DEF Maps
<1>3. m \in Seq(Seq(T)) /\ Len(m) = Len(c)
  <2>1. m \in [1 .. Len(c) -> Seq(T)]  BY <1>1, <1>2 DEF Mapped
  <2> HIDE DEF m
  <2> QED  BY <1>1, <2>1
<1>4. e \in Seq(Seq(T)) /\ Len(e) = Len(c) + 1  BY <1>2, <1>3
<1>5. ASSUME NEW i \in 1 .. Len(c) + 1  PROVE n[i] = e[i]
  <2>1. n[i] = F[Append(c, x)[i]]  BY <1>1 DEF Mapped
  <2>2. CASE i = Len(c) + 1
    <3>1. Append(c, x)[i] = x /\ e[i] = F[x]  BY <1>2, <1>3, <2>2
    <3> QED  BY <2>1, <3>1
  <2>3. CASE i # Len(c) + 1
    <3>1. i \in 1 .. Len(c) /\ Append(c, x)[i] = c[i] /\ e[i] = m[i]  BY <1>2, <1>3, <2>3
    <3>2. m[i] = F[c[i]]  BY <1>1, <3>1 DEF Mapped
    <3> QED  BY <2>1, <3>1, <3>2
  <2> QED  BY <2>2, <2>3
<1>6. n = e
  <2>1. n = [i \in 1 .. Len(c) + 1 |-> n[i]]  BY <1>1 DEF Mapped
  <2>2. e = [i \in 1 .. Len(c) + 1 |-> e[i]]  BY <1>4
  <2> HIDE DEF n, e
  <2> QED  BY <1>5, <2>1, <2>2
<1> HIDE DEF m, n
<1> QED  BY <1>2, <1>3, <1>6, FlattenAppend, FlattenType DEF m, n

-----------------------------------------------------------------------------
(* The text of items and of chunks.                                        *)

\* What has a kind and a text.
Texted(S) == \A x \in S : x.text \in Seq(Nat)

TextOf(x) == IF x.kind = "text" THEN x.text ELSE <<>>

\* No items have no text.
LEMMA ContentEmpty == ContentText(<<>>) = <<>>
<1> DEFINE m == [i \in DOMAIN <<>> |-> TextOf(<<>>[i])]
<1>1. m = <<>>  OBVIOUS
<1>2. ContentText(<<>>) = FlattenSeq(m)  BY DEF ContentText, TextOf
<1> QED  BY <1>1, <1>2, FlattenEmpty

\* One more item: its text comes last.
LEMMA ContentAppend ==
  ASSUME NEW S, Texted(S), NEW c \in Seq(S), NEW x \in S
  PROVE  /\ ContentText(c) \in Seq(Nat)
         /\ ContentText(Append(c, x)) = ContentText(c) \o TextOf(x)
<1>1. PICK F : Maps(F, S, Nat) /\ \A y \in S : F[y] = TextOf(y)
  <2> DEFINE G == [y \in S |-> TextOf(y)]
  <2>1. Maps(G, S, Nat) /\ \A y \in S : G[y] = TextOf(y)  BY DEF Maps, Texted, TextOf
  <2> QED  BY <2>1
<1>2. ASSUME NEW d \in Seq(S)  PROVE ContentText(d) = FlattenSeq(Mapped(F, d))
  <2>1. \A i \in DOMAIN d : F[d[i]] = TextOf(d[i])  BY <1>1
  <2> QED  BY <2>1 DEF ContentText, TextOf, Mapped
<1>3. Append(c, x) \in Seq(S)  OBVIOUS
<1>4. /\ FlattenSeq(Mapped(F, c)) \in Seq(Nat)
      /\ FlattenSeq(Mapped(F, Append(c, x))) = FlattenSeq(Mapped(F, c)) \o F[x]
  BY <1>1, MapAppend
<1> QED  BY <1>1, <1>2, <1>3, <1>4, Zenon

\* The text of items is a sequence of pieces.
LEMMA ContentType ==
  ASSUME NEW S, Texted(S), NEW c \in Seq(S)
  PROVE  ContentText(c) \in Seq(Nat)
<1>1. CASE c = <<>>
  <2>1. ContentText(c) = <<>>  BY <1>1, ContentEmpty, Zenon
  <2> QED  BY <2>1
<1>2. CASE c # <<>>
  <2>1. PICK x \in S : TRUE  BY <1>2, SequenceEmptyOrAppend
  <2> QED  BY ContentAppend
<1> QED  BY <1>1, <1>2

\* The text of items and more items, by induction over the latter.
LEMMA ContentConcat ==
  ASSUME NEW S, Texted(S), NEW a \in Seq(S), NEW b \in Seq(S)
  PROVE  /\ ContentText(b) \in Seq(Nat)
         /\ ContentText(a \o b) = ContentText(a) \o ContentText(b)
<1> DEFINE Q == {c \in Seq(S) : /\ ContentText(c) \in Seq(Nat)
                                /\ ContentText(a \o c) = ContentText(a) \o ContentText(c)}
<1>1. \A c \in Seq(S) : ContentText(c) \in Seq(Nat)  BY ContentType
<1>2. <<>> \in Q
  <2>1. a \o <<>> = a /\ <<>> \in Seq(S)  BY ConcatEmptySeq
  <2>2. ContentText(a) \o <<>> = ContentText(a)  BY <1>1, ConcatEmptySeq
  <2> QED  BY <1>1, <2>1, <2>2, ContentEmpty
<1>3. ASSUME NEW c \in Seq(S), NEW x \in S, c \in Q  PROVE Append(c, x) \in Q
  <2>1. Append(c, x) \in Seq(S) /\ a \o c \in Seq(S) /\ a \o Append(c, x) = Append(a \o c, x)
    OBVIOUS
  <2>2. ContentText(a \o Append(c, x)) = ContentText(a \o c) \o TextOf(x)  BY <2>1, ContentAppend
  <2>3. ContentText(Append(c, x)) = ContentText(c) \o TextOf(x)  BY ContentAppend
  <2> DEFINE u == ContentText(a)  v == ContentText(c)  w == TextOf(x)
  <2>4. u \in Seq(Nat) /\ v \in Seq(Nat) /\ w \in Seq(Nat)  BY <1>1 DEF Texted, TextOf
  <2>5. (u \o v) \o w = u \o (v \o w)
    <3> HIDE DEF u, v, w, Q
    <3> QED  BY <2>4, SMTT(40)
  <2> QED  BY <1>1, <1>3, <2>1, <2>2, <2>3, <2>5
<1> HIDE DEF Q
<1>4. Seq(S) \subseteq Q  BY <1>2, <1>3, SeqInduction
<1> QED  BY <1>4 DEF Q

\* What has no text.
LEMMA NoText ==
  ASSUME NEW S, Texted(S), NEW c \in Seq(S), \A i \in 1 .. Len(c) : c[i].kind # "text"
  PROVE  ContentText(c) = <<>>
<1> DEFINE Q == {d \in Seq(S) : (\A i \in 1 .. Len(d) : d[i].kind # "text") => ContentText(d) = <<>>}
<1>1. <<>> \in Q  BY ContentEmpty
<1>2. ASSUME NEW d \in Seq(S), NEW x \in S, d \in Q  PROVE Append(d, x) \in Q
  <2>0. Append(d, x) \in Seq(S) /\ Len(Append(d, x)) = Len(d) + 1  OBVIOUS
  <2> SUFFICES ASSUME \A i \in 1 .. Len(d) + 1 : Append(d, x)[i].kind # "text"
               PROVE  ContentText(Append(d, x)) = <<>>
    BY <2>0
  <2>1. Append(d, x)[Len(d) + 1] = x /\ \A i \in 1 .. Len(d) : Append(d, x)[i] = d[i]  OBVIOUS
  <2>2. x.kind # "text" /\ \A i \in 1 .. Len(d) : d[i].kind # "text"
    <3>1. Len(d) + 1 \in 1 .. Len(d) + 1 /\ \A i \in 1 .. Len(d) : i \in 1 .. Len(d) + 1  OBVIOUS
    <3> QED  BY <2>1, <3>1
  <2>3. ContentText(d) = <<>> /\ TextOf(x) = <<>>  BY <1>2, <2>2 DEF TextOf
  <2>4. <<>> \o <<>> = <<>>  OBVIOUS
  <2> QED  BY <2>3, <2>4, ContentAppend
<1> HIDE DEF Q
<1>3. Seq(S) \subseteq Q  BY <1>1, <1>2, SeqInduction
<1> QED  BY <1>3 DEF Q

-----------------------------------------------------------------------------
(* What an event becomes.                                                  *)

Contents == [kind : {"text", "tool_use", "thinking"}, text : Seq(Nat)]

Items == [kind : {"text", "tool_use", "thinking", "tool_result"}, text : Seq(Nat)]

\* With content and without.
Bodied == [role : BOOLEAN, kind : {"text", "tool_use", "thinking", "tool_result"},
           text : Seq(Nat), finish : {"none"}, usage : {FALSE}]

Terminal == [role : {FALSE}, kind : {"end"}, text : {<<>>},
             finish : {"stop", "length", "tool_calls", "error"}, usage : BOOLEAN]

Chunks == Bodied \cup Terminal

Events ==
  [type : {"stream_event"}, text : Seq(Nat)] \cup [type : {"assistant"}, content : Seq(Contents)]
  \cup [type : {"user"}, results : Nat]
  \cup [type : {"result"}, stop : StopReasons, usage : BOOLEAN, text : {Summary}]
  \cup [type : {"stream_error", "other"}]

Translators == [verbosity : Verbosities, roleEmitted : BOOLEAN, partialTextSeen : BOOLEAN,
                toolCallIndex : Nat]

\* Content blocks, bodies and chunks have texts.
LEMMA AllTexted == Texted(Contents) /\ Texted(Items) /\ Texted(Chunks)
<1>1. Texted(Contents) /\ Texted(Items) /\ Texted(Bodied)
  BY DEF Texted, Contents, Items, Bodied
<1>2. ASSUME NEW c \in Terminal  PROVE c.text \in Seq(Nat)
  <2>1. c.text = <<>>  BY DEF Terminal
  <2> QED  BY <2>1
<1> QED  BY <1>1, <1>2 DEF Texted, Chunks

\* verbose and narrated show no other text than text-only, whatever an assistant
\* message holds.
THEOREM ItemsKeepText ==
  ASSUME NEW t \in Translators, NEW c \in Seq(Contents)
  PROVE  /\ AssistantItems(t, c) \in Seq(Contents)
         /\ ContentText(AssistantItems(t, c)) = IF t.partialTextSeen THEN <<>> ELSE ContentText(c)
<1> DEFINE Q == {d \in Seq(Contents) :
                   /\ AssistantItems(t, d) \in Seq(Contents)
                   /\ ContentText(AssistantItems(t, d)) =
                        IF t.partialTextSeen THEN <<>> ELSE ContentText(d)}
<1>1. PICK F : /\ Maps(F, Contents, Contents)
               /\ \A x \in Contents : F[x] = IF Shows(t, x) THEN <<x>> ELSE <<>>
  <2> DEFINE G == [x \in Contents |-> IF Shows(t, x) THEN <<x>> ELSE <<>>]
  <2>1. /\ Maps(G, Contents, Contents)
        /\ \A x \in Contents : G[x] = IF Shows(t, x) THEN <<x>> ELSE <<>>
    BY DEF Maps
  <2> QED  BY <2>1
<1>2. ASSUME NEW d \in Seq(Contents)  PROVE AssistantItems(t, d) = FlattenSeq(Mapped(F, d))
  <2>1. \A i \in DOMAIN d : F[d[i]] = IF Shows(t, d[i]) THEN <<d[i]>> ELSE <<>>  BY <1>1
  <2> QED  BY <2>1 DEF AssistantItems, Mapped
<1>3. <<>> \in Q
  <2>1. Mapped(F, <<>>) = <<>>  BY DEF Mapped
  <2>2. <<>> \in Seq(Contents)  OBVIOUS
  <2>3. AssistantItems(t, <<>>) = FlattenSeq(<<>>)  BY <1>2, <2>1, <2>2
  <2>4. AssistantItems(t, <<>>) = <<>>  BY <2>3, FlattenEmpty
  <2> QED  BY <2>2, <2>4, ContentEmpty
<1>4. ASSUME NEW d \in Seq(Contents), NEW x \in Contents, d \in Q  PROVE Append(d, x) \in Q
  <2> DEFINE kept == AssistantItems(t, d)
  <2>1. Append(d, x) \in Seq(Contents)  OBVIOUS
  <2>2. AssistantItems(t, Append(d, x)) = kept \o F[x]
    <3>1. FlattenSeq(Mapped(F, Append(d, x))) = FlattenSeq(Mapped(F, d)) \o F[x]
      BY <1>1, MapAppend
    <3> QED  BY <1>2, <2>1, <3>1, Zenon
  <2>3. F[x] = IF Shows(t, x) THEN <<x>> ELSE <<>>  BY <1>1
  <2>4. ContentText(F[x]) = IF t.partialTextSeen THEN <<>> ELSE TextOf(x)
    <3>1. CASE Shows(t, x)
      <4>1. F[x] = Append(<<>>, x) /\ <<>> \in Seq(Contents)  BY <2>3, <3>1
      <4>2. ContentText(F[x]) = ContentText(<<>>) \o TextOf(x)
        <5> HIDE DEF TextOf
        <5> QED  BY <4>1, ContentAppend, AllTexted
      <4>3. ContentText(F[x]) = TextOf(x)
        <5>1. TextOf(x) \in Seq(Nat)  BY DEF TextOf, Contents
        <5> HIDE DEF TextOf
        <5> QED  BY <4>2, <5>1, ContentEmpty
      <4>4. t.partialTextSeen => TextOf(x) = <<>>  BY <3>1 DEF Shows, TextOf, Contents
      <4> QED  BY <4>3, <4>4
    <3>2. CASE ~Shows(t, x)
      <4>1. ContentText(F[x]) = <<>>  BY <2>3, <3>2, ContentEmpty
      <4>2. ~t.partialTextSeen => TextOf(x) = <<>>  BY <3>2 DEF Shows, TextOf, Contents
      <4> QED  BY <4>1, <4>2
    <3> QED  BY <3>1, <3>2
  <2>5. F[x] \in Seq(Contents) /\ kept \in Seq(Contents)  BY <1>4, <2>3
  <2>6. ContentText(kept \o F[x]) = ContentText(kept) \o ContentText(F[x])
    <3> HIDE DEF kept
    <3> QED  BY <2>5, ContentConcat, AllTexted
  <2>7. ContentText(kept) = IF t.partialTextSeen THEN <<>> ELSE ContentText(d)  BY <1>4
  <2>8. ContentText(Append(d, x)) = ContentText(d) \o TextOf(x)  BY ContentAppend, AllTexted
  <2>9. kept \o F[x] \in Seq(Contents)  BY <2>5
  <2> HIDE DEF kept
  <2>10. <<>> \o <<>> = <<>>  OBVIOUS
  <2> QED  BY <2>1, <2>2, <2>4, <2>6, <2>7, <2>8, <2>9, <2>10
<1> HIDE DEF Q
<1>5. Seq(Contents) \subseteq Q  BY <1>3, <1>4, SeqInduction
<1> QED  BY <1>5 DEF Q

\* The text that the chunks of an event show.
Shown(t, ev) ==
  CASE ev.type = "stream_event" -> ev.text
    [] ev.type = "assistant" /\ ~t.partialTextSeen -> ContentText(ev.content)
    [] OTHER -> <<>>

\* The text of a single item.
LEMMA ContentOne ==
  ASSUME NEW S, Texted(S), NEW x \in S
  PROVE  ContentText(<<x>>) = TextOf(x)
<1>1. <<x>> = Append(<<>>, x) /\ <<>> \in Seq(S)  OBVIOUS
<1>2. TextOf(x) \in Seq(Nat)  BY DEF TextOf, Texted
<1>3. ContentText(Append(<<>>, x)) = ContentText(<<>>) \o TextOf(x)  BY <1>1, ContentAppend
<1> HIDE DEF TextOf
<1>4. <<>> \o TextOf(x) = TextOf(x)  BY <1>2
<1> QED  BY <1>1, <1>3, <1>4, ContentEmpty

\* However an event is shown, its text is.
LEMMA BodiesShow ==
  ASSUME NEW t \in Translators, NEW ev \in Events, ev.type \notin {"result", "stream_error"}
  PROVE  Bodies(t, ev) \in Seq(Items) /\ ContentText(Bodies(t, ev)) = Shown(t, ev)
<1>1. CASE ev.type = "stream_event"
  <2>1. ev.text \in Seq(Nat) /\ Shown(t, ev) = ev.text  BY <1>1 DEF Events, Shown
  <2>2. CASE ev.text # <<>>
    <3>1. Bodies(t, ev) = <<Item("text", ev.text)>>  BY <1>1, <2>2 DEF Bodies
    <3>2. Item("text", ev.text) \in Items /\ TextOf(Item("text", ev.text)) = ev.text
      BY <2>1 DEF Items, Item, TextOf
    <3>3. ContentText(<<Item("text", ev.text)>>) = ev.text  BY <3>2, ContentOne, AllTexted
    <3> QED  BY <2>1, <3>1, <3>2, <3>3
  <2>3. CASE ev.text = <<>>
    <3>1. Bodies(t, ev) = <<>>  BY <1>1, <2>3 DEF Bodies
    <3> QED  BY <2>1, <2>3, <3>1, ContentEmpty
  <2> QED  BY <2>2, <2>3
<1>2. CASE ev.type = "assistant"
  <2>1. ev.content \in Seq(Contents)  BY <1>2 DEF Events
  <2>2. Shown(t, ev) = IF t.partialTextSeen THEN <<>> ELSE ContentText(ev.content)
    BY <1>2 DEF Shown, Translators
  <2>3. CASE t.verbosity = "text-only"
    <3> DEFINE text == ContentText(ev.content)
    <3>1. Bodies(t, ev) = IF t.partialTextSeen \/ text = <<>> THEN <<>> ELSE <<Item("text", text)>>
      BY <1>2, <2>3 DEF Bodies, AssistantText
    <3>2. text \in Seq(Nat)  BY <2>1, ContentType, AllTexted
    <3>3. Item("text", text) \in Items /\ TextOf(Item("text", text)) = text
      BY <3>2 DEF Items, Item, TextOf
    <3>4. ContentText(<<Item("text", text)>>) = text  BY <3>3, ContentOne, AllTexted
    <3> HIDE DEF text
    <3> QED  BY <2>2, <3>1, <3>3, <3>4, ContentEmpty DEF text
  <2>4. CASE t.verbosity # "text-only"
    <3>1. Bodies(t, ev) = AssistantItems(t, ev.content)  BY <1>2, <2>4 DEF Bodies
    <3>2. Contents \subseteq Items  BY DEF Contents, Items
    <3>3. Seq(Contents) \subseteq Seq(Items)  BY <3>2
    <3> QED  BY <2>1, <2>2, <3>1, <3>3, ItemsKeepText
  <2> QED  BY <2>3, <2>4
<1>3. CASE ev.type = "user"
  <2>1. Shown(t, ev) = <<>>  BY <1>3 DEF Shown
  <2>2. CASE t.verbosity # "text-only"
    <3> DEFINE b == [i \in 1 .. ev.results |-> Item("tool_result", <<>>)]
    <3>1. Bodies(t, ev) = b  BY <1>3, <2>2 DEF Bodies
    <3>2. ev.results \in Nat  BY <1>3 DEF Events
    <3>3. Item("tool_result", <<>>) \in Items /\ Item("tool_result", <<>>).kind # "text"
      BY DEF Item, Items
    <3>4. b \in Seq(Items) /\ \A i \in 1 .. Len(b) : b[i].kind # "text"
      BY <3>2, <3>3
    <3> HIDE DEF b
    <3>5. ContentText(b) = <<>>  BY <3>4, NoText, AllTexted
    <3> QED  BY <2>1, <3>1, <3>4, <3>5
  <2>3. CASE t.verbosity = "text-only"
    <3>1. Bodies(t, ev) = <<>>  BY <1>3, <2>3 DEF Bodies
    <3> QED  BY <2>1, <3>1, ContentEmpty
  <2> QED  BY <2>2, <2>3
<1>4. CASE ev.type = "other"
  <2>1. Shown(t, ev) = <<>> /\ Bodies(t, ev) = <<>>  BY <1>4 DEF Shown, Bodies
  <2> QED  BY <2>1, ContentEmpty
<1> QED  BY <1>1, <1>2, <1>3, <1>4 DEF Events

\* terminalChunk is well-formed, and tells errors from results.
LEMMA FinishType ==
  ASSUME NEW t \in Translators, NEW ev \in Events, ev.type \in {"result", "stream_error"}
  PROVE  /\ TerminalChunk(t, ev) \in Terminal
         /\ (TerminalChunk(t, ev).finish = "error") <=> (ev.type = "stream_error")
<1>1. Finish(t, ev) \in {"stop", "length", "tool_calls", "error"}
      /\ (Finish(t, ev) = "error" <=> ev.type = "stream_error")
  BY DEF Finish, MapStopReason
<1>2. (ev.type = "result" /\ ev.usage) \in BOOLEAN  OBVIOUS
<1> QED  BY <1>1, <1>2 DEF TerminalChunk, Terminal

\* The chunks of an event show its text, and only those of results and errors
\* are terminal.
THEOREM ChunksShow ==
  ASSUME NEW t \in Translators, NEW ev \in Events
  PROVE  /\ EventToChunks(t, ev) \in Seq(Chunks)
         /\ ContentText(EventToChunks(t, ev)) = Shown(t, ev)
         /\ ev.type \notin {"result", "stream_error"} => EventToChunks(t, ev) \in Seq(Bodied)
<1>1. CASE ev.type \in {"result", "stream_error"}
  <2> DEFINE c == TerminalChunk(t, ev)
  <2>1. EventToChunks(t, ev) = <<c>>  BY <1>1 DEF EventToChunks
  <2>2. c \in Chunks /\ c.kind = "end"  BY <1>1, FinishType DEF Chunks, Terminal
  <2>3. Shown(t, ev) = <<>>  BY <1>1 DEF Shown
  <2>4. TextOf(c) = <<>>
    <3> HIDE DEF c
    <3> QED  BY <2>2 DEF TextOf
  <2>5. ContentText(<<c>>) = TextOf(c)
    <3> HIDE DEF c
    <3> QED  BY <2>2, ContentOne, AllTexted
  <2> HIDE DEF c
  <2> QED  BY <1>1, <2>1, <2>2, <2>3, <2>4, <2>5
<1>2. CASE ev.type \notin {"result", "stream_error"}
  <2> DEFINE b == Bodies(t, ev)
             c == [i \in DOMAIN b |->
                     [role |-> i = 1 /\ ~t.roleEmitted, kind |-> b[i].kind,
                      text |-> b[i].text, finish |-> "none", usage |-> FALSE]]
  <2>1. EventToChunks(t, ev) = c  BY <1>2 DEF EventToChunks
  <2>2. b \in Seq(Items) /\ ContentText(b) = Shown(t, ev)  BY <1>2, BodiesShow
  <2> HIDE DEF b
  <2>3. DOMAIN b = 1 .. Len(b) /\ Len(b) \in Nat  BY <2>2
  <2>4. ASSUME NEW i \in DOMAIN b  PROVE c[i] \in Bodied /\ c[i].kind = b[i].kind /\ c[i].text = b[i].text
    <3>1. b[i] \in Items  BY <2>2, <2>3
    <3>2. b[i].kind \in {"text", "tool_use", "thinking", "tool_result"} /\ b[i].text \in Seq(Nat)
      BY <3>1 DEF Items
    <3>3. (i = 1 /\ ~t.roleEmitted) \in BOOLEAN  OBVIOUS
    <3> QED  BY <3>2, <3>3 DEF Bodied
  <2>5. DOMAIN c = DOMAIN b  OBVIOUS
  <2> HIDE DEF c
  <2>6. c \in Seq(Bodied)
    <3>1. c \in [1 .. Len(b) -> Bodied]
      <4>1. c = [i \in DOMAIN b |-> c[i]]  BY <2>5 DEF c
      <4> QED  BY <2>3, <2>4, <4>1
    <3> QED  BY <2>3, <3>1
  <2>7. ContentText(c) = ContentText(b)  BY <2>4, <2>5 DEF ContentText
  <2>8. Seq(Bodied) \subseteq Seq(Chunks)  BY DEF Chunks
  <2> QED  BY <1>2, <2>1, <2>2, <2>6, <2>7, <2>8
<1> QED  BY <1>1, <1>2

\* The pieces up to the nth, in order.
Pieces(n) == [i \in 1 .. n |-> i]

Typed ==
  /\ TypeOK
  /\ events \in Seq(Events) /\ out \in Seq(Chunks)
  /\ block \in Seq(1 .. said)

\* The Translator remembers whether text came in deltas, as the pieces of the
\* open block did unless a line did not parse.
Seen ==
  /\ tr.partialTextSeen <=>
       \E i \in 1 .. Len(events) : events[i].type = "stream_event" /\ events[i].text # <<>>
  /\ block # <<>> => tr.partialTextSeen \/ Has(events, "stream_error")

Increasing(s) == \A i, j \in 1 .. Len(s) : i < j => s[i] < s[j]

\* What is streamed is in order; so would be the open block behind it, as long
\* as messages still show.  Without an error nothing is missing.
Streamed ==
  /\ StreamedText \in Seq(1 .. said)
  /\ Increasing(StreamedText)
  /\ ~tr.partialTextSeen => Increasing(StreamedText \o block)
  /\ at = "left" \/ unannounced \/ Has(events, "stream_error") \/ StreamedText = Pieces(said)

\* The messages hold what is said, up to the open block.
Aggregated ==
  /\ AggregatedText(events) \in Seq(1 .. said)
  /\ ~Has(events, "stream_error") => AggregatedText(events) \o block = Pieces(said)

OneResult ==
  /\ Has(events, "result") => stage # "talking"
  /\ \A e, f \in ToSet(events) : e.type = "result" /\ f.type = "result" => e = f

\* A chunk's finish reason is that of a result, or tool_calls for stop.
FinishOf(c, ev) ==
  \/ c.finish = MapStopReason(ev.stop)
  \/ tr.toolCallIndex > 0 /\ MapStopReason(ev.stop) = "stop" /\ c.finish = "tool_calls"

\* The terminal chunks are those of the results and the errors.
Ended ==
  at # "left" =>
    /\ (\E c \in ToSet(out) : c.finish = "error") <=> Has(events, "stream_error")
    /\ \A c \in ToSet(out) : c.finish \notin {"none", "error"} =>
         \E ev \in ToSet(events) : ev.type = "result" /\ FinishOf(c, ev)
    /\ \A c, d \in ToSet(out) :
         c.finish \notin {"none", "error"} /\ d.finish \notin {"none", "error"} =>
           c.finish = d.finish
    /\ (\E c \in ToSet(out) : c.usage) <=>
         \E ev \in ToSet(events) : ev.type = "result" /\ ev.usage

IInv == Typed /\ Seen /\ Streamed /\ Aggregated /\ OneResult /\ Ended

-----------------------------------------------------------------------------
(* The events taken together.                                              *)

\* What an event adds to the text of the response.
Spoken(ev) == IF ev.type = "assistant" THEN ContentText(ev.content) ELSE <<>>

\* No events say nothing.
LEMMA AggregatedEmpty == AggregatedText(<<>>) = <<>>
<1> DEFINE m == [i \in DOMAIN <<>> |-> Spoken(<<>>[i])]
<1>1. m = <<>>  OBVIOUS
<1>2. AggregatedText(<<>>) = FlattenSeq(m)  BY DEF AggregatedText, Spoken
<1> QED  BY <1>1, <1>2, FlattenEmpty

\* The text of NonStreamingResponse grows with every event by what that says.
LEMMA AggregatedAppend ==
  ASSUME NEW evs \in Seq(Events), NEW ev \in Events
  PROVE  /\ AggregatedText(evs) \in Seq(Nat) /\ Spoken(ev) \in Seq(Nat)
         /\ AggregatedText(Append(evs, ev)) = AggregatedText(evs) \o Spoken(ev)
<1>0. \A e \in Events : Spoken(e) \in Seq(Nat)
  <2> SUFFICES ASSUME NEW e \in Events  PROVE Spoken(e) \in Seq(Nat)
    OBVIOUS
  <2>1. CASE e.type = "assistant"
    <3>1. e.content \in Seq(Contents)  BY <2>1 DEF Events
    <3> QED  BY <2>1, <3>1, ContentType, AllTexted DEF Spoken
  <2>2. CASE e.type # "assistant"
    <3>1. Spoken(e) = <<>>  BY <2>2 DEF Spoken
    <3> QED  BY <3>1
  <2> QED  BY <2>1, <2>2
<1>1. PICK F : Maps(F, Events, Nat) /\ \A y \in Events : F[y] = Spoken(y)
  <2> DEFINE G == [y \in Events |-> Spoken(y)]
  <2>1. Maps(G, Events, Nat) /\ \A y \in Events : G[y] = Spoken(y)  BY <1>0 DEF Maps
  <2> QED  BY <2>1
<1>2. ASSUME NEW d \in Seq(Events)  PROVE AggregatedText(d) = FlattenSeq(Mapped(F, d))
  <2>1. \A i \in DOMAIN d : F[d[i]] = Spoken(d[i])  BY <1>1
  <2> QED  BY <2>1 DEF AggregatedText, Spoken, Mapped
<1>3. Append(evs, ev) \in Seq(Events)  OBVIOUS
<1>4. /\ FlattenSeq(Mapped(F, evs)) \in Seq(Nat)
      /\ FlattenSeq(Mapped(F, Append(evs, ev))) = FlattenSeq(Mapped(F, evs)) \o F[ev]
  BY <1>1, MapAppend
<1>5. AggregatedText(evs) = FlattenSeq(Mapped(F, evs))  BY <1>2
<1>6. AggregatedText(Append(evs, ev)) = FlattenSeq(Mapped(F, Append(evs, ev)))  BY <1>2, <1>3
<1>7. F[ev] = Spoken(ev) /\ Spoken(ev) \in Seq(Nat)  BY <1>0, <1>1
<1> QED  BY <1>4, <1>5, <1>6, <1>7

\* A non-empty set of indices has a last one.
LEMMA LastExists ==
  ASSUME NEW n \in Nat, NEW I, I \subseteq 1 .. n, I # {}
  PROVE  Max(I) \in I
<1> DEFINE P == {k \in Nat : \A J \in SUBSET (1 .. k) : J # {} => \E x \in J : \A y \in J : x >= y}
<1>1. 0 \in P
  <2>1. 1 .. 0 = {}  OBVIOUS
  <2> QED  BY <2>1
<1>2. ASSUME NEW k \in Nat, k \in P  PROVE k + 1 \in P
  <2> SUFFICES ASSUME NEW J \in SUBSET (1 .. k + 1), J # {}
               PROVE  \E x \in J : \A y \in J : x >= y
    OBVIOUS
  <2>1. CASE k + 1 \in J
    <3>1. \A y \in J : k + 1 >= y  OBVIOUS
    <3> QED  BY <2>1, <3>1
  <2>2. CASE k + 1 \notin J
    <3>1. J \in SUBSET (1 .. k)  BY <2>2
    <3> QED  BY <1>2, <3>1
  <2> QED  BY <2>1, <2>2
<1> HIDE DEF P
<1>3. Nat \subseteq P  BY <1>1, <1>2, Induction
<1>4. \E x \in I : \A y \in I : x >= y  BY <1>3 DEF P
<1> QED  BY <1>4 DEF Max

\* The event that NonStreamingResponse takes the finish reason and the usage
\* from is one of the events.
LEMMA LastIs ==
  ASSUME NEW evs \in Seq(Events), NEW type, Has(evs, type)
  PROVE  LastOf(evs, type) \in ToSet(evs) /\ LastOf(evs, type).type = type
<1> DEFINE I == {i \in 1 .. Len(evs) : evs[i].type = type}
<1>1. I # {} /\ I \subseteq 1 .. Len(evs) /\ DOMAIN evs = 1 .. Len(evs)  BY DEF Has, ToSet
<1>2. Max(I) \in I
  <2> DEFINE n == Len(evs)
  <2>1. n \in Nat /\ I \subseteq 1 .. n /\ I # {}  BY <1>1
  <2> HIDE DEF I, n
  <2> QED  BY <2>1, LastExists
<1>3. LastOf(evs, type) = evs[Max(I)]  BY <1>1 DEF LastOf, SelectLastInSeq
<1> HIDE DEF LastOf
<1> QED  BY <1>1, <1>2, <1>3 DEF ToSet

\* The members of a longer sequence.
LEMMA SetOfConcat ==
  ASSUME NEW S, NEW a \in Seq(S), NEW b \in Seq(S)
  PROVE  ToSet(a \o b) = ToSet(a) \cup ToSet(b)
<1>1. /\ a \o b \in Seq(S) /\ Len(a \o b) = Len(a) + Len(b)
      /\ \A i \in 1 .. Len(a) : (a \o b)[i] = a[i]
      /\ \A i \in 1 .. Len(b) : (a \o b)[Len(a) + i] = b[i]
  OBVIOUS
<1>2. \A i \in 1 .. Len(a) : i \in 1 .. Len(a) + Len(b)  OBVIOUS
<1>3. \A i \in 1 .. Len(b) : Len(a) + i \in 1 .. Len(a) + Len(b)  OBVIOUS
<1>4. \A i \in 1 .. Len(a) + Len(b) :
        i \in 1 .. Len(a) \/ \E j \in 1 .. Len(b) : i = Len(a) + j
  <2> TAKE i \in 1 .. Len(a) + Len(b)
  <2>1. CASE i > Len(a)
    <3>1. i - Len(a) \in 1 .. Len(b) /\ i = Len(a) + (i - Len(a))  BY <2>1
    <3> QED  BY <3>1
  <2> QED  BY <2>1
<1>5. DOMAIN (a \o b) = 1 .. Len(a) + Len(b) /\ DOMAIN a = 1 .. Len(a) /\ DOMAIN b = 1 .. Len(b)
  BY <1>1
<1>6. ToSet(a) \subseteq ToSet(a \o b)  BY <1>1, <1>2, <1>5 DEF ToSet
<1>7. ToSet(b) \subseteq ToSet(a \o b)  BY <1>1, <1>3, <1>5, ZenonT(40) DEF ToSet
<1>8. ToSet(a \o b) \subseteq ToSet(a) \cup ToSet(b)
  <2> SUFFICES ASSUME NEW i \in 1 .. Len(a) + Len(b)
               PROVE  (a \o b)[i] \in ToSet(a) \cup ToSet(b)
    BY <1>5 DEF ToSet
  <2> QED  BY <1>1, <1>4, <1>5 DEF ToSet
<1> QED  BY <1>6, <1>7, <1>8

\* The members of a sequence are of its type.
LEMMA SetOfSeq ==
  ASSUME NEW S, NEW s \in Seq(S)
  PROVE  ToSet(s) \subseteq S
<1>1. DOMAIN s = 1 .. Len(s) /\ \A i \in 1 .. Len(s) : s[i] \in S  OBVIOUS
<1> QED  BY <1>1 DEF ToSet

\* The member of a single element.
LEMMA SetOfOne ==
  ASSUME NEW x
  PROVE  ToSet(<<x>>) = {x}
  BY DEF ToSet

-----------------------------------------------------------------------------
(* What a step does to the parts of the invariant.                         *)

\* The Translator stays one; toolCallIndex is never lowered.
LEMMA TranslatedType ==
  ASSUME NEW t \in Translators, NEW ev \in Events
  PROVE  /\ Translated(t, ev) \in Translators
         /\ ToolCallIndex(t, ev) >= t.toolCallIndex
<1>1. ToolCallIndex(t, ev) \in Nat /\ ToolCallIndex(t, ev) >= t.toolCallIndex
  <2>1. CASE t.verbosity = "verbose" /\ ev.type = "assistant"
    <3> DEFINE U == {i \in DOMAIN ev.content : ev.content[i].kind = "tool_use"}
    <3>1. ev.content \in Seq(Contents)  BY <2>1 DEF Events
    <3>2. U \in SUBSET (1 .. Len(ev.content)) /\ Len(ev.content) \in Int  BY <3>1
    <3>3. IsFiniteSet(1 .. Len(ev.content))  BY <3>2, FS_Interval
    <3>4. Cardinality(U) \in Nat
      <4> HIDE DEF U
      <4> QED  BY <3>2, <3>3, FS_Subset, FS_CardinalityType
    <3>5. ToolCallIndex(t, ev) = t.toolCallIndex + Cardinality(U)  BY <2>1 DEF ToolCallIndex
    <3> HIDE DEF U
    <3> QED  BY <3>4, <3>5 DEF Translators
  <2>2. CASE ~ (t.verbosity = "verbose" /\ ev.type = "assistant")
    <3>1. ToolCallIndex(t, ev) = t.toolCallIndex  BY <2>2 DEF ToolCallIndex
    <3> QED  BY <3>1 DEF Translators
  <2> QED  BY <2>1, <2>2
<1>2. RoleEmitted(t, ev) \in BOOLEAN /\ PartialTextSeen(t, ev) \in BOOLEAN
  BY DEF RoleEmitted, PartialTextSeen, Translators
<1> HIDE DEF ToolCallIndex, RoleEmitted, PartialTextSeen
<1> QED  BY <1>1, <1>2 DEF Translated, Translators

\* What is written of a sequence: all, or a beginning.
LEMMA Written ==
  ASSUME NEW c \in Seq(Chunks), NEW n \in 1 .. Len(c)
  PROVE  \E d, e \in Seq(Chunks) : SubSeq(c, 1, n - 1) = d /\ c = d \o e
<1> DEFINE d == SubSeq(c, 1, n - 1)
           e == SubSeq(c, n, Len(c))
<1>1. d \in Seq(Chunks) /\ e \in Seq(Chunks)  OBVIOUS
<1>2. Len(d) = n - 1 /\ Len(e) = Len(c) - n + 1
      /\ (\A i \in 1 .. n - 1 : d[i] = c[i]) /\ \A i \in 1 .. Len(c) - n + 1 : e[i] = c[n + i - 1]
  OBVIOUS
<1> HIDE DEF d, e
<1>3. ASSUME NEW i \in 1 .. Len(c)  PROVE (d \o e)[i] = c[i]
  <2>1. CASE i <= n - 1
    <3>1. (d \o e)[i] = d[i]  BY <1>1, <1>2, <2>1
    <3> QED  BY <1>2, <2>1, <3>1
  <2>2. CASE ~ (i <= n - 1)
    <3>1. (d \o e)[i] = e[i - (n - 1)]  BY <1>1, <1>2, <2>2
    <3>2. i - (n - 1) \in 1 .. Len(c) - n + 1 /\ n + (i - (n - 1)) - 1 = i  BY <2>2
    <3>3. e[i - (n - 1)] = c[n + (i - (n - 1)) - 1]  BY <1>2, <3>2
    <3> QED  BY <3>1, <3>2, <3>3
  <2> QED  BY <2>1, <2>2
<1>4. Len(d \o e) = Len(c) /\ d \o e \in Seq(Chunks)  BY <1>1, <1>2
<1>5. c = d \o e  BY <1>3, <1>4, SeqEqual
<1> QED  BY <1>1, <1>5 DEF d

\* An event that comes in: what it does to the output, and to the events.
LEMMA Received ==
  ASSUME Typed, NEW ev \in Events, Receive(ev)
  PROVE  /\ at = "streaming" /\ at' \in {"streaming", "left"}
         /\ events' = Append(events, ev) /\ events' \in Seq(Events) /\ Len(events') <= MaxEvents
         /\ tr' = Translated(tr, ev) /\ tr \in Translators /\ tr' \in Translators
         /\ out' \in Seq(Chunks)
         /\ \E p, q \in Seq(Nat) : Shown(tr, ev) = p \o q /\ StreamedText' = StreamedText \o p
         /\ at' # "left" => /\ out' = out \o EventToChunks(tr, ev)
                           /\ StreamedText' = StreamedText \o Shown(tr, ev)
<1> DEFINE c == EventToChunks(tr, ev)
<1>1. /\ at = "streaming" /\ events' = Append(events, ev) /\ Len(events) < MaxEvents
      /\ tr' = Translated(tr, ev)
  BY DEF Receive
<1>2. at' \in {"streaming", "left"}  BY <1>1 DEF Receive
<1>3. events \in Seq(Events) /\ tr \in Translators /\ out \in Seq(Chunks)
  BY DEF Typed, TypeOK, Translators
<1>4. events' \in Seq(Events) /\ Len(events') <= MaxEvents  BY <1>1, <1>3, TranslateAssumption
<1>5. tr' \in Translators  BY <1>1, <1>3, TranslatedType
<1>6. c \in Seq(Chunks) /\ ContentText(c) = Shown(tr, ev)  BY <1>3, ChunksShow
<1> HIDE DEF c
<1>7. \E d, e \in Seq(Chunks) : c = d \o e /\ out' = out \o d /\ (at' # "left" => d = c)
  <2>1. CASE out' = out \o c
    <3>1. c = c \o <<>> /\ <<>> \in Seq(Chunks)  BY <1>6
    <3> QED  BY <1>6, <2>1, <3>1
  <2>2. CASE at' = "left" /\ \E n \in 1 .. Len(c) : out' = out \o SubSeq(c, 1, n - 1)
    <3>1. PICK n \in 1 .. Len(c) : out' = out \o SubSeq(c, 1, n - 1)  BY <2>2
    <3>2. PICK d \in Seq(Chunks), e \in Seq(Chunks) : SubSeq(c, 1, n - 1) = d /\ c = d \o e
      BY <1>6, Written
    <3> QED  BY <2>2, <3>1, <3>2
  <2> QED  BY <2>1, <2>2 DEF Receive, c
<1>8. PICK d \in Seq(Chunks), e \in Seq(Chunks) :
        c = d \o e /\ out' = out \o d /\ (at' # "left" => d = c)
  BY <1>7
<1>9. out' \in Seq(Chunks)  BY <1>3, <1>8
<1>10. StreamedText' = StreamedText \o ContentText(d)
  <2>1. ContentText(out \o d) = ContentText(out) \o ContentText(d)
    BY <1>3, <1>8, ContentConcat, AllTexted
  <2>2. StreamedText' = ContentText(out')  BY DEF StreamedText
  <2> QED  BY <1>8, <2>1, <2>2 DEF StreamedText
<1>11. Shown(tr, ev) = ContentText(d) \o ContentText(e)
      /\ ContentText(d) \in Seq(Nat) /\ ContentText(e) \in Seq(Nat)
  BY <1>6, <1>8, ContentConcat, ContentType, AllTexted
<1>12. at' # "left" => out' = out \o c /\ StreamedText' = StreamedText \o Shown(tr, ev)
  BY <1>6, <1>8, <1>10
<1>13. \E p, q \in Seq(Nat) : Shown(tr, ev) = p \o q /\ StreamedText' = StreamedText \o p
  BY <1>10, <1>11
<1> QED  BY <1>1, <1>2, <1>3, <1>4, <1>5, <1>9, <1>12, <1>13 DEF c

-----------------------------------------------------------------------------
(* What claude does in a step, as far as the invariant needs to know.      *)

\* What is said that was not said before.
Fresh == IF said' = said THEN <<>> ELSE <<said + 1>>

Told(ev) ==
  /\ ev \in Events /\ Receive(ev)
  /\ said' \in {said, said + 1}
  /\ block' \in Seq(1 .. said')
  /\ stage' \in {"talking", "finished", "exiting", "ended"}
  /\ unannounced' \in BOOLEAN /\ (unannounced => unannounced')
  /\ \/ Shown(tr, ev) = Fresh
     \/ Shown(tr, ev) = <<>> /\ (unannounced' \/ ev.type = "stream_error")
     \/ Shown(tr, ev) = block /\ ~tr.partialTextSeen /\ Has(events, "stream_error")
  /\ \/ PartialTextSeen(tr, ev) \/ block' = <<>>
     \/ Shown(tr, ev) = <<>> /\ block' \in {block, block \o Fresh}
  /\ Spoken(ev) \in Seq(1 .. said')
  /\ Spoken(ev) \o block' = block \o Fresh \/ ev.type = "stream_error"
  /\ block' # <<>> => PartialTextSeen(tr, ev) \/ Has(events, "stream_error") \/ ev.type = "stream_error"
  /\ stage' = "talking" => stage = "talking" /\ ev.type # "result"
  /\ ev.type = "result" => stage = "talking"

\* An event without text.
LEMMA Wordless ==
  ASSUME Typed, Seen, NEW ev \in Events, Receive(ev),
         ev.type = "stream_event" => ev.text = <<>>, Spoken(ev) = <<>>,
         UNCHANGED <<said, unannounced>>,
         block' = block \/ (block' = <<>> /\ ev.type = "stream_error"),
         stage' \in {"talking", "finished", "exiting", "ended"},
         stage' = "talking" => stage = "talking" /\ ev.type # "result",
         ev.type = "result" => stage = "talking"
  PROVE  Told(ev)
<1>1. said' = said /\ Fresh = <<>> /\ unannounced' = unannounced  BY DEF Fresh
<1>2. Shown(tr, ev) = <<>>  BY DEF Shown, Spoken
<1>3. /\ block \in Seq(1 .. said) /\ <<>> \in Seq(1 .. said)
      /\ unannounced \in BOOLEAN
  BY DEF Typed, TypeOK
<1>4. block' \in Seq(1 .. said')  BY <1>1, <1>3
<1>5. block' # <<>> => PartialTextSeen(tr, ev) \/ Has(events, "stream_error") \/ ev.type = "stream_error"
  BY DEF Seen, PartialTextSeen
<1>6. block \o <<>> = block /\ <<>> \o block = block  BY <1>3
<1>7. Spoken(ev) \o block' = block \o Fresh \/ ev.type = "stream_error"  BY <1>1, <1>6
<1>8. Spoken(ev) \in Seq(1 .. said')  BY <1>1, <1>3
<1>9. said' \in {said, said + 1} /\ unannounced' \in BOOLEAN /\ (unannounced => unannounced')
  BY <1>1, <1>3
<1>10. Shown(tr, ev) = Fresh  BY <1>1, <1>2
<1>11. block' = <<>> \/ (Shown(tr, ev) = <<>> /\ block' \in {block, block \o Fresh})  BY <1>2
<1> QED  BY <1>4, <1>5, <1>7, <1>8, <1>9, <1>10, <1>11, Zenon DEF Told

\* A text block and its text.
LEMMA ItemText ==
  ASSUME NEW x \in Seq(Nat)
  PROVE  Item("text", x) \in Contents /\ TextOf(Item("text", x)) = x
  BY DEF Item, Contents, TextOf

\* A tool call has no text.
LEMMA ToolText == Tool \in Contents /\ TextOf(Tool) = <<>>
  BY DEF Tool, Item, Contents, TextOf

\* Nor has what comes with a block.
LEMMA ToolsText ==
  ASSUME NEW items \in {<<>>, <<Tool>>}
  PROVE  items \in Seq(Contents) /\ ContentText(items) = <<>>
<1>1. CASE items = <<>>
  BY <1>1, ContentEmpty
<1>2. CASE items = <<Tool>>
  <2>1. ContentText(<<Tool>>) = <<>>  BY ToolText, ContentOne, AllTexted
  <2> QED  BY <1>2, <2>1, ToolText
<1> QED  BY <1>1, <1>2

\* The pieces said and the open block, as sequences of several sets.
LEMMA SaidType ==
  ASSUME Typed
  PROVE  /\ said \in Nat /\ block \in Seq(1 .. said) /\ block \in Seq(Nat)
         /\ block \in Seq(1 .. said + 1) /\ <<said + 1>> \in Seq(1 .. said + 1)
         /\ <<said + 1>> \in Seq(Nat) /\ unannounced \in BOOLEAN
<1>1. said \in Nat /\ block \in Seq(1 .. said) /\ unannounced \in BOOLEAN  BY DEF Typed, TypeOK
<1>2. 1 .. said \subseteq Nat /\ 1 .. said \subseteq 1 .. said + 1 /\ said + 1 \in 1 .. said + 1  BY <1>1
<1>3. block \in Seq(Nat) /\ block \in Seq(1 .. said + 1)  BY <1>1, <1>2, SeqMonotonic
<1> QED  BY <1>1, <1>2, <1>3

\* A delta with text says one piece, and shows it.
LEMMA TextDeltaTold ==
  ASSUME Typed, TextDelta
  PROVE  \E ev : Told(ev)
<1> DEFINE ev == StreamEvent(<<said + 1>>)
<1>1. /\ stage = "talking" /\ said' = said + 1 /\ block' = Append(block, said + 1)
      /\ Receive(ev) /\ stage' = stage /\ unannounced' = unannounced
  BY DEF TextDelta
<1>2. ev.type = "stream_event" /\ ev.text = <<said + 1>> /\ ev \in Events
  BY SaidType DEF StreamEvent, Events
<1> HIDE DEF ev
<1>3. Fresh = <<said + 1>>  BY <1>1, SaidType DEF Fresh
<1>4. Shown(tr, ev) = <<said + 1>> /\ Spoken(ev) = <<>>  BY <1>2 DEF Shown, Spoken
<1>5. PartialTextSeen(tr, ev)
  <2>1. <<said + 1>> # <<>>  OBVIOUS
  <2> QED  BY <1>2, <2>1 DEF PartialTextSeen
<1>6. block' \in Seq(1 .. said')  BY <1>1, SaidType
<1>7. <<>> \o block' = block \o <<said + 1>>  BY <1>1, SaidType
<1>8. <<>> \in Seq(1 .. said')  OBVIOUS
<1> QED  BY <1>1, <1>2, <1>3, <1>4, <1>5, <1>6, <1>7, <1>8, SaidType, Zenon DEF Told

\* A complete block repeats its deltas: it says nothing new.  If one of them was
\* shown nothing of it is; if none of them parsed (Seen), all of it may be.
LEMMA BlockCompleteTold ==
  ASSUME Typed, Seen, NEW items \in {<<>>, <<Tool>>}, BlockComplete(items)
  PROVE  \E ev : Told(ev)
<1> DEFINE ev == Assistant(<<Item("text", block)>> \o items)
<1>1. /\ stage = "talking" /\ block # <<>> /\ block' = <<>> /\ said' = said
      /\ Receive(ev) /\ stage' = stage /\ unannounced' = unannounced
  BY DEF BlockComplete
<1> DEFINE b == <<Item("text", block)>>
<1>2. b \in Seq(Contents) /\ ContentText(b) = block
  <2>1. Item("text", block) \in Contents /\ TextOf(Item("text", block)) = block
    BY SaidType, ItemText
  <2> QED  BY <2>1, ContentOne, AllTexted
<1>3. items \in Seq(Contents) /\ ContentText(items) = <<>>  BY ToolsText
<1>4. ev = Assistant(b \o items)  OBVIOUS
<1> HIDE DEF b, ev
<1>5. b \o items \in Seq(Contents)  BY <1>2, <1>3
<1>6. ContentText(b \o items) = block
  <2>1. ContentText(b \o items) = block \o <<>>  BY <1>2, <1>3, ContentConcat, AllTexted
  <2> QED  BY <2>1, SaidType
<1>7. ev.type = "assistant" /\ ev.content = b \o items /\ ev \in Events
  BY <1>4, <1>5 DEF Assistant, Events
<1>8. Spoken(ev) = block  BY <1>6, <1>7 DEF Spoken
<1>9. Fresh = <<>>  BY <1>1 DEF Fresh
<1>10. \/ Shown(tr, ev) = Fresh
       \/ Shown(tr, ev) = block /\ ~tr.partialTextSeen /\ Has(events, "stream_error")
  <2>1. CASE tr.partialTextSeen
    BY <1>7, <1>9, <2>1 DEF Shown
  <2>2. CASE ~tr.partialTextSeen
    <3>1. Shown(tr, ev) = block  BY <1>6, <1>7, <2>2 DEF Shown
    <3>2. Has(events, "stream_error")  BY <1>1, <2>2 DEF Seen
    <3> QED  BY <2>2, <3>1, <3>2
  <2> QED  BY <2>1, <2>2
<1>11. <<>> \in Seq(1 .. said') /\ block \in Seq(1 .. said')  BY <1>1, SaidType
<1>12. Spoken(ev) \o block' = block \o Fresh  BY <1>1, <1>8, <1>9
<1> QED  BY <1>1, <1>7, <1>8, <1>10, <1>11, <1>12, SaidType, Zenon DEF Told

\* A block without deltas says one piece: it is shown, or it is unannounced.
LEMMA BlockWholeTold ==
  ASSUME Typed, Seen, NEW items \in {<<>>, <<Tool>>}, BlockWhole(items)
  PROVE  \E ev : Told(ev)
<1> DEFINE a == Item("text", <<said + 1>>)
           b == Item("text", <<>>)
           ev == Assistant(items \o <<a, b>>)
           other == \E e \in ToSet(events) : e.type = "stream_event" /\ e.text # <<>>
<1>1. /\ stage = "talking" /\ block = <<>> /\ block' = block /\ said' = said + 1
      /\ Receive(ev) /\ stage' = stage /\ unannounced' = (unannounced \/ other)
  BY DEF BlockWhole
<1>2. /\ a \in Contents /\ TextOf(a) = <<said + 1>>
      /\ b \in Contents /\ TextOf(b) = <<>>
  <2>1. <<>> \in Seq(Nat) /\ <<said + 1>> \in Seq(Nat)  BY SaidType
  <2> HIDE DEF TextOf
  <2> QED  BY <2>1, ItemText
<1>3. ev = Assistant(items \o <<a, b>>)  OBVIOUS
<1>4. tr.partialTextSeen => other
  <2>1. events \in Seq(Events)  BY DEF Typed
  <2> QED  BY <2>1 DEF Seen, ToSet
<1> HIDE DEF a, b, ev, other, TextOf
<1>5. <<a, b>> \in Seq(Contents) /\ ContentText(<<a, b>>) = <<said + 1>>
  <2>1. /\ <<a, b>> = Append(<<a>>, b)
        /\ <<a>> \in Seq(Contents) /\ <<a, b>> \in Seq(Contents)
    BY <1>2
  <2>2. ContentText(Append(<<a>>, b)) = ContentText(<<a>>) \o TextOf(b)
    BY <1>2, <2>1, ContentAppend, AllTexted
  <2>3. ContentText(<<a>>) = <<said + 1>>  BY <1>2, ContentOne, AllTexted
  <2>4. <<said + 1>> \o <<>> = <<said + 1>>  BY SaidType
  <2> QED  BY <1>2, <2>1, <2>2, <2>3, <2>4, Zenon
<1>6. items \in Seq(Contents) /\ ContentText(items) = <<>>  BY ToolsText
<1> DEFINE c == <<a, b>>
<1>7. c \in Seq(Contents) /\ ContentText(c) = <<said + 1>>  BY <1>5
<1> HIDE DEF c
<1>8. items \o c \in Seq(Contents)  BY <1>6, <1>7
<1>9. ContentText(items \o c) = <<said + 1>>
  <2>1. ContentText(items \o c) = <<>> \o <<said + 1>>  BY <1>6, <1>7, ContentConcat, AllTexted, SMTT(40)
  <2> QED  BY <2>1, SaidType
<1>10. ev.type = "assistant" /\ ev.content = items \o c /\ ev \in Events
  BY <1>3, <1>8 DEF Assistant, Events, c
<1>11. Spoken(ev) = <<said + 1>>  BY <1>9, <1>10 DEF Spoken
<1>12. Shown(tr, ev) = <<said + 1>> \/ (other /\ Shown(tr, ev) = <<>>)
  BY <1>4, <1>9, <1>10 DEF Shown
<1>13. Fresh = <<said + 1>>  BY <1>1, SaidType DEF Fresh
<1>14. <<said + 1>> \o block' = block \o Fresh  BY <1>1, <1>13, SaidType
<1>15. unannounced' \in BOOLEAN /\ (other => unannounced') /\ (unannounced => unannounced')
  BY <1>1, SaidType DEF other
<1>16. Spoken(ev) \in Seq(1 .. said') /\ block' \in Seq(1 .. said')  BY <1>1, <1>11, SaidType
<1> QED  BY <1>1, <1>10, <1>11, <1>12, <1>13, <1>14, <1>15, <1>16, SaidType, Zenon DEF Told

\* A line that does not parse may say a piece, of which nothing is shown.
LEMMA MalformedTold ==
  ASSUME Typed, Malformed
  PROVE  Told(StreamError)
<1> DEFINE ev == StreamError
<1>1. /\ stage = "talking" /\ stage' = stage /\ unannounced' = unannounced /\ Receive(ev)
      /\ \/ said' = said + 1 /\ block' = Append(block, said + 1)
         \/ said' = said + 1 /\ block = <<>> /\ block' = block
         \/ said' = said /\ block' \in {block, <<>>}
  BY DEF Malformed
<1>2. ev \in Events /\ ev.type = "stream_error"  BY DEF StreamError, Events
<1> HIDE DEF ev
<1>3. Spoken(ev) = <<>> /\ Shown(tr, ev) = <<>>  BY <1>2 DEF Spoken, Shown
<1>4. block' \in Seq(1 .. said') /\ said' \in {said, said + 1}
  <2>1. Append(block, said + 1) \in Seq(1 .. said + 1) /\ <<>> \in Seq(1 .. said)  BY SaidType
  <2> QED  BY <1>1, <2>1, SaidType
<1>5. block' = <<>> \/ block' \in {block, block \o Fresh}
  <2>1. CASE said' = said + 1 /\ block' = Append(block, said + 1)
    <3>1. Fresh = <<said + 1>>  BY <2>1, SaidType DEF Fresh
    <3>2. Append(block, said + 1) = block \o <<said + 1>>  BY SaidType
    <3> QED  BY <2>1, <3>1, <3>2
  <2>2. CASE block' \in {block, <<>>}
    BY <2>2
  <2> QED  BY <1>1, <2>1, <2>2
<1>6. <<>> \in Seq(1 .. said')  OBVIOUS
<1> QED  BY <1>1, <1>2, <1>3, <1>4, <1>5, <1>6, SaidType, Zenon DEF Told, ev

\* A step of claude sends an event, or is its quiet exit.
LEMMA ClaudeTells ==
  ASSUME Typed, Seen, Claude
  PROVE  ExitSucceeds \/ \E ev : Told(ev)
<1>0. stage \in {"talking", "finished", "exiting", "ended"}  BY DEF Typed, TypeOK
<1>1. CASE TextDelta
  BY <1>1, TextDeltaTold
<1>2. CASE OtherDelta
  <2> DEFINE ev == StreamEvent(<<>>)
  <2>1. stage = "talking" /\ Receive(ev) /\ UNCHANGED <<stage, said, block, unannounced>>
    BY <1>2 DEF OtherDelta, claudeVars
  <2>2. ev \in Events /\ ev.type = "stream_event" /\ ev.text = <<>>
    <3>1. <<>> \in Seq(Nat)  OBVIOUS
    <3> QED  BY <3>1 DEF StreamEvent, Events
  <2> HIDE DEF ev
  <2>3. Spoken(ev) = <<>>  BY <2>2 DEF Spoken
  <2>4. Told(ev)  BY <2>1, <2>2, <2>3, Wordless
  <2> QED  BY <2>4
<1>3. CASE \E items \in {<<>>, <<Tool>>} : BlockComplete(items) \/ BlockWhole(items)
  BY <1>3, BlockCompleteTold, BlockWholeTold
<1>4. CASE WithoutText(<<Item("thinking", <<0>>), Item("thinking", <<>>), Tool, Tool>>)
  <2> DEFINE items == <<Item("thinking", <<0>>), Item("thinking", <<>>), Tool, Tool>>
             ev == Assistant(items)
  <2>1. stage = "talking" /\ Receive(ev) /\ UNCHANGED <<stage, said, block, unannounced>>
    BY <1>4 DEF WithoutText, claudeVars
  <2>2. items \in Seq(Contents) /\ \A i \in 1 .. Len(items) : items[i].kind # "text"
    <3> DEFINE a == Item("thinking", <<0>>)  b == Item("thinking", <<>>)
    <3>1. a \in Contents /\ b \in Contents /\ Tool \in Contents
      <4>1. <<0>> \in Seq(Nat) /\ <<>> \in Seq(Nat)  OBVIOUS
      <4> QED  BY <4>1, ToolText DEF Item, Contents
    <3>2. a.kind # "text" /\ b.kind # "text" /\ Tool.kind # "text"  BY DEF Item, Tool
    <3>3. items = <<a, b, Tool, Tool>>  OBVIOUS
    <3> HIDE DEF a, b, items
    <3> QED  BY <3>1, <3>2, <3>3
  <2>3. ContentText(items) = <<>>
    <3> HIDE DEF items
    <3> QED  BY <2>2, NoText, AllTexted
  <2> HIDE DEF items
  <2>4. ev.type = "assistant" /\ ev.content = items /\ ev \in Events
    BY <2>2 DEF Assistant, Events
  <2> HIDE DEF ev
  <2>5. Spoken(ev) = <<>>  BY <2>3, <2>4 DEF Spoken
  <2>6. Told(ev)  BY <2>1, <2>4, <2>5, Wordless
  <2> QED  BY <2>6
<1>5. CASE ToolResult
  <2> DEFINE ev == User(2)
  <2>1. stage = "talking" /\ Receive(ev) /\ UNCHANGED <<stage, said, block, unannounced>>
    BY <1>5 DEF ToolResult, claudeVars
  <2>2. ev \in Events /\ ev.type = "user"  BY DEF User, Events
  <2> HIDE DEF ev
  <2>3. Spoken(ev) = <<>>  BY <2>2 DEF Spoken
  <2>4. Told(ev)  BY <2>1, <2>2, <2>3, Wordless
  <2> QED  BY <2>4
<1>6. CASE OtherEvent
  <2>1. stage = "talking" /\ Receive(Other) /\ UNCHANGED <<stage, said, block, unannounced>>
    BY <1>6 DEF OtherEvent, claudeVars
  <2>2. Other \in Events /\ Other.type = "other"  BY DEF Other, Events
  <2>3. Spoken(Other) = <<>>  BY <2>2 DEF Spoken
  <2>4. Told(Other)  BY <2>1, <2>2, <2>3, Wordless
  <2> QED  BY <2>4
<1>7. CASE Finished
  <2>1. PICK stop \in StopReasons, usage \in BOOLEAN : Receive(Result(stop, usage, Summary))
    BY <1>7 DEF Finished
  <2> DEFINE ev == Result(stop, usage, Summary)
  <2>2. stage = "talking" /\ Receive(ev) /\ stage' = "finished" /\ UNCHANGED <<said, block, unannounced>>
    BY <1>7, <2>1 DEF Finished
  <2>3. ev \in Events /\ ev.type = "result"  BY DEF Result, Events
  <2> HIDE DEF ev
  <2>4. Spoken(ev) = <<>>  BY <2>3 DEF Spoken
  <2>5. Told(ev)  BY <2>2, <2>3, <2>4, Wordless
  <2> QED  BY <2>5
<1>8. StreamError \in Events /\ StreamError.type = "stream_error" /\ Spoken(StreamError) = <<>>
  BY DEF StreamError, Events, Spoken
<1>9. CASE Malformed
  BY <1>9, MalformedTold
<1>10. CASE ReadFails
  <2>1. /\ Receive(StreamError) /\ stage' = "exiting" /\ UNCHANGED <<said, block, unannounced>>
    BY <1>10 DEF ReadFails
  <2>2. Told(StreamError)  BY <1>8, <2>1, Wordless
  <2> QED  BY <2>2
<1>11. CASE ExitFails
  <2>1. /\ Receive(StreamError) /\ stage' = "ended" /\ UNCHANGED <<said, block, unannounced>>
    BY <1>11 DEF ExitFails
  <2>2. Told(StreamError)  BY <1>8, <2>1, Wordless
  <2> QED  BY <2>2
<1> QED  BY <1>1, <1>2, <1>3, <1>4, <1>5, <1>6, <1>7, <1>9, <1>10, <1>11 DEF Claude

\* The other steps.
Quiet ==
  /\ UNCHANGED <<tr, events, out, said, block, unannounced>>
  /\ at' = at \/ (at = "streaming" /\ at' \in {"left", "done"})
  /\ stage' = stage \/ stage' = "ended"

\* Every step of the specification.
LEMMA Steps ==
  ASSUME Typed, Seen, [Next]_vars
  PROVE  Quiet \/ \E ev : Told(ev)
<1>1. CASE Claude
  <2>1. ExitSucceeds => Quiet  BY DEF ExitSucceeds, Quiet
  <2> QED  BY <1>1, <2>1, ClaudeTells
<1>2. CASE Disconnect
  BY <1>2 DEF Disconnect, Quiet, claudeVars
<1>3. CASE ChannelClosed
  BY <1>3 DEF ChannelClosed, Quiet, claudeVars
<1>4. CASE UNCHANGED vars
  BY <1>4 DEF vars, Quiet, claudeVars
<1> QED  BY <1>1, <1>2, <1>3, <1>4 DEF Next, Over

-----------------------------------------------------------------------------
(* Every part of the invariant is kept.                                    *)

\* The part of TypeOK about chunks, of any sequence of them.
LEMMA ChunksTyped ==
  ASSUME NEW s \in Seq(Chunks), NEW c \in ToSet(s)
  PROVE  IF c.kind = "end" THEN c.finish \in {"stop", "length", "tool_calls", "error"}
                           ELSE c.finish = "none" /\ ~c.usage
<1>1. c \in Chunks  BY DEF ToSet
<1> QED  BY <1>1 DEF Chunks, Bodied, Terminal

\* The types at the start.
LEMMA TypedInit ==
  ASSUME Init
  PROVE  Typed
<1>1. events = <<>> /\ out = <<>> /\ block = <<>> /\ said = 0 /\ at = "streaming"
      /\ stage = "talking" /\ unannounced = FALSE
  BY DEF Init
<1>2. events \in Seq(Events) /\ out \in Seq(Chunks) /\ block \in Seq(1 .. said) /\ ToSet(out) = {}
  BY <1>1 DEF ToSet
<1>3. tr \in [verbosity : Verbosities, roleEmitted : BOOLEAN, partialTextSeen : BOOLEAN,
              toolCallIndex : Nat]
  <2>1. /\ tr = [verbosity |-> tr.verbosity, roleEmitted |-> tr.roleEmitted,
                 partialTextSeen |-> tr.partialTextSeen, toolCallIndex |-> tr.toolCallIndex]
        /\ tr.verbosity \in Verbosities /\ tr.roleEmitted = FALSE
        /\ tr.partialTextSeen = FALSE /\ tr.toolCallIndex = 0
    BY DEF Init
  <2>2. PICK v \in Verbosities :
          tr = [verbosity |-> v, roleEmitted |-> FALSE, partialTextSeen |-> FALSE, toolCallIndex |-> 0]
    BY <2>1
  <2> QED  BY <2>2
<1>4. Len(events) <= MaxEvents  BY <1>1, TranslateAssumption
<1> QED  BY <1>1, <1>2, <1>3, <1>4 DEF Typed, TypeOK

\* Every step keeps the types.
LEMMA TypedStep ==
  ASSUME Typed, Quiet \/ \E ev : Told(ev)
  PROVE  Typed'
<1>1. CASE Quiet
  <2>1. at' \in {"streaming", "left", "done"} /\ stage' \in {"talking", "finished", "exiting", "ended"}
    BY <1>1 DEF Quiet, Typed, TypeOK
  <2>2. UNCHANGED <<tr, events, out, said, block, unannounced>>  BY <1>1 DEF Quiet
  <2> QED  BY <2>1, <2>2 DEF Typed, TypeOK
<1>2. ASSUME NEW ev, Told(ev)  PROVE Typed'
  <2>1. ev \in Events /\ Receive(ev)  BY <1>2 DEF Told
  <2>2. /\ at' \in {"streaming", "left"} /\ events' \in Seq(Events) /\ Len(events') <= MaxEvents
        /\ tr' \in Translators /\ out' \in Seq(Chunks)
    BY <2>1, Received
  <2>3. /\ block' \in Seq(1 .. said') /\ unannounced' \in BOOLEAN
        /\ stage' \in {"talking", "finished", "exiting", "ended"} /\ said' \in Nat
    BY <1>2, SaidType DEF Told
  <2>4. \A c \in ToSet(out') :
          IF c.kind = "end" THEN c.finish \in {"stop", "length", "tool_calls", "error"}
                            ELSE c.finish = "none" /\ ~c.usage
    BY <2>2, ChunksTyped
  <2> QED  BY <2>2, <2>3, <2>4 DEF Typed, TypeOK, Translators
<1> QED  BY <1>1, <1>2

\* One more event.
LEMMA SetAppend ==
  ASSUME NEW evs \in Seq(Events), NEW ev \in Events
  PROVE  /\ ToSet(Append(evs, ev)) = ToSet(evs) \cup {ev}
         /\ \A type : Has(Append(evs, ev), type) <=> Has(evs, type) \/ ev.type = type
<1>1. Append(evs, ev) = evs \o <<ev>> /\ <<ev>> \in Seq(Events)  OBVIOUS
<1>2. ToSet(evs \o <<ev>>) = ToSet(evs) \cup ToSet(<<ev>>)  BY <1>1, SetOfConcat, ZenonT(40)
<1>3. ToSet(Append(evs, ev)) = ToSet(evs) \cup {ev}  BY <1>1, <1>2, SetOfOne
<1> QED  BY <1>3 DEF Has

\* PartialTextSeen is set by the deltas with text, and by nothing else.
LEMMA SeenStep ==
  ASSUME Typed, Seen, Quiet \/ \E ev : Told(ev)
  PROVE  Seen'
<1>1. CASE Quiet
  BY <1>1 DEF Quiet, Seen
<1>2. ASSUME NEW ev, Told(ev)  PROVE Seen'
  <2>1. ev \in Events /\ Receive(ev)  BY <1>2 DEF Told
  <2>2. events \in Seq(Events) /\ events' = Append(events, ev) /\ tr' = Translated(tr, ev)
    BY <2>1, Received DEF Typed
  <2>3. tr'.partialTextSeen = PartialTextSeen(tr, ev)  BY <2>2 DEF Translated
  <2>4. /\ Len(events') = Len(events) + 1 /\ events'[Len(events) + 1] = ev
        /\ \A i \in 1 .. Len(events) : events'[i] = events[i]
    BY <2>2
  <2> DEFINE Text(e) == e.type = "stream_event" /\ e.text # <<>>
  <2>5. (\E i \in 1 .. Len(events') : Text(events'[i]))
          <=> ((\E i \in 1 .. Len(events) : Text(events[i])) \/ Text(ev))
    <3>1. Len(events) \in Nat  BY <2>2
    <3> HIDE DEF Text
    <3> QED  BY <2>4, <3>1
  <2>6. block' # <<>> => PartialTextSeen(tr, ev) \/ Has(events', "stream_error")
    BY <1>2, <2>1, <2>2, SetAppend DEF Told
  <2> QED  BY <2>3, <2>5, <2>6 DEF Seen, PartialTextSeen
<1> QED  BY <1>1, <1>2

\* The pieces in order, and the next.
LEMMA PiecesNext ==
  ASSUME NEW n \in Nat
  PROVE  Pieces(n) \in Seq(1 .. n) /\ Pieces(n) \o <<n + 1>> = Pieces(n + 1)
<1>1. Pieces(n) \in Seq(1 .. n) /\ Len(Pieces(n)) = n /\ \A i \in 1 .. n : Pieces(n)[i] = i
  BY DEF Pieces
<1>2. Pieces(n + 1) \in Seq(Nat) /\ Len(Pieces(n + 1)) = n + 1
      /\ \A i \in 1 .. n + 1 : Pieces(n + 1)[i] = i
  BY DEF Pieces
<1>3. Pieces(n) \in Seq(Nat)  BY DEF Pieces
<1> DEFINE s == Pieces(n) \o <<n + 1>>
<1>4. s \in Seq(Nat) /\ Len(s) = n + 1  BY <1>1, <1>3
<1>5. ASSUME NEW i \in 1 .. n + 1  PROVE s[i] = i
  <2>1. CASE i = n + 1
    BY <1>1, <1>3, <2>1
  <2>2. CASE i # n + 1
    BY <1>1, <1>3, <2>2
  <2> QED  BY <2>1, <2>2
<1> HIDE DEF s
<1>6. s = Pieces(n + 1)  BY <1>2, <1>4, <1>5, SeqEqual
<1> QED  BY <1>1, <1>6 DEF s

\* The beginning of a sequence in order is in order, and of the same type.
LEMMA IncreasingPrefix ==
  ASSUME NEW p \in Seq(Nat), NEW q \in Seq(Nat), NEW n \in Nat,
         p \o q \in Seq(1 .. n), Increasing(p \o q)
  PROVE  p \in Seq(1 .. n) /\ Increasing(p)
<1> DEFINE z == p \o q
<1>1. /\ Len(z) = Len(p) + Len(q) /\ Len(p) \in Nat /\ Len(q) \in Nat
      /\ \A i \in 1 .. Len(p) : z[i] = p[i]
  OBVIOUS
<1>2. \A i \in 1 .. Len(z) : z[i] \in 1 .. n  BY ElementOfSeq
<1>3. \A i, j \in 1 .. Len(z) : i < j => z[i] < z[j]  BY DEF Increasing
<1> HIDE DEF z
<1>4. \A i \in 1 .. Len(p) : i \in 1 .. Len(z)  BY <1>1
<1>5. \A i \in 1 .. Len(p) : p[i] \in 1 .. n  BY <1>1, <1>2, <1>4
<1>6. p \in Seq(1 .. n)  BY <1>5
<1>7. Increasing(p)  BY <1>1, <1>3, <1>4 DEF Increasing
<1> QED  BY <1>6, <1>7

\* The next piece fits behind pieces in order.
LEMMA IncreasingNext ==
  ASSUME NEW n \in Nat, NEW s \in Seq(1 .. n), Increasing(s)
  PROVE  s \o <<n + 1>> \in Seq(1 .. n + 1) /\ Increasing(s \o <<n + 1>>)
<1> DEFINE z == s \o <<n + 1>>
<1>1. /\ z \in Seq(1 .. n + 1) /\ Len(z) = Len(s) + 1 /\ z[Len(s) + 1] = n + 1
      /\ \A i \in 1 .. Len(s) : z[i] = s[i] /\ s[i] \in 1 .. n
  <2>1. s \in Seq(1 .. n + 1) /\ <<n + 1>> \in Seq(1 .. n + 1)
    <3>1. 1 .. n \subseteq 1 .. n + 1  OBVIOUS
    <3> QED  BY <3>1, SeqMonotonic
  <2>2. z \in Seq(1 .. n + 1) /\ Len(z) = Len(s) + 1  BY <2>1
  <2>3. z[Len(s) + 1] = n + 1  BY <2>1
  <2>4. \A i \in 1 .. Len(s) : z[i] = s[i]  BY <2>1
  <2>5. \A i \in 1 .. Len(s) : s[i] \in 1 .. n  BY ElementOfSeq
  <2> QED  BY <2>2, <2>3, <2>4, <2>5
<1> HIDE DEF z
<1>2. ASSUME NEW i \in 1 .. Len(z), NEW j \in 1 .. Len(z), i < j  PROVE z[i] < z[j]
  <2>1. Len(s) \in Nat  OBVIOUS
  <2>2. i \in 1 .. Len(s) /\ z[i] = s[i] /\ s[i] \in 1 .. n  BY <1>1, <1>2, <2>1
  <2>3. CASE j = Len(s) + 1
    BY <1>1, <2>2, <2>3
  <2>4. CASE j # Len(s) + 1
    <3>1. j \in 1 .. Len(s) /\ z[j] = s[j]  BY <1>1, <2>1, <2>4
    <3> QED  BY <1>2, <2>2, <3>1 DEF Increasing
  <2> QED  BY <2>3, <2>4
<1>3. z \in Seq(1 .. n + 1) /\ Increasing(z)  BY <1>1, <1>2 DEF Increasing
<1> QED  BY <1>3 DEF z

\* What is said in a step.
LEMMA FreshIs ==
  ASSUME Typed, said' \in {said, said + 1}
  PROVE  /\ (Fresh = <<>> /\ said' = said) \/ (Fresh = <<said + 1>> /\ said' = said + 1)
         /\ 1 .. said \subseteq 1 .. said' /\ 1 .. said \subseteq Nat /\ said' \in Nat
         /\ Fresh \in Seq(Nat)
<1>1. said \in Nat  BY SaidType
<1>2. (Fresh = <<>> /\ said' = said) \/ (Fresh = <<said + 1>> /\ said' = said + 1)
  BY <1>1 DEF Fresh
<1>3. Fresh \in Seq(Nat)
  <2>1. <<>> \in Seq(Nat) /\ <<said + 1>> \in Seq(Nat)  BY SaidType
  <2> QED  BY <1>2, <2>1
<1> QED  BY <1>1, <1>2, <1>3

\* What is said fits behind the pieces said before.
LEMMA PiecesFresh ==
  ASSUME Typed, said' \in {said, said + 1}
  PROVE  Pieces(said) \o Fresh = Pieces(said')
<1>1. said \in Nat  BY SaidType
<1>2. CASE Fresh = <<>> /\ said' = said
  <2>1. Pieces(said) \o <<>> = Pieces(said)  BY <1>1, PiecesNext, ConcatEmptySeq
  <2> QED  BY <1>2, <2>1
<1>3. CASE Fresh = <<said + 1>> /\ said' = said + 1
  <2>1. Pieces(said) \o <<said + 1>> = Pieces(said + 1)  BY <1>1, PiecesNext
  <2> QED  BY <1>3, <2>1
<1> QED  BY <1>2, <1>3, FreshIs

\* So does what is said in a step.
LEMMA IncreasingFresh ==
  ASSUME Typed, said' \in {said, said + 1}, NEW s \in Seq(1 .. said), Increasing(s)
  PROVE  s \o Fresh \in Seq(1 .. said') /\ Increasing(s \o Fresh)
<1>1. said \in Nat  BY SaidType
<1>2. CASE Fresh = <<>> /\ said' = said
  <2>1. s \o <<>> = s  BY ConcatEmptySeq
  <2> QED  BY <1>2, <2>1
<1>3. CASE Fresh = <<said + 1>> /\ said' = said + 1
  <2>1. s \o <<said + 1>> \in Seq(1 .. said + 1) /\ Increasing(s \o <<said + 1>>)
    BY <1>1, IncreasingNext
  <2> QED  BY <1>3, <2>1
<1> QED  BY <1>2, <1>3, FreshIs

\* What is streamed stays in order, and complete while the client stays and
\* there is no error.
LEMMA StreamedStep ==
  ASSUME Typed, Streamed, Quiet \/ \E ev : Told(ev)
  PROVE  Streamed'
<1>1. CASE Quiet
  <2>1. /\ StreamedText' = StreamedText /\ said' = said /\ unannounced' = unannounced
        /\ tr' = tr /\ block' = block /\ events' = events
    BY <1>1 DEF Quiet, StreamedText
  <2>2. at = "left" => at' = "left"  BY <1>1 DEF Quiet
  <2> QED  BY <2>1, <2>2 DEF Streamed
<1>2. ASSUME NEW ev, Told(ev)  PROVE Streamed'
  <2> DEFINE s == StreamedText
             sh == Shown(tr, ev)
  <2>1. ev \in Events /\ Receive(ev)  BY <1>2 DEF Told
  <2>2. PICK p \in Seq(Nat), q \in Seq(Nat) : sh = p \o q /\ StreamedText' = s \o p
    BY <2>1, Received
  <2>3. /\ said' \in {said, said + 1} /\ (unannounced => unannounced')
        /\ block' \in Seq(1 .. said')
    BY <1>2 DEF Told
  <2>4. /\ said \in Nat /\ s \in Seq(1 .. said) /\ Increasing(s)
        /\ s \in Seq(Nat) /\ s \in Seq(1 .. said') /\ s \o <<>> = s
        /\ 1 .. said \subseteq 1 .. said' /\ said' \in Nat
    <3>1. said \in Nat /\ s \in Seq(1 .. said) /\ Increasing(s)  BY SaidType DEF Streamed
    <3>2. 1 .. said \subseteq 1 .. said' /\ 1 .. said \subseteq Nat /\ said' \in Nat  BY <2>3, FreshIs
    <3>3. s \o <<>> = s  BY <3>1, ConcatEmptySeq
    <3> HIDE DEF s
    <3> QED  BY <3>1, <3>2, <3>3, SeqMonotonic
  <2>5. /\ block \in Seq(1 .. said) /\ block \in Seq(Nat)
        /\ ~tr.partialTextSeen => Increasing(s \o block)
    BY SaidType DEF Streamed
  <2>6. /\ tr'.partialTextSeen = PartialTextSeen(tr, ev) /\ (tr.partialTextSeen => PartialTextSeen(tr, ev))
        /\ at = "streaming"
        /\ (Has(events, "stream_error") \/ ev.type = "stream_error") => Has(events', "stream_error")
    <3>1. tr' = Translated(tr, ev) /\ events' = Append(events, ev) /\ at = "streaming"  BY <2>1, Received
    <3>2. events \in Seq(Events)  BY DEF Typed
    <3> QED  BY <2>1, <3>1, <3>2, SetAppend DEF Translated, PartialTextSeen
  <2> HIDE DEF s, sh
  <2>7. s \o sh \in Seq(1 .. said') /\ Increasing(s \o sh)
    <3>1. CASE sh = Fresh
      BY <2>3, <2>4, <3>1, IncreasingFresh
    <3>2. CASE sh = <<>>
      BY <2>4, <3>2
    <3>3. CASE sh = block /\ ~tr.partialTextSeen
      <4>1. block \in Seq(1 .. said')  BY <2>4, <2>5, SeqMonotonic
      <4> QED  BY <2>4, <2>5, <3>3, <4>1
    <3> QED  BY <1>2, <3>1, <3>2, <3>3 DEF Told, sh
  <2>8. StreamedText' \in Seq(1 .. said') /\ Increasing(StreamedText')
    <3> DEFINE z == s \o p
    <3>1. s \o (p \o q) = z \o q /\ z \in Seq(Nat)
      <4>1. \A a, b, c \in Seq(Nat) : (a \o b) \o c = a \o (b \o c)  BY ConcatAssociative, SMTT(40)
      <4>2. (s \o p) \o q = s \o (p \o q)  BY <2>4, <4>1, Zenon
      <4> QED  BY <2>4, <4>2
    <3> HIDE DEF z
    <3>2. z \o q \in Seq(1 .. said') /\ Increasing(z \o q)  BY <2>2, <2>7, <3>1
    <3>3. z \in Seq(1 .. said') /\ Increasing(z)  BY <2>4, <3>1, <3>2, IncreasingPrefix
    <3> QED  BY <2>2, <3>3 DEF z
  <2>9. ASSUME ~PartialTextSeen(tr, ev)  PROVE Increasing(StreamedText' \o block')
    <3>1. block' = <<>> \/ (sh = <<>> /\ block' \in {block, block \o Fresh})
      BY <1>2, <2>9 DEF Told, sh
    <3>2. CASE block' = <<>>
      <4>1. StreamedText' \o <<>> = StreamedText'  BY <2>8, ConcatEmptySeq
      <4> QED  BY <2>8, <3>2, <4>1
    <3>3. CASE sh = <<>> /\ block' \in {block, block \o Fresh}
      <4>1. p = <<>>
        <5>1. Len(p \o q) = Len(p) + Len(q) /\ Len(p) \in Nat /\ Len(q) \in Nat  OBVIOUS
        <5>2. Len(p \o q) = 0  BY <2>2, <3>3
        <5>3. Len(p) = 0  BY <5>1, <5>2
        <5> QED  BY <5>3
      <4>2. StreamedText' = s  BY <2>2, <2>4, <4>1
      <4> DEFINE z == s \o block
      <4>3. z \in Seq(1 .. said) /\ Increasing(z)  BY <2>4, <2>5, <2>6, <2>9
      <4>4. s \o (block \o Fresh) = z \o Fresh
        <5>1. \A a, b, c \in Seq(Nat) : (a \o b) \o c = a \o (b \o c)  BY ConcatAssociative, SMTT(40)
        <5>2. Fresh \in Seq(Nat)  BY <2>3, FreshIs
        <5> QED  BY <2>4, <2>5, <5>1, <5>2, ZenonT(40)
      <4> HIDE DEF z
      <4>5. Increasing(z \o Fresh)  BY <2>3, <4>3, IncreasingFresh
      <4>6. CASE block' = block
        BY <4>2, <4>3, <4>6 DEF z
      <4>7. CASE block' = block \o Fresh
        BY <4>2, <4>4, <4>5, <4>7
      <4> QED  BY <3>3, <4>6, <4>7
    <3> QED  BY <3>1, <3>2, <3>3
  <2>10. at' = "left" \/ unannounced' \/ Has(events', "stream_error") \/ StreamedText' = Pieces(said')
    <3> SUFFICES ASSUME at' # "left", ~unannounced', ~Has(events', "stream_error")
                 PROVE StreamedText' = Pieces(said')
      OBVIOUS
    <3>1. sh = Fresh  BY <1>2, <2>6 DEF Told, sh
    <3>2. StreamedText' = s \o Fresh  BY <2>1, <3>1, Received DEF s, sh
    <3>3. s = Pieces(said)  BY <2>3, <2>6 DEF Streamed, s
    <3> QED  BY <2>3, <3>2, <3>3, PiecesFresh
  <2> QED  BY <2>6, <2>8, <2>9, <2>10 DEF Streamed
<1> QED  BY <1>1, <1>2

\* The messages and the open block add up to what is said.
LEMMA AggregatedStep ==
  ASSUME Typed, Aggregated, Quiet \/ \E ev : Told(ev)
  PROVE  Aggregated'
<1>1. CASE Quiet
  BY <1>1 DEF Quiet, Aggregated
<1>2. ASSUME NEW ev, Told(ev)  PROVE Aggregated'
  <2>1. ev \in Events /\ Receive(ev)  BY <1>2 DEF Told
  <2>2. events \in Seq(Events) /\ events' = Append(events, ev)  BY <2>1, Received DEF Typed
  <2> DEFINE g == AggregatedText(events)
             w == Spoken(ev)
             f == Fresh
             b == block
             c == block'
  <2>3. AggregatedText(events') = g \o w  BY <2>1, <2>2, AggregatedAppend
  <2>4. /\ said' \in {said, said + 1} /\ w \in Seq(1 .. said') /\ c \in Seq(1 .. said')
        /\ w \o c = b \o f \/ ev.type = "stream_error"
    BY <1>2 DEF Told
  <2>5. g \in Seq(1 .. said) /\ 1 .. said \subseteq 1 .. said' /\ said' \in Nat
    BY <2>4, FreshIs DEF Aggregated
  <2>6. AggregatedText(events') \in Seq(1 .. said')
    <3> HIDE DEF g, w
    <3>1. g \in Seq(1 .. said')  BY <2>5, SeqMonotonic
    <3> QED  BY <2>3, <2>4, <3>1
  <2>7. ASSUME ~Has(events', "stream_error")  PROVE AggregatedText(events') \o c = Pieces(said')
    <3>1. ~Has(events, "stream_error") /\ ev.type # "stream_error"  BY <2>1, <2>2, <2>7, SetAppend
    <3>2. g \o b = Pieces(said)  BY <3>1 DEF Aggregated
    <3>3. w \o c = b \o f  BY <2>4, <3>1
    <3>4. g \in Seq(Nat) /\ w \in Seq(Nat) /\ b \in Seq(Nat) /\ f \in Seq(Nat) /\ c \in Seq(Nat)
      <4>1. 1 .. said' \subseteq Nat  BY <2>5
      <4>2. c \in Seq(Nat)
        <5> HIDE DEF c
        <5> QED  BY <2>4, <4>1, SeqMonotonic
      <4> QED  BY <2>1, <2>2, <2>4, <4>2, AggregatedAppend, FreshIs, SaidType
    <3>5. (g \o w) \o c = g \o (w \o c) /\ g \o (b \o f) = (g \o b) \o f
      <4> HIDE DEF g, w, b, f, c
      <4>1. \A x, y, z \in Seq(Nat) : (x \o y) \o z = x \o (y \o z)  BY ConcatAssociative, SMTT(40)
      <4>2. g \in Seq(Nat) /\ w \in Seq(Nat) /\ c \in Seq(Nat)  BY <3>4
      <4>3. (g \o w) \o c = g \o (w \o c)  BY <4>1, <4>2, Zenon
      <4>4. b \in Seq(Nat) /\ f \in Seq(Nat)  BY <3>4
      <4>5. (g \o b) \o f = g \o (b \o f)  BY <4>1, <4>2, <4>4, ZenonT(40)
      <4> QED  BY <4>3, <4>5
    <3>6. Pieces(said) \o f = Pieces(said')  BY <2>4, PiecesFresh
    <3> HIDE DEF g, w, b, f, c
    <3> QED  BY <2>3, <3>2, <3>3, <3>5, <3>6
  <2> QED  BY <2>6, <2>7 DEF Aggregated
<1> QED  BY <1>1, <1>2

\* claude sends one result at most.
LEMMA OneResultStep ==
  ASSUME Typed, OneResult, Quiet \/ \E ev : Told(ev)
  PROVE  OneResult'
<1>1. CASE Quiet
  <2>1. events' = events /\ (stage' = "talking" => stage = "talking")
    BY <1>1 DEF Quiet
  <2> QED  BY <2>1 DEF OneResult
<1>2. ASSUME NEW ev, Told(ev)  PROVE OneResult'
  <2>1. ev \in Events /\ Receive(ev)  BY <1>2 DEF Told
  <2>2. events \in Seq(Events) /\ events' = Append(events, ev)  BY <2>1, Received DEF Typed
  <2>3. /\ stage' = "talking" => stage = "talking" /\ ev.type # "result"
        /\ ev.type = "result" => stage = "talking"
    BY <1>2 DEF Told
  <2>4. /\ ToSet(events') = ToSet(events) \cup {ev}
        /\ Has(events', "result") <=> Has(events, "result") \/ ev.type = "result"
    BY <2>1, <2>2, SetAppend
  <2>5. ev.type = "result" => \A e \in ToSet(events) : e.type # "result"
    BY <2>3 DEF OneResult, Has
  <2> QED  BY <2>3, <2>4, <2>5 DEF OneResult
<1> QED  BY <1>1, <1>2

\* The terminal chunks that a step writes are those of its event.
LEMMA EndedStep ==
  ASSUME Typed, OneResult, Ended, Quiet \/ \E ev : Told(ev)
  PROVE  Ended'
<1>1. CASE Quiet
  <2>1. /\ events' = events /\ out' = out /\ tr' = tr
        /\ at = "left" => at' = "left"
    BY <1>1 DEF Quiet
  <2> QED  BY <2>1 DEF Ended, FinishOf
<1>2. ASSUME NEW ev, Told(ev)  PROVE Ended'
  <2> SUFFICES ASSUME at' # "left"  PROVE Ended'
    BY DEF Ended
  <2>1. ev \in Events /\ Receive(ev) /\ (ev.type = "result" => stage = "talking")
    BY <1>2 DEF Told
  <2>2. /\ events \in Seq(Events) /\ events' = Append(events, ev) /\ at = "streaming"
        /\ tr \in Translators /\ tr' = Translated(tr, ev)
        /\ out \in Seq(Chunks) /\ out' = out \o EventToChunks(tr, ev)
    BY <2>1, Received DEF Typed
  <2> DEFINE n == EventToChunks(tr, ev)
             Err(C) == \E c \in C : c.finish = "error"
             Ends(c) == c.finish \notin {"none", "error"}
  <2>3. n \in Seq(Chunks)  BY <2>1, <2>2, ChunksShow
  <2>4. ToSet(out') = ToSet(out) \cup ToSet(n)
    <3> HIDE DEF n
    <3>1. ToSet(out \o n) = ToSet(out) \cup ToSet(n)  BY <2>2, <2>3, SetOfConcat
    <3>2. out' = out \o n  BY <2>2 DEF n
    <3> QED  BY <3>1, <3>2
  <2>5. /\ ToSet(events') = ToSet(events) \cup {ev}
        /\ Has(events', "stream_error") <=> Has(events, "stream_error") \/ ev.type = "stream_error"
    BY <2>1, <2>2, SetAppend
  <2>6. ASSUME NEW c, NEW e, FinishOf(c, e)  PROVE FinishOf(c, e)'
    <3>1. tr'.toolCallIndex >= tr.toolCallIndex /\ tr'.toolCallIndex \in Nat /\ tr.toolCallIndex \in Nat
      BY <2>1, <2>2, TranslatedType DEF Translated, Translators
    <3> QED  BY <2>6, <3>1 DEF FinishOf
  <2>7. /\ Err(ToSet(out)) <=> Has(events, "stream_error")
        /\ \A c \in ToSet(out) : Ends(c) =>
              \E e \in ToSet(events) : e.type = "result" /\ FinishOf(c, e)
        /\ \A c, d \in ToSet(out) : Ends(c) /\ Ends(d) => c.finish = d.finish
        /\ (\E c \in ToSet(out) : c.usage) <=> \E e \in ToSet(events) : e.type = "result" /\ e.usage
    BY <2>2 DEF Ended
  <2>8. SUFFICES
          /\ Err(ToSet(out')) <=> Has(events', "stream_error")
          /\ \A c \in ToSet(out') : Ends(c) =>
                \E e \in ToSet(events') : e.type = "result" /\ FinishOf(c, e)'
          /\ \A c, d \in ToSet(out') : Ends(c) /\ Ends(d) => c.finish = d.finish
          /\ (\E c \in ToSet(out') : c.usage)
                <=> \E e \in ToSet(events') : e.type = "result" /\ e.usage
    BY DEF Ended, FinishOf
  <2>9. CASE ev.type \in {"result", "stream_error"}
    <3> DEFINE t == TerminalChunk(tr, ev)
    <3>1. n = <<t>>  BY <2>9 DEF EventToChunks
    <3>2. ToSet(n) = {t}
      <4> HIDE DEF t, n
      <4> QED  BY <3>1, SetOfOne
    <3>3. t.finish = Finish(tr, ev) /\ t.usage = (ev.type = "result" /\ ev.usage)  BY DEF TerminalChunk
    <3>4. (t.finish = "error") <=> (ev.type = "stream_error")  BY <2>1, <2>2, <2>9, FinishType
    <3>5. t.finish # "none"  BY <2>1, <2>2, <2>9, FinishType DEF Terminal
    <3>6. ev.type = "result" => FinishOf(t, ev)
      BY <3>3, <2>2 DEF FinishOf, Finish
    <3>7. ev.type = "result" => \A c \in ToSet(out) : ~Ends(c)
      <4>1. ev.type = "result" => \A e \in ToSet(events) : e.type # "result"
        BY <2>1 DEF OneResult, Has
      <4> QED  BY <2>7, <4>1
    <3> HIDE DEF t, n
    <3>8. ToSet(out') = ToSet(out) \cup {t}  BY <2>4, <3>2
    <3>9. Err(ToSet(out')) <=> Has(events', "stream_error")  BY <2>5, <2>7, <3>4, <3>8
    <3>10. ASSUME NEW c \in ToSet(out'), Ends(c)
           PROVE  \E e \in ToSet(events') : e.type = "result" /\ FinishOf(c, e)'
      <4>1. CASE c \in ToSet(out)
        <5>1. PICK e \in ToSet(events) : e.type = "result" /\ FinishOf(c, e)  BY <2>7, <3>10, <4>1
        <5>2. FinishOf(c, e)'  BY <2>6, <5>1
        <5> QED  BY <2>5, <5>1, <5>2
      <4>2. CASE c = t
        <5>1. ev.type = "result"  BY <2>9, <3>4, <3>10, <4>2
        <5>2. FinishOf(c, ev)'  BY <2>6, <3>6, <4>2, <5>1
        <5> QED  BY <2>5, <5>1, <5>2
      <4> QED  BY <3>8, <4>1, <4>2
    <3>11. ASSUME NEW c \in ToSet(out'), NEW d \in ToSet(out'), Ends(c), Ends(d)
           PROVE  c.finish = d.finish
      <4>1. Ends(t) => ev.type = "result"  BY <2>9, <3>4
      <4> QED  BY <2>7, <3>7, <3>8, <3>11, <4>1
    <3>12. (\E c \in ToSet(out') : c.usage)
             <=> \E e \in ToSet(events') : e.type = "result" /\ e.usage
      BY <2>5, <2>7, <3>3, <3>8
    <3> QED  BY <3>9, <3>10, <3>11, <3>12
  <2>10. CASE ev.type \notin {"result", "stream_error"}
    <3>1. n \in Seq(Bodied)  BY <2>1, <2>2, <2>10, ChunksShow
    <3> HIDE DEF n
    <3>2. \A c \in ToSet(n) : c.finish = "none" /\ ~c.usage  BY <3>1, SetOfSeq, ZenonT(40) DEF Bodied
    <3>3. Err(ToSet(out')) <=> Has(events', "stream_error")  BY <2>4, <2>5, <2>7, <2>10, <3>2
    <3>4. ASSUME NEW c \in ToSet(out'), Ends(c)
          PROVE  \E e \in ToSet(events') : e.type = "result" /\ FinishOf(c, e)'
      <4>1. c \in ToSet(out)  BY <2>4, <3>2, <3>4
      <4>2. PICK e \in ToSet(events) : e.type = "result" /\ FinishOf(c, e)  BY <2>7, <3>4, <4>1
      <4>3. FinishOf(c, e)'  BY <2>6, <4>2
      <4> QED  BY <2>5, <4>2, <4>3
    <3>5. \A c, d \in ToSet(out') : Ends(c) /\ Ends(d) => c.finish = d.finish
      BY <2>4, <2>7, <3>2
    <3>6. (\E c \in ToSet(out') : c.usage)
            <=> \E e \in ToSet(events') : e.type = "result" /\ e.usage
      BY <2>4, <2>5, <2>7, <2>10, <3>2
    <3> QED  BY <3>3, <3>4, <3>5, <3>6
  <2> QED  BY <2>9, <2>10
<1> QED  BY <1>1, <1>2

\* The rest of the invariant at the start.
LEMMA RestInit ==
  ASSUME Init
  PROVE  Seen /\ Streamed /\ Aggregated /\ OneResult /\ Ended
<1>1. /\ events = <<>> /\ out = <<>> /\ block = <<>> /\ said = 0 /\ stage = "talking"
      /\ tr.partialTextSeen = FALSE
  BY DEF Init
<1>2. ToSet(events) = {} /\ ToSet(out) = {} /\ Len(events) = 0  BY <1>1 DEF ToSet
<1>3. Pieces(0) = <<>>  BY DEF Pieces
<1>4. StreamedText = <<>>  BY <1>1, ContentEmpty, Zenon DEF StreamedText
<1>5. AggregatedText(events) = <<>>  BY <1>1, AggregatedEmpty, Zenon
<1>6. Seen  BY <1>1, <1>2 DEF Seen
<1>7. Streamed
  <2>1. <<>> \o <<>> = <<>> /\ Len(<<>>) = 0 /\ <<>> \in Seq(1 .. said)  OBVIOUS
  <2>2. Increasing(<<>>)  BY <2>1 DEF Increasing
  <2> QED  BY <1>1, <1>3, <1>4, <2>1, <2>2 DEF Streamed
<1>8. Aggregated
  <2>1. <<>> \o <<>> = <<>> /\ <<>> \in Seq(1 .. said)  OBVIOUS
  <2>2. AggregatedText(events) \o block = <<>>  BY <1>1, <1>5, <2>1
  <2>3. AggregatedText(events) \in Seq(1 .. said)  BY <1>5, <2>1
  <2> QED  BY <1>1, <1>3, <2>2, <2>3 DEF Aggregated
<1>9. OneResult /\ Ended  BY <1>2 DEF OneResult, Ended, Has
<1> QED  BY <1>6, <1>7, <1>8, <1>9

\* The invariant is one: it holds at the start, and every step keeps each part.
THEOREM Invariant == Spec => []IInv
<1>1. Init => IInv  BY TypedInit, RestInit DEF IInv
<1>2. IInv /\ [Next]_vars => IInv'
  <2> SUFFICES ASSUME IInv, [Next]_vars  PROVE IInv'
    OBVIOUS
  <2>1. Typed /\ Seen /\ Streamed /\ Aggregated /\ OneResult /\ Ended  BY DEF IInv
  <2>2. Quiet \/ \E ev : Told(ev)  BY <2>1, Steps
  <2>3. Typed'  BY <2>1, <2>2, TypedStep
  <2>4. Seen'  BY <2>1, <2>2, SeenStep
  <2>5. Streamed'  BY <2>1, <2>2, StreamedStep
  <2>6. Aggregated'  BY <2>1, <2>2, AggregatedStep
  <2>7. OneResult'  BY <2>1, <2>2, OneResultStep
  <2>8. Ended'  BY <2>1, <2>2, EndedStep
  <2> QED  BY <2>3, <2>4, <2>5, <2>6, <2>7, <2>8 DEF IInv
<1> QED  BY <1>1, <1>2, PTL DEF Spec

\* The chunks that EventToChunks makes are well-formed, whatever the events.
THEOREM TypeCorrect == Spec => []TypeOK
<1>1. IInv => TypeOK  BY DEF IInv, Typed
<1> QED  BY <1>1, Invariant, PTL

\* No piece of text is written to the client twice or out of order, although
\* deltas and messages both carry it.
THEOREM TextReachesOnce == Spec => []TextOnce
<1>1. IInv => TextOnce  BY DEF IInv, Streamed, Increasing, TextOnce, IsSorted
<1> QED  BY <1>1, Invariant, PTL

\* A client that stays gets every piece or is told of an error, unless a block
\* came without deltas after others with them: partialTextSeen suppresses the
\* text of such a block.
THEOREM TextIsComplete == Spec => []TextComplete
<1>1. IInv => TextComplete  BY DEF IInv, Streamed, Pieces, TextComplete
<1> QED  BY <1>1, Invariant, PTL

\* The last result is the only one.
LEMMA ResultLast ==
  ASSUME Typed, OneResult, Has(events, "result")
  PROVE  /\ LastOf(events, "result") \in ToSet(events) /\ LastOf(events, "result").type = "result"
         /\ LastOf(events, "result") \in Events
         /\ \A e \in ToSet(events) : e.type = "result" => e = LastOf(events, "result")
<1>1. events \in Seq(Events)  BY DEF Typed
<1> DEFINE r == LastOf(events, "result")
<1>2. r \in ToSet(events) /\ r.type = "result"  BY <1>1, LastIs
<1> HIDE DEF r
<1>3. r \in Events  BY <1>1, <1>2 DEF ToSet
<1>4. \A e \in ToSet(events) : e.type = "result" => e = r  BY <1>2 DEF OneResult
<1> QED  BY <1>2, <1>3, <1>4 DEF r

\* NonStreamingResponse, which reads only messages, has the text that the
\* stream of deltas has, unless there was an error.
THEOREM BothTextsAgree == Spec => []BufferedAgrees
<1>1. IInv => BufferedAgrees
  <2> SUFFICES ASSUME IInv, at = "done", ~unannounced, ~Has(events, "stream_error")
               PROVE  LET text == NonStreamingResponse(events).text
                      IN /\ ToSet(text) \subseteq ToSet(StreamedText) \cup ToSet(Summary)
                         /\ block = <<>> => text = StreamedText \/ StreamedText = <<>>
    BY DEF BufferedAgrees
  <2> DEFINE text == NonStreamingResponse(events).text
             all == AggregatedText(events)
  <2>1. Typed /\ Streamed /\ Aggregated /\ OneResult  BY DEF IInv
  <2>2. StreamedText = Pieces(said) /\ said \in Nat  BY <2>1, SaidType DEF Streamed
  <2>3. all \in Seq(1 .. said)  BY <2>1 DEF Aggregated
  <2>4. text = all \/ (all = <<>> /\ text = Summary)
    <3>1. CASE AggregatedFinish(events) # "error" /\ Has(events, "result") /\ all = <<>>
      <4>1. text = LastOf(events, "result").text  BY <3>1 DEF NonStreamingResponse
      <4>2. LastOf(events, "result").text = Summary  BY <2>1, <3>1, ResultLast DEF Events
      <4> QED  BY <3>1, <4>1, <4>2
    <3>2. CASE ~ (AggregatedFinish(events) # "error" /\ Has(events, "result") /\ all = <<>>)
      <4>1. text = all  BY <3>2 DEF NonStreamingResponse
      <4> QED  BY <4>1
    <3> QED  BY <3>1, <3>2
  <2> HIDE DEF text, all
  <2>5. ToSet(StreamedText) = 1 .. said  BY <2>2 DEF Pieces, ToSet
  <2>6. ToSet(all) \subseteq 1 .. said  BY <2>3, SetOfSeq
  <2>7. ToSet(text) \subseteq ToSet(StreamedText) \cup ToSet(Summary)  BY <2>4, <2>5, <2>6
  <2>8. ASSUME block = <<>>
        PROVE  text = StreamedText \/ StreamedText = <<>>
    <3>1. all \o block = Pieces(said)  BY <2>1, <2>8 DEF Aggregated, all
    <3>2. all \o <<>> = all  BY <2>3, ConcatEmptySeq
    <3>3. all = StreamedText  BY <2>2, <2>8, <3>1, <3>2
    <3> QED  BY <2>4, <3>3
  <2> QED  BY <2>7, <2>8 DEF text
<1> QED  BY <1>1, Invariant, PTL

\* NonStreamingResponse ends as the stream ended: the same error, finish reason
\* and usage.
THEOREM BothEndsAgree == Spec => []EndAgrees
<1>1. IInv => EndAgrees
  <2> SUFFICES ASSUME IInv, at = "done"  PROVE EndAgrees
    BY DEF EndAgrees
  <2> DEFINE resp == NonStreamingResponse(events)
             finishes == {c.finish : c \in ToSet(out)} \ {"none"}
             Ends(c) == c.finish \notin {"none", "error"}
             r == LastOf(events, "result")
  <2>1. Typed /\ OneResult /\ Ended  BY DEF IInv
  <2>2. /\ resp.finish = AggregatedFinish(events)
        /\ resp.usage <=> Has(events, "result") /\ r.usage
    BY DEF NonStreamingResponse
  <2>3. /\ (\E c \in ToSet(out) : c.finish = "error") <=> Has(events, "stream_error")
        /\ \A c \in ToSet(out) : Ends(c) =>
              \E e \in ToSet(events) : e.type = "result" /\ FinishOf(c, e)
        /\ \A c, d \in ToSet(out) : Ends(c) /\ Ends(d) => c.finish = d.finish
        /\ (\E c \in ToSet(out) : c.usage) <=> \E e \in ToSet(events) : e.type = "result" /\ e.usage
    BY <2>1 DEF Ended
  <2>4. Has(events, "result") =>
          r \in ToSet(events) /\ r.type = "result" /\ \A e \in ToSet(events) : e.type = "result" => e = r
    BY <2>1, ResultLast
  <2>5. resp.finish = "error" <=> Has(events, "stream_error")
    BY <2>2 DEF AggregatedFinish, MapStopReason
  <2>6. resp.finish = "error" <=> "error" \in finishes
    <3> HIDE DEF resp
    <3> QED  BY <2>3, <2>5
  <2>7. ASSUME resp.finish # "error", finishes # {}
        PROVE  \/ finishes = {resp.finish}
               \/ tr.toolCallIndex > 0 /\ resp.finish = "stop" /\ finishes = {"tool_calls"}
    <3>1. "error" \notin finishes /\ ~Has(events, "stream_error")  BY <2>5, <2>6, <2>7
    <3>2. PICK c \in ToSet(out) : Ends(c)  BY <2>7, <3>1
    <3>3. PICK e \in ToSet(events) : e.type = "result" /\ FinishOf(c, e)  BY <2>3, <3>2
    <3>4. Has(events, "result") /\ e = r  BY <2>4, <3>3 DEF Has
    <3>5. resp.finish = MapStopReason(r.stop)  BY <2>2, <3>1, <3>4 DEF AggregatedFinish
    <3>6. finishes = {c.finish}
      <4>1. \A d \in ToSet(out) : d.finish # "none" => Ends(d)  BY <3>1
      <4> QED  BY <2>3, <3>2, <4>1
    <3> HIDE DEF resp, finishes, r
    <3> QED  BY <3>3, <3>4, <3>5, <3>6 DEF FinishOf
  <2>8. resp.usage <=> \E c \in ToSet(out) : c.usage
    <3>1. (\E e \in ToSet(events) : e.type = "result" /\ e.usage) <=> Has(events, "result") /\ r.usage
      <4> HIDE DEF r
      <4> QED  BY <2>4 DEF Has
    <3> QED  BY <2>2, <2>3, <3>1
  <2> HIDE DEF resp, finishes, r
  <2> QED  BY <2>6, <2>7, <2>8 DEF EndAgrees, resp, finishes
<1> QED  BY <1>1, Invariant, PTL

=============================================================================
