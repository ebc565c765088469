---------------------------- MODULE WindowsProofs ----------------------------
(***************************************************************************)
(* Proofs about Windows and XtProbe, for every set of instances, sizes and *)
(* hints, and every bound.                                                 *)
(***************************************************************************)
EXTENDS Windows, XtProbe, DataFacts

-----------------------------------------------------------------------------
(* Among, which takes the events of a set out of a queue.                    *)

\* g is what Among goes through, up to event n of q.
Selections(g, q, es, n) ==
    g = [i \in 0..n |-> IF i = 0 THEN <<>>
                        ELSE IF q[i] \in es THEN Append(g[i - 1], q[i]) ELSE g[i - 1]]

LEMMA SelectionsExist ==
    ASSUME NEW q, NEW es, NEW n \in Nat
    PROVE  \E g : Selections(g, q, es, n)
<1> DEFINE T == {m \in Nat : \E g : Selections(g, q, es, m)}
<1>1. 0 \in T
  <2>1. Selections([i \in 0..0 |-> <<>>], q, es, 0)
    BY DEF Selections
  <2> QED
    BY <2>1
<1>2. ASSUME NEW k \in T PROVE k + 1 \in T
  <2>1. PICK g : Selections(g, q, es, k)
    OBVIOUS
  <2> DEFINE m == k + 1
             h == [i \in 0..m |-> IF i = m
                                  THEN IF q[m] \in es THEN Append(g[k], q[m]) ELSE g[k]
                                  ELSE g[i]]
  <2>2. ASSUME NEW i \in 0..m
        PROVE  h[i] = IF i = 0 THEN <<>>
                      ELSE IF q[i] \in es THEN Append(h[i - 1], q[i]) ELSE h[i - 1]
    <3>1. CASE i = m
      BY <3>1
    <3>2. CASE i # m
      <4>1. i \in 0..k /\ h[i] = g[i] /\ (i # 0 => i - 1 \in 0..k /\ h[i - 1] = g[i - 1])
        BY <3>2
      <4> QED
        BY <2>1, <4>1 DEF Selections
    <3> QED
      BY <3>1, <3>2
  <2>3. h = [i \in 0..m |-> h[i]]
    OBVIOUS
  <2>4. m \in Nat
    OBVIOUS
  <2> HIDE DEF h
  <2>5. Selections(h, q, es, m)
    BY <2>2, <2>3 DEF Selections
  <2> QED
    BY <2>4, <2>5
<1>3. T = Nat
  <2>1. T \subseteq Nat
    OBVIOUS
  <2> HIDE DEF T
  <2> QED
    BY <1>1, <1>2, <2>1, SetOfAllNumbers
<1> QED
  BY <1>3

LEMMA AmongIsLast ==
    ASSUME NEW q, NEW es, Len(q) \in Nat
    PROVE  \E g : Selections(g, q, es, Len(q)) /\ Among(q, es) = g[Len(q)]
<1> DEFINE g == CHOOSE f : Selections(f, q, es, Len(q))
<1>1. Selections(g, q, es, Len(q))
  BY SelectionsExist, Zenon
<1>2. Among(q, es) = g[Len(q)]
  BY Zenon DEF Among, Selections
<1> QED
  BY <1>1, <1>2, Zenon

LEMMA SelectionsSteps ==
    ASSUME NEW g, NEW q, NEW es, NEW n \in Nat, Selections(g, q, es, n)
    PROVE  /\ g[0] = <<>>
           /\ \A i \in 1..n : g[i] = IF q[i] \in es THEN Append(g[i - 1], q[i]) ELSE g[i - 1]
<1>1. \A i \in 0..n : g[i] = IF i = 0 THEN <<>>
                             ELSE IF q[i] \in es THEN Append(g[i - 1], q[i]) ELSE g[i - 1]
  BY Zenon DEF Selections
<1> QED
  BY <1>1

LEMMA AmongNone ==
    ASSUME NEW es
    PROVE  Among(<<>>, es) = <<>>
<1>1. Len(<<>>) = 0 /\ 0 \in Nat
  OBVIOUS
<1>2. PICK g : Selections(g, <<>>, es, Len(<<>>)) /\ Among(<<>>, es) = g[Len(<<>>)]
  BY <1>1, AmongIsLast
<1> QED
  BY <1>1, <1>2, SelectionsSteps

LEMMA AmongAppend ==
    ASSUME NEW S, NEW q \in Seq(S), NEW e \in S, NEW es
    PROVE  Among(Append(q, e), es) =
             IF e \in es THEN Append(Among(q, es), e) ELSE Among(q, es)
<1> DEFINE n == Len(q)
           qe == Append(q, e)
<1>1. /\ n \in Nat /\ n + 1 \in Nat /\ Len(qe) = n + 1
      /\ \A i \in 1..n : qe[i] = q[i]
      /\ qe[n + 1] = e
  OBVIOUS
<1> HIDE DEF n, qe
<1>2. PICK g : Selections(g, q, es, n) /\ Among(q, es) = g[n]
  BY <1>1, AmongIsLast DEF n
<1>3. PICK h : Selections(h, qe, es, Len(qe)) /\ Among(qe, es) = h[Len(qe)]
  BY <1>1, AmongIsLast
<1>4. Selections(h, qe, es, n + 1) /\ Among(qe, es) = h[n + 1]
  BY <1>1, <1>3
<1>5. /\ g[0] = <<>>
      /\ \A i \in 1..n : g[i] = IF q[i] \in es THEN Append(g[i - 1], q[i]) ELSE g[i - 1]
  BY <1>1, <1>2, SelectionsSteps
<1>6. /\ h[0] = <<>>
      /\ \A i \in 1..(n + 1) : h[i] = IF qe[i] \in es THEN Append(h[i - 1], qe[i]) ELSE h[i - 1]
  <2> DEFINE m == n + 1
  <2> HIDE DEF m
  <2>1. m \in Nat /\ Selections(h, qe, es, m)
    BY <1>1, <1>4 DEF m
  <2>2. /\ h[0] = <<>>
        /\ \A i \in 1..m : h[i] = IF qe[i] \in es THEN Append(h[i - 1], qe[i]) ELSE h[i - 1]
    BY <2>1, SelectionsSteps
  <2> QED
    BY <2>2 DEF m
<1> DEFINE T == {i \in Nat : i <= n => h[i] = g[i]}
<1>7. 0 \in T
  BY <1>5, <1>6
<1>8. ASSUME NEW i \in T PROVE i + 1 \in T
  <2> SUFFICES ASSUME i + 1 <= n PROVE h[i + 1] = g[i + 1]
    OBVIOUS
  <2>1. i \in Nat /\ i + 1 \in 1..n /\ i + 1 \in 1..(n + 1) /\ (i + 1) - 1 = i /\ h[i] = g[i]
    BY <1>1
  <2>2. qe[i + 1] = q[i + 1]
    BY <1>1, <2>1
  <2>3. /\ h[i + 1] = IF qe[i + 1] \in es THEN Append(h[(i + 1) - 1], qe[i + 1]) ELSE h[(i + 1) - 1]
        /\ g[i + 1] = IF q[i + 1] \in es THEN Append(g[(i + 1) - 1], q[i + 1]) ELSE g[(i + 1) - 1]
    BY <1>5, <1>6, <2>1
  <2> QED
    BY <2>1, <2>2, <2>3
<1>9. T = Nat
  <2>1. T \subseteq Nat
    OBVIOUS
  <2> HIDE DEF T
  <2> QED
    BY <1>7, <1>8, <2>1, SetOfAllNumbers
<1>10. h[n] = g[n]
  BY <1>1, <1>9
<1>11. h[n + 1] = IF qe[n + 1] \in es THEN Append(h[(n + 1) - 1], qe[n + 1]) ELSE h[(n + 1) - 1]
  BY <1>1, <1>6
<1>12. (n + 1) - 1 = n
  BY <1>1
<1> QED
  BY <1>1, <1>2, <1>4, <1>10, <1>11, <1>12 DEF qe

LEMMA AmongType ==
    ASSUME NEW S, NEW es, NEW q \in Seq(S)
    PROVE  Among(q, es) \in Seq(S) /\ Among(q, es) \in Seq(es)
<1> DEFINE T == {s \in Seq(S) : Among(s, es) \in Seq(S) /\ Among(s, es) \in Seq(es)}
<1>1. <<>> \in T
  <2>1. Among(<<>>, es) = <<>>
    BY AmongNone
  <2>2. <<>> \in Seq(S) /\ <<>> \in Seq(es)
    OBVIOUS
  <2> QED
    BY <2>1, <2>2, Zenon
<1>2. ASSUME NEW s \in T, NEW e \in S PROVE Append(s, e) \in T
  <2>1. s \in Seq(S) /\ Among(s, es) \in Seq(S) /\ Among(s, es) \in Seq(es)
    OBVIOUS
  <2>2. Among(Append(s, e), es) = IF e \in es THEN Append(Among(s, es), e) ELSE Among(s, es)
    BY <2>1, AmongAppend
  <2> DEFINE a == Among(s, es)
             b == Among(Append(s, e), es)
  <2>3. a \in Seq(S) /\ a \in Seq(es) /\ (b = IF e \in es THEN Append(a, e) ELSE a)
    BY <2>1, <2>2
  <2> HIDE DEF a, b
  <2>4. b \in Seq(S) /\ b \in Seq(es)
    BY <2>3
  <2>5. Append(s, e) \in Seq(S)
    BY <2>1
  <2> QED
    BY <2>4, <2>5, Zenon DEF b
<1>3. T = Seq(S)
  <2>1. T \subseteq Seq(S)
    OBVIOUS
  <2> HIDE DEF T
  <2> QED
    BY <1>1, <1>2, <2>1, SetOfAllSequences
<1> QED
  BY <1>3

LEMMA ConcatAppend ==
    ASSUME NEW S, NEW a \in Seq(S), NEW b \in Seq(S), NEW e \in S
    PROVE  a \o Append(b, e) = Append(a \o b, e)
  OBVIOUS

LEMMA AmongConcat ==
    ASSUME NEW S, NEW es, NEW a \in Seq(S), NEW b \in Seq(S)
    PROVE  Among(a \o b, es) = Among(a, es) \o Among(b, es)
<1> DEFINE T == {s \in Seq(S) : Among(a \o s, es) = Among(a, es) \o Among(s, es)}
<1>0. Among(a, es) \in Seq(S)
  BY AmongType
<1>1. <<>> \in T
  <2>1. a \o <<>> = a /\ Among(a, es) \o <<>> = Among(a, es) /\ <<>> \in Seq(S)
    BY <1>0
  <2>2. Among(<<>>, es) = <<>>
    BY AmongNone
  <2> QED
    BY <2>1, <2>2, Zenon
<1>2. ASSUME NEW s \in T, NEW e \in S PROVE Append(s, e) \in T
  <2>1. /\ s \in Seq(S) /\ Among(a \o s, es) = Among(a, es) \o Among(s, es)
        /\ a \o s \in Seq(S) /\ Among(s, es) \in Seq(S)
    BY AmongType
  <2>2. a \o Append(s, e) = Append(a \o s, e)
    BY <2>1, ConcatAppend
  <2>3. Among(Append(s, e), es) = IF e \in es THEN Append(Among(s, es), e) ELSE Among(s, es)
    BY <2>1, AmongAppend
  <2>a. Among(Append(a \o s, e), es) =
             IF e \in es THEN Append(Among(a \o s, es), e) ELSE Among(a \o s, es)
    <3>1. PICK c \in Seq(S) : c = a \o s
      BY <2>1
    <3>2. Among(Append(c, e), es) = IF e \in es THEN Append(Among(c, es), e) ELSE Among(c, es)
      BY AmongAppend
    <3> QED
      BY <3>1, <3>2, Zenon
  <2>4. Among(a, es) \o Append(Among(s, es), e) = Append(Among(a, es) \o Among(s, es), e)
    BY <1>0, <2>1, ConcatAppend
  <2>5. Among(a \o Append(s, e), es) = Among(a, es) \o Among(Append(s, e), es)
    <3>1. CASE e \in es
      BY <2>1, <2>2, <2>3, <2>a, <2>4, <3>1, Zenon
    <3>2. CASE e \notin es
      BY <2>1, <2>2, <2>3, <2>a, <3>2, Zenon
    <3> QED
      BY <3>1, <3>2
  <2>6. Append(s, e) \in Seq(S)
    BY <2>1
  <2> QED
    BY <2>5, <2>6
<1>3. T = Seq(S)
  <2>1. T \subseteq Seq(S)
    OBVIOUS
  <2> HIDE DEF T
  <2> QED
    BY <1>1, <1>2, <2>1, SetOfAllSequences
<1> QED
  BY <1>3

\* To select twice is to select what is in both sets.
LEMMA AmongTwice ==
    ASSUME NEW S, NEW es, NEW fs, NEW q \in Seq(S)
    PROVE  Among(Among(q, es), fs) = Among(q, es \cap fs)
<1> DEFINE both == es \cap fs
           T == {s \in Seq(S) : Among(Among(s, es), fs) = Among(s, both)}
<1>0. \A e : e \in both <=> e \in es /\ e \in fs
  OBVIOUS
<1> HIDE DEF both
<1>1. <<>> \in T
  BY AmongNone
<1>2. ASSUME NEW s \in T, NEW e \in S PROVE Append(s, e) \in T
  <2>1. /\ s \in Seq(S) /\ Among(Among(s, es), fs) = Among(s, both)
        /\ Among(s, es) \in Seq(S)
    BY AmongType
  <2>2. Among(Append(s, e), es) = IF e \in es THEN Append(Among(s, es), e) ELSE Among(s, es)
    BY <2>1, AmongAppend
  <2>3. Among(Append(s, e), both) = IF e \in both THEN Append(Among(s, both), e) ELSE Among(s, both)
    BY <2>1, AmongAppend
  <2>4. Among(Append(Among(s, es), e), fs) =
             IF e \in fs THEN Append(Among(Among(s, es), fs), e) ELSE Among(Among(s, es), fs)
    BY <2>1, AmongAppend
  <2>5. Among(Among(Append(s, e), es), fs) = Among(Append(s, e), both)
    <3>1. CASE e \in es
      <4>1. Among(Append(s, e), es) = Append(Among(s, es), e)
        BY <2>2, <3>1, Zenon
      <4>2. CASE e \in fs
        <5>1. e \in both
          BY <1>0, <3>1, <4>2
        <5> QED
          BY <2>1, <2>3, <2>4, <4>1, <4>2, <5>1, Zenon
      <4>3. CASE e \notin fs
        <5>1. e \notin both
          BY <1>0, <4>3
        <5> QED
          BY <2>1, <2>3, <2>4, <4>1, <4>3, <5>1, Zenon
      <4> QED
        BY <4>2, <4>3
    <3>2. CASE e \notin es
      BY <1>0, <2>1, <2>2, <2>3, <3>2, Zenon
    <3> QED
      BY <3>1, <3>2
  <2>6. Append(s, e) \in Seq(S)
    BY <2>1
  <2> QED
    BY <2>5, <2>6
<1>3. T = Seq(S)
  <2>1. T \subseteq Seq(S)
    OBVIOUS
  <2> HIDE DEF T
  <2> QED
    BY <1>1, <1>2, <2>1, SetOfAllSequences
<1> QED
  BY <1>3 DEF both

LEMMA AmongNoneOfThem ==
    ASSUME NEW S, NEW q \in Seq(S)
    PROVE  Among(q, {}) = <<>>
<1>1. Among(q, {}) \in Seq({})
  BY AmongType
<1> QED
  BY <1>1

\* The first event
LEMMA AmongTail ==
    ASSUME NEW S, NEW q \in Seq(S), q # <<>>, NEW es
    PROVE  Among(q, es) = (IF Head(q) \in es THEN <<Head(q)>> ELSE <<>>) \o Among(Tail(q), es)
<1> DEFINE h == Head(q)
           t == Tail(q)
<1>1. h \in S /\ t \in Seq(S) /\ q = <<h>> \o t
  OBVIOUS
<1> HIDE DEF h, t
<1>2. <<h>> \in Seq(S) /\ <<h>> = Append(<<>>, h) /\ <<>> \in Seq(S)
  BY <1>1
<1>3. Among(<<h>>, es) = IF h \in es THEN <<h>> ELSE <<>>
  <2>1. Among(Append(<<>>, h), es) = IF h \in es THEN Append(Among(<<>>, es), h) ELSE Among(<<>>, es)
    BY <1>1, <1>2, AmongAppend
  <2> QED
    BY <1>2, <2>1, AmongNone
<1>4. Among(<<h>> \o t, es) = Among(<<h>>, es) \o Among(t, es)
  BY <1>1, <1>2, AmongConcat
<1> QED
  BY <1>1, <1>3, <1>4 DEF h, t

-----------------------------------------------------------------------------
(* KindsOf                                                                   *)

LEMMA EventFields ==
    ASSUME NEW e \in Events
    PROVE  e.i \in Instances /\ e.at \in {"top", "form"} /\ e.kind \in Kinds
  BY DEF Events

LEMMA KindsOfProps ==
    ASSUME NEW s \in Seq(Events)
    PROVE  /\ KindsOf(s) \in Seq(Kinds) /\ Len(KindsOf(s)) = Len(s)
           /\ \A k \in 1..Len(s) : KindsOf(s)[k] = s[k].kind
<1>0. \A k \in 1..Len(s) : s[k] \in Events
  OBVIOUS
<1>a. \A k \in 1..Len(s) : s[k].kind \in Kinds
  BY <1>0, Zenon, EventFields
<1>b. KindsOf(s) \in [1..Len(s) -> Kinds]
  BY <1>a DEF KindsOf
<1>1. KindsOf(s) \in [1..Len(s) -> Kinds] /\ Len(s) \in Nat
  BY <1>b
<1>2. KindsOf(s) \in Seq(Kinds)
  BY <1>1
<1>3. Len(KindsOf(s)) = Len(s)
  BY <1>1, <1>2, LenProperties
<1> QED
  BY <1>2, <1>3 DEF KindsOf

LEMMA KindsOfNone == KindsOf(<<>>) = <<>>
<1>1. <<>> \in Seq(Events) /\ Len(<<>>) = 0
  OBVIOUS
<1>2. KindsOf(<<>>) \in Seq(Kinds) /\ Len(KindsOf(<<>>)) = 0
  BY <1>1, KindsOfProps
<1> QED
  BY <1>2

\* The function that is given by its values on a concatenation is it.
LEMMA ConcatValues ==
    ASSUME NEW S, NEW a \in Seq(S), NEW b \in Seq(S), NEW c \in Seq(S),
           Len(c) = Len(a) + Len(b),
           \A k \in 1..Len(a) : c[k] = a[k],
           \A k \in (Len(a) + 1)..(Len(a) + Len(b)) : c[k] = b[k - Len(a)]
    PROVE  c = a \o b
<1>1. /\ a \o b \in Seq(S) /\ Len(a \o b) = Len(a) + Len(b)
      /\ \A k \in 1..Len(a) : (a \o b)[k] = a[k]
      /\ \A k \in (Len(a) + 1)..(Len(a) + Len(b)) : (a \o b)[k] = b[k - Len(a)]
  BY ConcatProperties
<1>2. ASSUME NEW k \in 1..Len(c) PROVE c[k] = (a \o b)[k]
  <2>1. Len(a) \in Nat /\ Len(b) \in Nat
    OBVIOUS
  <2>2. CASE k <= Len(a)
    BY <1>1, <2>1, <2>2
  <2>3. CASE k > Len(a)
    BY <1>1, <2>1, <2>3
  <2> QED
    BY <2>1, <2>2, <2>3
<1> QED
  BY <1>1, <1>2, SeqEqual

LEMMA KindsOfConcat ==
    ASSUME NEW a \in Seq(Events), NEW b \in Seq(Events)
    PROVE  KindsOf(a \o b) = KindsOf(a) \o KindsOf(b)
<1> DEFINE c == a \o b
           ka == KindsOf(a)
           kb == KindsOf(b)
           kc == KindsOf(c)
<1>1. /\ c \in Seq(Events) /\ Len(c) = Len(a) + Len(b)
      /\ \A k \in 1..Len(a) : c[k] = a[k]
      /\ \A k \in (Len(a) + 1)..Len(c) : c[k] = b[k - Len(a)]
      /\ Len(a) \in Nat /\ Len(b) \in Nat
  OBVIOUS
<1> HIDE DEF c
<1>2. /\ ka \in Seq(Kinds) /\ Len(ka) = Len(a) /\ \A k \in 1..Len(a) : ka[k] = a[k].kind
      /\ kb \in Seq(Kinds) /\ Len(kb) = Len(b) /\ \A k \in 1..Len(b) : kb[k] = b[k].kind
      /\ kc \in Seq(Kinds) /\ Len(kc) = Len(c) /\ \A k \in 1..Len(c) : kc[k] = c[k].kind
  BY <1>1, KindsOfProps
<1> HIDE DEF ka, kb, kc
<1>3. /\ \A k \in 1..Len(ka) : kc[k] = ka[k]
      /\ \A k \in (Len(ka) + 1)..(Len(ka) + Len(kb)) : kc[k] = kb[k - Len(ka)]
  <2>1. ASSUME NEW k \in (Len(ka) + 1)..(Len(ka) + Len(kb)) PROVE kc[k] = kb[k - Len(ka)]
    <3>1. k \in 1..Len(c) /\ k \in (Len(a) + 1)..Len(c) /\ k - Len(a) \in 1..Len(b) /\ Len(ka) = Len(a)
      BY <1>1, <1>2
    <3> QED
      BY <1>1, <1>2, <3>1
  <2>2. ASSUME NEW k \in 1..Len(ka) PROVE kc[k] = ka[k]
    <3>1. k \in 1..Len(c) /\ k \in 1..Len(a)
      BY <1>1, <1>2
    <3> QED
      BY <1>1, <1>2, <3>1
  <2> QED
    BY <2>1, <2>2
<1>4. Len(kc) = Len(ka) + Len(kb)
  BY <1>1, <1>2
<1>5. kc = ka \o kb
  BY <1>2, <1>3, <1>4, ConcatValues
<1> QED
  BY <1>5 DEF ka, kb, kc, c

LEMMA KindsOfOne ==
    ASSUME NEW e \in Events
    PROVE  KindsOf(<<e>>) = <<e.kind>>
<1>1. <<e>> \in Seq(Events) /\ Len(<<e>>) = 1 /\ <<e>>[1] = e
  OBVIOUS
<1> DEFINE s == <<e>>
<1> HIDE DEF s
<1>2. /\ s \in Seq(Events) /\ Len(s) = 1 /\ s[1] = e
  BY <1>1 DEF s
<1>3. /\ KindsOf(s) \in Seq(Kinds) /\ Len(KindsOf(s)) = Len(s)
      /\ \A k \in 1..Len(s) : KindsOf(s)[k] = s[k].kind
  BY <1>2, KindsOfProps
<1>4. KindsOf(s) = <<e.kind>>
  BY <1>2, <1>3
<1> QED
  BY <1>4 DEF s

-----------------------------------------------------------------------------
(***************************************************************************)
(* The invariant.                                                          *)
(***************************************************************************)

\* The plugin p in memory and its window: with a window of its own it has
\* attributes; without one it has them only of the drawable it got last (g).
WindowOk(p, g) ==
    /\ p.toolkit # "none" => p.ws_info /\ p.window = "own"
    /\ p.toolkit = "none" /\ p.ws_info => g # NONE /\ g.drawable

\* The plugin p was told t of the window g.
Knows(p, g, t) ==
    g # NONE => /\ t # NONE
                /\ t.window = IF g.drawable THEN NONE ELSE "own"
                /\ g.size # 0 => t.width = g.size
                /\ ~g.drawable => /\ p.toolkit # "none" /\ p.window = "own"
                                  /\ p.width = t.width

InstanceOk(p, g, t) ==
    /\ p = NONE => g = NONE
    /\ p # NONE => WindowOk(p, g) /\ Knows(p, g, t)

\* An instance whose attributes are those of a drawable
HasDrawable(p, g) ==
    p # NONE /\ p.toolkit = "none" /\ p.ws_info /\ g # NONE /\ g.drawable

WindowsOk ==
    /\ \A i \in Instances : InstanceOk(plugin[i], given[i], told[i])
    /\ loop.at = "aborted" => \E i \in Instances : HasDrawable(plugin[i], given[i])

\* The instances that share the source
Sharing(ps) == {i \in Instances : ps[i] # NONE /\ ~ps[i].use_xembed}

\* Nothing but the instances that the plugin refused makes the count too high.
SourceOk ==
    /\ IsFiniteSet(Sharing(plugin))
    /\ xt_source_count = refused + Cardinality(Sharing(plugin))
    /\ xt_source <=> xt_source_count > 0

\* Of the events x, those for the one widget of i
EventsAt(i, at) == {e \in Events : e.i = i /\ e.at = at}
Way(x, i, at) == KindsOf(Among(x, EventsAt(i, at)))

\* What instance i, with plugin p, was sent (s), has got (a) and will get of x
InputOk(i, p, s, a, x) ==
    /\ a \o Way(x, i, "form") \o Way(x, i, "top") = s
    /\ (p = NONE \/ p.toolkit # "xt") => s = <<>>

InputsOk == \A i \in Instances : InputOk(i, plugin[i], sent[i], arrived[i], queue \o wire)

WindowsInvariant == TypeOK /\ WindowsOk /\ SourceOk /\ InputsOk

-----------------------------------------------------------------------------
(* What the operators make of a plugin instance.                             *)

LEMMA FixupProps ==
    ASSUME NEW p \in PluginInstance
    PROVE  /\ fixup_size_hints(p) \in PluginInstance
           /\ fixup_size_hints(p).use_xembed = p.use_xembed
           /\ fixup_size_hints(p).is_windowless = p.is_windowless
           /\ fixup_size_hints(p).ws_info = p.ws_info
           /\ fixup_size_hints(p).toolkit = p.toolkit
           /\ fixup_size_hints(p).window = p.window
           /\ p.width # 0 => fixup_size_hints(p).width = p.width
<1>1. CASE p.width # 0
  BY <1>1 DEF fixup_size_hints
<1>2. CASE p.width = 0 /\ p.hint # 0
  <2>1. fixup_size_hints(p) = [p EXCEPT !.width = p.hint]
    BY <1>2 DEF fixup_size_hints
  <2>2. p.hint \in Sizes \cup Hints \cup {0, ActualSize}
    BY DEF PluginInstance
  <2> QED
    BY <1>2, <2>1, <2>2 DEF PluginInstance
<1>3. CASE p.width = 0 /\ p.hint = 0 /\ p.window # NONE
  <2>1. fixup_size_hints(p) = [p EXCEPT !.width = ActualSize, !.hint = ActualSize]
    BY <1>3 DEF fixup_size_hints
  <2> QED
    BY <1>3, <2>1 DEF PluginInstance
<1>4. CASE p.width = 0 /\ p.hint = 0 /\ p.window = NONE
  BY <1>4 DEF fixup_size_hints
<1> QED
  BY <1>1, <1>2, <1>3, <1>4

LEMMA UpdateProps ==
    ASSUME NEW p \in PluginInstance, NEW size \in Sizes
    PROVE  /\ update_window(p, size) \in PluginInstance
           /\ update_window(p, size).use_xembed = p.use_xembed
           /\ update_window(p, size).ws_info = p.ws_info
           /\ update_window(p, size).toolkit = p.toolkit
           /\ update_window(p, size).window = p.window
           /\ update_window(p, size).width = size
  BY DEF update_window, PluginInstance

LEMMA DestroyProps ==
    ASSUME NEW p \in PluginInstance
    PROVE  LET q == [destroy_window(p) EXCEPT !.is_windowless = FALSE]
           IN  /\ q \in PluginInstance
               /\ q.use_xembed = p.use_xembed
               /\ ~q.ws_info
               /\ q.toolkit = "none"
  BY DEF destroy_window, PluginInstance

\* The instance p, whose last window is one with drawable set or not.
LEMMA KindProps ==
    ASSUME NEW p \in PluginInstance, NEW d \in BOOLEAN
    PROVE  LET q == [p EXCEPT !.is_windowless = d]
           IN  /\ q \in PluginInstance /\ q.is_windowless = d
               /\ q.use_xembed = p.use_xembed /\ q.ws_info = p.ws_info
               /\ q.toolkit = p.toolkit /\ q.window = p.window /\ q.width = p.width
  BY DEF PluginInstance

LEMMA FailProps ==
    ASSUME NEW p \in PluginInstance
    PROVE  /\ create_windowFails(p) \in PluginInstance
           /\ create_windowFails(p).use_xembed = p.use_xembed
           /\ ~create_windowFails(p).ws_info
           /\ create_windowFails(p).toolkit = p.toolkit
           /\ create_windowFails(p).window = p.window
           /\ create_windowFails(p).width = p.width
  BY DEF create_windowFails, PluginInstance

LEMMA CreateProps ==
    ASSUME NEW p \in PluginInstance, NEW size \in Sizes, p.toolkit = "none"
    PROVE  /\ create_window(p, size) \in PluginInstance
           /\ create_window(p, size).use_xembed = p.use_xembed
           /\ create_window(p, size).ws_info
           /\ create_window(p, size).window = IF p.is_windowless THEN NONE ELSE "own"
           /\ size # 0 => create_window(p, size).width = size
           /\ create_window(p, size).toolkit = "none" <=> p.is_windowless
<1> DEFINE asked == [p EXCEPT !.ws_info = TRUE, !.width = size,
                              !.window = IF p.is_windowless THEN NONE ELSE "browser"]
           new == fixup_size_hints(asked)
<1>1. /\ asked \in PluginInstance /\ asked.use_xembed = p.use_xembed
      /\ asked.ws_info = TRUE /\ asked.toolkit = "none" /\ asked.width = size
      /\ asked.window = IF p.is_windowless THEN NONE ELSE "browser"
  BY DEF PluginInstance
<1>0. create_window(p, size) =
        IF p.is_windowless THEN new
        ELSE [new EXCEPT !.toolkit = IF p.use_xembed THEN "gtk" ELSE "xt", !.window = "own"]
  BY DEF create_window
<1> HIDE DEF asked
<1>2. /\ new \in PluginInstance /\ new.use_xembed = p.use_xembed
      /\ new.ws_info = TRUE /\ new.toolkit = "none"
      /\ new.window = IF p.is_windowless THEN NONE ELSE "browser"
      /\ size # 0 => new.width = size
  BY <1>1, FixupProps
<1> HIDE DEF new
<1>3. CASE p.is_windowless
  <2>1. create_window(p, size) = new
    BY <1>0, <1>3
  <2> QED
    BY <1>2, <1>3, <2>1
<1>4. CASE ~p.is_windowless
  <2> DEFINE made == [new EXCEPT !.toolkit = IF p.use_xembed THEN "gtk" ELSE "xt", !.window = "own"]
  <2>1. create_window(p, size) = made
    BY <1>0, <1>4
  <2>2. /\ made \in PluginInstance /\ made.use_xembed = p.use_xembed
        /\ made.ws_info = TRUE /\ made.toolkit # "none" /\ made.window = "own"
        /\ made.width = new.width
    BY <1>2 DEF PluginInstance
  <2> HIDE DEF made
  <2> QED
    BY <1>2, <1>4, <2>1, <2>2
<1> QED
  BY <1>3, <1>4

LEMMA ToldTypes ==
    ASSUME NEW p \in PluginInstance
    PROVE  /\ [window |-> p.window, width |-> p.width] \in Window
           /\ [window |-> p.window, width |-> p.width] # NONE
  BY NoneAssumption DEF PluginInstance, Window

-----------------------------------------------------------------------------
(* What is on the way.                                                       *)

LEMMA WayProps ==
    ASSUME NEW i, NEW at
    PROVE  /\ Way(<<>>, i, at) = <<>>
           /\ \A x \in Seq(Events) : Way(x, i, at) \in Seq(Kinds)
           /\ \A x, y \in Seq(Events) : Way(x \o y, i, at) = Way(x, i, at) \o Way(y, i, at)
<1> DEFINE es == EventsAt(i, at)
<1>1. Way(<<>>, i, at) = <<>>
  BY AmongNone, KindsOfNone DEF Way
<1>2. ASSUME NEW x \in Seq(Events) PROVE Way(x, i, at) \in Seq(Kinds)
  <2>1. Among(x, es) \in Seq(Events)
    <3> HIDE DEF es
    <3> QED
      BY AmongType
  <2> QED
    BY <2>1, KindsOfProps DEF Way
<1>3. ASSUME NEW x \in Seq(Events), NEW y \in Seq(Events)
      PROVE  Way(x \o y, i, at) = Way(x, i, at) \o Way(y, i, at)
  <2> HIDE DEF es
  <2>1. Among(x, es) \in Seq(Events) /\ Among(y, es) \in Seq(Events)
    BY AmongType
  <2>2. Among(x \o y, es) = Among(x, es) \o Among(y, es)
    BY AmongConcat
  <2>3. KindsOf(Among(x, es) \o Among(y, es)) = KindsOf(Among(x, es)) \o KindsOf(Among(y, es))
    BY <2>1, KindsOfConcat
  <2> QED
    BY <2>2, <2>3, Zenon DEF Way, es
<1> QED
  BY <1>1, <1>2, <1>3

LEMMA WayOfOne ==
    ASSUME NEW e \in Events, NEW i, NEW at
    PROVE  Way(<<e>>, i, at) = IF e.i = i /\ e.at = at THEN <<e.kind>> ELSE <<>>
<1> DEFINE es == EventsAt(i, at)
<1>0. e \in es <=> e.i = i /\ e.at = at
  BY DEF EventsAt
<1> HIDE DEF es
<1>1. Append(<<>>, e) = <<e>> /\ <<>> \in Seq(Events)
  OBVIOUS
<1>2. Among(Append(<<>>, e), es) = IF e \in es THEN Append(Among(<<>>, es), e) ELSE Among(<<>>, es)
  BY <1>1, AmongAppend
<1>3. Among(<<>>, es) = <<>>
  BY AmongNone
<1>4. Among(<<e>>, es) = IF e \in es THEN <<e>> ELSE <<>>
  BY <1>1, <1>2, <1>3
<1>5. CASE e \in es
  <2>1. KindsOf(<<e>>) = <<e.kind>>
    BY KindsOfOne
  <2> QED
    BY <1>0, <1>4, <1>5, <2>1, Zenon DEF Way, es
<1>6. CASE e \notin es
  BY <1>0, <1>4, <1>6, KindsOfNone, Zenon DEF Way, es
<1> QED
  BY <1>5, <1>6

\* The events of a window that goes are taken out; those of the others stay.
LEMMA WayWithout ==
    ASSUME NEW x \in Seq(Events), NEW i, NEW j, NEW at
    PROVE  /\ WithoutEvents(x, i) \in Seq(Events)
           /\ Way(WithoutEvents(x, i), j, at) = IF j = i THEN <<>> ELSE Way(x, j, at)
<1> DEFINE others == {e \in Events : e.i # i}
           es == EventsAt(j, at)
<1>1. WithoutEvents(x, i) = Among(x, others)
  BY DEF WithoutEvents
<1>a. j = i => others \cap es = {}
  BY DEF EventsAt
<1>b. j # i => others \cap es = es
  BY DEF EventsAt
<1>c. Way(x, j, at) = KindsOf(Among(x, es)) /\ Way(Among(x, others), j, at) = KindsOf(Among(Among(x, others), es))
  BY DEF Way
<1> HIDE DEF others, es
<1>2. Among(x, others) \in Seq(Events)
  BY AmongType
<1>3. Among(Among(x, others), es) = Among(x, others \cap es)
  BY AmongTwice
<1>4. CASE j = i
  <2>1. Among(x, {}) = <<>>
    BY AmongNoneOfThem
  <2> QED
    BY <1>1, <1>2, <1>3, <1>4, <1>a, <1>c, <2>1, KindsOfNone, Zenon
<1>5. CASE j # i
  BY <1>1, <1>2, <1>3, <1>5, <1>b, <1>c, Zenon
<1> QED
  BY <1>4, <1>5

-----------------------------------------------------------------------------
(* Steps that leave most of the state alone.                                 *)

\* A shorter name for the windows that get input.
GetsInput(p) == p # NONE /\ p.toolkit = "xt"

Surroundings == <<plugin, given, told, refused, sent, arrived, xt_source_count, xt_source>>

LEMMA LineStays ==
    ASSUME TypeOK, XSync \/ UNCHANGED <<queue, wire>>
    PROVE  /\ queue' \in Seq(Events) /\ wire' \in Seq(Events)
           /\ queue' \o wire' = queue \o wire
<1>0. queue \in Seq(Events) /\ wire \in Seq(Events)
  BY DEF TypeOK
<1>1. CASE XSync
  BY <1>0, <1>1 DEF XSync
<1>2. CASE UNCHANGED <<queue, wire>>
  BY <1>0, <1>2
<1> QED
  BY <1>1, <1>2

LEMMA InputsStay ==
    ASSUME InputsOk, sent' = sent, arrived' = arrived, queue' \o wire' = queue \o wire,
           \A i \in Instances : GetsInput(plugin[i]) => GetsInput(plugin'[i])
    PROVE  InputsOk'
<1> SUFFICES ASSUME NEW i \in Instances
             PROVE  InputOk(i, plugin'[i], sent'[i], arrived'[i], queue' \o wire')
  BY DEF InputsOk
<1>1. InputOk(i, plugin[i], sent[i], arrived[i], queue \o wire)
  BY DEF InputsOk
<1>2. InputOk(i, plugin[i], sent'[i], arrived'[i], queue' \o wire')
  BY <1>1, Zenon
<1> QED
  BY <1>2 DEF InputOk, GetsInput

LoopStates == [at : {"prepare", "poll", "sync", "call", "dispatch", "aborted"}, ready : BOOLEAN,
               timeout : {"never", "timer", "XT_DEFAULT_TIMEOUT", "now"},
               n : 0..XT_MAX_DISPATCH_EVENTS]

\* The main loop and the application context change nothing else.
LEMMA SurroundingsStay ==
    ASSUME TypeOK, WindowsInvariant, UNCHANGED Surroundings,
           queue' \in Seq(Events), wire' \in Seq(Events), queue' \o wire' = queue \o wire,
           timer' \in {"none", "idle", "ready"}, input' \in {"none", "idle", "ready"},
           loop' \in LoopStates, loop'.at = "aborted" => loop.at = "aborted"
    PROVE  WindowsInvariant'
<1>0. /\ plugin' = plugin /\ given' = given /\ told' = told /\ refused' = refused
      /\ sent' = sent /\ arrived' = arrived
      /\ xt_source_count' = xt_source_count /\ xt_source' = xt_source
  BY DEF Surroundings
<1>1. TypeOK'
  BY <1>0 DEF TypeOK, LoopStates
<1>2. WindowsOk'
  BY <1>0 DEF WindowsInvariant, WindowsOk
<1>3. SourceOk'
  <2>1. SourceOk
    BY DEF WindowsInvariant
  <2>2. Sharing(plugin') = Sharing(plugin)
    BY <1>0
  <2> QED
    BY <1>0, <2>1, <2>2 DEF SourceOk
<1>4. InputsOk'
  BY <1>0, InputsStay DEF WindowsInvariant
<1> QED
  BY <1>1, <1>2, <1>3, <1>4 DEF WindowsInvariant

LEMMA PrepareStep ==
    ASSUME WindowsInvariant, Prepare
    PROVE  WindowsInvariant'
<1>0. TypeOK /\ loop \in LoopStates
  BY DEF WindowsInvariant, TypeOK, LoopStates
<1>1. UNCHANGED Surroundings /\ timer' = timer /\ input' = input
  BY DEF Prepare, windows, Surroundings
<1>2. XSync \/ UNCHANGED <<queue, wire>>
  BY DEF Prepare
<1>3. xt_get_next_timeout \in {"never", "timer", "XT_DEFAULT_TIMEOUT"}
  BY <1>0 DEF xt_get_next_timeout, TypeOK
<1>4. loop' \in LoopStates
  <2>1. CASE loop' = [loop EXCEPT !.at = "poll", !.ready = TRUE, !.timeout = "now"]
    BY <1>0, <2>1 DEF LoopStates
  <2>2. CASE loop' = [loop EXCEPT !.at = "poll", !.ready = FALSE,
                                  !.timeout = IF xt_source THEN xt_get_next_timeout ELSE "never"]
    BY <1>0, <1>3, <2>2 DEF LoopStates
  <2> QED
    BY <2>1, <2>2, Zenon DEF Prepare
<1>5. timer' \in {"none", "idle", "ready"} /\ input' \in {"none", "idle", "ready"}
  BY <1>0, <1>1 DEF TypeOK
<1>6. loop'.at # "aborted"
  BY <1>0 DEF Prepare, LoopStates
<1> QED
  BY <1>0, <1>1, <1>2, <1>4, <1>5, <1>6, LineStays, SurroundingsStay

LEMMA PollStep ==
    ASSUME WindowsInvariant, NEW rpc \in BOOLEAN, NEW others \in BOOLEAN, NEW expired \in BOOLEAN,
           Poll(rpc, others, expired)
    PROVE  WindowsInvariant'
<1>0. TypeOK /\ loop \in LoopStates
  BY DEF WindowsInvariant, TypeOK, LoopStates
<1>1. UNCHANGED Surroundings /\ timer' = timer /\ input' = input
  BY DEF Poll, windows, Surroundings
<1>2. XSync \/ UNCHANGED <<queue, wire>>
  BY DEF Poll
<1>3. PICK ready \in BOOLEAN, at \in {"sync", "call", "prepare"} :
        loop' = [loop EXCEPT !.ready = ready, !.timeout = "never", !.at = at]
  <2> DEFINE r == loop.ready \/ (xt_source /\ xt_event_check)
             a == IF r \/ others THEN "sync" ELSE IF rpc THEN "call" ELSE "prepare"
  <2>1. loop' = [loop EXCEPT !.ready = r, !.timeout = "never", !.at = a]
    BY DEF Poll
  <2>2. r \in BOOLEAN
    BY <1>0 DEF LoopStates
  <2>3. a \in {"sync", "call", "prepare"}
    OBVIOUS
  <2> HIDE DEF r, a
  <2> QED
    BY <2>1, <2>2, <2>3
<1>4. loop' \in LoopStates /\ loop'.at # "aborted"
  BY <1>0, <1>3 DEF LoopStates
<1>5. timer' \in {"none", "idle", "ready"} /\ input' \in {"none", "idle", "ready"}
  BY <1>0, <1>1 DEF TypeOK
<1> QED
  BY <1>0, <1>1, <1>2, <1>4, <1>5, LineStays, SurroundingsStay

LEMMA CallReturnsLoop ==
    ASSUME loop \in LoopStates, NEW source \in BOOLEAN, Called, CallReturns(source)
    PROVE  loop' \in LoopStates /\ loop'.at # "aborted"
<1>2. PICK ready \in BOOLEAN, at \in {"prepare", "sync", "dispatch"} :
        loop' = [loop EXCEPT !.at = at, !.ready = ready]
  <2> DEFINE r == loop.ready /\ (source \/ loop.n > 0)
             a == IF loop.at = "call" THEN "prepare" ELSE loop.at
  <2>1. loop' = [loop EXCEPT !.at = a, !.ready = r]
    BY DEF CallReturns
  <2>2. r \in BOOLEAN
    OBVIOUS
  <2>3. a \in {"prepare", "sync", "dispatch"}
    BY DEF Called
  <2> HIDE DEF r, a
  <2> QED
    BY <2>1, <2>2, <2>3
<1> QED
  BY <1>2 DEF LoopStates

\* The steps of the loop that leave X alone.
LEMMA LoopStep ==
    ASSUME WindowsInvariant, rpc_sync \/ OtherCall
    PROVE  WindowsInvariant'
<1>0. TypeOK /\ loop \in LoopStates
  BY DEF WindowsInvariant, TypeOK, LoopStates
<1>1. UNCHANGED Surroundings /\ timer' = timer /\ input' = input /\ UNCHANGED <<queue, wire>>
  BY DEF rpc_sync, OtherCall, windows, xt, Surroundings
<1>4. loop' \in LoopStates /\ loop'.at # "aborted"
  <2>1. CASE rpc_sync
    BY <1>0, <2>1 DEF rpc_sync, LoopStates
  <2>2. CASE OtherCall
    BY <1>0, <2>2, CallReturnsLoop DEF OtherCall, Called, TypeOK
  <2> QED
    BY <2>1, <2>2
<1>5. timer' \in {"none", "idle", "ready"} /\ input' \in {"none", "idle", "ready"}
  BY <1>0, <1>1 DEF TypeOK
<1> QED
  BY <1>0, <1>1, <1>4, <1>5, LineStays, SurroundingsStay

LEMMA EndOfDispatchStep ==
    ASSUME WindowsInvariant, EndOfDispatch
    PROVE  WindowsInvariant'
<1>0. TypeOK /\ loop \in LoopStates
  BY DEF WindowsInvariant, TypeOK, LoopStates
<1>1. UNCHANGED Surroundings /\ timer' = timer /\ input' = input /\ UNCHANGED <<queue, wire>>
  BY DEF EndOfDispatch, windows, xt, Surroundings
<1>4. loop' \in LoopStates /\ loop'.at # "aborted"
  <2>1. 0 \in 0..XT_MAX_DISPATCH_EVENTS
    BY WindowsAssumption
  <2> QED
    BY <1>0, <2>1 DEF EndOfDispatch, LoopStates
<1>5. timer' \in {"none", "idle", "ready"} /\ input' \in {"none", "idle", "ready"}
  BY <1>0, <1>1 DEF TypeOK
<1> QED
  BY <1>0, <1>1, <1>4, <1>5, LineStays, SurroundingsStay

LEMMA ContextStep ==
    ASSUME WindowsInvariant,
           PluginAddsTimer \/ PluginAddsInput \/ TimerIsDue \/ InputArrives
    PROVE  WindowsInvariant'
<1>0. TypeOK /\ loop \in LoopStates
  BY DEF WindowsInvariant, TypeOK, LoopStates
<1>1. UNCHANGED Surroundings /\ loop' = loop /\ UNCHANGED <<queue, wire>>
  BY DEF PluginAddsTimer, PluginAddsInput, TimerIsDue, InputArrives, windows, Surroundings
<1>5. timer' \in {"none", "idle", "ready"} /\ input' \in {"none", "idle", "ready"}
  BY <1>0 DEF TypeOK, PluginAddsTimer, PluginAddsInput, TimerIsDue, InputArrives
<1> QED
  BY <1>0, <1>1, <1>5, LineStays, SurroundingsStay

LEMMA StutteringStep ==
    ASSUME WindowsInvariant, UNCHANGED vars
    PROVE  WindowsInvariant'
<1>0. TypeOK /\ loop \in LoopStates
  BY DEF WindowsInvariant, TypeOK, LoopStates
<1>1. UNCHANGED Surroundings /\ loop' = loop /\ UNCHANGED <<queue, wire>> /\ timer' = timer /\ input' = input
  BY DEF vars, Surroundings
<1>5. timer' \in {"none", "idle", "ready"} /\ input' \in {"none", "idle", "ready"}
  BY <1>0, <1>1 DEF TypeOK
<1> QED
  BY <1>0, <1>1, <1>5, LineStays, SurroundingsStay

-----------------------------------------------------------------------------
(* One round of the dispatch.                                                *)

\* The event at the head goes; what its handler sends comes last.
LEMMA ProcessEventLine ==
    ASSUME TypeOK, ProcessEvent
    PROVE  LET e == Head(queue)
               sends == xt_client_event_handler(e)
           IN  /\ e \in Events /\ sends \in Seq(Events)
               /\ queue \o wire = <<e>> \o Tail(queue \o wire)
               /\ Tail(queue \o wire) \in Seq(Events)
               /\ queue' \in Seq(Events) /\ wire' \in Seq(Events)
               /\ queue' \o wire' = Tail(queue \o wire) \o sends
<1> DEFINE e == Head(queue)
           t == Tail(queue)
           sends == xt_client_event_handler(e)
<1>1. queue \in Seq(Events) /\ wire \in Seq(Events) /\ queue # <<>>
  BY DEF TypeOK, ProcessEvent
<1>2. e \in Events /\ t \in Seq(Events) /\ queue = <<e>> \o t
  BY <1>1
<1>3. sends \in Seq(Events)
  <2>1. Event(e.i, "form", e.kind) \in Events
    BY <1>2 DEF Event, Events
  <2> HIDE DEF e
  <2>2. <<Event(e.i, "form", e.kind)>> \in Seq(Events)
    BY <2>1
  <2> QED
    BY <2>2 DEF xt_client_event_handler
<1>4. /\ queue' = t \o (IF sends = <<>> THEN <<>> ELSE wire \o sends)
      /\ wire' = IF sends = <<>> THEN wire ELSE <<>>
  BY DEF ProcessEvent
<1> HIDE DEF e, t, sends
<1>5. queue \o wire = <<e>> \o (t \o wire) /\ t \o wire \in Seq(Events)
  BY <1>1, <1>2
<1>6. Tail(<<e>> \o (t \o wire)) = t \o wire
  <2>1. PICK r \in Seq(Events) : r = t \o wire
    BY <1>5
  <2>2. Tail(<<e>> \o r) = r
    BY <1>2
  <2> QED
    BY <2>1, <2>2
<1>7. CASE sends = <<>>
  <2>1. queue' = t /\ wire' = wire
    BY <1>2, <1>4, <1>7
  <2>2. (t \o wire) \o sends = t \o wire
    BY <1>5, <1>7
  <2>3. queue' \o wire' = (t \o wire) \o sends /\ queue' \in Seq(Events) /\ wire' \in Seq(Events)
    BY <1>1, <1>2, <2>1, <2>2
  <2> QED
    BY <1>2, <1>3, <1>5, <1>6, <2>3 DEF e, t, sends
<1>8. CASE sends # <<>>
  <2>1. queue' = t \o (wire \o sends) /\ wire' = <<>>
    BY <1>4, <1>8
  <2>2. queue' \o wire' = (t \o wire) \o sends /\ queue' \in Seq(Events) /\ wire' \in Seq(Events)
    BY <1>1, <1>2, <1>3, <2>1
  <2> QED
    BY <1>2, <1>3, <1>5, <1>6, <2>2 DEF e, t, sends
<1> QED
  BY <1>7, <1>8

\* For each instance: what was on the way to the form comes to it, what was
\* on the way to the top widget is on the way to the form.
LEMMA ProcessEventInput ==
    ASSUME TypeOK, ProcessEvent, sent' = sent, NEW i \in Instances, NEW p,
           InputOk(i, p, sent[i], arrived[i], queue \o wire)
    PROVE  InputOk(i, p, sent'[i], arrived'[i], queue' \o wire')
<1> DEFINE e == Head(queue)
           sends == xt_client_event_handler(e)
           x == queue \o wire
           t == Tail(queue \o wire)
           y == queue' \o wire'
<1>1. /\ e \in Events /\ sends \in Seq(Events) /\ x = <<e>> \o t /\ t \in Seq(Events)
      /\ y = t \o sends
  BY ProcessEventLine
<1>2. e.i \in Instances /\ e.at \in {"top", "form"} /\ e.kind \in Kinds
  BY <1>1, EventFields
<1>a. arrived' = IF e.at = "form" THEN [arrived EXCEPT ![e.i] = Append(@, e.kind)] ELSE arrived
  BY DEF ProcessEvent
<1>b. sends = IF e.at = "top" THEN <<Event(e.i, "form", e.kind)>> ELSE <<>>
  BY DEF xt_client_event_handler
<1>c. arrived \in [Instances -> Seq(Kinds)] /\ arrived[i] \in Seq(Kinds)
  BY DEF TypeOK
<1>d. InputOk(i, p, sent[i], arrived[i], x)
  OBVIOUS
<1>e. <<e>> \in Seq(Events)
  BY <1>1
<1> HIDE DEF e, sends, x, t, y
<1>3. /\ Way(x, i, "form") = Way(<<e>>, i, "form") \o Way(t, i, "form")
      /\ Way(x, i, "top") = Way(<<e>>, i, "top") \o Way(t, i, "top")
      /\ Way(y, i, "form") = Way(t, i, "form") \o Way(sends, i, "form")
      /\ Way(y, i, "top") = Way(t, i, "top") \o Way(sends, i, "top")
  BY <1>1, <1>e, WayProps
<1> DEFINE f == Way(t, i, "form")
           o == Way(t, i, "top")
           a == arrived[i]
           k == e.kind
<1>4. f \in Seq(Kinds) /\ o \in Seq(Kinds) /\ a \in Seq(Kinds) /\ k \in Kinds
  BY <1>1, <1>2, <1>c, WayProps
<1>5. /\ Way(<<e>>, i, "form") = IF e.i = i /\ e.at = "form" THEN <<k>> ELSE <<>>
      /\ Way(<<e>>, i, "top") = IF e.i = i /\ e.at = "top" THEN <<k>> ELSE <<>>
  BY <1>1, WayOfOne
<1>6. /\ Way(sends, i, "form") = IF e.i = i /\ e.at = "top" THEN <<k>> ELSE <<>>
      /\ Way(sends, i, "top") = <<>>
  <2>1. CASE e.at = "top"
    <3> DEFINE r == Event(e.i, "form", e.kind)
    <3>1. r \in Events /\ r.i = e.i /\ r.at = "form" /\ r.kind = k
      BY <1>2 DEF Event, Events
    <3>2. sends = <<r>>
      BY <1>b, <2>1
    <3> HIDE DEF r
    <3>3. /\ Way(<<r>>, i, "form") = IF r.i = i /\ r.at = "form" THEN <<r.kind>> ELSE <<>>
          /\ Way(<<r>>, i, "top") = IF r.i = i /\ r.at = "top" THEN <<r.kind>> ELSE <<>>
      BY <3>1, WayOfOne
    <3> QED
      BY <2>1, <3>1, <3>2, <3>3
  <2>2. CASE e.at # "top"
    BY <1>b, <2>2, WayProps
  <2> QED
    BY <2>1, <2>2
<1>7. arrived'[i] = IF e.i = i /\ e.at = "form" THEN Append(a, k) ELSE a
  BY <1>2, <1>a, <1>c
<1>8. sent'[i] = sent[i]
  OBVIOUS
<1>9. arrived'[i] \o Way(y, i, "form") \o Way(y, i, "top")
        = arrived[i] \o Way(x, i, "form") \o Way(x, i, "top")
  <2> HIDE DEF f, o, a, k
  <2>0. /\ Way(x, i, "form") = Way(<<e>>, i, "form") \o f
        /\ Way(x, i, "top") = Way(<<e>>, i, "top") \o o
        /\ Way(y, i, "form") = f \o Way(sends, i, "form")
        /\ Way(y, i, "top") = o \o Way(sends, i, "top")
    BY <1>3 DEF f, o
  <2>1. CASE e.i = i /\ e.at = "form"
    <3>1. /\ Way(x, i, "form") = <<k>> \o f /\ Way(x, i, "top") = <<>> \o o
          /\ Way(y, i, "form") = f \o <<>> /\ Way(y, i, "top") = o \o <<>>
          /\ arrived'[i] = Append(a, k)
      BY <1>5, <1>6, <1>7, <2>0, <2>1
    <3>2. Append(a, k) \o (f \o <<>>) \o (o \o <<>>) = a \o (<<k>> \o f) \o (<<>> \o o)
      BY <1>4
    <3> QED
      BY <3>1, <3>2 DEF a
  <2>2. CASE e.i = i /\ e.at = "top"
    <3>1. /\ Way(x, i, "form") = <<>> \o f /\ Way(x, i, "top") = <<k>> \o o
          /\ Way(y, i, "form") = f \o <<k>> /\ Way(y, i, "top") = o \o <<>>
          /\ arrived'[i] = a
      BY <1>5, <1>6, <1>7, <2>0, <2>2
    <3>2. a \o (f \o <<k>>) \o (o \o <<>>) = a \o (<<>> \o f) \o (<<k>> \o o)
      BY <1>4
    <3> QED
      BY <3>1, <3>2 DEF a
  <2>3. CASE e.i # i
    <3>1. /\ Way(x, i, "form") = <<>> \o f /\ Way(x, i, "top") = <<>> \o o
          /\ Way(y, i, "form") = f \o <<>> /\ Way(y, i, "top") = o \o <<>>
          /\ arrived'[i] = a
      BY <1>5, <1>6, <1>7, <2>0, <2>3
    <3>2. a \o (f \o <<>>) \o (o \o <<>>) = a \o (<<>> \o f) \o (<<>> \o o)
      BY <1>4
    <3> QED
      BY <3>1, <3>2 DEF a
  <2> QED
    BY <1>2, <2>1, <2>2, <2>3
<1> QED
  BY <1>8, <1>9, <1>d DEF InputOk, x, y

LEMMA DispatchStep ==
    ASSUME WindowsInvariant, xt_event_dispatch
    PROVE  WindowsInvariant'
<1>0. TypeOK /\ loop \in LoopStates
  BY DEF WindowsInvariant, TypeOK, LoopStates
<1>1. /\ plugin' = plugin /\ given' = given /\ told' = told /\ refused' = refused
      /\ sent' = sent
      /\ xt_source_count' = xt_source_count /\ xt_source' = xt_source
  BY DEF xt_event_dispatch, windows
<1>2. loop' \in LoopStates /\ loop'.at # "aborted"
  <2>1. loop.n \in 0..XT_MAX_DISPATCH_EVENTS /\ loop.n < XT_MAX_DISPATCH_EVENTS
    BY <1>0 DEF LoopStates, xt_event_dispatch, CanDispatch
  <2>2. PICK k \in {loop.n, loop.n + 1} : loop' = [loop EXCEPT !.n = k]
    BY DEF xt_event_dispatch
  <2>3. k \in 0..XT_MAX_DISPATCH_EVENTS
    BY <2>1, WindowsAssumption
  <2> QED
    BY <1>0, <2>2, <2>3 DEF LoopStates, xt_event_dispatch, CanDispatch
<1>3. timer' \in {"none", "idle", "ready"} /\ input' \in {"none", "idle", "ready"}
  BY <1>0 DEF TypeOK, xt_event_dispatch, ProcessEvent, ReadSocket, ProcessTimer, ProcessInput
<1>4. CASE ReadSocket \/ ProcessTimer \/ ProcessInput
  <2>1. XSync \/ UNCHANGED <<queue, wire>>
    BY <1>4 DEF ReadSocket, ProcessTimer, ProcessInput
  <2>2. UNCHANGED Surroundings
    BY <1>1, <1>4 DEF Surroundings, ReadSocket, ProcessTimer, ProcessInput
  <2> QED
    BY <1>0, <1>2, <1>3, <2>1, <2>2, LineStays, SurroundingsStay
<1>5. CASE ProcessEvent
  <2>1. queue' \in Seq(Events) /\ wire' \in Seq(Events) /\ Head(queue) \in Events
    BY <1>0, <1>5, ProcessEventLine
  <2>2. arrived' \in [Instances -> Seq(Kinds)]
    <3>1. Head(queue).kind \in Kinds /\ Head(queue).i \in Instances
      BY <2>1, EventFields
    <3>2. arrived \in [Instances -> Seq(Kinds)]
      BY <1>0 DEF TypeOK
    <3> QED
      BY <1>5, <3>1, <3>2 DEF ProcessEvent
  <2>3. TypeOK'
    BY <1>0, <1>1, <1>2, <1>3, <2>1, <2>2 DEF TypeOK, LoopStates
  <2>4. WindowsOk'
    BY <1>1, <1>2 DEF WindowsInvariant, WindowsOk
  <2>5. SourceOk'
    <3>1. SourceOk
      BY DEF WindowsInvariant
    <3>2. Sharing(plugin') = Sharing(plugin)
      BY <1>1
    <3> QED
      BY <1>1, <3>1, <3>2 DEF SourceOk
  <2>6. InputsOk'
    <3> SUFFICES ASSUME NEW i \in Instances
                 PROVE  InputOk(i, plugin'[i], sent'[i], arrived'[i], queue' \o wire')
      BY DEF InputsOk
    <3>1. InputOk(i, plugin[i], sent[i], arrived[i], queue \o wire)
      BY DEF WindowsInvariant, InputsOk
    <3>2. InputOk(i, plugin[i], sent'[i], arrived'[i], queue' \o wire')
      BY <1>0, <1>1, <1>5, <3>1, ProcessEventInput
    <3> QED
      BY <1>1, <3>2
  <2> QED
    BY <2>3, <2>4, <2>5, <2>6 DEF WindowsInvariant
<1> QED
  BY <1>4, <1>5 DEF xt_event_dispatch

-----------------------------------------------------------------------------
(* Calls of the browser.                                                     *)

LEMMA CalledLoop ==
    ASSUME TypeOK, Called, NEW source \in BOOLEAN, CallReturns(source)
    PROVE  loop' \in LoopStates /\ loop'.at # "aborted"
<1>1. loop \in LoopStates
  BY DEF TypeOK, LoopStates
<1> QED
  BY <1>1, CallReturnsLoop

LEMMA NewStep ==
    ASSUME WindowsInvariant, NEW i \in Instances, NEW x \in BOOLEAN,
           NEW ok \in BOOLEAN, NEW h \in Hints, NPP_New(i, x, h, ok)
    PROVE  WindowsInvariant'
<1> DEFINE p == [use_xembed |-> x, is_windowless |-> FALSE, hint |-> h, ws_info |-> FALSE,
                 toolkit |-> "none", window |-> NONE, width |-> 0]
<1>0. TypeOK /\ WindowsOk /\ SourceOk /\ InputsOk
  BY DEF WindowsInvariant
<1>1. /\ given' = given /\ told' = told /\ sent' = sent /\ arrived' = arrived
      /\ queue' = queue /\ wire' = wire /\ timer' = timer /\ input' = input
  BY DEF NPP_New, xt
<1>2. plugin[i] = NONE /\ Called /\ CallReturns(xt_source')
  BY DEF NPP_New, Live
<1>3. plugin' = IF ok THEN [plugin EXCEPT ![i] = p] ELSE plugin
  BY DEF NPP_New
<1>4. refused' = (IF ok THEN refused ELSE refused + 1) /\ (ok \/ (refused < MaxRefused /\ ~x))
  BY DEF NPP_New
<1>5. /\ x => xt_source_count' = xt_source_count /\ xt_source' = xt_source
      /\ ~x => xt_source_count' = xt_source_count + 1 /\ xt_source' = TRUE
  BY Zenon DEF NPP_New, xt_source_create
<1>6. /\ p \in PluginInstance /\ p # NONE /\ p.use_xembed = x /\ p.toolkit = "none"
      /\ WindowOk(p, NONE)
  <2>1. p \in PluginInstance
    BY DEF PluginInstance
  <2>2. p # NONE
    BY <2>1, NoneAssumption
  <2> QED
    BY <2>1, <2>2 DEF WindowOk
<1> HIDE DEF p
<1>7. plugin \in [Instances -> PluginInstance \cup {NONE}] /\ refused \in 0..MaxRefused
  BY <1>0 DEF TypeOK
<1>8. plugin' \in [Instances -> PluginInstance \cup {NONE}]
  BY <1>3, <1>6, <1>7
<1>9. \A j \in Instances : plugin'[j] = IF ok /\ j = i THEN p ELSE plugin[j]
  BY <1>3, <1>7
<1>10. TypeOK' /\ loop'.at # "aborted"
  <2>1. refused' \in 0..MaxRefused
    BY <1>4, <1>7, WindowsAssumption
  <2>2. xt_source_count' \in Nat /\ xt_source' \in BOOLEAN
    <3>1. xt_source_count \in Nat /\ xt_source \in BOOLEAN
      BY <1>0 DEF TypeOK
    <3>2. CASE x
      BY <1>5, <3>1, <3>2
    <3>3. CASE ~x
      BY <1>5, <3>1, <3>3
    <3> QED
      BY <3>2, <3>3
  <2>3. loop' \in LoopStates /\ loop'.at # "aborted"
    BY <1>0, <1>2, <2>2, CalledLoop
  <2>4. TypeOK'
    BY <1>0, <1>1, <1>8, <2>1, <2>2, <2>3 DEF TypeOK, LoopStates
  <2> QED
    BY <2>3, <2>4
<1>11. WindowsOk'
  <2>1. given[i] = NONE
    BY <1>0, <1>2 DEF WindowsOk, InstanceOk
  <2>2. InstanceOk(p, given[i], told[i])
    BY <1>6, <2>1 DEF Knows, InstanceOk
  <2>3. ASSUME NEW j \in Instances
        PROVE  InstanceOk(plugin'[j], given'[j], told'[j])
    <3>1. CASE ok /\ j = i
      BY <1>1, <1>9, <2>2, <3>1
    <3>2. CASE ~(ok /\ j = i)
      BY <1>0, <1>1, <1>9, <3>2 DEF WindowsOk
    <3> QED
      BY <3>1, <3>2
  <2> QED
    BY <1>10, <2>3 DEF WindowsOk
<1>12. SourceOk'
  <2>0. /\ IsFiniteSet(Sharing(plugin)) /\ xt_source_count = refused + Cardinality(Sharing(plugin))
        /\ (xt_source <=> xt_source_count > 0) /\ refused \in Nat /\ xt_source_count \in Nat
    BY <1>0 DEF SourceOk, TypeOK
  <2>a. Cardinality(Sharing(plugin)) \in Nat
    BY <2>0, FS_CardinalityType
  <2>1. CASE ok /\ ~x
    <3>1. Sharing(plugin') = Sharing(plugin) \cup {i} /\ i \notin Sharing(plugin)
      BY <1>2, <1>6, <1>9, <2>1 DEF Sharing
    <3>2. /\ IsFiniteSet(Sharing(plugin) \cup {i})
          /\ Cardinality(Sharing(plugin) \cup {i}) = Cardinality(Sharing(plugin)) + 1
      BY <2>0, <3>1, FS_AddElement
    <3>3. refused' = refused /\ xt_source_count' = xt_source_count + 1 /\ xt_source' = TRUE
      BY <1>4, <1>5, <2>1
    <3>4. xt_source_count' = refused' + Cardinality(Sharing(plugin')) /\ xt_source_count' > 0
      BY <2>0, <2>a, <3>1, <3>2, <3>3
    <3> QED
      BY <3>1, <3>2, <3>3, <3>4 DEF SourceOk
  <2>2. CASE ~(ok /\ ~x)
    <3>1. Sharing(plugin') = Sharing(plugin)
      BY <1>2, <1>6, <1>9, <2>2 DEF Sharing
    <3>2. CASE x
      <4>1. refused' = refused /\ xt_source_count' = xt_source_count /\ xt_source' = xt_source
        BY <1>4, <1>5, <3>2
      <4> QED
        BY <2>0, <3>1, <4>1 DEF SourceOk
    <3>3. CASE ~x
      <4>1. refused' = refused + 1 /\ xt_source_count' = xt_source_count + 1 /\ xt_source' = TRUE
        BY <1>4, <1>5, <2>2, <3>3
      <4>2. xt_source_count' = refused' + Cardinality(Sharing(plugin')) /\ xt_source_count' > 0
        BY <2>0, <2>a, <3>1, <4>1
      <4> QED
        BY <2>0, <3>1, <4>1, <4>2 DEF SourceOk
    <3> QED
      BY <3>2, <3>3
  <2> QED
    BY <2>1, <2>2
<1>13. InputsOk'
  <2>1. \A j \in Instances : GetsInput(plugin[j]) => GetsInput(plugin'[j])
    BY <1>2, <1>9 DEF GetsInput
  <2> QED
    BY <1>0, <1>1, <2>1, InputsStay
<1> QED
  BY <1>10, <1>11, <1>12, <1>13 DEF WindowsInvariant

\* The window of i goes, and with it what i was sent and has got.
LEMMA WindowGoneProps ==
    ASSUME TypeOK, InputsOk, NEW i \in Instances, WindowGone(i),
           \A j \in Instances \ {i} : plugin'[j] = plugin[j]
    PROVE  /\ queue' \in Seq(Events) /\ wire' \in Seq(Events)
           /\ sent' \in [Instances -> Seq(Kinds)] /\ arrived' \in [Instances -> Seq(Kinds)]
           /\ InputsOk'
<1>1. /\ queue \in Seq(Events) /\ wire \in Seq(Events)
      /\ sent \in [Instances -> Seq(Kinds)] /\ arrived \in [Instances -> Seq(Kinds)]
  BY DEF TypeOK
<1>a. queue \o wire \in Seq(Events)
  BY <1>1
<1>2. PICK x \in Seq(Events) : x = queue \o wire
  BY <1>a, Zenon
<1>3. queue' = WithoutEvents(x, i) /\ wire' = <<>>
  BY <1>2 DEF WindowGone
<1>4. sent' = [sent EXCEPT ![i] = <<>>] /\ arrived' = [arrived EXCEPT ![i] = <<>>]
  BY DEF WindowGone
<1>5. PICK y \in Seq(Events) : y = WithoutEvents(x, i)
  BY WayWithout
<1>6. queue' \in Seq(Events) /\ wire' \in Seq(Events) /\ queue' \o wire' = y
  BY <1>3, <1>5
<1>7. sent' \in [Instances -> Seq(Kinds)] /\ arrived' \in [Instances -> Seq(Kinds)]
  <2>1. <<>> \in Seq(Kinds)
    OBVIOUS
  <2> QED
    BY <1>1, <1>4, <2>1
<1>8. ASSUME NEW j \in Instances
      PROVE  InputOk(j, plugin'[j], sent'[j], arrived'[j], y)
  <2>1. /\ Way(y, j, "form") = IF j = i THEN <<>> ELSE Way(x, j, "form")
        /\ Way(y, j, "top") = IF j = i THEN <<>> ELSE Way(x, j, "top")
    BY <1>5, WayWithout
  <2>2. CASE j = i
    <3>1. /\ sent'[j] = <<>> /\ arrived'[j] = <<>>
          /\ Way(y, j, "form") = <<>> /\ Way(y, j, "top") = <<>>
      BY <1>1, <1>4, <2>1, <2>2
    <3>2. <<>> \o <<>> \o <<>> = <<>>
      OBVIOUS
    <3> QED
      BY <3>1, <3>2 DEF InputOk
  <2>3. CASE j # i
    <3>1. /\ sent'[j] = sent[j] /\ arrived'[j] = arrived[j] /\ plugin'[j] = plugin[j]
          /\ Way(y, j, "form") = Way(x, j, "form") /\ Way(y, j, "top") = Way(x, j, "top")
      BY <1>1, <1>4, <2>1, <2>3
    <3>2. InputOk(j, plugin[j], sent[j], arrived[j], x)
      BY <1>2 DEF InputsOk
    <3> QED
      BY <3>1, <3>2 DEF InputOk
  <2> QED
    BY <2>2, <2>3
<1>9. InputsOk'
  BY <1>6, <1>8 DEF InputsOk
<1> QED
  BY <1>6, <1>7, <1>9

LEMMA DestroyStep ==
    ASSUME WindowsInvariant, NEW i \in Instances, NPP_Destroy(i)
    PROVE  WindowsInvariant'
<1>0. TypeOK /\ WindowsOk /\ SourceOk /\ InputsOk
  BY DEF WindowsInvariant
<1>1. /\ refused' = refused /\ timer' = timer /\ input' = input
      /\ plugin[i] # NONE /\ Called /\ CallReturns(xt_source') /\ WindowGone(i)
      /\ plugin' = [plugin EXCEPT ![i] = NONE]
      /\ given' = [given EXCEPT ![i] = NONE]
      /\ told' = [told EXCEPT ![i] = NONE]
  BY DEF NPP_Destroy, Live
<1>2. /\ plugin[i].use_xembed => xt_source_count' = xt_source_count /\ xt_source' = xt_source
      /\ ~plugin[i].use_xembed => /\ xt_source_count' = xt_source_count - 1
                                  /\ xt_source' = (xt_source /\ xt_source_count > 1)
  BY Zenon DEF NPP_Destroy, xt_source_destroy
<1>3. /\ plugin \in [Instances -> PluginInstance \cup {NONE}]
      /\ given \in [Instances -> NPWindow \cup {NONE}] /\ told \in [Instances -> Window \cup {NONE}]
      /\ xt_source_count \in Nat /\ xt_source \in BOOLEAN /\ refused \in Nat
  BY <1>0 DEF TypeOK
<1>4. /\ plugin' \in [Instances -> PluginInstance \cup {NONE}]
      /\ given' \in [Instances -> NPWindow \cup {NONE}] /\ told' \in [Instances -> Window \cup {NONE}]
  BY <1>1, <1>3
<1>5. \A j \in Instances :
        /\ plugin'[j] = IF j = i THEN NONE ELSE plugin[j]
        /\ given'[j] = IF j = i THEN NONE ELSE given[j]
        /\ told'[j] = IF j = i THEN NONE ELSE told[j]
  BY <1>1, <1>3
<1>6. /\ queue' \in Seq(Events) /\ wire' \in Seq(Events)
      /\ sent' \in [Instances -> Seq(Kinds)] /\ arrived' \in [Instances -> Seq(Kinds)]
      /\ InputsOk'
  <2>1. \A j \in Instances \ {i} : plugin'[j] = plugin[j]
    BY <1>5
  <2> QED
    BY <1>0, <1>1, <2>1, WindowGoneProps
<1>7. /\ IsFiniteSet(Sharing(plugin)) /\ xt_source_count = refused + Cardinality(Sharing(plugin))
      /\ (xt_source <=> xt_source_count > 0) /\ Cardinality(Sharing(plugin)) \in Nat
  BY <1>0, FS_CardinalityType DEF SourceOk
<1>8. SourceOk' /\ xt_source_count' \in Nat /\ xt_source' \in BOOLEAN
  <2>1. CASE plugin[i].use_xembed
    <3>1. Sharing(plugin') = Sharing(plugin)
      BY <1>5, <2>1 DEF Sharing
    <3>2. xt_source_count' = xt_source_count /\ xt_source' = xt_source
      BY <1>2, <2>1
    <3> QED
      BY <1>1, <1>3, <1>7, <3>1, <3>2 DEF SourceOk
  <2>2. CASE ~plugin[i].use_xembed
    <3>1. i \in Sharing(plugin) /\ Sharing(plugin') = Sharing(plugin) \ {i}
      BY <1>1, <1>5, <2>2 DEF Sharing
    <3>2. /\ IsFiniteSet(Sharing(plugin) \ {i})
          /\ Cardinality(Sharing(plugin) \ {i}) = Cardinality(Sharing(plugin)) - 1
      BY <1>7, <3>1, FS_RemoveElement
    <3>3. Cardinality(Sharing(plugin) \ {i}) \in Nat
      BY <3>2, FS_CardinalityType
    <3>4. xt_source_count' = xt_source_count - 1 /\ xt_source' = (xt_source /\ xt_source_count > 1)
      BY <1>2, <2>2
    <3> DEFINE n == Cardinality(Sharing(plugin))
               m == Cardinality(Sharing(plugin) \ {i})
    <3>a. n = m + 1 /\ m \in Nat /\ xt_source_count = refused + n /\ refused \in Nat
      BY <1>3, <1>7, <3>2, <3>3
    <3>b. Cardinality(Sharing(plugin')) = m
      BY <3>1
    <3> HIDE DEF n, m
    <3>5. /\ xt_source_count' = refused' + Cardinality(Sharing(plugin')) /\ xt_source_count' \in Nat
          /\ xt_source_count > 0
      BY <1>1, <3>4, <3>a, <3>b
    <3>6. (xt_source_count > 1) <=> (xt_source_count' > 0)
      BY <1>3, <3>4
    <3>7. (xt_source' <=> xt_source_count' > 0) /\ xt_source' \in BOOLEAN
      BY <1>7, <3>4, <3>5, <3>6
    <3> QED
      BY <3>1, <3>2, <3>5, <3>7 DEF SourceOk
  <2> QED
    BY <2>1, <2>2
<1>a. loop' \in LoopStates /\ loop'.at # "aborted"
  BY <1>0, <1>1, <1>8, CalledLoop
<1>9. WindowsOk'
  BY <1>0, <1>5, <1>a DEF WindowsOk, InstanceOk
<1>10. TypeOK'
  BY <1>0, <1>1, <1>4, <1>6, <1>8, <1>a DEF TypeOK, LoopStates
<1> QED
  BY <1>6, <1>8, <1>9, <1>10 DEF WindowsInvariant

LEMMA SharingStays ==
    ASSUME SourceOk, refused' = refused, xt_source_count' = xt_source_count,
           xt_source' = xt_source, NEW i \in Instances, plugin[i] # NONE, plugin'[i] # NONE,
           plugin'[i].use_xembed = plugin[i].use_xembed,
           \A j \in Instances \ {i} : plugin'[j] = plugin[j]
    PROVE  SourceOk'
<1>1. Sharing(plugin') = Sharing(plugin)
  <2>1. ASSUME NEW j \in Instances
        PROVE  j \in Sharing(plugin') <=> j \in Sharing(plugin)
    BY DEF Sharing
  <2> QED
    BY <2>1 DEF Sharing
<1> QED
  BY <1>1 DEF SourceOk

LEMMA SetWindowNullStep ==
    ASSUME WindowsInvariant, NEW i \in Instances, NPP_SetWindowNull(i)
    PROVE  WindowsInvariant'
<1> DEFINE p == [destroy_window(plugin[i]) EXCEPT !.is_windowless = FALSE]
<1>0. TypeOK /\ WindowsOk /\ SourceOk /\ InputsOk
  BY DEF WindowsInvariant
<1>1. /\ refused' = refused /\ timer' = timer /\ input' = input
      /\ xt_source_count' = xt_source_count /\ xt_source' = xt_source
      /\ plugin[i] # NONE /\ Called /\ CallReturns(xt_source)
      /\ plugin' = [plugin EXCEPT ![i] = p]
      /\ given' = [given EXCEPT ![i] = NONE]
      /\ told' = [told EXCEPT ![i] = NONE]
  BY DEF NPP_SetWindowNull, Live
<1>2. IF HasXtWindow(i) THEN WindowGone(i) ELSE UNCHANGED <<wire, queue, sent, arrived>>
  BY DEF NPP_SetWindowNull
<1>3. /\ plugin \in [Instances -> PluginInstance \cup {NONE}] /\ plugin[i] \in PluginInstance
      /\ given \in [Instances -> NPWindow \cup {NONE}] /\ told \in [Instances -> Window \cup {NONE}]
  BY <1>0, <1>1 DEF TypeOK
<1>4. /\ p \in PluginInstance /\ p # NONE /\ p.use_xembed = plugin[i].use_xembed
      /\ ~p.ws_info /\ p.toolkit = "none"
  BY <1>3, DestroyProps, NoneAssumption
<1> HIDE DEF p
<1>5. /\ plugin' \in [Instances -> PluginInstance \cup {NONE}]
      /\ given' \in [Instances -> NPWindow \cup {NONE}] /\ told' \in [Instances -> Window \cup {NONE}]
  BY <1>1, <1>3, <1>4
<1>6. \A j \in Instances :
        /\ plugin'[j] = IF j = i THEN p ELSE plugin[j]
        /\ given'[j] = IF j = i THEN NONE ELSE given[j]
        /\ told'[j] = IF j = i THEN NONE ELSE told[j]
  BY <1>1, <1>3
<1>7. /\ queue' \in Seq(Events) /\ wire' \in Seq(Events)
      /\ sent' \in [Instances -> Seq(Kinds)] /\ arrived' \in [Instances -> Seq(Kinds)]
      /\ InputsOk'
  <2>1. CASE HasXtWindow(i)
    <3>1. \A j \in Instances \ {i} : plugin'[j] = plugin[j]
      BY <1>6
    <3>2. WindowGone(i)
      BY <1>2, <2>1
    <3> QED
      BY <1>0, <3>1, <3>2, WindowGoneProps
  <2>2. CASE ~HasXtWindow(i)
    <3>1. UNCHANGED <<wire, queue, sent, arrived>>
      BY <1>2, <2>2
    <3>2. \A j \in Instances : GetsInput(plugin[j]) => GetsInput(plugin'[j])
      BY <1>1, <1>6, <2>2 DEF GetsInput, HasXtWindow, Live
    <3>3. queue' \o wire' = queue \o wire /\ sent' = sent /\ arrived' = arrived
      BY <3>1
    <3>4. InputsOk'
      BY <1>0, <3>2, <3>3, InputsStay
    <3> QED
      BY <1>0, <3>1, <3>4 DEF TypeOK
  <2> QED
    BY <2>1, <2>2
<1>8. SourceOk'
  <2>1. /\ plugin'[i] # NONE /\ plugin'[i].use_xembed = plugin[i].use_xembed
        /\ \A j \in Instances \ {i} : plugin'[j] = plugin[j]
    BY <1>4, <1>6
  <2> QED
    BY <1>0, <1>1, <2>1, SharingStays
<1>a. loop' \in LoopStates /\ loop'.at # "aborted"
  <2>1. xt_source \in BOOLEAN
    BY <1>0 DEF TypeOK
  <2> QED
    BY <1>0, <1>1, <2>1, CalledLoop
<1>9. WindowsOk'
  <2>1. WindowOk(p, NONE)
    BY <1>4, Zenon DEF WindowOk
  <2>2. InstanceOk(p, NONE, NONE)
    BY <1>4, <2>1 DEF Knows, InstanceOk
  <2>3. ASSUME NEW j \in Instances PROVE InstanceOk(plugin'[j], given'[j], told'[j])
    BY <1>0, <1>6, <2>2 DEF WindowsOk
  <2> QED
    BY <1>a, <2>3 DEF WindowsOk
<1>10. TypeOK'
  BY <1>0, <1>1, <1>5, <1>7, <1>a DEF TypeOK, LoopStates
<1> QED
  BY <1>7, <1>8, <1>9, <1>10 DEF WindowsInvariant

\* What a call with a window makes of an instance p, and of what was given
\* and told before.
Refuses(p, q) == q.toolkit = p.toolkit /\ q.window = p.window /\ q.width = p.width
                 /\ (q.ws_info => p.ws_info) /\ (p.toolkit # "none" => q.ws_info)
Accepts(q, d, size) ==
    /\ q.ws_info /\ q.window = (IF d THEN NONE ELSE "own") /\ (q.toolkit = "none" <=> d)
    /\ size # 0 => q.width = size

LEMMA RefusedIsOk ==
    ASSUME NEW p \in PluginInstance, NEW q \in PluginInstance, NEW g, NEW t,
           Refuses(p, q), InstanceOk(p, g, t)
    PROVE  InstanceOk(q, g, t)
<1>1. p # NONE /\ q # NONE
  BY NoneAssumption
<1>2. WindowOk(p, g) /\ Knows(p, g, t)
  BY <1>1 DEF InstanceOk
<1>3. p.ws_info \in BOOLEAN /\ q.ws_info \in BOOLEAN
  BY DEF PluginInstance
<1>4. WindowOk(q, g)
  BY <1>2, <1>3 DEF WindowOk, Refuses
<1>5. Knows(q, g, t)
  BY <1>2 DEF Knows, Refuses
<1> QED
  BY <1>1, <1>4, <1>5 DEF InstanceOk

LEMMA AcceptedIsOk ==
    ASSUME NEW q \in PluginInstance, NEW d \in BOOLEAN, NEW size \in Sizes, Accepts(q, d, size)
    PROVE  /\ InstanceOk(q, [drawable |-> d, size |-> size], [window |-> q.window, width |-> q.width])
           /\ [drawable |-> d, size |-> size] \in NPWindow
           /\ [window |-> q.window, width |-> q.width] \in Window
<1> DEFINE g == [drawable |-> d, size |-> size]
           t == [window |-> q.window, width |-> q.width]
<1>1. g \in NPWindow /\ g # NONE /\ g.drawable = d /\ g.size = size
  BY NoneAssumption DEF NPWindow
<1>2. t \in Window /\ t # NONE /\ t.window = q.window /\ t.width = q.width
  BY ToldTypes
<1>3. q # NONE
  BY NoneAssumption
<1> HIDE DEF g, t
<1>4. WindowOk(q, g)
  BY <1>1 DEF WindowOk, Accepts
<1>5. Knows(q, g, t)
  BY <1>1, <1>2 DEF Knows, Accepts
<1>6. InstanceOk(q, g, t)
  BY <1>3, <1>4, <1>5 DEF InstanceOk
<1> QED
  BY <1>1, <1>2, <1>6 DEF g, t

\* What holds after the call: q is the instance, g and t what was given and told.
CallMakes(i, q, g, t) ==
    /\ plugin' = [plugin EXCEPT ![i] = q]
    /\ given' = [given EXCEPT ![i] = g] /\ told' = [told EXCEPT ![i] = t]
    /\ q.use_xembed = plugin[i].use_xembed
    /\ plugin[i].toolkit = "xt" => q.toolkit = "xt"
    /\ InstanceOk(q, g, t)
    /\ loop' \in LoopStates
    /\ loop'.at = "aborted" => HasDrawable(q, g)
    /\ XSync \/ UNCHANGED <<queue, wire>>

LEMMA SetWindowMakes ==
    ASSUME WindowsInvariant, NEW i \in Instances, NEW d \in BOOLEAN, NEW size \in Sizes,
           NEW a \in Attributes, NPP_SetWindow(i, d, size, a)
    PROVE  \E q \in PluginInstance, g \in NPWindow \cup {NONE}, t \in Window \cup {NONE} :
              CallMakes(i, q, g, t)
<1> DEFINE p == [plugin[i] EXCEPT !.is_windowless = d]
           new == [drawable |-> d, size |-> size]
           Refused(q) == plugin' = [plugin EXCEPT ![i] = q] /\ UNCHANGED <<given, told, queue, wire>>
           Accepted(q) == /\ plugin' = [plugin EXCEPT ![i] = q] /\ given' = [given EXCEPT ![i] = new]
                          /\ told' = [told EXCEPT ![i] = [window |-> q.window, width |-> q.width]]
                          /\ XSync \/ UNCHANGED <<queue, wire>>
<1>0. TypeOK /\ WindowsOk /\ loop \in LoopStates /\ xt_source \in BOOLEAN
  BY DEF WindowsInvariant, TypeOK, LoopStates
<1>1. Called /\ plugin[i] # NONE
  BY DEF NPP_SetWindow, Live
<1>2. /\ plugin[i] \in PluginInstance
      /\ given[i] \in NPWindow \cup {NONE} /\ told[i] \in Window \cup {NONE}
      /\ given \in [Instances -> NPWindow \cup {NONE}] /\ told \in [Instances -> Window \cup {NONE}]
  BY <1>0, <1>1 DEF TypeOK
<1>3. /\ p \in PluginInstance /\ p.is_windowless = d
      /\ p.use_xembed = plugin[i].use_xembed /\ p.ws_info = plugin[i].ws_info
      /\ p.toolkit = plugin[i].toolkit /\ p.window = plugin[i].window /\ p.width = plugin[i].width
  BY <1>2, KindProps
<1>4. InstanceOk(plugin[i], given[i], told[i]) /\ WindowOk(plugin[i], given[i])
  BY <1>0, <1>1 DEF WindowsOk, InstanceOk
<1>a. plugin[i].ws_info \in BOOLEAN
  BY <1>2 DEF PluginInstance
<1>5. \/ /\ p.toolkit # "none" /\ Refused(p) /\ CallReturns(xt_source)
      \/ /\ p.toolkit # "none" /\ ~UpdateFails(p, a)
         /\ Accepted(update_window(p, size)) /\ CallReturns(xt_source)
      \/ /\ p.toolkit = "none" /\ CreateAborts(p) /\ Refused(p)
         /\ loop' = [loop EXCEPT !.at = "aborted"]
      \/ /\ p.toolkit = "none" /\ ~CreateAborts(p)
         /\ Refused(create_windowFails(p)) /\ CallReturns(xt_source)
      \/ /\ p.toolkit = "none" /\ ~CreateAborts(p)
         /\ Accepted(create_window(p, size)) /\ CallReturns(xt_source)
  BY Zenon DEF NPP_SetWindow, Tell
<1> HIDE DEF p
<1>6. ASSUME CallReturns(xt_source) PROVE loop' \in LoopStates /\ loop'.at # "aborted"
  BY <1>0, <1>1, <1>6, CallReturnsLoop
<1>7. ASSUME NEW q \in PluginInstance, Refused(q), Refuses(plugin[i], q),
             q.use_xembed = plugin[i].use_xembed, loop' \in LoopStates,
             loop'.at = "aborted" => HasDrawable(q, given[i])
      PROVE  CallMakes(i, q, given[i], told[i])
  <2>1. InstanceOk(q, given[i], told[i])
    BY <1>2, <1>4, <1>7, RefusedIsOk
  <2>2. given' = [given EXCEPT ![i] = given[i]] /\ told' = [told EXCEPT ![i] = told[i]]
    BY <1>2, <1>7
  <2>3. plugin[i].toolkit = "xt" => q.toolkit = "xt"
    BY <1>7 DEF Refuses
  <2> QED
    BY <1>7, <2>1, <2>2, <2>3 DEF CallMakes
<1>8. ASSUME NEW q \in PluginInstance, Accepted(q), Accepts(q, d, size),
             q.use_xembed = plugin[i].use_xembed, plugin[i].toolkit = "xt" => q.toolkit = "xt",
             CallReturns(xt_source)
      PROVE  /\ CallMakes(i, q, new, [window |-> q.window, width |-> q.width])
             /\ new \in NPWindow /\ [window |-> q.window, width |-> q.width] \in Window
  <2>1. /\ InstanceOk(q, new, [window |-> q.window, width |-> q.width])
        /\ new \in NPWindow /\ [window |-> q.window, width |-> q.width] \in Window
    BY <1>8, AcceptedIsOk
  <2>2. loop' \in LoopStates /\ loop'.at # "aborted"
    BY <1>6, <1>8
  <2> HIDE DEF new
  <2> QED
    BY <1>8, <2>1, <2>2 DEF CallMakes, new
<1> HIDE DEF new
<1>9. CASE p.toolkit # "none" /\ Refused(p) /\ CallReturns(xt_source)
  <2>1. Refuses(plugin[i], p)
    BY <1>3, <1>4, <1>9 DEF Refuses, WindowOk
  <2>2. CallMakes(i, p, given[i], told[i])
    BY <1>3, <1>6, <1>7, <1>9, <2>1
  <2> QED
    BY <1>2, <1>3, <2>2
<1>10. CASE /\ p.toolkit # "none" /\ ~UpdateFails(p, a)
            /\ Accepted(update_window(p, size)) /\ CallReturns(xt_source)
  <2> DEFINE q == update_window(p, size)
  <2>1. /\ q \in PluginInstance /\ q.use_xembed = p.use_xembed /\ q.ws_info = p.ws_info
        /\ q.toolkit = p.toolkit /\ q.window = p.window /\ q.width = size
    BY <1>3, UpdateProps
  <2>2. Accepted(q)
    BY <1>10
  <2> HIDE DEF q
  <2>3. d = FALSE
    BY <1>3, <1>10 DEF UpdateFails
  <2>4. Accepts(q, d, size)
    BY <1>3, <1>4, <1>10, <2>1, <2>3 DEF Accepts, WindowOk
  <2>5. q.use_xembed = plugin[i].use_xembed /\ (plugin[i].toolkit = "xt" => q.toolkit = "xt")
    BY <1>3, <2>1
  <2> HIDE DEF Accepted
  <2>6. /\ CallMakes(i, q, new, [window |-> q.window, width |-> q.width])
        /\ new \in NPWindow /\ [window |-> q.window, width |-> q.width] \in Window
    BY <1>8, <1>10, <2>1, <2>2, <2>4, <2>5
  <2> QED
    BY <2>1, <2>6
<1>11. CASE /\ p.toolkit = "none" /\ CreateAborts(p) /\ Refused(p)
            /\ loop' = [loop EXCEPT !.at = "aborted"]
  <2>1. loop' \in LoopStates
    BY <1>0, <1>11 DEF LoopStates
  <2>2. p.ws_info
    BY <1>11 DEF CreateAborts
  <2>3. Refuses(plugin[i], p)
    BY <1>3, <1>11, <2>2 DEF Refuses
  <2>4. HasDrawable(p, given[i])
    BY <1>3, <1>4, <1>11, <2>2, NoneAssumption DEF HasDrawable, WindowOk
  <2>5. CallMakes(i, p, given[i], told[i])
    BY <1>3, <1>7, <1>11, <2>1, <2>3, <2>4
  <2> QED
    BY <1>2, <1>3, <2>5
<1>12. CASE /\ p.toolkit = "none" /\ ~CreateAborts(p)
            /\ Refused(create_windowFails(p)) /\ CallReturns(xt_source)
  <2> DEFINE q == create_windowFails(p)
  <2>1. /\ q \in PluginInstance /\ q.use_xembed = p.use_xembed /\ ~q.ws_info
        /\ q.toolkit = p.toolkit /\ q.window = p.window /\ q.width = p.width
    BY <1>3, FailProps
  <2>2. Refused(q)
    BY <1>12
  <2> HIDE DEF q
  <2>3. Refuses(plugin[i], q) /\ q.use_xembed = plugin[i].use_xembed
    BY <1>3, <1>12, <2>1 DEF Refuses
  <2> HIDE DEF Refused
  <2>4. CallMakes(i, q, given[i], told[i])
    BY <1>6, <1>7, <1>12, <2>1, <2>2, <2>3
  <2> QED
    BY <1>2, <2>1, <2>4
<1>13. CASE /\ p.toolkit = "none" /\ ~CreateAborts(p)
            /\ Accepted(create_window(p, size)) /\ CallReturns(xt_source)
  <2> DEFINE q == create_window(p, size)
  <2>1. /\ q \in PluginInstance /\ q.use_xembed = p.use_xembed /\ q.ws_info
        /\ q.window = (IF p.is_windowless THEN NONE ELSE "own")
        /\ (size # 0 => q.width = size)
        /\ (q.toolkit = "none" <=> p.is_windowless)
    BY <1>3, <1>13, CreateProps
  <2>2. Accepted(q)
    BY <1>13
  <2> HIDE DEF q
  <2>4. Accepts(q, d, size)
    BY <1>3, <2>1 DEF Accepts
  <2>5. q.use_xembed = plugin[i].use_xembed /\ (plugin[i].toolkit = "xt" => q.toolkit = "xt")
    BY <1>3, <1>13, <2>1
  <2> HIDE DEF Accepted
  <2>6. /\ CallMakes(i, q, new, [window |-> q.window, width |-> q.width])
        /\ new \in NPWindow /\ [window |-> q.window, width |-> q.width] \in Window
    BY <1>8, <1>13, <2>1, <2>2, <2>4, <2>5
  <2> QED
    BY <2>1, <2>6
<1> HIDE DEF Refused, Accepted
<1> QED
  BY <1>5, <1>9, <1>10, <1>11, <1>12, <1>13

LEMMA SetWindowStep ==
    ASSUME WindowsInvariant, NEW i \in Instances, NEW d \in BOOLEAN, NEW size \in Sizes,
           NEW a \in Attributes, NPP_SetWindow(i, d, size, a)
    PROVE  WindowsInvariant'
<1>0. TypeOK /\ WindowsOk /\ SourceOk /\ InputsOk
  BY DEF WindowsInvariant
<1>1. /\ refused' = refused /\ timer' = timer /\ input' = input
      /\ xt_source_count' = xt_source_count /\ xt_source' = xt_source
      /\ sent' = sent /\ arrived' = arrived /\ plugin[i] # NONE
  BY DEF NPP_SetWindow, Live
<1>2. PICK q \in PluginInstance, g \in NPWindow \cup {NONE}, t \in Window \cup {NONE} :
        CallMakes(i, q, g, t)
  BY SetWindowMakes
<1>3. /\ plugin' = [plugin EXCEPT ![i] = q]
      /\ given' = [given EXCEPT ![i] = g] /\ told' = [told EXCEPT ![i] = t]
      /\ q.use_xembed = plugin[i].use_xembed
      /\ plugin[i].toolkit = "xt" => q.toolkit = "xt"
      /\ InstanceOk(q, g, t)
      /\ loop' \in LoopStates
      /\ loop'.at = "aborted" => HasDrawable(q, g)
      /\ XSync \/ UNCHANGED <<queue, wire>>
  BY <1>2 DEF CallMakes
<1>4. /\ plugin \in [Instances -> PluginInstance \cup {NONE}]
      /\ given \in [Instances -> NPWindow \cup {NONE}] /\ told \in [Instances -> Window \cup {NONE}]
  BY <1>0 DEF TypeOK
<1>5. /\ plugin' \in [Instances -> PluginInstance \cup {NONE}]
      /\ given' \in [Instances -> NPWindow \cup {NONE}] /\ told' \in [Instances -> Window \cup {NONE}]
  BY <1>3, <1>4
<1>6. \A j \in Instances : /\ plugin'[j] = IF j = i THEN q ELSE plugin[j]
                           /\ given'[j] = IF j = i THEN g ELSE given[j]
                           /\ told'[j] = IF j = i THEN t ELSE told[j]
  BY <1>3, <1>4
<1>7. queue' \in Seq(Events) /\ wire' \in Seq(Events) /\ queue' \o wire' = queue \o wire
  BY <1>0, <1>3, LineStays
<1>8. q # NONE
  BY NoneAssumption
<1>9. InputsOk'
  <2>1. \A j \in Instances : GetsInput(plugin[j]) => GetsInput(plugin'[j])
    BY <1>3, <1>6, <1>8 DEF GetsInput
  <2> QED
    BY <1>0, <1>1, <1>7, <2>1, InputsStay
<1>10. SourceOk'
  <2>1. /\ plugin'[i] # NONE /\ plugin'[i].use_xembed = plugin[i].use_xembed
        /\ \A j \in Instances \ {i} : plugin'[j] = plugin[j]
    BY <1>3, <1>6, <1>8
  <2> QED
    BY <1>0, <1>1, <2>1, SharingStays
<1>11. WindowsOk'
  <2>1. ASSUME NEW j \in Instances PROVE InstanceOk(plugin'[j], given'[j], told'[j])
    <3>1. CASE j = i
      BY <1>3, <1>6, <3>1
    <3>2. CASE j # i
      BY <1>0, <1>6, <3>2 DEF WindowsOk
    <3> QED
      BY <3>1, <3>2
  <2>2. ASSUME loop'.at = "aborted"
        PROVE  \E j \in Instances : HasDrawable(plugin'[j], given'[j])
    <3>1. HasDrawable(plugin'[i], given'[i])
      BY <1>3, <1>6, <2>2
    <3> QED
      BY <3>1
  <2> QED
    BY <2>1, <2>2 DEF WindowsOk
<1>12. TypeOK'
  BY <1>0, <1>1, <1>3, <1>5, <1>7 DEF TypeOK, LoopStates
<1> QED
  BY <1>9, <1>10, <1>11, <1>12 DEF WindowsInvariant

LEMMA BrowserSendsStep ==
    ASSUME WindowsInvariant, NEW i \in Instances, NEW kind \in Kinds, BrowserSends(i, kind)
    PROVE  WindowsInvariant'
<1> DEFINE e == Event(i, "top", kind)
<1>0. TypeOK /\ WindowsOk /\ SourceOk /\ InputsOk
  BY DEF WindowsInvariant
<1>1. /\ plugin' = plugin /\ given' = given /\ told' = told /\ refused' = refused
      /\ arrived' = arrived /\ queue' = queue
      /\ xt_source_count' = xt_source_count /\ xt_source' = xt_source
      /\ timer' = timer /\ input' = input /\ loop' = loop
      /\ sent' = [sent EXCEPT ![i] = Append(@, kind)]
      /\ wire' = Append(wire, e)
      /\ plugin[i] # NONE /\ plugin[i].toolkit = "xt"
  BY DEF BrowserSends, windows, HasXtWindow, Live
<1>2. e \in Events /\ e.i = i /\ e.at = "top" /\ e.kind = kind
  BY DEF Event, Events
<1> HIDE DEF e
<1>3. /\ queue \in Seq(Events) /\ wire \in Seq(Events)
      /\ sent \in [Instances -> Seq(Kinds)] /\ arrived \in [Instances -> Seq(Kinds)]
  BY <1>0 DEF TypeOK
<1>4. wire' \in Seq(Events) /\ sent' \in [Instances -> Seq(Kinds)]
  BY <1>1, <1>2, <1>3
<1>5. TypeOK'
  BY <1>0, <1>1, <1>3, <1>4 DEF TypeOK
<1>6. WindowsOk'
  BY <1>0, <1>1 DEF WindowsOk
<1>7. SourceOk'
  <2>1. Sharing(plugin') = Sharing(plugin)
    BY <1>1
  <2> QED
    BY <1>0, <1>1, <2>1 DEF SourceOk
<1>8. InputsOk'
  <2>a. queue \o wire \in Seq(Events) /\ <<e>> \in Seq(Events)
    BY <1>2, <1>3
  <2>1. PICK x \in Seq(Events) : x = queue \o wire
    BY <2>a, Zenon
  <2>2. queue' \o wire' = x \o <<e>>
    BY <1>1, <1>2, <1>3, <2>1
  <2>3. ASSUME NEW j \in Instances
        PROVE  InputOk(j, plugin'[j], sent'[j], arrived'[j], x \o <<e>>)
    <3>1. InputOk(j, plugin[j], sent[j], arrived[j], x)
      BY <1>0, <2>1 DEF InputsOk
    <3>2. /\ Way(x \o <<e>>, j, "form") = Way(x, j, "form") \o Way(<<e>>, j, "form")
          /\ Way(x \o <<e>>, j, "top") = Way(x, j, "top") \o Way(<<e>>, j, "top")
      BY <2>a, WayProps
    <3>3. /\ Way(<<e>>, j, "form") = IF e.i = j /\ e.at = "form" THEN <<e.kind>> ELSE <<>>
          /\ Way(<<e>>, j, "top") = IF e.i = j /\ e.at = "top" THEN <<e.kind>> ELSE <<>>
      BY <1>2, WayOfOne
    <3> DEFINE f == Way(x, j, "form")
               o == Way(x, j, "top")
               a == arrived[j]
    <3>4. f \in Seq(Kinds) /\ o \in Seq(Kinds) /\ a \in Seq(Kinds)
      BY <1>3, WayProps
    <3>5. a \o f \o o = sent[j]
      BY <3>1 DEF InputOk
    <3>6. /\ plugin'[j] = plugin[j] /\ arrived'[j] = a
          /\ sent'[j] = IF j = i THEN Append(sent[j], kind) ELSE sent[j]
      BY <1>1, <1>3
    <3>7. CASE j = i
      <4>1. /\ Way(x \o <<e>>, j, "form") = f \o <<>>
            /\ Way(x \o <<e>>, j, "top") = o \o <<kind>>
        BY <1>2, <3>2, <3>3, <3>7
      <4> HIDE DEF f, o, a
      <4>2. a \o (f \o <<>>) \o (o \o <<kind>>) = Append(a \o f \o o, kind)
        BY <3>4
      <4>3. ~(plugin'[j] = NONE \/ plugin'[j].toolkit # "xt")
        BY <1>1, <3>6, <3>7
      <4> QED
        BY <3>5, <3>6, <3>7, <4>1, <4>2, <4>3 DEF InputOk
    <3>8. CASE j # i
      <4>1. /\ Way(x \o <<e>>, j, "form") = f \o <<>>
            /\ Way(x \o <<e>>, j, "top") = o \o <<>>
        BY <1>2, <3>2, <3>3, <3>8
      <4>2. f \o <<>> = f /\ o \o <<>> = o
        BY <3>4
      <4> QED
        BY <3>1, <3>6, <3>8, <4>1, <4>2 DEF InputOk
    <3> QED
      BY <3>7, <3>8
  <2> QED
    BY <2>2, <2>3 DEF InputsOk
<1> QED
  BY <1>5, <1>6, <1>7, <1>8 DEF WindowsInvariant

-----------------------------------------------------------------------------
(* The theorems about Windows.                                               *)

LEMMA WindowsStart ==
    ASSUME Init
    PROVE  WindowsInvariant
<1>1. TypeOK
  <2>1. loop \in LoopStates
    <3>1. 0 \in 0..XT_MAX_DISPATCH_EVENTS
      BY WindowsAssumption
    <3> QED
      BY <3>1 DEF Init, LoopStates
  <2>2. refused \in 0..MaxRefused /\ xt_source_count \in Nat /\ xt_source \in BOOLEAN
    <3>1. refused = 0 /\ xt_source_count = 0 /\ xt_source = FALSE
      BY DEF Init
    <3>2. 0 \in 0..MaxRefused
      BY WindowsAssumption
    <3> QED
      BY <3>1, <3>2
  <2>3. <<>> \in Seq(Kinds) /\ <<>> \in Seq(Events)
    OBVIOUS
  <2>4. /\ plugin \in [Instances -> PluginInstance \cup {NONE}]
        /\ given \in [Instances -> NPWindow \cup {NONE}] /\ told \in [Instances -> Window \cup {NONE}]
    BY DEF Init
  <2>5. sent \in [Instances -> Seq(Kinds)] /\ arrived \in [Instances -> Seq(Kinds)]
    BY <2>3 DEF Init
  <2>6. /\ wire \in Seq(Events) /\ queue \in Seq(Events)
        /\ timer \in {"none", "idle", "ready"} /\ input \in {"none", "idle", "ready"}
    BY <2>3 DEF Init
  <2> QED
    BY <2>1, <2>2, <2>4, <2>5, <2>6 DEF TypeOK, LoopStates
<1>2. WindowsOk
  BY DEF Init, WindowsOk, InstanceOk
<1>3. SourceOk
  <2>1. Sharing(plugin) = {}
    BY DEF Init, Sharing
  <2>2. IsFiniteSet({}) /\ Cardinality({}) = 0
    BY FS_EmptySet
  <2>3. xt_source_count = 0 /\ refused = 0 /\ xt_source = FALSE
    BY DEF Init
  <2>4. IsFiniteSet(Sharing(plugin)) /\ Cardinality(Sharing(plugin)) = 0
    BY <2>1, <2>2
  <2> QED
    BY <2>3, <2>4 DEF SourceOk
<1>4. InputsOk
  <2> SUFFICES ASSUME NEW i \in Instances
               PROVE  InputOk(i, plugin[i], sent[i], arrived[i], queue \o wire)
    BY DEF InputsOk
  <2>1. queue \o wire = <<>> /\ sent[i] = <<>> /\ arrived[i] = <<>>
    BY DEF Init
  <2>2. Way(<<>>, i, "form") = <<>> /\ Way(<<>>, i, "top") = <<>>
    BY WayProps
  <2>3. <<>> \o <<>> \o <<>> = <<>>
    OBVIOUS
  <2> QED
    BY <2>1, <2>2, <2>3 DEF InputOk
<1> QED
  BY <1>1, <1>2, <1>3, <1>4 DEF WindowsInvariant

LEMMA WindowsStep ==
    ASSUME WindowsInvariant, [Next]_vars
    PROVE  WindowsInvariant'
<1>1. CASE Prepare
  BY <1>1, PrepareStep
<1>2. CASE xt_event_dispatch
  BY <1>2, DispatchStep
<1>3. CASE EndOfDispatch
  BY <1>3, EndOfDispatchStep
<1>4. CASE \E rpc, others, expired \in BOOLEAN : Poll(rpc, others, expired)
  BY <1>4, PollStep
<1>5. CASE PluginAddsTimer \/ PluginAddsInput \/ TimerIsDue \/ InputArrives
  BY <1>5, ContextStep
<1>6. CASE \E i \in Instances : \E x, ok \in BOOLEAN, h \in Hints : NPP_New(i, x, h, ok)
  BY <1>6, NewStep
<1>7. CASE \E i \in Instances : NPP_Destroy(i)
  BY <1>7, DestroyStep
<1>8. CASE \E i \in Instances : \E d \in BOOLEAN, size \in Sizes, a \in Attributes :
             NPP_SetWindow(i, d, size, a)
  BY <1>8, SetWindowStep
<1>9. CASE \E i \in Instances : NPP_SetWindowNull(i)
  BY <1>9, SetWindowNullStep
<1>10. CASE \E i \in Instances : \E kind \in Kinds : BrowserSends(i, kind)
  BY <1>10, BrowserSendsStep
<1>12. CASE rpc_sync \/ OtherCall
  BY <1>12, LoopStep
<1>11. CASE UNCHANGED vars
  BY <1>11, StutteringStep
<1> QED
  BY <1>1, <1>2, <1>3, <1>4, <1>5, <1>6, <1>7, <1>8, <1>9, <1>10, <1>11, <1>12 DEF Next

\* What a record of an instance and its window may hold, which events are on
\* their way for which window and how many instances share the source stays
\* consistent through every call of the browser and every dispatch.
THEOREM WindowsAreSound == Spec => []WindowsInvariant
  BY WindowsStart, WindowsStep, PTL DEF Spec

\* The types of the module hold.
THEOREM WindowsAreTyped == Spec => []TypeOK
<1>1. WindowsInvariant => TypeOK
  BY DEF WindowsInvariant
<1> QED
  BY <1>1, WindowsAreSound, PTL

\* A plugin that was given a window or a drawable knows it, whatever was
\* refused since: it draws into its own window, which is there, or into none,
\* and has the size the browser gave last (g_NPP_SetWindow, update_window).
THEOREM PluginAlwaysKnows == Spec => []PluginKnowsItsWindow
<1>1. WindowsInvariant => PluginKnowsItsWindow
  BY DEF WindowsInvariant, WindowsOk, InstanceOk, Knows, PluginKnowsItsWindow, Live
<1> QED
  BY <1>1, WindowsAreSound, PTL

\* Whatever the browser sends to a window comes to the plugin's form once and in
\* its order, though it is split between the socket and Xlib's queue, and passes
\* the top widget's handler (xt_client_event_handler, xt_event_dispatch).
THEOREM InputAlwaysInOrder == Spec => []InputInOrder
<1>1. WindowsInvariant => InputInOrder
  BY DEF WindowsInvariant, InputsOk, InputOk, Way, EventsAt, InputInOrder, OnTheWay, HasXtWindow, Live
<1> QED
  BY <1>1, WindowsAreSound, PTL

\* The assertion of create_window() fails in one way only: the instance has
\* got a drawable and no window of its own, and the browser turns to a window
\* without taking the drawable back (npw-viewer.c:753, 3923).
THEOREM CreateAbortsOnlyAfterDrawable ==
    Spec => [](Aborted => \E i \in Instances :
                   /\ Live(i) /\ plugin[i].toolkit = "none" /\ plugin[i].ws_info
                   /\ given[i] # NONE /\ given[i].drawable)
<1>1. WindowsInvariant /\ Aborted => \E i \in Instances :
          /\ Live(i) /\ plugin[i].toolkit = "none" /\ plugin[i].ws_info
          /\ given[i] # NONE /\ given[i].drawable
  BY DEF WindowsInvariant, WindowsOk, HasDrawable, Aborted, Live
<1> QED
  BY <1>1, WindowsAreSound, PTL

\* While there is an instance without XEMBED there is the event source that it
\* shares with the others, whatever instances were refused or destroyed
\* (xt_source_create, xt_source_destroy).
THEOREM SourceWhileShared ==
    Spec => [](\A i \in Instances : Live(i) /\ ~plugin[i].use_xembed => xt_source)
<1>1. WindowsInvariant => \A i \in Instances : Live(i) /\ ~plugin[i].use_xembed => xt_source
  <2> SUFFICES ASSUME WindowsInvariant, NEW i \in Instances, Live(i), ~plugin[i].use_xembed
               PROVE  xt_source
    OBVIOUS
  <2>1. /\ IsFiniteSet(Sharing(plugin)) /\ xt_source_count = refused + Cardinality(Sharing(plugin))
        /\ (xt_source <=> xt_source_count > 0) /\ refused \in Nat
    BY DEF WindowsInvariant, SourceOk, TypeOK
  <2>2. i \in Sharing(plugin)
    BY DEF Sharing, Live
  <2>3. Cardinality(Sharing(plugin)) \in Nat /\ Cardinality(Sharing(plugin)) # 0
    BY <2>1, <2>2, FS_CardinalityType, FS_EmptySet
  <2> QED
    BY <2>1, <2>3
<1> QED
  BY <1>1, WindowsAreSound, PTL

-----------------------------------------------------------------------------
(***************************************************************************)
(* XtProbe.  What the probe has found is one offset at which the words     *)
(* were right for all of its inputs, and no other offset was.              *)
(***************************************************************************)

\* The word w while there are n inputs, c of which are the plugin's
WordAt(w, c, n) ==
    CASE w.is = "count" -> c + n
      [] w.is = "bits"  -> 2^n - 1
      [] OTHER -> w.value

Fits(o) == \A k \in 1..probed.inputs : WordAt(context.words[o], probed.own, k) = k

ProbeTypes ==
    /\ context \in [words : [Offsets -> Words], timerQueue : BOOLEAN]
    /\ own \in Nat
    /\ input_count_offset \in Int
    /\ probed.own \in Nat /\ probed.inputs \in 0..n_inputs_max

Found ==
    input_count_offset > 0 =>
        /\ input_count_offset \in Offsets /\ probed.inputs > 0
        /\ \A o \in Offsets : Fits(o) <=> o = input_count_offset

SleepsLong ==
    slept = "long" =>
        /\ input_count_offset > 0
        /\ WordAt(context.words[input_count_offset], own, 0) <= 0

ProbeInvariant == ProbeTypes /\ Found /\ SleepsLong

LEMMA WordNow ==
    ASSUME NEW o, NEW n
    PROVE  get_appcontext_input_count_at(o, n) = WordAt(context.words[o], own, n)
  BY DEF get_appcontext_input_count_at, WordAt

LEMMA ProbeStart ==
    ASSUME ProbeInit
    PROVE  ProbeInvariant
  BY XtProbeAssumption DEF ProbeInit, ProbeInvariant, ProbeTypes, Found, SleepsLong

\* get_appcontext_input_count_offset: the offset that is left, if it is the only one.
LEMMA ProbeFinds ==
    ASSUME NEW n \in Nat
    PROVE  LET o == get_appcontext_input_count_offset(n)
           IN  \/ o = 0
               \/ o \in Offsets /\ n > 0 /\ Candidates(n) = {o}
<1>1. CASE n > 0 /\ \E o \in Offsets : Candidates(n) = {o}
  BY <1>1 DEF get_appcontext_input_count_offset
<1>2. CASE ~(n > 0 /\ \E o \in Offsets : Candidates(n) = {o})
  BY <1>2 DEF get_appcontext_input_count_offset
<1> QED
  BY <1>1, <1>2

LEMMA NextTimeoutStep ==
    ASSUME ProbeInvariant, NEW n \in 0..n_inputs_max, xt_next_timeout(n)
    PROVE  ProbeInvariant'
<1>0. ProbeTypes /\ Found /\ n \in Nat
  BY XtProbeAssumption DEF ProbeInvariant
<1>o. /\ get_appcontext_input_count_offset(n) \in Nat
      /\ \/ get_appcontext_input_count_offset(n) = 0
         \/ /\ get_appcontext_input_count_offset(n) \in Offsets /\ n > 0
            /\ Candidates(n) = {get_appcontext_input_count_offset(n)}
  <2>1. \/ get_appcontext_input_count_offset(n) = 0
        \/ /\ get_appcontext_input_count_offset(n) \in Offsets /\ n > 0
           /\ Candidates(n) = {get_appcontext_input_count_offset(n)}
    BY <1>0, ProbeFinds
  <2>2. Offsets \subseteq Nat /\ 0 \in Nat
    BY XtProbeAssumption
  <2> QED
    BY <2>1, <2>2, Zenon
<1>1. /\ context' = context /\ own' = own
      /\ \/ /\ input_count_offset < 0
            /\ input_count_offset' = get_appcontext_input_count_offset(n)
            /\ probed' = [own |-> own, inputs |-> n]
         \/ input_count_offset' = input_count_offset /\ probed' = probed
      /\ slept' = "long" => get_appcontext_input_count(input_count_offset') <= 0 /\ compatible' = 1
      /\ compatible' = 1 => \/ input_count_offset >= 0
                            \/ input_count_offset' = get_appcontext_input_count_offset(n)
  BY <1>0 DEF xt_next_timeout, ProbeTypes
<1>2. ProbeTypes' /\ Found' /\ (input_count_offset' >= 0 \/ input_count_offset' = input_count_offset)
  <2>1. CASE /\ input_count_offset' = get_appcontext_input_count_offset(n)
             /\ probed' = [own |-> own, inputs |-> n]
    <3> DEFINE o == get_appcontext_input_count_offset(n)
    <3>1. o = 0 \/ (o \in Offsets /\ n > 0 /\ Candidates(n) = {o})
      BY <1>o
    <3>2. o \in Nat
      BY <1>o
    <3>3. ProbeTypes'
      BY <1>0, <1>1, <2>1, <3>2 DEF ProbeTypes
    <3>4. Found'
      <4> SUFFICES ASSUME o > 0
                   PROVE  /\ o \in Offsets /\ probed'.inputs > 0
                          /\ \A q \in Offsets : Fits(q)' <=> q = o
        BY <2>1 DEF Found
      <4>1. o \in Offsets /\ n > 0 /\ Candidates(n) = {o}
        BY <3>1
      <4>2. ASSUME NEW q \in Offsets PROVE Fits(q)' <=> q = o
        <5>1. q \in Candidates(n) <=> \A k \in 1..n : get_appcontext_input_count_at(q, k) = k
          BY DEF Candidates
        <5>2. (\A k \in 1..n : get_appcontext_input_count_at(q, k) = k) <=> Fits(q)'
          <6>1. \A k \in 1..n : get_appcontext_input_count_at(q, k) = WordAt(context'.words[q], probed'.own, k)
            BY <1>1, <2>1, WordNow
          <6> QED
            BY <2>1, <6>1 DEF Fits
        <5> QED
          BY <4>1, <5>1, <5>2
      <4> QED
        BY <2>1, <4>1, <4>2
    <3> QED
      BY <2>1, <3>2, <3>3, <3>4
  <2>2. CASE input_count_offset' = input_count_offset /\ probed' = probed
    BY <1>0, <1>1, <2>2 DEF ProbeTypes, Found, Fits
  <2> QED
    BY <1>1, <2>1, <2>2
<1>3. SleepsLong'
  <2> SUFFICES ASSUME slept' = "long"
               PROVE  /\ input_count_offset' > 0
                      /\ WordAt(context'.words[input_count_offset'], own', 0) <= 0
    BY DEF SleepsLong
  <2>1. get_appcontext_input_count(input_count_offset') <= 0
    BY <1>1
  <2>2. input_count_offset' # 0
    BY <2>1 DEF get_appcontext_input_count
  <2>3. input_count_offset' >= 0
    <3>1. input_count_offset' >= 0 \/ (input_count_offset >= 0 /\ input_count_offset' = input_count_offset)
             \/ input_count_offset' = get_appcontext_input_count_offset(n)
      BY <1>1, <1>2
    <3>2. get_appcontext_input_count_offset(n) >= 0
      BY <1>o
    <3> QED
      BY <3>1, <3>2
  <2>4. get_appcontext_input_count(input_count_offset') = WordAt(context.words[input_count_offset'], own, 0)
    <3>1. get_appcontext_input_count(input_count_offset') = get_appcontext_input_count_at(input_count_offset', 0)
      BY <2>2 DEF get_appcontext_input_count
    <3> QED
      BY <3>1 DEF get_appcontext_input_count_at, WordAt
  <2>5. input_count_offset' \in Int
    BY <1>2 DEF ProbeTypes
  <2> QED
    BY <1>1, <2>1, <2>2, <2>3, <2>4, <2>5
<1> QED
  BY <1>2, <1>3 DEF ProbeInvariant

LEMMA PluginProbeStep ==
    ASSUME ProbeInvariant, (\E d \in {-1, 1} : PluginInput(d)) \/ PluginTimeout
    PROVE  ProbeInvariant'
<1>1. /\ context' = context /\ input_count_offset' = input_count_offset /\ probed' = probed
      /\ slept' = "none" /\ own' \in Nat
  BY DEF PluginInput, PluginTimeout, ProbeInvariant, ProbeTypes
<1> QED
  BY <1>1 DEF ProbeInvariant, ProbeTypes, Found, Fits, SleepsLong

\* A word that was right for every input of the probe and is 0 without one is
\* the counter, or one of bits that was compared once.
LEMMA LongIsRight ==
    ASSUME ProbeInvariant
    PROVE  InputsAreNoticed
<1> SUFFICES ASSUME slept = "long",
                    \/ probed.inputs # 1
                    \/ probed.own = 0 /\ \E o \in Offsets : context.words[o].is = "count"
             PROVE  own = 0
  BY DEF InputsAreNoticed
<1> DEFINE o == input_count_offset
           w == context.words[o]
           n == probed.inputs
<1>1. /\ o \in Offsets /\ n > 0 /\ n \in Nat /\ own \in Nat /\ probed.own \in Nat
      /\ \A q \in Offsets : Fits(q) <=> q = o
      /\ w \in Words /\ WordAt(w, own, 0) <= 0
  BY DEF ProbeInvariant, ProbeTypes, Found, SleepsLong
<1>2. \A k \in 1..n : WordAt(w, probed.own, k) = k
  BY <1>1 DEF Fits
<1> HIDE DEF o, w, n
<1>3. CASE w.is = "count"
  <2>1. WordAt(w, own, 0) = own + 0
    BY <1>3 DEF WordAt
  <2> QED
    BY <1>1, <2>1
<1>4. CASE w.is = "bits"
  <2>1. n = 1
    <3> SUFFICES ASSUME n # 1 PROVE FALSE
      OBVIOUS
    <3>1. 2 \in 1..n
      BY <1>1
    <3>2. WordAt(w, probed.own, 2) = 2^2 - 1
      BY <1>4 DEF WordAt
    <3>3. 2^2 - 1 = 3
      BY SMT
    <3>4. WordAt(w, probed.own, 2) = 2
      BY <1>2, <3>1
    <3> QED
      BY <3>2, <3>3, <3>4
  <2>2. PICK q \in Offsets : context.words[q].is = "count" /\ probed.own = 0
    BY <2>1 DEF n
  <2>3. ASSUME NEW k \in 1..n PROVE WordAt(context.words[q], probed.own, k) = k
    BY <2>2 DEF WordAt
  <2>4. Fits(q)
    BY <2>3 DEF Fits, n
  <2>5. q = o
    BY <1>1, <2>4
  <2> QED
    BY <1>4, <2>2, <2>5 DEF w
<1>5. CASE w.is = "other"
  <2>1. WordAt(w, own, 0) = w.value /\ WordAt(w, probed.own, 1) = w.value
    BY <1>5 DEF WordAt
  <2>2. WordAt(w, probed.own, 1) = 1
    <3>1. 1 \in 1..n
      BY <1>1
    <3> QED
      BY <1>2, <3>1
  <2> QED
    BY <1>1, <2>1, <2>2
<1>6. w.is \in {"count", "bits", "other"}
  BY <1>1 DEF Words
<1> QED
  BY <1>3, <1>4, <1>5, <1>6

\* The loop never sleeps long while the plugin has inputs, for whatever words
\* the application context holds and however many inputs the probe may add.
THEOREM InputsAlwaysNoticed ==
    ProbeInit /\ [][ProbeNext]_probeVars => []InputsAreNoticed
<1>1. ProbeInit => ProbeInvariant
  BY ProbeStart
<1>2. ProbeInvariant /\ [ProbeNext]_probeVars => ProbeInvariant'
  <2> SUFFICES ASSUME ProbeInvariant, [ProbeNext]_probeVars PROVE ProbeInvariant'
    OBVIOUS
  <2>1. CASE \E n \in 0 .. n_inputs_max : xt_next_timeout(n)
    BY <2>1, NextTimeoutStep
  <2>2. CASE (\E d \in {-1, 1} : PluginInput(d)) \/ PluginTimeout
    BY <2>2, PluginProbeStep
  <2>3. CASE UNCHANGED probeVars
    <3>1. /\ context' = context /\ own' = own /\ input_count_offset' = input_count_offset
          /\ probed' = probed /\ slept' = slept
      BY <2>3 DEF probeVars
    <3> QED
      BY <3>1 DEF ProbeInvariant, ProbeTypes, Found, Fits, SleepsLong
  <2> QED
    BY <2>1, <2>2, <2>3 DEF ProbeNext
<1>3. ProbeInvariant => InputsAreNoticed
  BY LongIsRight
<1> QED
  BY <1>1, <1>2, <1>3, PTL
=============================================================================
