------------------------ MODULE CountedQueueProofs -------------------------
(***************************************************************************)
(* CountedQueue, for any number of threads, nodes and calls: split         *)
(* reference counts delete each node once, when nobody can reach it any    *)
(* more, and the queue is linearizable and loses no element.               *)
(*                                                                         *)
(* The first part, about linked lists, is for the stacks as well.          *)
(***************************************************************************)
EXTENDS CountedQueue, LinkedLists, FiniteSetTheorems, SequenceTheorems, WellFoundedInduction, TLAPS

-----------------------------------------------------------------------------
(* Linked lists and the sequences that they stand for                      *)

\* Every set of natural numbers has a least one: induction in a form that the provers take.
LEMMA Least ==
    ASSUME NEW S \in SUBSET Nat, S # {}
    PROVE  \E m \in S : \A n \in S : m <= n
<1> DEFINE R == OpToRel(<, Nat)
<1>1. IsWellFoundedOn(R, Nat)
    BY NatLessThanWellFounded
<1>2. PICK m \in S : \A n \in S : ~(<<n, m>> \in R)
    <2> HIDE DEF R
    <2> QED BY <1>1, WFMin
<1>3. ASSUME NEW n \in S, n < m PROVE FALSE
    <2>1. <<n, m>> \in R
        BY <1>3 DEF OpToRel
    <2> QED BY <1>2, <2>1
<1>4. \A n \in S : m <= n
    <2> HIDE DEF R
    <2> QED BY <1>3
<1> QED BY <1>4, Zenon

In(s, e) == \E i \in DOMAIN s : s[i] = e
Once(s) == \A i, k \in DOMAIN s : s[i] = s[k] => i = k

\* Links determine a list.
LEMMA ListUnique ==
    ASSUME NEW N, NEW first, NEW links, NEW null, null \notin N,
           NEW p \in Seq(N), NEW q \in Seq(N),
           Linked(first, links, null, p), Linked(first, links, null, q)
    PROVE  p = q
<1> DEFINE D == {i \in Nat \ {0} : i <= Len(p) /\ i <= Len(q) /\ p[i] # q[i]}
<1>1. /\ DOMAIN p = 1 .. Len(p) /\ Len(p) \in Nat /\ \A i \in 1 .. Len(p) : p[i] \in N
      /\ DOMAIN q = 1 .. Len(q) /\ Len(q) \in Nat /\ \A i \in 1 .. Len(q) : q[i] \in N
    BY LenProperties, ElementOfSeq
<1>2. (p = <<>> <=> Len(p) = 0) /\ (q = <<>> <=> Len(q) = 0)
    BY EmptySeq
<1>3. D = {}
    <2> SUFFICES ASSUME D # {} PROVE FALSE
        OBVIOUS
    <2>1. PICK i \in D : \A k \in D : i <= k
        <3>1. D \in SUBSET Nat
            OBVIOUS
        <3> HIDE DEF D
        <3> QED BY <3>1, Least
    <2>2. i \in Nat \ {0} /\ i <= Len(p) /\ i <= Len(q) /\ p[i] # q[i]
        BY <2>1
    <2>3. i # 1
        BY <2>2, <1>1, <1>2 DEF Linked
    <2>4. i - 1 \in 1 .. Len(p) /\ i - 1 \in 1 .. Len(q) /\ i - 1 \notin D
        BY <2>1, <2>2, <2>3, <1>1
    <2>5. p[i - 1] = q[i - 1]
        BY <2>4, <1>1
    <2>6. links[p[i - 1]] = p[i] /\ links[q[i - 1]] = q[i]
        <3>1. i - 1 # Len(p) /\ i - 1 # Len(q) /\ (i - 1) + 1 = i
            BY <2>2, <1>1
        <3> QED BY <2>4, <3>1, <1>1 DEF Linked
    <2> QED BY <2>2, <2>5, <2>6
<1>4. \A i \in 1 .. Len(p) : i <= Len(q) => p[i] = q[i]
    BY <1>1, <1>3
<1>5. \A i \in 1 .. Len(q) : i <= Len(p) => p[i] = q[i]
    BY <1>1, <1>3
<1> HIDE DEF D
<1>a. PICK a \in Nat : a = Len(p)
    BY <1>1
<1>b. PICK b \in Nat : b = Len(q)
    BY <1>1
<1>6. ~(a < b)
    <2> SUFFICES ASSUME a < b PROVE FALSE
        OBVIOUS
    <2>1. CASE a = 0
        BY <2>1, <1>a, <1>b, <1>1, <1>2 DEF Linked
    <2>2. CASE a # 0
        <3>1. a \in 1 .. a /\ a \in 1 .. b /\ a # b /\ a + 1 \in 1 .. b
            BY <2>2
        <3>2. links[p[a]] = null /\ links[q[a]] = q[a + 1] /\ p[a] = q[a] /\ q[a + 1] \in N
            BY <3>1, <1>a, <1>b, <1>1, <1>4 DEF Linked
        <3> QED BY <3>2
    <2> QED BY <2>1, <2>2
<1>7. ~(b < a)
    <2> SUFFICES ASSUME b < a PROVE FALSE
        OBVIOUS
    <2>1. CASE b = 0
        BY <2>1, <1>a, <1>b, <1>1, <1>2 DEF Linked
    <2>2. CASE b # 0
        <3>1. b \in 1 .. b /\ b \in 1 .. a /\ b # a /\ b + 1 \in 1 .. a
            BY <2>2
        <3>2. links[q[b]] = null /\ links[p[b]] = p[b + 1] /\ p[b] = q[b] /\ p[b + 1] \in N
            BY <3>1, <1>a, <1>b, <1>1, <1>5 DEF Linked
        <3> QED BY <3>2
    <2> QED BY <2>1, <2>2
<1>8. Len(p) = Len(q)
    BY <1>6, <1>7, <1>a, <1>b
<1> QED BY <1>1, <1>4, <1>8, SeqEqual

\* So the list that ListFrom chooses is the one that the links describe.
LEMMA ListIs ==
    ASSUME NEW N, NEW first, NEW links, NEW null, null \notin N, NEW n \in Nat,
           NEW q \in Seq(N), Len(q) <= n, Linked(first, links, null, q)
    PROVE  Ends(first, links, null, N, n) /\ ListFrom(first, links, null, N, n) = q
<1>1. q \in BoundedSeq(N, n)
    <2>1. Len(q) \in 0 .. n /\ q \in [1 .. Len(q) -> N]
        BY LenProperties
    <2> QED BY <2>1 DEF BoundedSeq, SeqOf
<1>2. Ends(first, links, null, N, n)
    BY <1>1 DEF Ends
<1>3. PICK p : p = ListFrom(first, links, null, N, n)
    OBVIOUS
<1>4. p \in BoundedSeq(N, n) /\ Linked(first, links, null, p)
    BY <1>1, <1>2, <1>3, Zenon DEF ListFrom
<1>5. p \in Seq(N)
    <2>1. PICK m \in 0 .. n : p \in [1 .. m -> N]
        BY <1>4 DEF BoundedSeq, SeqOf
    <2> QED BY <2>1
<1> QED BY <1>2, <1>3, <1>4, <1>5, ListUnique

\* A list without repetition is no longer than there are nodes.
LEMMA ListBound ==
    ASSUME NEW N, IsFiniteSet(N), NEW q \in Seq(N), Once(q)
    PROVE  Len(q) <= Cardinality(N)
<1>1. q \in [1 .. Len(q) -> N] /\ Len(q) \in Nat
    BY LenProperties
<1>2. q \in Injection(1 .. Len(q), N)
    BY <1>1 DEF Once, Injection, IsInjective
<1>3. Cardinality(1 .. Len(q)) = Len(q)
    <2>1. ASSUME NEW k \in Nat PROVE Cardinality(1 .. k) = k
        BY FS_Interval
    <2> QED BY <1>1, <2>1
<1>4. Cardinality(1 .. Len(q)) <= Cardinality(N)
    BY <1>2, FS_Injection
<1> QED BY <1>3, <1>4

LEMMA EmptyIn == (\A e : ~In(<<>>, e)) /\ Once(<<>>)
BY DEF In, Once

\* What is left without the first element.
LEMMA TailIn ==
    ASSUME NEW S, NEW s \in Seq(S), s # <<>>
    PROVE  /\ Head(s) \in S /\ Tail(s) \in Seq(S)
           /\ In(s, Head(s))
           /\ \A e : In(Tail(s), e) => In(s, e)
           /\ Once(s) => /\ Once(Tail(s))
                         /\ \A e : In(Tail(s), e) <=> In(s, e) /\ e # Head(s)
<1>1. /\ Head(s) \in S /\ Tail(s) \in Seq(S)
      /\ DOMAIN s = 1 .. Len(s) /\ Len(s) \in Nat \ {0} /\ Head(s) = s[1]
      /\ DOMAIN Tail(s) = 1 .. Len(s) - 1
      /\ \A i \in 1 .. Len(s) - 1 : Tail(s)[i] = s[i + 1]
    BY HeadTailProperties, LenProperties, EmptySeq
<1>2. In(s, Head(s)) BY <1>1 DEF In
<1>3. \A e : In(Tail(s), e) => In(s, e) BY <1>1 DEF In
<1>4. Once(s) => Once(Tail(s)) BY <1>1 DEF Once
<1>5. ASSUME Once(s), NEW e PROVE In(Tail(s), e) <=> In(s, e) /\ e # Head(s)
    <2>1. In(Tail(s), e) => e # Head(s) BY <1>1, <1>5 DEF In, Once
    <2>2. ASSUME NEW i \in 1 .. Len(s), s[i] = e, e # Head(s) PROVE In(Tail(s), e)
        <3>1. i - 1 \in 1 .. Len(s) - 1 /\ Tail(s)[i - 1] = s[i] BY <1>1, <2>2
        <3> QED BY <1>1, <2>2, <3>1 DEF In
    <2> QED BY <1>1, <1>3, <2>1, <2>2 DEF In
<1> QED BY <1>1, <1>2, <1>3, <1>4, <1>5

\* A sequence with one more element in front.
LEMMA PushIn ==
    ASSUME NEW S, NEW s \in Seq(S), NEW x \in S
    PROVE  /\ <<x>> \o s \in Seq(S) /\ <<x>> \o s # <<>> /\ Len(<<x>> \o s) = 1 + Len(s)
           /\ (<<x>> \o s)[1] = x /\ \A i \in 1 .. Len(s) : (<<x>> \o s)[i + 1] = s[i]
           /\ \A e : In(<<x>> \o s, e) <=> In(s, e) \/ e = x
           /\ Once(s) /\ ~In(s, x) => Once(<<x>> \o s)
<1>1. <<x>> \in Seq(S) /\ Len(<<x>>) = 1 /\ <<x>>[1] = x OBVIOUS
<1>2. /\ <<x>> \o s \in Seq(S) /\ Len(<<x>> \o s) = 1 + Len(s)
      /\ \A i \in 1 .. 1 + Len(s) :
            (<<x>> \o s)[i] = IF i <= 1 THEN <<x>>[i] ELSE s[i - 1]
    BY <1>1, ConcatProperties
<1>3. /\ DOMAIN s = 1 .. Len(s) /\ Len(s) \in Nat /\ DOMAIN (<<x>> \o s) = 1 .. 1 + Len(s)
    BY <1>2, LenProperties
<1>4. (<<x>> \o s)[1] = x /\ \A i \in 1 .. Len(s) : (<<x>> \o s)[i + 1] = s[i]
    BY <1>1, <1>2, <1>3
<1>5. \A i \in 1 .. 1 + Len(s) : i = 1 \/ i - 1 \in 1 .. Len(s) BY <1>3
<1>6. PICK u : u = <<x>> \o s OBVIOUS
<1>7. /\ DOMAIN u = 1 .. 1 + Len(s) /\ u[1] = x
      /\ \A i \in 1 .. Len(s) : u[i + 1] = s[i]
      /\ \A i \in 1 .. 1 + Len(s) : i # 1 => i - 1 \in 1 .. Len(s) /\ u[i] = s[i - 1]
    BY <1>1, <1>2, <1>3, <1>4, <1>5, <1>6
<1>8. ASSUME NEW e PROVE In(u, e) <=> In(s, e) \/ e = x
    <2>1. In(u, e) => In(s, e) \/ e = x BY <1>3, <1>7 DEF In
    <2>2. e = x => In(u, e)
        <3>1. 1 \in DOMAIN u BY <1>3, <1>7
        <3> QED BY <1>7, <3>1 DEF In
    <2>3. In(s, e) => In(u, e)
        <3> SUFFICES ASSUME In(s, e) PROVE In(u, e) OBVIOUS
        <3>1. PICK i \in 1 .. Len(s) : s[i] = e BY <1>3 DEF In
        <3>2. i + 1 \in DOMAIN u /\ u[i + 1] = e BY <1>3, <1>7, <3>1
        <3> QED BY <3>2 DEF In
    <2> QED BY <2>1, <2>2, <2>3
<1>9. ASSUME Once(s), ~In(s, x) PROVE Once(u)
    <2>1. \A i \in DOMAIN u : i # 1 => u[i] # x BY <1>3, <1>7, <1>9 DEF In
    <2>2. ASSUME NEW i \in DOMAIN u, NEW k \in DOMAIN u, u[i] = u[k], i # 1, k # 1 PROVE i = k
        <3>1. i - 1 \in DOMAIN s /\ k - 1 \in DOMAIN s /\ s[i - 1] = s[k - 1]
            BY <1>3, <1>7, <2>2
        <3>2. i - 1 = k - 1 BY <1>9, <3>1 DEF Once
        <3> QED BY <1>3, <1>7, <3>2
    <2> QED BY <1>7, <2>1, <2>2 DEF Once
<1>10. <<x>> \o s # <<>> BY <1>2, <1>3, EmptySeq
<1> QED BY <1>2, <1>4, <1>6, <1>8, <1>9, <1>10

\* A node in front of a list.
LEMMA ListPush ==
    ASSUME NEW N, NEW links, NEW null, NEW q \in Seq(N), NEW x \in N,
           Linked(links[x], links, null, q)
    PROVE  Linked(x, links, null, <<x>> \o q)
<1>1. PICK u : u = <<x>> \o q
    OBVIOUS
<1>2. PICK k \in Nat : k = Len(q)
    BY LenProperties
<1>3. /\ u \in Seq(N) /\ u # <<>> /\ Len(u) = 1 + k /\ u[1] = x
      /\ \A i \in 1 .. k : u[i + 1] = q[i]
    BY <1>1, <1>2, PushIn
<1>4. DOMAIN u = 1 .. 1 + k /\ DOMAIN q = 1 .. k /\ (q = <<>> <=> k = 0)
    BY <1>2, <1>3, LenProperties, EmptySeq
<1>5. ASSUME NEW i \in DOMAIN u PROVE links[u[i]] = IF i = Len(u) THEN null ELSE u[i + 1]
    <2>1. CASE i = 1
        <3>1. k = 0 => links[x] = null
            BY <1>4 DEF Linked
        <3>2. k # 0 => links[x] = q[1] /\ u[1 + 1] = q[1]
            BY <1>3, <1>4 DEF Linked
        <3> QED BY <2>1, <3>1, <3>2, <1>3
    <2>2. CASE i # 1
        <3>1. PICK j \in 1 .. k : i = j + 1
            <4>1. i - 1 \in 1 .. k /\ i = (i - 1) + 1
                BY <2>2, <1>4
            <4> QED BY <4>1
        <3>2. links[q[j]] = IF j = k THEN null ELSE q[j + 1]
            BY <1>2, <1>4 DEF Linked
        <3>3. u[i] = q[j] /\ (j = k <=> i = Len(u))
            BY <3>1, <1>3
        <3>4. j # k => u[i + 1] = q[j + 1]
            BY <3>1, <1>3
        <3> QED BY <3>2, <3>3, <3>4
    <2> QED BY <2>1, <2>2
<1> QED BY <1>1, <1>3, <1>5 DEF Linked

\* A list without its first node.
LEMMA ListPop ==
    ASSUME NEW N, NEW first, NEW links, NEW null, null \notin N, NEW q \in Seq(N), first # null,
           Linked(first, links, null, q)
    PROVE  q # <<>> /\ Head(q) = first /\ Linked(links[first], links, null, Tail(q))
<1>1. q # <<>> /\ q[1] = first
    BY DEF Linked
<1>2. PICK k \in Nat \ {0} : k = Len(q)
    BY <1>1, LenProperties, EmptySeq
<1>3. /\ Head(q) = q[1] /\ Tail(q) \in Seq(N) /\ Len(Tail(q)) = k - 1
      /\ DOMAIN Tail(q) = 1 .. k - 1 /\ \A i \in 1 .. k - 1 : Tail(q)[i] = q[i + 1]
    BY <1>1, <1>2, HeadTailProperties, LenProperties
<1>4. DOMAIN q = 1 .. k /\ (Tail(q) = <<>> <=> k = 1)
    <2>1. DOMAIN q = 1 .. k
        BY <1>2, LenProperties
    <2>2. Tail(q) = <<>> <=> Len(Tail(q)) = 0
        BY <1>3, EmptySeq
    <2> QED BY <2>1, <2>2, <1>3
<1>5. \A i \in 1 .. k : links[q[i]] = IF i = k THEN null ELSE q[i + 1]
    BY <1>2, <1>4 DEF Linked
<1>6. links[first] = IF Tail(q) = <<>> THEN null ELSE Tail(q)[1]
    BY <1>1, <1>3, <1>4, <1>5
<1>7. ASSUME NEW i \in DOMAIN Tail(q)
      PROVE  links[Tail(q)[i]] = IF i = Len(Tail(q)) THEN null ELSE Tail(q)[i + 1]
    BY <1>3, <1>5
<1> QED BY <1>1, <1>3, <1>6, <1>7 DEF Linked

\* A list is not affected by links of other nodes.
LEMMA ListFrame ==
    ASSUME NEW first, NEW links, NEW other, NEW null, NEW q,
           \A n : In(q, n) => other[n] = links[n],
           Linked(first, links, null, q)
    PROVE  Linked(first, other, null, q)
BY DEF Linked, In

\* The values of the nodes of a list.
Image(f, s) == [i \in DOMAIN s |-> f[s[i]]]

LEMMA ImageFacts ==
    ASSUME NEW N, NEW V, NEW f \in [N -> V], NEW s \in Seq(N)
    PROVE  /\ Image(f, s) \in Seq(V) /\ Len(Image(f, s)) = Len(s)
           /\ \A i \in 1 .. Len(s) : Image(f, s)[i] = f[s[i]]
           /\ (Image(f, s) = <<>> <=> s = <<>>)
<1>1. PICK k \in Nat : k = Len(s)
    BY LenProperties
<1>2. DOMAIN s = 1 .. k /\ \A i \in 1 .. k : s[i] \in N
    BY <1>1, LenProperties, ElementOfSeq
<1>3. Image(f, s) \in [1 .. k -> V]
    BY <1>2 DEF Image
<1>4. Image(f, s) \in Seq(V) /\ Len(Image(f, s)) = k
    BY <1>3
<1>5. Image(f, s) = <<>> <=> s = <<>>
    BY <1>1, <1>4, EmptySeq
<1> QED BY <1>1, <1>2, <1>4, <1>5 DEF Image

LEMMA ImageTail ==
    ASSUME NEW N, NEW V, NEW f \in [N -> V], NEW s \in Seq(N), s # <<>>
    PROVE  Image(f, Tail(s)) = Tail(Image(f, s)) /\ Head(Image(f, s)) = f[Head(s)]
<1>1. PICK k \in Nat \ {0} : k = Len(s)
    BY LenProperties, EmptySeq
<1>2. /\ Head(s) = s[1] /\ Tail(s) \in Seq(N) /\ Len(Tail(s)) = k - 1
      /\ \A i \in 1 .. k - 1 : Tail(s)[i] = s[i + 1]
    BY <1>1, HeadTailProperties, LenProperties
<1>3. PICK u \in Seq(V) : u = Image(f, s)
    BY ImageFacts
<1>4. Len(u) = k /\ u # <<>> /\ \A i \in 1 .. k : u[i] = f[s[i]]
    BY <1>1, <1>3, ImageFacts
<1>5. /\ Head(u) = u[1] /\ Tail(u) \in Seq(V) /\ Len(Tail(u)) = k - 1
      /\ \A i \in 1 .. k - 1 : Tail(u)[i] = u[i + 1]
    BY <1>4, HeadTailProperties, LenProperties
<1>6. PICK w \in Seq(V) : w = Image(f, Tail(s))
    BY <1>2, ImageFacts
<1>7. Len(w) = k - 1 /\ \A i \in 1 .. k - 1 : w[i] = f[Tail(s)[i]]
    <2>1. PICK r \in Seq(N) : r = Tail(s)
        BY <1>2
    <2>2. w = Image(f, r) /\ Len(r) = k - 1
        BY <1>2, <1>6, <2>1
    <2>3. Len(Image(f, r)) = Len(r) /\ \A i \in 1 .. Len(r) : Image(f, r)[i] = f[r[i]]
        BY ImageFacts
    <2> QED BY <2>1, <2>2, <2>3
<1>8. \A i \in 1 .. k - 1 : w[i] = Tail(u)[i]
    BY <1>2, <1>4, <1>5, <1>7
<1>9. w = Tail(u)
    BY <1>5, <1>7, <1>8, SeqEqual
<1>10. Head(u) = f[Head(s)]
    BY <1>2, <1>4, <1>5
<1> QED BY <1>3, <1>6, <1>9, <1>10

LEMMA ImagePush ==
    ASSUME NEW N, NEW V, NEW f \in [N -> V], NEW s \in Seq(N), NEW x \in N
    PROVE  Image(f, <<x>> \o s) = <<f[x]>> \o Image(f, s)
<1>1. PICK k \in Nat : k = Len(s)
    BY LenProperties
<1>2. PICK u \in Seq(N) : u = <<x>> \o s
    BY PushIn
<1>3. Len(u) = 1 + k /\ u[1] = x /\ \A i \in 1 .. k : u[i + 1] = s[i]
    BY <1>1, <1>2, PushIn
<1>4. PICK a \in Seq(V) : a = Image(f, u)
    BY ImageFacts
<1>5. Len(a) = 1 + k /\ \A i \in 1 .. 1 + k : a[i] = f[u[i]]
    <2>1. Len(a) = Len(u) /\ \A i \in 1 .. Len(u) : a[i] = f[u[i]]
        BY <1>4, ImageFacts
    <2> QED BY <2>1, <1>3
<1>6. PICK m \in Seq(V) : m = Image(f, s)
    BY ImageFacts
<1>7. Len(m) = k /\ \A i \in 1 .. k : m[i] = f[s[i]]
    BY <1>1, <1>6, ImageFacts
<1>8. PICK b \in Seq(V) : b = <<f[x]>> \o m
    BY PushIn
<1>9. Len(b) = 1 + k /\ b[1] = f[x] /\ \A i \in 1 .. k : b[i + 1] = m[i]
    BY <1>7, <1>8, PushIn
<1>10. ASSUME NEW i \in 1 .. 1 + k PROVE a[i] = b[i]
    <2>1. CASE i = 1
        BY <2>1, <1>3, <1>5, <1>9
    <2>2. CASE i # 1
        <3>1. PICK j \in 1 .. k : i = j + 1
            <4>1. i - 1 \in 1 .. k /\ i = (i - 1) + 1
                BY <2>2
            <4> QED BY <4>1
        <3>2. a[j + 1] = f[u[j + 1]] /\ u[j + 1] = s[j]
            BY <3>1, <1>3, <1>5
        <3>3. b[j + 1] = m[j] /\ m[j] = f[s[j]]
            BY <1>7, <1>9
        <3> QED BY <3>1, <3>2, <3>3
    <2> QED BY <2>1, <2>2
<1>11. a = b
    BY <1>5, <1>9, <1>10, SeqEqual
<1> QED BY <1>2, <1>4, <1>6, <1>8, <1>11

\* The same, for every node at once.
LEMMA ImagePushAll ==
    \A N, V : \A f \in [N -> V], s \in Seq(N) :
        \A x \in N : Image(f, <<x>> \o s) = <<f[x]>> \o Image(f, s)
<1> SUFFICES ASSUME NEW N, NEW V, NEW f \in [N -> V], NEW s \in Seq(N), NEW x \in N
             PROVE  Image(f, <<x>> \o s) = <<f[x]>> \o Image(f, s)
    OBVIOUS
<1> QED BY ImagePush

\* Data of nodes that are not in the list do not matter.
LEMMA ImageFrame ==
    ASSUME NEW f, NEW g, NEW s, \A n : In(s, n) => f[n] = g[n]
    PROVE  Image(f, s) = Image(g, s)
BY DEF Image, In

-----------------------------------------------------------------------------
(* CountedQueue: the invariant                                             *)

QLabel == {"idle", "increase", "store", "link", "set_tail", "test", "next", "unlink",
           "exchange", "free", "release"}
QSide == {"head", "tail"}
QAddress == QNodes \cup {QNull}
QPointer == [external_count : Int, ptr : QAddress]
QForward == {QNoPtr} \cup {QCounted(1, m) : m \in QNodes}

QNodeType == [data : QElement \cup {QNull}, internal_count : Int, external_counters : Int,
              next : QForward]
QLocalType == [side : QSide, old : QPointer, ptr : QAddress, new : QAddress, next : QForward,
               done : BOOLEAN]

QTypeOK ==
    /\ ends \in [QSide -> QPointer]
    /\ qnode \in [QNodes -> QNodeType]
    /\ qalloc \in SUBSET QNodes
    /\ qpc \in [QThreads -> QLabel]
    /\ local \in [QThreads -> QLocalType]
    /\ qpushes \in [QThreads -> Nat] /\ \A t \in QThreads : qpushes[t] <= QMaxPushes[t]

Referring(t) == qpc[t] \in {"store", "link", "set_tail", "test", "next", "unlink", "release"}
Leaving(t) == qpc[t] \in {"exchange", "free"}
Leaves(t, s, n) == Leaving(t) /\ local[t].side = s /\ local[t].ptr = n

QLocals(t) ==
    /\ qpc[t] = "idle" => local[t] = QNoLocals
    /\ Referring(t) \/ Leaving(t) => local[t].ptr \in QNodes
    /\ ~(Referring(t) \/ Leaving(t)) => local[t].ptr = QNull
    /\ qpc[t] \in {"store", "link", "set_tail"} => local[t].side = "tail"
    /\ qpc[t] \in {"test", "next", "unlink", "exchange"} => local[t].side = "head"
    /\ qpc[t] \in {"increase", "store", "test", "next", "unlink", "exchange"} => ~local[t].done
    /\ qpc[t] \in {"store", "link", "set_tail", "test", "next", "unlink"} =>
            local[t].old.ptr = local[t].ptr
    /\ local[t].side = "head" => local[t].new = QNull
    /\ local[t].side = "tail" => qpushes[t] > 0
    /\ local[t].side = "tail" =>
            (local[t].new = QNull <=> local[t].done /\ qpc[t] \in {"set_tail", "free", "release"})

\* The pops and pushes that have counted themselves on a node at one of the ends and have
\* not given that back.
QRefs(n) == {t \in QThreads : Referring(t) /\ local[t].ptr = n}

\* w is what the ends have counted and not yet passed on to the nodes, o which nodes an end
\* has still to be accounted for in.
Balanced(w, o, n) ==
    /\ IsFiniteSet(QRefs(n))
    /\ qnode[n].internal_count + w["head"][n] + w["tail"][n] = Cardinality(QRefs(n))
    /\ qnode[n].external_counters = (IF n \in o["head"] THEN 1 ELSE 0) + (IF n \in o["tail"] THEN 1 ELSE 0)

EndCounted(w, o, s) ==
    /\ ends[s].ptr \in o[s]
    /\ w[s][ends[s].ptr] = ends[s].external_count - 1

LeaverCounted(w, o, t) ==
    LET s == local[t].side  n == local[t].ptr IN
    /\ n \in o[s] /\ n \in qalloc /\ ends[s].ptr # n
    /\ w[s][n] = local[t].old.external_count - 2
    /\ \A u \in QThreads : Leaves(u, s, n) => u = t

Tally(w, o) ==
    /\ \A n \in QNodes : Balanced(w, o, n)
    /\ \A s \in QSide : EndCounted(w, o, s)
    /\ \A t \in QThreads : Leaving(t) => LeaverCounted(w, o, t)
    /\ \A s \in QSide : \A n \in QNodes :
            w[s][n] = 0 \/ ends[s].ptr = n \/ \E t \in QThreads : Leaves(t, s, n)

\* c gives the nodes before the one that the tail points to; one more may follow that.
QLast == ends["tail"].ptr
QSecond == qnode[QLast].next.ptr
QLinks == [n \in QNodes |-> qnode[n].next.ptr]
OnQ(c, n) == In(c, n) \/ n = QLast \/ (n = QSecond /\ n # QNull)

\* A node that no call has worked on.
Fresh(n) == qnode[n] = QNode /\ QRefs(n) = {} /\ \A s \in QSide : \A t \in QThreads : ~Leaves(t, s, n)

QChain(c) ==
    /\ QLast \in QNodes /\ ~In(c, QLast) /\ Once(c)
    /\ Linked(ends["head"].ptr, QLinks, QLast, c)
    /\ QSecond # QNull => QSecond # QLast /\ ~In(c, QSecond) /\ Fresh(QSecond)

OnList(c, o, n) ==
    /\ n \in qalloc /\ n \in o["head"]
    /\ \A t \in QThreads : ~Leaves(t, "head", n)
    /\ In(c, n) /\ n \in o["tail"] => \E t \in QThreads : Leaves(t, "tail", n)

\* A node that is neither on the list nor new: what keeps it from being deleted.
OffList(o, n) ==
    /\ \A s \in QSide : n \in o[s] => \E t \in QThreads : Leaves(t, s, n)
    /\ (\A s \in QSide : n \notin o[s]) => QRefs(n) # {}

NewNode(c, t) ==
    LET n == local[t].new IN
    /\ n \in qalloc /\ ~OnQ(c, n) /\ Fresh(n)
    /\ \A u \in QThreads : local[u].new = n => u = t

QPlaced(c, o) ==
    /\ \A n \in QNodes : OnQ(c, n) => OnList(c, o, n)
    /\ \A t \in QThreads : local[t].new # QNull => NewNode(c, t)
    /\ \A n \in QNodes : n \notin qalloc => Fresh(n)
    /\ \A n \in qalloc : OnQ(c, n) \/ (\E t \in QThreads : local[t].new = n) \/ OffList(o, n)

\* What a call knows of the node that it has a reference to.
QRefers(c, t) ==
    LET n == local[t].ptr IN
    /\ n \in qalloc
    /\ local[t].side = "tail" => n = QLast \/ qnode[n].next # QNoPtr
    /\ local[t].side = "head" => n = ends["head"].ptr \/ ~OnQ(c, n)
    /\ qpc[t] \in {"next", "unlink"} => n # QLast
    /\ qpc[t] \in {"unlink", "set_tail"} => local[t].next = qnode[n].next
    /\ qpc[t] = "set_tail" => qnode[n].next # QNoPtr

QShape(c, w, o) ==
    /\ QChain(c) /\ QPlaced(c, o) /\ Tally(w, o)
    /\ \A t \in QThreads : Referring(t) => QRefers(c, t)

\* The nodes before the last one are c.
QCount == [QSide -> [QNodes -> Int]]
QOwed == [QSide -> SUBSET QNodes]
Shaped(c) == \E w \in QCount, o \in QOwed : QShape(c, w, o)

QInv ==
    /\ QTypeOK /\ \A t \in QThreads : QLocals(t)
    /\ \E c \in Seq(QNodes) : Shaped(c)

LEMMA QFacts ==
    /\ QNull \notin QNodes /\ QNull \notin QElement /\ QNodes \subseteq QAddress /\ QNull \in QAddress
    /\ QNoPtr \in QForward /\ QNoPtr.ptr = QNull /\ QNoPtr.external_count = 0
    /\ QForward \subseteq QPointer
    /\ \A m \in QNodes : QCounted(1, m) \in QForward /\ QCounted(1, m).ptr = m
    /\ \A f \in QForward : /\ f.ptr \in QAddress
                           /\ f = QNoPtr <=> f.ptr = QNull
                           /\ f # QNoPtr => f.external_count = 1 /\ f.ptr \in QNodes
    /\ QNode \in QNodeType /\ QNode.next = QNoPtr /\ QNode.data = QNull
    /\ QNode.internal_count = 0 /\ QNode.external_counters = 2
    /\ QNoLocals \in QLocalType /\ QNoLocals.side = "head" /\ QNoLocals.ptr = QNull
    /\ QNoLocals.new = QNull /\ QNoLocals.next = QNoPtr /\ ~QNoLocals.done
<1>1. /\ QNull \notin QNodes /\ QNull \notin QElement
      /\ QNodes \subseteq QAddress /\ QNull \in QAddress
    BY QNullAssumption DEF QAddress
<1>2. /\ QNoPtr.ptr = QNull /\ QNoPtr.external_count = 0
      /\ \A m \in QNodes : QCounted(1, m).ptr = m /\ QCounted(1, m).external_count = 1
      /\ QNoPtr \in QPointer /\ \A m \in QNodes : QCounted(1, m) \in QPointer
    BY <1>1 DEF QNoPtr, QCounted, QPointer
<1>3. /\ QNoPtr \in QForward /\ QForward \subseteq QPointer
      /\ \A m \in QNodes : QCounted(1, m) \in QForward
    BY <1>2 DEF QForward
<1>4. ASSUME NEW f \in QForward
      PROVE  /\ f.ptr \in QAddress
             /\ f = QNoPtr <=> f.ptr = QNull
             /\ f # QNoPtr => f.external_count = 1 /\ f.ptr \in QNodes
    <2>1. CASE f = QNoPtr
        BY <2>1, <1>1, <1>2
    <2>2. ASSUME NEW m \in QNodes, f = QCounted(1, m) PROVE f.ptr = m /\ f.external_count = 1 /\ f.ptr # QNull
        BY <2>2, <1>1, <1>2
    <2> QED BY <2>1, <2>2, <1>1, <1>2 DEF QForward
<1>5. /\ QNode.next = QNoPtr /\ QNode.data = QNull
      /\ QNode.internal_count = 0 /\ QNode.external_counters = 2
      /\ QNode \in QNodeType
    BY <1>3 DEF QNode, QNodeType
<1>6. /\ QNoLocals.side = "head" /\ QNoLocals.ptr = QNull
      /\ QNoLocals.new = QNull /\ QNoLocals.next = QNoPtr /\ ~QNoLocals.done
      /\ QNoLocals \in QLocalType
    BY <1>1, <1>2, <1>3 DEF QNoLocals, QLocalType, QSide
<1> QED BY <1>1, <1>2, <1>3, <1>4, <1>5, <1>6

\* The other calls are where they were.
OthersKeep(t) == \A u \in QThreads \ {t} : qpc'[u] = qpc[u] /\ local'[u] = local[u]

\* The members of the queue are the same.
QMembersStay == UNCHANGED <<ends, qnode, qalloc>>

LEMMA QGoes ==
    ASSUME QTypeOK, NEW t \in QThreads, NEW l, QGoto(t, l), NEW r,
           local' = [local EXCEPT ![t] = r]
    PROVE  qpc'[t] = l /\ local'[t] = r /\ OthersKeep(t)
BY DEF QTypeOK, QGoto, OthersKeep

LEMMA QPopEff ==
    ASSUME QTypeOK, NEW t \in QThreads, QPop(t)
    PROVE  /\ QMembersStay /\ OthersKeep(t) /\ qpc[t] = "idle" /\ qpc'[t] = "increase"
           /\ local'[t] = [local[t] EXCEPT !.side = "head", !.old = ends.head]
<1>1. PICK r : r = [local[t] EXCEPT !.side = "head", !.old = ends.head]
    OBVIOUS
<1>2. local' = [local EXCEPT ![t] = r]
    BY <1>1 DEF QPop
<1>3. QGoto(t, "increase") /\ qpc[t] = "idle" /\ QMembersStay
    BY DEF QPop, QMembersStay
<1> QED BY <1>1, <1>2, <1>3, QGoes

LEMMA QPushEff ==
    ASSUME QTypeOK, NEW t \in QThreads, QPush(t)
    PROVE  \E n \in QNodes \ qalloc :
            /\ qalloc' = qalloc \cup {n} /\ UNCHANGED <<ends, qnode>>
            /\ OthersKeep(t) /\ qpc[t] = "idle" /\ qpc'[t] = "increase"
            /\ local'[t] = [local[t] EXCEPT !.side = "tail", !.new = n, !.old = ends.tail]
<1>1. PICK n \in QNodes \ qalloc :
        /\ qalloc' = qalloc \cup {n}
        /\ local' = [local EXCEPT ![t] = [@ EXCEPT !.side = "tail", !.new = n, !.old = ends.tail]]
    BY DEF QPush
<1>2. PICK r : r = [local[t] EXCEPT !.side = "tail", !.new = n, !.old = ends.tail]
    OBVIOUS
<1>3. local' = [local EXCEPT ![t] = r]
    BY <1>1, <1>2
<1>4. QGoto(t, "increase") /\ qpc[t] = "idle" /\ UNCHANGED <<ends, qnode>>
    BY DEF QPush
<1>5. qpc'[t] = "increase" /\ local'[t] = r /\ OthersKeep(t)
    BY <1>3, <1>4, QGoes
<1> QED BY <1>1, <1>2, <1>4, <1>5

LEMMA QIncreaseEff ==
    ASSUME QTypeOK, NEW t \in QThreads, increase_external_count(t), NEW s \in QSide, s = local[t].side
    PROVE  /\ UNCHANGED <<qnode, qalloc>> /\ OthersKeep(t) /\ qpc[t] = "increase"
           /\ ends[s] # local[t].old =>
                /\ UNCHANGED ends /\ qpc'[t] = "increase"
                /\ local'[t] = [local[t] EXCEPT !.old = ends[s]]
           /\ ends[s] = local[t].old => \E p \in QPointer :
                /\ p.ptr = ends[s].ptr /\ p.external_count = ends[s].external_count + 1
                /\ ends' = [ends EXCEPT ![s] = p]
                /\ qpc'[t] = IF s = "tail" THEN "store" ELSE "test"
                /\ local'[t] = [local[t] EXCEPT !.old = p, !.ptr = p.ptr]
<1>1. UNCHANGED <<qnode, qalloc>> /\ qpc[t] = "increase"
    BY DEF increase_external_count
<1>2. CASE ends[s] # local[t].old
    <2>1. PICK r : r = [local[t] EXCEPT !.old = ends[s]]
        OBVIOUS
    <2>2. local' = [local EXCEPT ![t] = r] /\ UNCHANGED <<ends, qpc>>
        BY <1>2, <2>1 DEF increase_external_count
    <2>3. qpc'[t] = "increase" /\ local'[t] = r /\ OthersKeep(t)
        BY <1>1, <2>2 DEF QTypeOK, OthersKeep
    <2> QED BY <1>1, <1>2, <2>1, <2>2, <2>3
<1>3. CASE ends[s] = local[t].old
    <2>1. PICK p : p = [ends[s] EXCEPT !.external_count = @ + 1]
        OBVIOUS
    <2>2. p \in QPointer /\ p.ptr = ends[s].ptr /\ p.external_count = ends[s].external_count + 1
        BY <2>1 DEF QTypeOK, QPointer
    <2>3. PICK l : l = IF s = "tail" THEN "store" ELSE "test"
        OBVIOUS
    <2>4. PICK r : r = [local[t] EXCEPT !.old = p, !.ptr = p.ptr]
        OBVIOUS
    <2>5. ends' = [ends EXCEPT ![s] = p] /\ local' = [local EXCEPT ![t] = r] /\ QGoto(t, l)
        BY <1>3, <2>1, <2>2, <2>3, <2>4 DEF increase_external_count
    <2>6. qpc'[t] = l /\ local'[t] = r /\ OthersKeep(t)
        BY <2>5, QGoes
    <2> QED BY <1>1, <1>3, <2>2, <2>3, <2>4, <2>5, <2>6
<1> QED BY <1>2, <1>3

LEMMA StoreDataEff ==
    ASSUME QTypeOK, NEW t \in QThreads, StoreData(t), NEW n \in QNodes, n = local[t].ptr
    PROVE  /\ UNCHANGED <<ends, qalloc>> /\ OthersKeep(t) /\ qpc[t] = "store" /\ qpc'[t] = "link"
           /\ qnode' = [qnode EXCEPT ![n].data = IF qnode[n].data = QNull THEN QArg(t) ELSE @]
           /\ local'[t] = [local[t] EXCEPT !.done = (qnode[n].data = QNull)]
<1>1. PICK r : r = [local[t] EXCEPT !.done = (qnode[n].data = QNull)]
    OBVIOUS
<1>2. local' = [local EXCEPT ![t] = r]
    BY <1>1 DEF StoreData
<1>3. QGoto(t, "link") /\ qpc[t] = "store" /\ UNCHANGED <<ends, qalloc>>
    BY DEF StoreData
<1>4. qnode' = [qnode EXCEPT ![n].data = IF qnode[n].data = QNull THEN QArg(t) ELSE @]
    BY DEF StoreData
<1> QED BY <1>1, <1>2, <1>3, <1>4, QGoes

LEMMA LinkNodeEff ==
    ASSUME QTypeOK, NEW t \in QThreads, LinkNode(t), NEW n \in QNodes, n = local[t].ptr
    PROVE  /\ UNCHANGED ends /\ OthersKeep(t) /\ qpc[t] = "link" /\ qpc'[t] = "set_tail"
           /\ qnode[n].next = QNoPtr =>
                \E m \in IF local[t].done THEN {QNull} ELSE QNodes \ qalloc :
                    /\ qalloc' = qalloc \cup ({m} \ {QNull})
                    /\ qnode' = [qnode EXCEPT ![n].next = QCounted(1, local[t].new)]
                    /\ local'[t] = [local[t] EXCEPT !.next = QCounted(1, local[t].new), !.new = m]
           /\ qnode[n].next # QNoPtr =>
                /\ UNCHANGED qnode
                /\ qalloc' = IF local[t].done THEN qalloc \ {local[t].new} ELSE qalloc
                /\ local'[t] = [local[t] EXCEPT !.next = qnode[n].next,
                                                !.new = IF local[t].done THEN QNull ELSE local[t].new]
<1>1. QGoto(t, "set_tail") /\ qpc[t] = "link" /\ UNCHANGED ends
    BY DEF LinkNode
<1>2. CASE qnode[n].next = QNoPtr
    <2>1. PICK m \in IF local[t].done THEN {QNull} ELSE QNodes \ qalloc :
            /\ qalloc' = qalloc \cup ({m} \ {QNull})
            /\ local' = [local EXCEPT ![t] = [@ EXCEPT !.next = QCounted(1, local[t].new), !.new = m]]
        BY <1>2, Zenon DEF LinkNode
    <2>2. qnode' = [qnode EXCEPT ![n].next = QCounted(1, local[t].new)]
        BY <1>2 DEF LinkNode
    <2>3. PICK r : r = [local[t] EXCEPT !.next = QCounted(1, local[t].new), !.new = m]
        OBVIOUS
    <2>4. local' = [local EXCEPT ![t] = r]
        BY <2>1, <2>3
    <2>5. qpc'[t] = "set_tail" /\ local'[t] = r /\ OthersKeep(t)
        BY <1>1, <2>4, QGoes
    <2> QED BY <1>1, <1>2, <2>1, <2>2, <2>3, <2>5
<1>3. CASE qnode[n].next # QNoPtr
    <2>1. /\ local' = [local EXCEPT ![t] = [@ EXCEPT !.next = qnode[n].next,
                                                     !.new = IF local[t].done THEN QNull ELSE local[t].new]]
          /\ UNCHANGED qnode
          /\ qalloc' = IF local[t].done THEN qalloc \ {local[t].new} ELSE qalloc
        BY <1>3, Zenon DEF LinkNode
    <2>2. \A u \in QThreads \ {t} : local'[u] = local[u]
        BY <2>1 DEF QTypeOK
    <2>3. local'[t] = [local[t] EXCEPT !.next = qnode[n].next,
                                       !.new = IF local[t].done THEN QNull ELSE local[t].new]
        BY <2>1 DEF QTypeOK
    <2>4. qpc'[t] = "set_tail" /\ OthersKeep(t)
        BY <1>1, <2>2 DEF QTypeOK, QGoto, OthersKeep
    <2> QED BY <1>1, <1>3, <2>1, <2>3, <2>4
<1> QED BY <1>2, <1>3

LEMMA set_new_tailEff ==
    ASSUME QTypeOK, NEW t \in QThreads, set_new_tail(t)
    PROVE  /\ UNCHANGED <<qnode, qalloc>> /\ OthersKeep(t) /\ qpc[t] = "set_tail"
           /\ ends["tail"] = local[t].old =>
                /\ ends' = [ends EXCEPT !["tail"] = local[t].next]
                /\ qpc'[t] = "free" /\ local'[t] = local[t]
           /\ ends["tail"] # local[t].old =>
                /\ UNCHANGED ends
                /\ qpc'[t] = IF ends["tail"].ptr = local[t].ptr THEN "set_tail" ELSE "release"
                /\ local'[t] = [local[t] EXCEPT !.old = ends["tail"]]
<1>1. UNCHANGED <<qnode, qalloc>> /\ qpc[t] = "set_tail"
    BY DEF set_new_tail
<1>2. CASE ends["tail"] = local[t].old
    <2>1. UNCHANGED local /\ QGoto(t, "free") /\ ends' = [ends EXCEPT !["tail"] = local[t].next]
        BY <1>2 DEF set_new_tail
    <2>2. qpc'[t] = "free" /\ OthersKeep(t) /\ local'[t] = local[t]
        BY <2>1 DEF QGoto, QTypeOK, OthersKeep
    <2> QED BY <1>1, <1>2, <2>1, <2>2
<1>3. CASE ends["tail"] # local[t].old
    <2>1. PICK r : r = [local[t] EXCEPT !.old = ends["tail"]]
        OBVIOUS
    <2>2. PICK l : l = IF ends["tail"].ptr = local[t].ptr THEN "set_tail" ELSE "release"
        OBVIOUS
    <2>3. local' = [local EXCEPT ![t] = r] /\ QGoto(t, l) /\ UNCHANGED ends
        BY <1>3, <2>1, <2>2 DEF set_new_tail
    <2>4. qpc'[t] = l /\ local'[t] = r /\ OthersKeep(t)
        BY <2>3, QGoes
    <2> QED BY <1>1, <1>3, <2>1, <2>2, <2>3, <2>4
<1> QED BY <1>2, <1>3

LEMMA TestEmptyEff ==
    ASSUME QTypeOK, NEW t \in QThreads, TestEmpty(t)
    PROVE  /\ QMembersStay /\ OthersKeep(t) /\ qpc[t] = "test"
           /\ qpc'[t] = IF local[t].ptr = ends["tail"].ptr THEN "release" ELSE "next"
           /\ local'[t] = [local[t] EXCEPT !.done = (local[t].ptr = ends["tail"].ptr)]
<1>1. PICK r : r = [local[t] EXCEPT !.done = (local[t].ptr = ends["tail"].ptr)]
    OBVIOUS
<1>2. PICK l : l = IF local[t].ptr = ends["tail"].ptr THEN "release" ELSE "next"
    OBVIOUS
<1>3. local' = [local EXCEPT ![t] = r] /\ QGoto(t, l) /\ qpc[t] = "test" /\ QMembersStay
    BY <1>1, <1>2 DEF TestEmpty, QMembersStay
<1> QED BY <1>1, <1>2, <1>3, QGoes

LEMMA LoadNextEff ==
    ASSUME QTypeOK, NEW t \in QThreads, LoadNext(t)
    PROVE  /\ QMembersStay /\ OthersKeep(t) /\ qpc[t] = "next" /\ qpc'[t] = "unlink"
           /\ local'[t] = [local[t] EXCEPT !.next = qnode[local[t].ptr].next]
<1>1. PICK r : r = [local[t] EXCEPT !.next = qnode[local[t].ptr].next]
    OBVIOUS
<1>2. local' = [local EXCEPT ![t] = r] /\ QGoto(t, "unlink") /\ qpc[t] = "next" /\ QMembersStay
    BY <1>1 DEF LoadNext, QMembersStay
<1> QED BY <1>1, <1>2, QGoes

LEMMA UnlinkEff ==
    ASSUME QTypeOK, NEW t \in QThreads, Unlink(t)
    PROVE  /\ UNCHANGED <<qnode, qalloc>> /\ OthersKeep(t) /\ qpc[t] = "unlink"
           /\ ends["head"] = local[t].old =>
                /\ ends' = [ends EXCEPT !["head"] = local[t].next]
                /\ qpc'[t] = "exchange" /\ local'[t] = local[t]
           /\ ends["head"] # local[t].old =>
                /\ UNCHANGED ends /\ qpc'[t] = "release"
                /\ local'[t] = [local[t] EXCEPT !.old = ends["head"]]
<1>1. UNCHANGED <<qnode, qalloc>> /\ qpc[t] = "unlink"
    BY DEF Unlink
<1>2. CASE ends["head"] = local[t].old
    <2>1. UNCHANGED local /\ QGoto(t, "exchange") /\ ends' = [ends EXCEPT !["head"] = local[t].next]
        BY <1>2 DEF Unlink
    <2>2. qpc'[t] = "exchange" /\ OthersKeep(t) /\ local'[t] = local[t]
        BY <2>1 DEF QGoto, QTypeOK, OthersKeep
    <2> QED BY <1>1, <1>2, <2>1, <2>2
<1>3. CASE ends["head"] # local[t].old
    <2>1. PICK r : r = [local[t] EXCEPT !.old = ends["head"]]
        OBVIOUS
    <2>2. local' = [local EXCEPT ![t] = r] /\ QGoto(t, "release") /\ UNCHANGED ends
        BY <1>3, <2>1 DEF Unlink
    <2>3. qpc'[t] = "release" /\ local'[t] = r /\ OthersKeep(t)
        BY <2>2, QGoes
    <2> QED BY <1>1, <1>3, <2>1, <2>2, <2>3
<1> QED BY <1>2, <1>3

LEMMA ExchangeDataEff ==
    ASSUME QTypeOK, NEW t \in QThreads, ExchangeData(t), NEW n \in QNodes, n = local[t].ptr
    PROVE  /\ UNCHANGED <<ends, qalloc>> /\ OthersKeep(t) /\ qpc[t] = "exchange" /\ qpc'[t] = "free"
           /\ qnode' = [qnode EXCEPT ![n].data = QNull]
           /\ local'[t] = [local[t] EXCEPT !.done = TRUE]
<1>1. PICK r : r = [local[t] EXCEPT !.done = TRUE]
    OBVIOUS
<1>2. local' = [local EXCEPT ![t] = r] /\ QGoto(t, "free")
    BY <1>1 DEF ExchangeData
<1>3. qpc[t] = "exchange" /\ UNCHANGED <<ends, qalloc>> /\ qnode' = [qnode EXCEPT ![n].data = QNull]
    BY DEF ExchangeData
<1> QED BY <1>1, <1>2, <1>3, QGoes

\* What a change of the count of node n leads to.
Updated(t, n, i, e, x) ==
    /\ x.internal_count = i /\ x.external_counters = e
    /\ x.next = qnode[n].next /\ x.data = qnode[n].data
    /\ i = 0 /\ e = 0 => qnode' = [qnode EXCEPT ![n] = QNode] /\ qalloc' = qalloc \ {n}
    /\ ~(i = 0 /\ e = 0) => qnode' = [qnode EXCEPT ![n] = x] /\ qalloc' = qalloc
    /\ UNCHANGED ends /\ OthersKeep(t)
    /\ qpc'[t] = IF local[t].done THEN "idle" ELSE "increase"
    /\ local'[t] = IF local[t].done THEN QNoLocals
                   ELSE [local[t] EXCEPT !.ptr = QNull, !.next = QNoPtr]

LEMMA UpdateCountEff ==
    ASSUME QTypeOK, NEW t \in QThreads, NEW a \in Int, NEW b \in Int, UpdateCount(t, a, b),
           NEW n \in QNodes, n = local[t].ptr
    PROVE  \E x \in QNodeType :
                Updated(t, n, qnode[n].internal_count + a, qnode[n].external_counters - b, x)
<1>1. PICK x : x = [qnode[n] EXCEPT !.internal_count = @ + a, !.external_counters = @ - b]
    OBVIOUS
<1>2. qnode[n] \in QNodeType
    BY DEF QTypeOK
<1>3. /\ x \in QNodeType /\ x.internal_count = qnode[n].internal_count + a
      /\ x.external_counters = qnode[n].external_counters - b
      /\ x.internal_count \in Int /\ x.external_counters \in Int
      /\ x.next = qnode[n].next /\ x.data = qnode[n].data
    <2>1. PICK m \in QNodeType : m = qnode[n]
        BY <1>2
    <2>2. PICK i \in Int : i = m.internal_count + a
        BY DEF QNodeType
    <2>3. PICK e \in Int : e = m.external_counters - b
        BY DEF QNodeType
    <2>4. x = [m EXCEPT !.internal_count = i, !.external_counters = e]
        BY <1>1, <2>1, <2>2, <2>3
    <2>5. x \in QNodeType /\ x.internal_count = i /\ x.external_counters = e /\ x.next = m.next /\ x.data = m.data
        BY <2>4 DEF QNodeType
    <2> QED BY <2>1, <2>2, <2>3, <2>5
<1>4. PICK r : r = IF local[t].done THEN QNoLocals ELSE [local[t] EXCEPT !.ptr = QNull, !.next = QNoPtr]
    OBVIOUS
<1>5. PICK l : l = IF local[t].done THEN "idle" ELSE "increase"
    OBVIOUS
<1>6. local' = [local EXCEPT ![t] = r] /\ QGoto(t, l) /\ UNCHANGED ends
    BY <1>4, <1>5 DEF UpdateCount
<1>7. qpc'[t] = l /\ local'[t] = r /\ OthersKeep(t)
    BY <1>6, QGoes
<1>8. /\ x.internal_count = 0 /\ x.external_counters = 0 =>
            qnode' = [qnode EXCEPT ![n] = QNode] /\ qalloc' = qalloc \ {n}
      /\ ~(x.internal_count = 0 /\ x.external_counters = 0) =>
            qnode' = [qnode EXCEPT ![n] = x] /\ qalloc' = qalloc
    BY <1>1 DEF UpdateCount
<1> QED BY <1>3, <1>4, <1>5, <1>6, <1>7, <1>8 DEF Updated

LEMMA QArgElement ==
    ASSUME QTypeOK, NEW t \in QThreads, qpushes[t] > 0
    PROVE  QArg(t) \in QElement
<1>1. qpushes[t] \in 1 .. QMaxPushes[t]
    BY QBoundsAssumption DEF QTypeOK
<1>2. QArg(t) \in {t} \X (1 .. QMaxPushes[t])
    BY <1>1 DEF QArg
<1> QED BY <1>2 DEF QElement

\* What a step does not change, and the locals of the call that takes it.
LEMMA QTypesLocal ==
    ASSUME QTypeOK, NEW t \in QThreads, OthersKeep(t), qpc'[t] \in QLabel, local'[t] \in QLocalType,
           local' = [local EXCEPT ![t] = local'[t]], qpc' = [qpc EXCEPT ![t] = qpc'[t]]
    PROVE  qpc' \in [QThreads -> QLabel] /\ local' \in [QThreads -> QLocalType]
<1>1. PICK l \in QLabel : l = qpc'[t]
    OBVIOUS
<1>2. PICK r \in QLocalType : r = local'[t]
    OBVIOUS
<1>3. qpc' = [qpc EXCEPT ![t] = l] /\ local' = [local EXCEPT ![t] = r]
    BY <1>1, <1>2
<1> QED BY <1>3 DEF QTypeOK

\* Every step writes the place and the locals of its call only.
LEMMA QWrites ==
    ASSUME QTypeOK, NEW t \in QThreads, QStep(t) \/ QPush(t) \/ QPop(t)
    PROVE  /\ \E l : qpc' = [qpc EXCEPT ![t] = l]
           /\ \E r : local' = [local EXCEPT ![t] = r]
           /\ ~QPush(t) => UNCHANGED qpushes
<1>0. qpc = [qpc EXCEPT ![t] = qpc[t]] /\ local = [local EXCEPT ![t] = local[t]]
    BY DEF QTypeOK
<1>1. CASE QPush(t)
    BY <1>1, Zenon DEF QPush, QGoto
<1>2. CASE QPop(t)
    BY <1>2, Zenon DEF QPop, QGoto, qHistory
<1>3. CASE increase_external_count(t)
    <2>1. CASE ends[local[t].side] # local[t].old
        BY <2>1, <1>0, <1>3 DEF increase_external_count, qCalls
    <2>2. CASE ends[local[t].side] = local[t].old
        BY <2>2, <1>0, <1>3, Zenon DEF increase_external_count, qCalls, QGoto
    <2> QED BY <2>1, <2>2
<1>4. CASE StoreData(t)
    BY <1>4, Zenon DEF StoreData, QGoto, qCalls
<1>5. CASE LinkNode(t)
    <2>1. UNCHANGED qpushes /\ QGoto(t, "set_tail")
        BY <1>5 DEF LinkNode, qCalls
    <2>2. \E r : local' = [local EXCEPT ![t] = r]
        <3>1. CASE qnode[local[t].ptr].next = QNoPtr
            BY <3>1, <1>5, Zenon DEF LinkNode
        <3>2. CASE qnode[local[t].ptr].next # QNoPtr
            BY <3>2, <1>5, Zenon DEF LinkNode
        <3> QED BY <3>1, <3>2
    <2> QED BY <2>1, <2>2 DEF QGoto
<1>6. CASE set_new_tail(t)
    <2>1. CASE ends.tail = local[t].old
        BY <2>1, <1>0, <1>6 DEF set_new_tail, qCalls, QGoto
    <2>2. CASE ends.tail # local[t].old
        BY <2>2, <1>6, Zenon DEF set_new_tail, qCalls, QGoto
    <2> QED BY <2>1, <2>2
<1>7. CASE TestEmpty(t)
    BY <1>7, Zenon DEF TestEmpty, QGoto, qCalls
<1>8. CASE LoadNext(t)
    BY <1>8, Zenon DEF LoadNext, QGoto, qCalls
<1>9. CASE Unlink(t)
    <2>1. CASE ends.head = local[t].old
        BY <2>1, <1>0, <1>9 DEF Unlink, qCalls, QGoto
    <2>2. CASE ends.head # local[t].old
        BY <2>2, <1>9, Zenon DEF Unlink, qCalls, QGoto
    <2> QED BY <2>1, <2>2
<1>10. CASE ExchangeData(t)
    BY <1>10, Zenon DEF ExchangeData, QGoto, qCalls
<1>11. CASE free_external_counter(t) \/ release_ref(t)
    BY <1>11, Zenon DEF free_external_counter, release_ref, UpdateCount, QGoto, qCalls
<1> QED BY <1>1, <1>2, <1>3, <1>4, <1>5, <1>6, <1>7, <1>8, <1>9, <1>10, <1>11 DEF QStep

\* So types are about the members and about the locals of the call.
LEMMA QTypesStep ==
    ASSUME QTypeOK, NEW t \in QThreads, QStep(t) \/ QPush(t) \/ QPop(t), qpc'[t] \in QLabel,
           local'[t] \in QLocalType, ends' \in [QSide -> QPointer],
           qnode' \in [QNodes -> QNodeType], qalloc' \in SUBSET QNodes
    PROVE  QTypeOK'
<1>1. PICK l : qpc' = [qpc EXCEPT ![t] = l]
    BY QWrites
<1>2. PICK r : local' = [local EXCEPT ![t] = r]
    BY QWrites
<1>3. l \in QLabel /\ r \in QLocalType
    BY <1>1, <1>2 DEF QTypeOK
<1>4. qpc' \in [QThreads -> QLabel] /\ local' \in [QThreads -> QLocalType]
    BY <1>1, <1>2, <1>3 DEF QTypeOK
<1>5. qpushes' \in [QThreads -> Nat] /\ \A u \in QThreads : qpushes'[u] <= QMaxPushes[u]
    <2>1. CASE QPush(t)
        <3>1. qpushes[t] < QMaxPushes[t] /\ qpushes' = [qpushes EXCEPT ![t] = @ + 1]
            BY <2>1 DEF QPush
        <3>2. qpushes' \in [QThreads -> Nat]
            BY <3>1 DEF QTypeOK
        <3>3. QMaxPushes[t] \in Nat /\ qpushes[t] \in Nat
            BY QBoundsAssumption DEF QTypeOK
        <3>4. \A u \in QThreads : qpushes'[u] = IF u = t THEN qpushes[t] + 1 ELSE qpushes[u]
            BY <3>1 DEF QTypeOK
        <3>5. qpushes[t] + 1 <= QMaxPushes[t]
            BY <3>1, <3>3
        <3> QED BY <3>2, <3>4, <3>5 DEF QTypeOK
    <2>2. CASE ~QPush(t)
        BY <2>2, QWrites DEF QTypeOK
    <2> QED BY <2>1, <2>2
<1> QED BY <1>4, <1>5 DEF QTypeOK

LEMMA QLocalsFields ==
    ASSUME QTypeOK, NEW t \in QThreads
    PROVE  /\ local[t] \in QLocalType /\ qpc[t] \in QLabel
           /\ local[t].side \in QSide /\ local[t].old \in QPointer /\ local[t].ptr \in QAddress
           /\ local[t].new \in QAddress /\ local[t].next \in QForward /\ local[t].done \in BOOLEAN
           /\ ends["head"] \in QPointer /\ ends["tail"] \in QPointer
           /\ \A s \in QSide : ends[s] \in QPointer /\ ends[s].ptr \in QAddress /\ ends[s].external_count \in Int
           /\ \A n \in QNodes : /\ qnode[n] \in QNodeType /\ qnode[n].next \in QForward
                                /\ qnode[n].data \in QElement \cup {QNull}
                                /\ qnode[n].internal_count \in Int /\ qnode[n].external_counters \in Int
           /\ local[t].old.ptr \in QAddress /\ local[t].old.external_count \in Int
<1>1. local[t] \in QLocalType /\ qpc[t] \in QLabel /\ \A s \in QSide : ends[s] \in QPointer
    BY DEF QTypeOK
<1>2. \A n \in QNodes : qnode[n] \in QNodeType
    BY DEF QTypeOK
<1>3. \A p \in QPointer : p.ptr \in QAddress /\ p.external_count \in Int
    BY DEF QPointer
<1> QED BY <1>1, <1>2, <1>3 DEF QLocalType, QNodeType, QSide

LEMMA QPopTypes ==
    ASSUME QTypeOK, NEW t \in QThreads, QLocals(t), QPop(t)
    PROVE  QTypeOK' /\ QLocals(t)'
<1>1. /\ QMembersStay /\ qpc[t] = "idle" /\ qpc'[t] = "increase"
      /\ local'[t] = [local[t] EXCEPT !.side = "head", !.old = ends.head]
    BY QPopEff
<1>2. local[t] = QNoLocals /\ ends.head \in QPointer
    BY <1>1, QLocalsFields DEF QLocals
<1>3. /\ local'[t] \in QLocalType /\ local'[t].side = "head" /\ local'[t].ptr = QNull
      /\ local'[t].new = QNull /\ ~local'[t].done
    BY <1>1, <1>2, QFacts DEF QLocalType, QSide
<1>4. QTypeOK'
    BY <1>1, <1>3, QTypesStep DEF QMembersStay, QTypeOK, QLabel
<1> QED BY <1>1, <1>3, <1>4, QFacts DEF QLocals, Referring, Leaving

LEMMA QPushTypes ==
    ASSUME QTypeOK, NEW t \in QThreads, QLocals(t), QPush(t)
    PROVE  QTypeOK' /\ QLocals(t)'
<1>1. PICK n \in QNodes \ qalloc :
            /\ qalloc' = qalloc \cup {n} /\ UNCHANGED <<ends, qnode>>
            /\ OthersKeep(t) /\ qpc[t] = "idle" /\ qpc'[t] = "increase"
            /\ local'[t] = [local[t] EXCEPT !.side = "tail", !.new = n, !.old = ends.tail]
    BY QPushEff
<1>2. local[t] = QNoLocals /\ ends.tail \in QPointer
    BY <1>1, QLocalsFields DEF QLocals
<1>3. /\ local'[t] \in QLocalType /\ local'[t].side = "tail" /\ local'[t].ptr = QNull
      /\ local'[t].new = n /\ ~local'[t].done
    BY <1>1, <1>2, QFacts DEF QLocalType, QSide
<1>4. QTypeOK'
    BY <1>1, <1>3, QTypesStep DEF QTypeOK, QLabel
<1>5. qpushes'[t] > 0
    BY DEF QPush, QTypeOK
<1> QED BY <1>1, <1>3, <1>4, <1>5, QFacts DEF QLocals, Referring, Leaving

LEMMA QIncreaseTypes ==
    ASSUME QTypeOK, NEW t \in QThreads, QLocals(t), increase_external_count(t),
           \A s \in QSide : ends[s].ptr \in QNodes
    PROVE  QTypeOK' /\ QLocals(t)'
<1>1. PICK s \in QSide : s = local[t].side
    BY QLocalsFields
<1>2. UNCHANGED <<qnode, qalloc, qpushes>> /\ qpc[t] = "increase"
    <2>1. ~QPush(t)
        BY DEF increase_external_count, QPush
    <2> QED BY <1>1, <2>1, QIncreaseEff, QWrites DEF QStep
<1>3. /\ local[t].ptr = QNull /\ ~local[t].done /\ (s = "head" => local[t].new = QNull)
      /\ (s = "tail" => qpushes[t] > 0 /\ local[t].new # QNull)
    BY <1>1, <1>2 DEF QLocals, Referring, Leaving
<1>4. CASE ends[s] # local[t].old
    <2>1. /\ UNCHANGED ends /\ qpc'[t] = "increase"
          /\ local'[t] = [local[t] EXCEPT !.old = ends[s]]
        BY <1>1, <1>4, QIncreaseEff
    <2>2. /\ local'[t] \in QLocalType /\ local'[t].side = s /\ local'[t].ptr = QNull
          /\ local'[t].new = local[t].new /\ ~local'[t].done
        BY <1>1, <1>3, <2>1, QLocalsFields DEF QLocalType
    <2>3. QTypeOK'
        BY <1>2, <2>1, <2>2, QTypesStep DEF QTypeOK, QLabel, QStep
    <2> QED BY <1>2, <1>3, <2>1, <2>2, <2>3 DEF QLocals, Referring, Leaving
<1>5. CASE ends[s] = local[t].old
    <2>1. PICK p \in QPointer :
                /\ p.ptr = ends[s].ptr /\ p.external_count = ends[s].external_count + 1
                /\ ends' = [ends EXCEPT ![s] = p]
                /\ qpc'[t] = IF s = "tail" THEN "store" ELSE "test"
                /\ local'[t] = [local[t] EXCEPT !.old = p, !.ptr = p.ptr]
        BY <1>1, <1>5, QIncreaseEff, Zenon
    <2>2. p.ptr \in QNodes /\ p.ptr \in QAddress
        BY <2>1, QFacts
    <2>3. /\ local'[t] \in QLocalType /\ local'[t].side = s /\ local'[t].ptr = p.ptr
          /\ local'[t].new = local[t].new /\ ~local'[t].done /\ local'[t].old = p
        BY <1>1, <1>3, <2>1, <2>2, QLocalsFields DEF QLocalType
    <2>4. QTypeOK'
        BY <1>2, <2>1, <2>3, QTypesStep DEF QTypeOK, QLabel, QStep
    <2> QED BY <1>2, <1>3, <2>1, <2>2, <2>3, <2>4 DEF QLocals, Referring, Leaving, QSide
<1> QED BY <1>4, <1>5

LEMMA StoreDataTypes ==
    ASSUME QTypeOK, NEW t \in QThreads, QLocals(t), StoreData(t)
    PROVE  QTypeOK' /\ QLocals(t)'
<1>1. qpc[t] = "store"
    BY DEF StoreData
<1>2. PICK n \in QNodes : n = local[t].ptr
    BY <1>1 DEF QLocals, Referring
<1>3. /\ UNCHANGED <<ends, qalloc>> /\ qpc'[t] = "link"
      /\ qnode' = [qnode EXCEPT ![n].data = IF qnode[n].data = QNull THEN QArg(t) ELSE @]
      /\ local'[t] = [local[t] EXCEPT !.done = (qnode[n].data = QNull)]
    BY <1>2, StoreDataEff
<1>4. UNCHANGED qpushes
    BY DEF StoreData, qCalls
<1>5. qnode' \in [QNodes -> QNodeType]
    <2>1. QArg(t) \in QElement
        BY <1>1, QArgElement DEF QLocals
    <2>2. PICK v \in QElement \cup {QNull} : v = IF qnode[n].data = QNull THEN QArg(t) ELSE qnode[n].data
        BY <2>1, QLocalsFields
    <2>3. qnode' = [qnode EXCEPT ![n].data = v]
        BY <1>3, <2>2
    <2>4. PICK m \in QNodeType : m = [qnode[n] EXCEPT !.data = v]
        BY QLocalsFields DEF QNodeType
    <2>5. qnode' = [qnode EXCEPT ![n] = m]
        BY <2>3, <2>4
    <2> QED BY <2>5 DEF QTypeOK
<1>6. /\ local'[t] \in QLocalType /\ local'[t].side = local[t].side /\ local'[t].ptr = n
      /\ local'[t].new = local[t].new /\ local'[t].old = local[t].old
    <2>1. PICK b \in BOOLEAN : b = (qnode[n].data = QNull)
        OBVIOUS
    <2>2. local'[t] = [local[t] EXCEPT !.done = b]
        BY <1>3, <2>1, Zenon
    <2> QED BY <1>2, <2>2, QLocalsFields DEF QLocalType
<1>7. QTypeOK'
    BY <1>3, <1>5, <1>6, QTypesStep DEF QTypeOK, QLabel, QStep
<1> QED BY <1>1, <1>2, <1>3, <1>4, <1>6, <1>7 DEF QLocals, Referring, Leaving, QSide

LEMMA LinkNodeTypes ==
    ASSUME QTypeOK, NEW t \in QThreads, QLocals(t), LinkNode(t)
    PROVE  QTypeOK' /\ QLocals(t)'
<1>1. qpc[t] = "link" /\ UNCHANGED qpushes
    BY DEF LinkNode, qCalls
<1>2. PICK n \in QNodes : n = local[t].ptr
    BY <1>1 DEF QLocals, Referring
<1>3. UNCHANGED ends /\ qpc'[t] = "set_tail"
    BY <1>2, LinkNodeEff
<1>4. local[t].new \in QNodes /\ local[t].side = "tail" /\ local[t].old.ptr = n
    BY <1>1, <1>2, QLocalsFields DEF QLocals, QAddress
<1>5. CASE qnode[n].next = QNoPtr
    <2>1. PICK m \in IF local[t].done THEN {QNull} ELSE QNodes \ qalloc :
            /\ qalloc' = qalloc \cup ({m} \ {QNull})
            /\ qnode' = [qnode EXCEPT ![n].next = QCounted(1, local[t].new)]
            /\ local'[t] = [local[t] EXCEPT !.next = QCounted(1, local[t].new), !.new = m]
        BY <1>2, <1>5, LinkNodeEff, Zenon
    <2>2. m \in QAddress /\ (m = QNull <=> local[t].done)
        BY <2>1, QFacts
    <2>3. PICK f \in QForward : f = QCounted(1, local[t].new)
        BY <1>4, QFacts
    <2>4. PICK x \in QNodeType : x = [qnode[n] EXCEPT !.next = f]
        BY QLocalsFields DEF QNodeType
    <2>5. qnode' = [qnode EXCEPT ![n] = x]
        BY <2>1, <2>3, <2>4
    <2>6. qnode' \in [QNodes -> QNodeType] /\ qalloc' \in SUBSET QNodes
        BY <2>1, <2>2, <2>5 DEF QTypeOK, QAddress
    <2>7. local'[t] = [local[t] EXCEPT !.next = f, !.new = m]
        BY <2>1, <2>3
    <2>8. /\ local'[t] \in QLocalType /\ local'[t].side = "tail" /\ local'[t].ptr = n
          /\ local'[t].old = local[t].old /\ local'[t].new = m /\ local'[t].done = local[t].done
        BY <1>2, <1>4, <2>2, <2>7, QLocalsFields DEF QLocalType
    <2>9. QTypeOK'
        BY <1>3, <2>6, <2>8, QTypesStep DEF QTypeOK, QLabel, QStep
    <2> QED BY <1>1, <1>3, <1>4, <2>2, <2>8, <2>9 DEF QLocals, Referring, Leaving
<1>6. CASE qnode[n].next # QNoPtr
    <2>1. /\ UNCHANGED qnode
          /\ qalloc' = IF local[t].done THEN qalloc \ {local[t].new} ELSE qalloc
          /\ local'[t] = [local[t] EXCEPT !.next = qnode[n].next,
                                          !.new = IF local[t].done THEN QNull ELSE local[t].new]
        BY <1>2, <1>6, LinkNodeEff
    <2>2. PICK m \in QAddress : m = IF local[t].done THEN QNull ELSE local[t].new
        BY QLocalsFields, QFacts
    <2>3. m = QNull <=> local[t].done
        BY <1>4, <2>2, QFacts
    <2>4. PICK f \in QForward : f = qnode[n].next
        BY QLocalsFields
    <2>5. local'[t] = [local[t] EXCEPT !.next = f, !.new = m]
        BY <2>1, <2>2, <2>4
    <2>6. /\ local'[t] \in QLocalType /\ local'[t].side = "tail" /\ local'[t].ptr = n
          /\ local'[t].old = local[t].old /\ local'[t].new = m /\ local'[t].done = local[t].done
        BY <1>2, <1>4, <2>5, QLocalsFields DEF QLocalType
    <2>7. QTypeOK'
        BY <1>3, <2>1, <2>6, QTypesStep DEF QTypeOK, QLabel, QStep
    <2> QED BY <1>1, <1>3, <1>4, <2>3, <2>6, <2>7 DEF QLocals, Referring, Leaving
<1> QED BY <1>5, <1>6

LEMMA set_new_tailTypes ==
    ASSUME QTypeOK, NEW t \in QThreads, QLocals(t), set_new_tail(t)
    PROVE  QTypeOK' /\ QLocals(t)'
<1>1. qpc[t] = "set_tail" /\ UNCHANGED <<qnode, qalloc, qpushes>>
    BY DEF set_new_tail, qCalls
<1>2. CASE ends["tail"] = local[t].old
    <2>1. /\ ends' = [ends EXCEPT !["tail"] = local[t].next]
          /\ qpc'[t] = "free" /\ local'[t] = local[t]
        BY <1>2, set_new_tailEff
    <2>2. local[t].next \in QPointer
        BY QLocalsFields, QFacts
    <2>3. QTypeOK'
        BY <1>1, <2>1, <2>2, QLocalsFields, QTypesStep DEF QTypeOK, QLabel, QStep
    <2> QED BY <1>1, <2>1, <2>3 DEF QLocals, Referring, Leaving
<1>3. CASE ends["tail"] # local[t].old
    <2>1. /\ UNCHANGED ends
          /\ qpc'[t] = IF ends["tail"].ptr = local[t].ptr THEN "set_tail" ELSE "release"
          /\ local'[t] = [local[t] EXCEPT !.old = ends["tail"]]
        BY <1>3, set_new_tailEff
    <2>2. /\ local'[t] \in QLocalType /\ local'[t].side = local[t].side
          /\ local'[t].ptr = local[t].ptr /\ local'[t].old = ends["tail"]
          /\ local'[t].new = local[t].new /\ local'[t].done = local[t].done
        BY <2>1, QLocalsFields DEF QLocalType
    <2>3. QTypeOK'
        BY <1>1, <2>1, <2>2, QTypesStep DEF QTypeOK, QLabel, QStep
    <2> QED BY <1>1, <2>1, <2>2, <2>3 DEF QLocals, Referring, Leaving
<1> QED BY <1>2, <1>3

LEMMA TestEmptyTypes ==
    ASSUME QTypeOK, NEW t \in QThreads, QLocals(t), TestEmpty(t)
    PROVE  QTypeOK' /\ QLocals(t)'
<1>1. /\ QMembersStay /\ qpc[t] = "test"
      /\ qpc'[t] = IF local[t].ptr = ends["tail"].ptr THEN "release" ELSE "next"
      /\ local'[t] = [local[t] EXCEPT !.done = (local[t].ptr = ends["tail"].ptr)]
    BY TestEmptyEff
<1>2. PICK b \in BOOLEAN : b = (local[t].ptr = ends["tail"].ptr)
    OBVIOUS
<1>3. local'[t] = [local[t] EXCEPT !.done = b]
    BY <1>1, <1>2, Zenon
<1>4. /\ local'[t] \in QLocalType /\ local'[t].side = local[t].side
      /\ local'[t].ptr = local[t].ptr /\ local'[t].old = local[t].old
      /\ local'[t].new = local[t].new /\ local'[t].done = b
    BY <1>3, QLocalsFields DEF QLocalType
<1>5. local'[t].done <=> local[t].ptr = ends["tail"].ptr
    BY <1>2, <1>4, Zenon
<1>6. QTypeOK' /\ UNCHANGED qpushes
    BY <1>1, <1>4, QTypesStep DEF QTypeOK, QLabel, QStep, QMembersStay, TestEmpty, qCalls
<1> QED BY <1>1, <1>4, <1>5, <1>6 DEF QLocals, Referring, Leaving

LEMMA LoadNextTypes ==
    ASSUME QTypeOK, NEW t \in QThreads, QLocals(t), LoadNext(t)
    PROVE  QTypeOK' /\ QLocals(t)'
<1>1. /\ QMembersStay /\ qpc[t] = "next" /\ qpc'[t] = "unlink"
      /\ local'[t] = [local[t] EXCEPT !.next = qnode[local[t].ptr].next]
    BY LoadNextEff
<1>2. local[t].ptr \in QNodes
    BY <1>1 DEF QLocals, Referring
<1>3. PICK f \in QForward : f = qnode[local[t].ptr].next
    BY <1>2, QLocalsFields
<1>4. /\ local'[t] \in QLocalType /\ local'[t].side = local[t].side
      /\ local'[t].ptr = local[t].ptr /\ local'[t].old = local[t].old
      /\ local'[t].new = local[t].new /\ local'[t].done = local[t].done
    BY <1>1, <1>3, QLocalsFields DEF QLocalType
<1>5. QTypeOK' /\ UNCHANGED qpushes
    BY <1>1, <1>4, QTypesStep DEF QTypeOK, QLabel, QStep, QMembersStay, LoadNext, qCalls
<1> QED BY <1>1, <1>2, <1>4, <1>5 DEF QLocals, Referring, Leaving

LEMMA UnlinkTypes ==
    ASSUME QTypeOK, NEW t \in QThreads, QLocals(t), Unlink(t)
    PROVE  QTypeOK' /\ QLocals(t)'
<1>1. qpc[t] = "unlink" /\ UNCHANGED <<qnode, qalloc, qpushes>>
    BY DEF Unlink, qCalls
<1>2. CASE ends["head"] = local[t].old
    <2>1. /\ ends' = [ends EXCEPT !["head"] = local[t].next]
          /\ qpc'[t] = "exchange" /\ local'[t] = local[t]
        BY <1>2, UnlinkEff
    <2>2. local[t].next \in QPointer
        BY QLocalsFields, QFacts
    <2>3. QTypeOK'
        BY <1>1, <2>1, <2>2, QLocalsFields, QTypesStep DEF QTypeOK, QLabel, QStep
    <2> QED BY <1>1, <2>1, <2>3 DEF QLocals, Referring, Leaving
<1>3. CASE ends["head"] # local[t].old
    <2>1. /\ UNCHANGED ends /\ qpc'[t] = "release"
          /\ local'[t] = [local[t] EXCEPT !.old = ends["head"]]
        BY <1>3, UnlinkEff
    <2>2. /\ local'[t] \in QLocalType /\ local'[t].side = local[t].side
          /\ local'[t].ptr = local[t].ptr /\ local'[t].old = ends["head"]
          /\ local'[t].new = local[t].new /\ local'[t].done = local[t].done
        BY <2>1, QLocalsFields DEF QLocalType
    <2>3. QTypeOK'
        BY <1>1, <2>1, <2>2, QTypesStep DEF QTypeOK, QLabel, QStep
    <2> QED BY <1>1, <2>1, <2>2, <2>3 DEF QLocals, Referring, Leaving
<1> QED BY <1>2, <1>3

LEMMA ExchangeDataTypes ==
    ASSUME QTypeOK, NEW t \in QThreads, QLocals(t), ExchangeData(t)
    PROVE  QTypeOK' /\ QLocals(t)'
<1>1. qpc[t] = "exchange" /\ UNCHANGED qpushes
    BY DEF ExchangeData, qCalls
<1>2. PICK n \in QNodes : n = local[t].ptr
    BY <1>1 DEF QLocals, Leaving
<1>3. /\ UNCHANGED <<ends, qalloc>> /\ qpc'[t] = "free"
      /\ qnode' = [qnode EXCEPT ![n].data = QNull]
      /\ local'[t] = [local[t] EXCEPT !.done = TRUE]
    BY <1>2, ExchangeDataEff
<1>4. qnode' \in [QNodes -> QNodeType]
    <2>1. PICK x \in QNodeType : x = [qnode[n] EXCEPT !.data = QNull]
        BY QLocalsFields DEF QNodeType
    <2> QED BY <1>3, <2>1 DEF QTypeOK
<1>5. /\ local'[t] \in QLocalType /\ local'[t].side = local[t].side
      /\ local'[t].ptr = local[t].ptr /\ local'[t].old = local[t].old
      /\ local'[t].new = local[t].new /\ local'[t].done = TRUE
    BY <1>3, QLocalsFields DEF QLocalType
<1>6. QTypeOK'
    BY <1>3, <1>4, <1>5, QTypesStep DEF QTypeOK, QLabel, QStep
<1> QED BY <1>1, <1>2, <1>3, <1>5, <1>6 DEF QLocals, Referring, Leaving

LEMMA UpdateCountTypes ==
    ASSUME QTypeOK, NEW t \in QThreads, QLocals(t), free_external_counter(t) \/ release_ref(t)
    PROVE  QTypeOK' /\ QLocals(t)'
<1>1. qpc[t] \in {"free", "release"} /\ UNCHANGED qpushes
    BY DEF free_external_counter, release_ref, UpdateCount, qCalls
<1>2. PICK n \in QNodes : n = local[t].ptr
    BY <1>1 DEF QLocals, Referring, Leaving
<1>3. PICK a \in Int, b \in Int : UpdateCount(t, a, b)
    <2>1. local[t].old.external_count - 2 \in Int
        BY QLocalsFields
    <2> QED BY <2>1 DEF free_external_counter, release_ref
<1>4. PICK i \in Int, e \in Int, x \in QNodeType : Updated(t, n, i, e, x)
    <2>1. PICK x \in QNodeType :
            Updated(t, n, qnode[n].internal_count + a, qnode[n].external_counters - b, x)
        BY <1>2, <1>3, UpdateCountEff
    <2>2. qnode[n].internal_count + a \in Int /\ qnode[n].external_counters - b \in Int
        BY QLocalsFields
    <2> QED BY <2>1, <2>2
<1>5. qnode' \in [QNodes -> QNodeType] /\ qalloc' \in SUBSET QNodes
    <2>1. CASE i = 0 /\ e = 0
        BY <2>1, <1>4, QFacts DEF QTypeOK, Updated
    <2>2. CASE ~(i = 0 /\ e = 0)
        BY <2>2, <1>4 DEF QTypeOK, Updated
    <2> QED BY <2>1, <2>2
<1>6. CASE local[t].done
    <2>1. qpc'[t] = "idle" /\ local'[t] = QNoLocals
        BY <1>4, <1>6 DEF Updated
    <2>2. QTypeOK'
        BY <1>4, <1>5, <2>1, QFacts, QTypesStep DEF QTypeOK, QLabel, QStep, Updated
    <2> QED BY <2>1, <2>2, QFacts DEF QLocals, Referring, Leaving
<1>7. CASE ~local[t].done
    <2>1. qpc'[t] = "increase" /\ local'[t] = [local[t] EXCEPT !.ptr = QNull, !.next = QNoPtr]
        BY <1>4, <1>7 DEF Updated
    <2>2. /\ local'[t] \in QLocalType /\ local'[t].side = local[t].side /\ local'[t].ptr = QNull
          /\ local'[t].new = local[t].new /\ ~local'[t].done
        BY <2>1, <1>7, QFacts, QLocalsFields DEF QLocalType
    <2>3. QTypeOK'
        BY <1>4, <1>5, <2>1, <2>2, QTypesStep DEF QTypeOK, QLabel, QStep, Updated
    <2> QED BY <1>1, <1>7, <2>1, <2>2, <2>3 DEF QLocals, Referring, Leaving
<1> QED BY <1>6, <1>7

-----------------------------------------------------------------------------
(* CountedQueue: steps that leave the list as it is                        *)

LEMMA QOthers ==
    ASSUME NEW t \in QThreads, OthersKeep(t), NEW u \in QThreads \ {t}
    PROVE  /\ Referring(u)' <=> Referring(u)
           /\ Leaving(u)' <=> Leaving(u)
           /\ \A s, n : Leaves(u, s, n)' <=> Leaves(u, s, n)
           /\ qpc'[u] = qpc[u] /\ local'[u] = local[u]
BY DEF OthersKeep, Referring, Leaving, Leaves

LEMMA QRefsStep ==
    ASSUME NEW t \in QThreads, OthersKeep(t), NEW n
    PROVE  /\ (Referring(t)' /\ local'[t].ptr = n) => QRefs(n)' = QRefs(n) \cup {t}
           /\ ~(Referring(t)' /\ local'[t].ptr = n) => QRefs(n)' = QRefs(n) \ {t}
<1>1. \A u \in QThreads \ {t} : u \in QRefs(n)' <=> u \in QRefs(n)
    BY QOthers DEF QRefs
<1>2. t \in QRefs(n)' <=> Referring(t)' /\ local'[t].ptr = n
    BY DEF QRefs
<1>3. QRefs(n) \subseteq QThreads /\ QRefs(n)' \subseteq QThreads
    BY DEF QRefs
<1> QED BY <1>1, <1>2, <1>3

LEMMA QRefsSame ==
    ASSUME NEW t \in QThreads, OthersKeep(t), NEW n,
           Referring(t)' /\ local'[t].ptr = n <=> Referring(t) /\ local[t].ptr = n
    PROVE  QRefs(n)' = QRefs(n)
<1>1. t \in QRefs(n) <=> Referring(t) /\ local[t].ptr = n
    BY DEF QRefs
<1>2. CASE Referring(t)' /\ local'[t].ptr = n
    <2>1. Referring(t) /\ local[t].ptr = n
        BY <1>2, Zenon
    <2>2. t \in QRefs(n) /\ QRefs(n)' = QRefs(n) \cup {t}
        BY <1>1, <1>2, <2>1, QRefsStep
    <2> QED BY <2>2
<1>3. CASE ~(Referring(t)' /\ local'[t].ptr = n)
    <2>1. ~(Referring(t) /\ local[t].ptr = n)
        BY <1>3, Zenon
    <2>2. t \notin QRefs(n) /\ QRefs(n)' = QRefs(n) \ {t}
        BY <1>1, <1>3, <2>1, QRefsStep
    <2> QED BY <2>2
<1> QED BY <1>2, <1>3

\* The counts of n are the same.
QEven(w, o, w2, o2, n) ==
    /\ QRefs(n)' = QRefs(n)
    /\ qnode'[n].internal_count = qnode[n].internal_count
    /\ qnode'[n].external_counters = qnode[n].external_counters
    /\ \A s \in QSide : /\ w2[s][n] = w[s][n]
                        /\ n \in o2[s] <=> n \in o[s]
    /\ \A s \in QSide : \A u \in QThreads : Leaves(u, s, n)' <=> Leaves(u, s, n)

LEMMA SideFacts == "head" \in QSide /\ "tail" \in QSide /\ \A s \in QSide : s = "head" \/ s = "tail"
BY DEF QSide

LEMMA BalancedSame ==
    ASSUME NEW w, NEW o, NEW w2, NEW o2, NEW n, Balanced(w, o, n), QEven(w, o, w2, o2, n)
    PROVE  Balanced(w2, o2, n)'
<1>1. /\ w2["head"][n] = w["head"][n] /\ w2["tail"][n] = w["tail"][n]
      /\ n \in o2["head"] <=> n \in o["head"]
      /\ n \in o2["tail"] <=> n \in o["tail"]
    BY SideFacts DEF QEven
<1>2. PICK r : r = QRefs(n)
    OBVIOUS
<1>3. QRefs(n)' = r
    BY <1>2 DEF QEven
<1>4. /\ IsFiniteSet(r)
      /\ qnode[n].internal_count + w["head"][n] + w["tail"][n] = Cardinality(r)
      /\ qnode[n].external_counters = (IF n \in o["head"] THEN 1 ELSE 0) + (IF n \in o["tail"] THEN 1 ELSE 0)
    BY <1>2 DEF Balanced
<1>5. /\ qnode'[n].internal_count = qnode[n].internal_count
      /\ qnode'[n].external_counters = qnode[n].external_counters
    BY DEF QEven
<1> QED BY <1>1, <1>3, <1>4, <1>5 DEF Balanced

\* A step that changes the counts of at most one node.
Shifted(t, w, o, w2, o2, x) ==
    /\ OthersKeep(t)
    /\ \A n \in QNodes : n # x => QEven(w, o, w2, o2, n)
    /\ x \in QNodes => Balanced(w2, o2, x)'
    /\ \A s \in QSide : EndCounted(w2, o2, s)'
    /\ \A s \in QSide : ends'[s].ptr # ends[s].ptr => ends[s].ptr = x
    /\ Leaving(t)' => LeaverCounted(w2, o2, t)'
    /\ \A u \in QThreads \ {t} : Leaving(u) =>
            /\ local[u].ptr \in qalloc' /\ ends'[local[u].side].ptr # local[u].ptr
            /\ local[u].ptr = x => LeaverCounted(w2, o2, u)'
    /\ x \in QNodes => \A s \in QSide :
            w2[s][x] = 0 \/ ends'[s].ptr = x \/ \E u \in QThreads : Leaves(u, s, x)'

LEMMA TallyKept ==
    ASSUME QTypeOK, NEW t \in QThreads, NEW w, NEW o, NEW w2, NEW o2, NEW x,
           \A u \in QThreads : QLocals(u), Tally(w, o), Shifted(t, w, o, w2, o2, x)
    PROVE  Tally(w2, o2)'
<1>0. OthersKeep(t)
    BY DEF Shifted
<1>1. \A n \in QNodes : Balanced(w2, o2, n)'
    <2> SUFFICES ASSUME NEW n \in QNodes, n # x PROVE Balanced(w2, o2, n)'
        BY DEF Shifted
    <2>1. Balanced(w, o, n)
        BY DEF Tally
    <2>2. QEven(w, o, w2, o2, n)
        BY DEF Shifted
    <2> QED BY <2>1, <2>2, BalancedSame
<1>2. ASSUME NEW u \in QThreads, Leaving(u)' PROVE LeaverCounted(w2, o2, u)'
    <2> SUFFICES ASSUME u # t, local[u].ptr # x PROVE LeaverCounted(w2, o2, u)'
        BY <1>0, <1>2, QOthers DEF Shifted
    <2>1. Leaving(u) /\ local'[u] = local[u]
        BY <1>0, <1>2, QOthers
    <2>2. PICK n, s, k : n = local[u].ptr /\ s = local[u].side /\ k = local[u].old.external_count - 2
        OBVIOUS
    <2>3. s \in QSide /\ n \in QNodes
        BY <2>1, <2>2, QLocalsFields DEF QLocals
    <2>4. /\ n \in o[s] /\ w[s][n] = k
          /\ \A v \in QThreads : Leaves(v, s, n) => v = u
        BY <2>1, <2>2 DEF Tally, LeaverCounted
    <2>5. QEven(w, o, w2, o2, n)
        BY <2>2, <2>3 DEF Shifted
    <2>6. /\ n \in o2[s] /\ w2[s][n] = k
          /\ \A v \in QThreads : Leaves(v, s, n)' => v = u
        BY <2>3, <2>4, <2>5 DEF QEven
    <2>7. n \in qalloc' /\ ends'[s].ptr # n
        BY <2>1, <2>2 DEF Shifted
    <2>8. n = local'[u].ptr /\ s = local'[u].side /\ k = local'[u].old.external_count - 2
        BY <2>1, <2>2
    <2> QED BY <2>6, <2>7, <2>8 DEF LeaverCounted
<1>3. ASSUME NEW s \in QSide, NEW n \in QNodes
      PROVE  w2[s][n] = 0 \/ ends'[s].ptr = n \/ \E u \in QThreads : Leaves(u, s, n)'
    <2> SUFFICES ASSUME n # x
                 PROVE  w2[s][n] = 0 \/ ends'[s].ptr = n \/ \E u \in QThreads : Leaves(u, s, n)'
        BY DEF Shifted
    <2>1. w[s][n] = 0 \/ ends[s].ptr = n \/ \E u \in QThreads : Leaves(u, s, n)
        BY DEF Tally
    <2>2. ends[s].ptr = n => ends'[s].ptr = n
        BY DEF Shifted
    <2>3. w2[s][n] = w[s][n] /\ \A u \in QThreads : Leaves(u, s, n)' <=> Leaves(u, s, n)
        BY DEF Shifted, QEven
    <2> QED BY <2>1, <2>2, <2>3
<1>4. \A s \in QSide : EndCounted(w2, o2, s)'
    BY DEF Shifted
<1> QED BY <1>1, <1>2, <1>3, <1>4 DEF Tally

\* Nothing of n is changed.
QSame(w, o, w2, o2, n) ==
    /\ qnode'[n] = qnode[n] /\ QRefs(n)' = QRefs(n) /\ (n \in qalloc' <=> n \in qalloc)
    /\ \A s \in QSide : /\ w2[s][n] = w[s][n]
                        /\ n \in o2[s] <=> n \in o[s]
    /\ \A s \in QSide : \A u \in QThreads : Leaves(u, s, n)' <=> Leaves(u, s, n)

LEMMA QSameEven ==
    ASSUME NEW w, NEW o, NEW w2, NEW o2, NEW n, QSame(w, o, w2, o2, n)
    PROVE  QEven(w, o, w2, o2, n) /\ (Fresh(n) => Fresh(n)')
<1>1. QEven(w, o, w2, o2, n)
    BY DEF QEven, QSame
<1>2. ASSUME Fresh(n) PROVE Fresh(n)'
    BY <1>2 DEF Fresh, QSame
<1> QED BY <1>1, <1>2

\* The list is the same if the last node and the links of its nodes are.
LEMMA QChainSame ==
    ASSUME QTypeOK, NEW c \in Seq(QNodes), QChain(c), \A s \in QSide : ends'[s].ptr = ends[s].ptr,
           qnode' \in [QNodes -> QNodeType],
           \A n \in QNodes : OnQ(c, n) => qnode'[n].next = qnode[n].next,
           QSecond # QNull => Fresh(QSecond)'
    PROVE  QLast' = QLast /\ QSecond' = QSecond /\ QChain(c)' /\ \A n : OnQ(c, n)' <=> OnQ(c, n)
<1>1. PICK last, second, first : last = QLast /\ second = QSecond /\ first = ends["head"].ptr
    OBVIOUS
<1>2. QLast' = last /\ ends'["head"].ptr = first /\ last \in QNodes
    BY <1>1, SideFacts DEF QLast, QChain
<1>3. QSecond' = second
    <2>1. OnQ(c, last)
        BY <1>1 DEF OnQ
    <2> QED BY <1>1, <1>2, <2>1 DEF QSecond, QLast
<1>4. \A n : OnQ(c, n)' <=> OnQ(c, n)
    BY <1>1, <1>2, <1>3 DEF OnQ
<1>5. PICK l1, l2 : l1 = QLinks /\ l2 = QLinks'
    OBVIOUS
<1>6. \A n : In(c, n) => l2[n] = l1[n]
    <2> SUFFICES ASSUME NEW n, In(c, n) PROVE l2[n] = l1[n]
        OBVIOUS
    <2>1. n \in QNodes
        BY ElementOfSeq, LenProperties DEF In
    <2>2. qnode'[n].next = qnode[n].next
        BY <2>1 DEF OnQ
    <2> QED BY <1>5, <2>1, <2>2 DEF QLinks
<1>7. Linked(first, l2, last, c)
    <2>1. Linked(first, l1, last, c)
        BY <1>1, <1>5 DEF QChain
    <2> QED BY <1>6, <2>1, ListFrame
<1>8. Linked(ends'["head"].ptr, QLinks', QLast', c)
    BY <1>2, <1>5, <1>7
<1>9. /\ last \in QNodes /\ ~In(c, last) /\ Once(c)
      /\ second # QNull => second # last /\ ~In(c, second)
    BY <1>1 DEF QChain
<1>10. QChain(c)'
    <2>1. QSecond' # QNull => Fresh(QSecond)'
        BY <1>1, <1>3
    <2> QED BY <1>2, <1>3, <1>8, <1>9, <2>1 DEF QChain
<1> QED BY <1>1, <1>2, <1>3, <1>4, <1>10

\* A step of t that keeps the list, and changes nothing of other nodes than x.
Calm(t, c, w, o, w2, o2, x) ==
    /\ OthersKeep(t) /\ \A s \in QSide : ends'[s].ptr = ends[s].ptr
    /\ \A n \in QNodes : n # x => QSame(w, o, w2, o2, n)
    /\ local'[t].new \in {QNull, x, local[t].new}
    /\ local[t].new \in {QNull, x, local'[t].new}
    /\ \A s \in QSide : EndCounted(w2, o2, s)'
    /\ Referring(t)' => QRefers(c, t)'
    /\ Leaving(t)' => LeaverCounted(w2, o2, t)'

\* What holds of x after such a step.
Touched(t, c, w2, o2, x) ==
    /\ x # QSecond
    /\ \A u \in QThreads \ {t} : local[u].new # x
    /\ OnQ(c, x) => OnList(c, o2, x)' /\ qnode'[x].next = qnode[x].next
    /\ local'[t].new = x => x \in qalloc' /\ ~OnQ(c, x) /\ Fresh(x)'
    /\ x \notin qalloc' => Fresh(x)'
    /\ x \in qalloc' => OnQ(c, x) \/ local'[t].new = x \/ OffList(o2, x)'
    /\ Balanced(w2, o2, x)'
    /\ \A s \in QSide : w2[s][x] = 0 \/ ends[s].ptr = x \/ \E u \in QThreads : Leaves(u, s, x)'
    /\ \A u \in QThreads \ {t} :
            /\ Referring(u) /\ local[u].ptr = x => x \in qalloc' /\ qnode'[x].next = qnode[x].next
            /\ Leaving(u) /\ local[u].ptr = x => LeaverCounted(w2, o2, u)'

LEMMA CalmTally ==
    ASSUME QTypeOK, NEW t \in QThreads, NEW c, NEW w, NEW o, NEW w2, NEW o2, NEW x,
           \A u \in QThreads : QLocals(u), Tally(w, o), Calm(t, c, w, o, w2, o2, x),
           x \in QNodes => Touched(t, c, w2, o2, x)
    PROVE  Tally(w2, o2)'
<1>1. OthersKeep(t) /\ \A s \in QSide : ends'[s].ptr = ends[s].ptr /\ EndCounted(w2, o2, s)'
    BY DEF Calm
<1>2. \A n \in QNodes : n # x => QEven(w, o, w2, o2, n)
    BY QSameEven DEF Calm
<1>3. \A u \in QThreads \ {t} : Leaving(u) /\ local[u].ptr = x => LeaverCounted(w2, o2, u)'
    <2> SUFFICES ASSUME NEW u \in QThreads \ {t}, Leaving(u), local[u].ptr = x
                 PROVE  LeaverCounted(w2, o2, u)'
        OBVIOUS
    <2>1. x \in QNodes
        BY DEF QLocals
    <2> QED BY <2>1 DEF Touched
<1>4. ASSUME NEW u \in QThreads \ {t}, Leaving(u)
      PROVE  local[u].ptr \in qalloc' /\ ends'[local[u].side].ptr # local[u].ptr
    <2>1. PICK n, s : n = local[u].ptr /\ s = local[u].side
        OBVIOUS
    <2>2. s \in QSide /\ n \in QNodes /\ local'[u] = local[u]
        BY <1>1, <1>4, <2>1, QLocalsFields, QOthers DEF QLocals
    <2>3. n \in qalloc /\ ends[s].ptr # n
        BY <1>4, <2>1 DEF Tally, LeaverCounted
    <2>4. CASE n = x
        <3>1. LeaverCounted(w2, o2, u)'
            BY <1>3, <1>4, <2>1, <2>4
        <3>2. n \in qalloc'
            BY <2>1, <2>2, <3>1 DEF LeaverCounted
        <3> QED BY <1>1, <2>1, <2>2, <2>3, <3>2
    <2>5. CASE n # x
        <3>1. n \in qalloc'
            BY <2>2, <2>3, <2>5 DEF Calm, QSame
        <3> QED BY <1>1, <2>1, <2>2, <2>3, <3>1
    <2> QED BY <2>4, <2>5
<1>5. x \in QNodes => Balanced(w2, o2, x)'
    BY DEF Touched
<1>6. x \in QNodes => \A s \in QSide :
            w2[s][x] = 0 \/ ends'[s].ptr = x \/ \E u \in QThreads : Leaves(u, s, x)'
    BY <1>1 DEF Touched
<1>7. Leaving(t)' => LeaverCounted(w2, o2, t)'
    BY DEF Calm
<1>8. Shifted(t, w, o, w2, o2, x)
    BY <1>1, <1>2, <1>3, <1>4, <1>5, <1>6, <1>7 DEF Shifted
<1> QED BY <1>8, TallyKept

LEMMA CalmPlaced ==
    ASSUME QTypeOK, QTypeOK', NEW t \in QThreads, NEW c, NEW w, NEW o, NEW w2, NEW o2, NEW x,
           x \in QNodes => Touched(t, c, w2, o2, x), Calm(t, c, w, o, w2, o2, x),
           QPlaced(c, o), \A n : OnQ(c, n)' <=> OnQ(c, n)
    PROVE  QPlaced(c, o2)'
<1>1. OthersKeep(t)
    BY DEF Calm
<1>2. \A n \in QNodes : n # x => QSame(w, o, w2, o2, n)
    BY DEF Calm
<1>3. ASSUME NEW n \in QNodes, OnQ(c, n)' PROVE OnList(c, o2, n)'
    <2>1. OnQ(c, n) /\ OnList(c, o, n)
        BY <1>3 DEF QPlaced
    <2>2. CASE n = x
        BY <2>1, <2>2 DEF Touched
    <2>3. CASE n # x
        BY <1>2, <2>1, <2>3, SideFacts DEF QSame, OnList
    <2> QED BY <2>2, <2>3
<1>4. \A u \in QThreads : local[u].new \in QAddress /\ local'[u].new \in QAddress
    <2>1. \A u \in QThreads : local[u] \in QLocalType /\ local'[u] \in QLocalType
        BY DEF QTypeOK
    <2> QED BY <2>1 DEF QLocalType
<1>5. \A u \in QThreads, n \in QNodes : n # x /\ local'[u].new = n => local[u].new = n
    BY <1>1, QFacts, QOthers DEF Calm
<1>6. ASSUME NEW u \in QThreads, local'[u].new # QNull PROVE NewNode(c, u)'
    <2>1. PICK n \in QNodes : n = local'[u].new
        BY <1>4, <1>6 DEF QAddress
    <2>2. CASE n = x
        <3>1. u = t
            BY <1>1, <2>1, <2>2, QOthers DEF Touched
        <3>2. n \in qalloc' /\ ~OnQ(c, n) /\ Fresh(n)'
            BY <2>1, <2>2, <3>1 DEF Touched
        <3>3. ASSUME NEW v \in QThreads, local'[v].new = n PROVE v = u
            BY <1>1, <2>2, <3>1, <3>3, QOthers DEF Touched
        <3> QED BY <2>1, <3>2, <3>3 DEF NewNode
    <2>3. CASE n # x
        <3>1. local[u].new = n /\ n # QNull
            BY <1>5, <2>1, <2>3, QFacts
        <3>2. /\ n \in qalloc /\ ~OnQ(c, n) /\ Fresh(n)
              /\ \A v \in QThreads : local[v].new = n => v = u
            BY <3>1 DEF QPlaced, NewNode
        <3>3. n \in qalloc' /\ Fresh(n)'
            BY <1>2, <2>3, <3>2, QSameEven DEF QSame
        <3>4. \A v \in QThreads : local'[v].new = n => v = u
            BY <1>5, <2>3, <3>2
        <3> QED BY <2>1, <3>2, <3>3, <3>4 DEF NewNode
    <2> QED BY <2>2, <2>3
<1>7. ASSUME NEW n \in QNodes, n \notin qalloc' PROVE Fresh(n)'
    <2>1. CASE n = x
        BY <1>7, <2>1 DEF Touched
    <2>2. CASE n # x
        <3>1. n \notin qalloc
            BY <1>2, <1>7, <2>2 DEF QSame
        <3> QED BY <1>2, <2>2, <3>1, QSameEven DEF QPlaced
    <2> QED BY <2>1, <2>2
<1>8. ASSUME NEW n \in qalloc'
      PROVE  OnQ(c, n)' \/ (\E u \in QThreads : local'[u].new = n) \/ OffList(o2, n)'
    <2>1. n \in QNodes
        BY DEF QTypeOK
    <2>2. CASE n = x
        BY <2>1, <2>2 DEF Touched
    <2>3. CASE n # x
        <3>1. n \in qalloc
            BY <1>2, <2>1, <2>3 DEF QSame
        <3>2. CASE OnQ(c, n)
            BY <3>2
        <3>3. CASE \E u \in QThreads : local[u].new = n
            <4>1. PICK u \in QThreads : local[u].new = n
                BY <3>3
            <4>2. local'[u].new = n
                BY <1>1, <2>1, <2>3, <4>1, QFacts, QOthers DEF Calm
            <4> QED BY <4>2
        <3>4. CASE OffList(o, n)
            <4>1. QSame(w, o, w2, o2, n)
                BY <1>2, <2>1, <2>3
            <4> QED BY <3>4, <4>1 DEF QSame, OffList
        <3> QED BY <3>1, <3>2, <3>3, <3>4 DEF QPlaced
    <2> QED BY <2>2, <2>3
<1> QED BY <1>3, <1>6, <1>7, <1>8 DEF QPlaced

LEMMA CalmRefers ==
    ASSUME QTypeOK, NEW t \in QThreads, NEW c, NEW w, NEW o, NEW w2, NEW o2, NEW x,
           x \in QNodes => Touched(t, c, w2, o2, x), Calm(t, c, w, o, w2, o2, x),
           \A u \in QThreads : QLocals(u), \A n : OnQ(c, n)' <=> OnQ(c, n),
           NEW u \in QThreads, Referring(u)', u # t => QRefers(c, u)
    PROVE  QRefers(c, u)'
<1>1. OthersKeep(t)
    BY DEF Calm
<1> SUFFICES ASSUME u # t PROVE QRefers(c, u)'
    BY DEF Calm
<1>2. PICK n : n = local[u].ptr
    OBVIOUS
<1>3. Referring(u) /\ local'[u] = local[u] /\ qpc'[u] = qpc[u]
    BY <1>1, QOthers
<1>4. n \in QNodes
    BY <1>2, <1>3 DEF QLocals
<1>5. n \in qalloc' /\ qnode'[n].next = qnode[n].next
    <2>1. CASE n = x
        BY <1>2, <1>3, <1>4, <2>1 DEF Touched
    <2>2. CASE n # x
        <3>1. n \in qalloc
            BY <1>2 DEF QRefers
        <3> QED BY <1>4, <2>2, <3>1 DEF Calm, QSame
    <2> QED BY <2>1, <2>2
<1>6. QLast' = QLast /\ ends'["head"].ptr = ends["head"].ptr
    BY SideFacts DEF Calm, QLast
<1> QED BY <1>2, <1>3, <1>5, <1>6 DEF QRefers

LEMMA QCalm ==
    ASSUME QTypeOK, QTypeOK', NEW t \in QThreads, NEW c \in Seq(QNodes), NEW w, NEW o, NEW w2, NEW o2,
           NEW x, \A u \in QThreads : QLocals(u), QShape(c, w, o),
           Calm(t, c, w, o, w2, o2, x), x \in QNodes => Touched(t, c, w2, o2, x)
    PROVE  QShape(c, w2, o2)'
<1>1. QChain(c) /\ QPlaced(c, o) /\ Tally(w, o) /\ \A u \in QThreads : Referring(u) => QRefers(c, u)
    BY DEF QShape
<1>2. \A s \in QSide : ends'[s].ptr = ends[s].ptr
    BY DEF Calm
<1>3. \A n \in QNodes : OnQ(c, n) => qnode'[n].next = qnode[n].next
    BY DEF Calm, QSame, Touched
<1>4. QSecond # QNull => Fresh(QSecond)'
    <2>1. QLast \in QNodes /\ QLast' = QLast /\ OnQ(c, QLast)
        BY <1>1, <1>2, SideFacts DEF QChain, QLast, OnQ
    <2>2. PICK last \in QNodes : last = QLast
        BY <2>1
    <2>3. QSecond' = QSecond
        BY <1>3, <2>1, <2>2 DEF QSecond
    <2> SUFFICES ASSUME QSecond # QNull PROVE Fresh(QSecond)'
        OBVIOUS
    <2>4. PICK m : m = QSecond
        OBVIOUS
    <2>5. m \in QNodes
        <3>1. qnode[last].next \in QForward
            BY QLocalsFields
        <3> QED BY <2>2, <2>4, <3>1, QFacts DEF QSecond
    <2>6. m # x /\ Fresh(m)
        BY <1>1, <2>4, <2>5 DEF QChain, Touched
    <2>7. Fresh(m)'
        BY <2>5, <2>6, QSameEven DEF Calm
    <2> QED BY <2>3, <2>4, <2>7
<1>5. QChain(c)' /\ \A n : OnQ(c, n)' <=> OnQ(c, n)
    <2>1. qnode' \in [QNodes -> QNodeType]
        BY DEF QTypeOK
    <2> QED BY <1>1, <1>2, <1>3, <1>4, <2>1, QChainSame
<1>6. QPlaced(c, o2)'
    BY <1>1, <1>5, CalmPlaced
<1>7. Tally(w2, o2)'
    BY <1>1, CalmTally
<1>8. \A u \in QThreads : Referring(u)' => QRefers(c, u)'
    <2> SUFFICES ASSUME NEW u \in QThreads, Referring(u)' PROVE QRefers(c, u)'
        OBVIOUS
    <2>1. u # t => QRefers(c, u)
        BY <1>1, QOthers DEF Calm
    <2> QED BY <1>5, <2>1, CalmRefers
<1> QED BY <1>5, <1>6, <1>7, <1>8 DEF QShape

\* A node that a call works on is neither new nor the second last one.
LEMMA QBusy ==
    ASSUME QTypeOK, NEW c, NEW o, QChain(c), QPlaced(c, o), NEW n \in QNodes, ~Fresh(n)
    PROVE  /\ n # QSecond /\ n \in qalloc /\ \A u \in QThreads : local[u].new # n
           /\ OnQ(c, n) => OnList(c, o, n)
           /\ ~OnQ(c, n) => OffList(o, n)
<1>1. n # QSecond
    BY QFacts DEF QChain
<1>2. n \in qalloc
    BY DEF QPlaced
<1>3. \A u \in QThreads : local[u].new # n
    BY QFacts DEF QPlaced, NewNode
<1>4. OnQ(c, n) => OnList(c, o, n)
    BY DEF QPlaced
<1>5. ~OnQ(c, n) => OffList(o, n)
    BY <1>2, <1>3 DEF QPlaced
<1> QED BY <1>1, <1>2, <1>3, <1>4, <1>5

LEMMA QWorkedOn ==
    ASSUME NEW t \in QThreads, NEW n, local[t].ptr = n, local[t].side \in QSide, Referring(t) \/ Leaving(t)
    PROVE  ~Fresh(n)
BY DEF Fresh, QRefs, Leaves

\* The end of a call's step that leaves what it refers to or has left as it was.
LEMMA QQuiet ==
    ASSUME QTypeOK, QTypeOK', NEW t \in QThreads, NEW c \in Seq(QNodes),
           \A u \in QThreads : QLocals(u), Shaped(c), QMembersStay, OthersKeep(t),
           local'[t].new = local[t].new, local'[t].ptr = local[t].ptr,
           (Referring(t) /\ Referring(t)') \/ (~Referring(t) /\ ~Referring(t)'),
           ~Leaving(t), ~Leaving(t)', Referring(t)' => QRefers(c, t)'
    PROVE  Shaped(c)'
<1>1. PICK w \in QCount, o \in QOwed : QShape(c, w, o)
    BY DEF Shaped
<1>2. UNCHANGED ends /\ UNCHANGED qnode /\ UNCHANGED qalloc
    BY DEF QMembersStay
<1>3. ASSUME NEW n \in QNodes PROVE QSame(w, o, w, o, n)
    <2>1. QRefs(n)' = QRefs(n)
        <3>1. CASE Referring(t) /\ Referring(t)'
            BY <3>1, QRefsSame
        <3>2. CASE ~Referring(t) /\ ~Referring(t)'
            BY <3>2, QRefsSame
        <3> QED BY <3>1, <3>2
    <2>2. \A s \in QSide : \A u \in QThreads : Leaves(u, s, n)' <=> Leaves(u, s, n)
        <3> SUFFICES ASSUME NEW s \in QSide, NEW u \in QThreads PROVE Leaves(u, s, n)' <=> Leaves(u, s, n)
            OBVIOUS
        <3>1. CASE u = t
            <4>1. ~Leaves(t, s, n) /\ ~Leaves(t, s, n)'
                BY DEF Leaves
            <4> QED BY <3>1, <4>1
        <3>2. CASE u # t
            BY <3>2, QOthers
        <3> QED BY <3>1, <3>2
    <2> QED BY <1>2, <2>1, <2>2 DEF QSame
<1>4. \A s \in QSide : EndCounted(w, o, s)'
    BY <1>1, <1>2 DEF QShape, Tally, EndCounted
<1>5. Calm(t, c, w, o, w, o, QNull)
    BY <1>2, <1>3, <1>4 DEF Calm
<1>6. QShape(c, w, o)'
    BY <1>1, <1>5, QFacts, QCalm
<1> QED BY <1>6 DEF Shaped

LEMMA QPopShape ==
    ASSUME QTypeOK, QTypeOK', NEW t \in QThreads, NEW c \in Seq(QNodes),
           \A u \in QThreads : QLocals(u), Shaped(c), QPop(t)
    PROVE  Shaped(c)'
<1>1. /\ QMembersStay /\ OthersKeep(t) /\ qpc[t] = "idle" /\ qpc'[t] = "increase"
      /\ local'[t] = [local[t] EXCEPT !.side = "head", !.old = ends.head]
    BY QPopEff
<1>2. local'[t].new = local[t].new /\ local'[t].ptr = local[t].ptr
    BY <1>1, QLocalsFields DEF QLocalType
<1>3. ~Referring(t) /\ ~Referring(t)' /\ ~Leaving(t) /\ ~Leaving(t)'
    BY <1>1 DEF Referring, Leaving
<1> QED BY <1>1, <1>2, <1>3, QQuiet

LEMMA TestEmptyShape ==
    ASSUME QTypeOK, QTypeOK', NEW t \in QThreads, NEW c \in Seq(QNodes),
           \A u \in QThreads : QLocals(u), Shaped(c), TestEmpty(t)
    PROVE  Shaped(c)'
<1>1. /\ QMembersStay /\ OthersKeep(t) /\ qpc[t] = "test"
      /\ qpc'[t] = IF local[t].ptr = ends["tail"].ptr THEN "release" ELSE "next"
      /\ local'[t] = [local[t] EXCEPT !.done = (local[t].ptr = ends["tail"].ptr)]
    BY TestEmptyEff
<1>2. local'[t].new = local[t].new /\ local'[t].ptr = local[t].ptr /\ local'[t].side = local[t].side
    BY <1>1, QLocalsFields DEF QLocalType
<1>3. Referring(t) /\ Referring(t)' /\ ~Leaving(t) /\ ~Leaving(t)'
    BY <1>1 DEF Referring, Leaving
<1>4. QRefers(c, t) /\ local[t].side = "head"
    BY <1>1, <1>3 DEF Shaped, QShape, QLocals
<1>5. QRefers(c, t)'
    BY <1>1, <1>2, <1>4 DEF QRefers, QMembersStay, OnQ, QLast, QSecond
<1> QED BY <1>1, <1>2, <1>3, <1>5, QQuiet

LEMMA LoadNextShape ==
    ASSUME QTypeOK, QTypeOK', NEW t \in QThreads, NEW c \in Seq(QNodes),
           \A u \in QThreads : QLocals(u), Shaped(c), LoadNext(t)
    PROVE  Shaped(c)'
<1>1. /\ QMembersStay /\ OthersKeep(t) /\ qpc[t] = "next" /\ qpc'[t] = "unlink"
      /\ local'[t] = [local[t] EXCEPT !.next = qnode[local[t].ptr].next]
    BY LoadNextEff
<1>2. /\ local'[t].new = local[t].new /\ local'[t].ptr = local[t].ptr /\ local'[t].side = local[t].side
      /\ local'[t].next = qnode[local[t].ptr].next
    BY <1>1, QLocalsFields DEF QLocalType
<1>3. Referring(t) /\ Referring(t)' /\ ~Leaving(t) /\ ~Leaving(t)'
    BY <1>1 DEF Referring, Leaving
<1>4. QRefers(c, t) /\ local[t].side = "head"
    BY <1>1, <1>3 DEF Shaped, QShape, QLocals
<1>5. QRefers(c, t)'
    BY <1>1, <1>2, <1>4 DEF QRefers, QMembersStay, OnQ, QLast, QSecond
<1> QED BY <1>1, <1>2, <1>3, <1>5, QQuiet

\* A lost compare_exchange on an end.
LEMMA QLost ==
    ASSUME QTypeOK, QTypeOK', NEW t \in QThreads, NEW c \in Seq(QNodes),
           \A u \in QThreads : QLocals(u), Shaped(c), QMembersStay, OthersKeep(t),
           NEW e, local'[t] = [local[t] EXCEPT !.old = e],
           \/ qpc[t] = "increase" /\ qpc'[t] = "increase"
           \/ qpc[t] = "set_tail" /\ qpc'[t] \in {"set_tail", "release"}
           \/ qpc[t] = "unlink" /\ qpc'[t] = "release"
    PROVE  Shaped(c)'
<1>1. /\ local'[t].new = local[t].new /\ local'[t].ptr = local[t].ptr /\ local'[t].side = local[t].side
      /\ local'[t].next = local[t].next
    BY QLocalsFields DEF QLocalType
<1>2. ~Leaving(t) /\ ~Leaving(t)'
    BY DEF Leaving
<1>3. CASE qpc[t] = "increase"
    <2>1. ~Referring(t) /\ ~Referring(t)'
        BY <1>3 DEF Referring
    <2> QED BY <1>1, <1>2, <2>1, QQuiet
<1>4. CASE qpc[t] # "increase"
    <2>1. Referring(t) /\ Referring(t)'
        BY <1>4 DEF Referring
    <2>2. QRefers(c, t)
        BY <2>1 DEF Shaped, QShape
    <2>3. QRefers(c, t)'
        BY <1>1, <1>4, <2>2 DEF QRefers, QMembersStay, OnQ, QLast, QSecond
    <2> QED BY <1>1, <1>2, <2>1, <2>3, QQuiet
<1> QED BY <1>3, <1>4

\* Data that is written to a node that the call works on.
LEMMA QRewrite ==
    ASSUME QTypeOK, QTypeOK', NEW t \in QThreads, NEW c \in Seq(QNodes),
           \A u \in QThreads : QLocals(u), Shaped(c), OthersKeep(t), UNCHANGED <<ends, qalloc>>,
           NEW n \in QNodes, NEW d, qnode' = [qnode EXCEPT ![n].data = d], n = local[t].ptr,
           local'[t].new = local[t].new, local'[t].ptr = n,
           local'[t].side = local[t].side, local'[t].old = local[t].old,
           (Referring(t) /\ Referring(t)' /\ QRefers(c, t)') \/ (Leaving(t) /\ Leaving(t)')
    PROVE  Shaped(c)'
<1>1. PICK w \in QCount, o \in QOwed : QShape(c, w, o)
    BY DEF Shaped
<1>2. QChain(c) /\ QPlaced(c, o) /\ Tally(w, o)
    BY <1>1 DEF QShape
<1>3. UNCHANGED ends /\ UNCHANGED qalloc
    OBVIOUS
<1>4. /\ \A m \in QNodes : m # n => qnode'[m] = qnode[m]
      /\ qnode'[n].next = qnode[n].next
      /\ qnode'[n].internal_count = qnode[n].internal_count
      /\ qnode'[n].external_counters = qnode[n].external_counters
    <2>1. qnode[n] \in QNodeType
        BY QLocalsFields
    <2>2. PICK r : r = [qnode[n] EXCEPT !.data = d]
        OBVIOUS
    <2>3. qnode' = [qnode EXCEPT ![n] = r]
        BY <2>2
    <2>4. r.next = qnode[n].next /\ r.internal_count = qnode[n].internal_count
          /\ r.external_counters = qnode[n].external_counters
        BY <2>1, <2>2 DEF QNodeType
    <2> QED BY <2>3, <2>4 DEF QTypeOK
<1>5. \/ Referring(t) /\ Referring(t)' /\ ~Leaving(t) /\ ~Leaving(t)'
      \/ ~Referring(t) /\ ~Referring(t)' /\ Leaving(t) /\ Leaving(t)'
    BY DEF Referring, Leaving
<1>6. ASSUME NEW m \in QNodes PROVE QRefs(m)' = QRefs(m)
    <2>1. CASE Referring(t) /\ Referring(t)'
        BY <2>1, QRefsSame
    <2>2. CASE ~Referring(t) /\ ~Referring(t)'
        BY <2>2, QRefsSame
    <2> QED BY <1>5, <2>1, <2>2
<1>7. ASSUME NEW s \in QSide, NEW m \in QNodes, NEW u \in QThreads
      PROVE  Leaves(u, s, m)' <=> Leaves(u, s, m)
    <2>1. CASE u = t /\ ~Leaving(t) /\ ~Leaving(t)'
        <3>1. ~Leaves(u, s, m) /\ ~Leaves(u, s, m)'
            BY <2>1 DEF Leaves
        <3> QED BY <3>1
    <2>2. CASE u = t /\ Leaving(t) /\ Leaving(t)'
        BY <2>2 DEF Leaves
    <2>3. CASE u # t
        BY <2>3, QOthers
    <2> QED BY <1>5, <2>1, <2>2, <2>3
<1>8. \A s \in QSide : EndCounted(w, o, s)'
    BY <1>2, <1>3 DEF Tally, EndCounted
<1>9. ASSUME NEW u \in QThreads, Leaving(u), local[u].ptr = n PROVE LeaverCounted(w, o, u)'
    <2>1. LeaverCounted(w, o, u)
        BY <1>2, <1>9 DEF Tally
    <2>2. PICK s : s = local[u].side
        OBVIOUS
    <2>3. s \in QSide
        BY <2>2, QLocalsFields
    <2>4. local'[u].side = s /\ local'[u].ptr = n /\ local'[u].old = local[u].old
        BY <1>9, <2>2, QOthers
    <2>5. \A v \in QThreads : Leaves(v, s, n)' => v = u
        BY <1>7, <1>9, <2>1, <2>2, <2>3 DEF LeaverCounted
    <2> QED BY <1>3, <1>9, <2>1, <2>2, <2>4, <2>5 DEF LeaverCounted
<1>10. Calm(t, c, w, o, w, o, n)
    <2>1. \A m \in QNodes : m # n => QSame(w, o, w, o, m)
        BY <1>3, <1>4, <1>6, <1>7 DEF QSame
    <2>2. Leaving(t)' => LeaverCounted(w, o, t)'
        BY <1>5, <1>9
    <2>3. Referring(t)' => QRefers(c, t)'
        BY <1>5
    <2> QED BY <1>3, <1>8, <2>1, <2>2, <2>3 DEF Calm
<1>11. ~Fresh(n)
    BY QLocalsFields, QWorkedOn
<1>12. /\ n # QSecond /\ n \in qalloc /\ \A u \in QThreads : local[u].new # n
       /\ OnQ(c, n) => OnList(c, o, n)
       /\ ~OnQ(c, n) => OffList(o, n)
    BY <1>2, <1>11, QBusy
<1>13. OnQ(c, n) => OnList(c, o, n)'
    BY <1>3, <1>7, <1>12, SideFacts DEF OnList
<1>14. ~OnQ(c, n) => OffList(o, n)'
    BY <1>6, <1>7, <1>12 DEF OffList
<1>15. Balanced(w, o, n)'
    <2>1. QEven(w, o, w, o, n)
        BY <1>4, <1>6, <1>7 DEF QEven
    <2>2. Balanced(w, o, n)
        BY <1>2 DEF Tally
    <2> QED BY <2>1, <2>2, BalancedSame
<1>16. \A s \in QSide : w[s][n] = 0 \/ ends[s].ptr = n \/ \E u \in QThreads : Leaves(u, s, n)'
    BY <1>2, <1>7 DEF Tally
<1>17. Touched(t, c, w, o, n)
    BY <1>3, <1>4, <1>9, <1>12, <1>13, <1>14, <1>15, <1>16 DEF Touched
<1>18. QShape(c, w, o)'
    BY <1>1, <1>10, <1>17, QCalm
<1> QED BY <1>18 DEF Shaped

LEMMA StoreDataShape ==
    ASSUME QTypeOK, QTypeOK', NEW t \in QThreads, NEW c \in Seq(QNodes),
           \A u \in QThreads : QLocals(u), Shaped(c), StoreData(t)
    PROVE  Shaped(c)'
<1>1. qpc[t] = "store"
    BY DEF StoreData
<1>2. PICK n \in QNodes : n = local[t].ptr
    BY <1>1 DEF QLocals, Referring
<1>3. /\ UNCHANGED <<ends, qalloc>> /\ OthersKeep(t) /\ qpc'[t] = "link"
      /\ qnode' = [qnode EXCEPT ![n].data = IF qnode[n].data = QNull THEN QArg(t) ELSE @]
      /\ local'[t] = [local[t] EXCEPT !.done = (qnode[n].data = QNull)]
    BY <1>2, StoreDataEff
<1>4. PICK d : qnode' = [qnode EXCEPT ![n].data = d]
    BY <1>3, Zenon
<1>5. /\ local'[t].new = local[t].new /\ local'[t].ptr = local[t].ptr
      /\ local'[t].side = local[t].side /\ local'[t].old = local[t].old
    BY <1>3, QLocalsFields DEF QLocalType
<1>6. Referring(t) /\ Referring(t)'
    BY <1>1, <1>3 DEF Referring
<1>7. QRefers(c, t) /\ local[t].side = "tail"
    BY <1>1, <1>6 DEF Shaped, QShape, QLocals
<1>8. qnode'[n].next = qnode[n].next
    BY <1>4, QLocalsFields DEF QTypeOK, QNodeType
<1>9. QRefers(c, t)'
    <2>1. n \in qalloc' /\ (n = QLast' \/ qnode'[n].next # QNoPtr)
        BY <1>2, <1>3, <1>7, <1>8 DEF QRefers, QLast
    <2> QED BY <1>2, <1>3, <1>5, <1>7, <2>1 DEF QRefers
<1>10. OthersKeep(t) /\ UNCHANGED <<ends, qalloc>> /\ local'[t].ptr = n
    BY <1>2, <1>3, <1>5
<1> HIDE <1>3
<1> QED BY <1>2, <1>4, <1>5, <1>6, <1>9, <1>10, QRewrite

LEMMA ExchangeDataShape ==
    ASSUME QTypeOK, QTypeOK', NEW t \in QThreads, NEW c \in Seq(QNodes),
           \A u \in QThreads : QLocals(u), Shaped(c), ExchangeData(t)
    PROVE  Shaped(c)'
<1>1. qpc[t] = "exchange"
    BY DEF ExchangeData
<1>2. PICK n \in QNodes : n = local[t].ptr
    BY <1>1 DEF QLocals, Leaving
<1>3. /\ UNCHANGED <<ends, qalloc>> /\ OthersKeep(t) /\ qpc'[t] = "free"
      /\ qnode' = [qnode EXCEPT ![n].data = QNull]
      /\ local'[t] = [local[t] EXCEPT !.done = TRUE]
    BY <1>2, ExchangeDataEff
<1>4. /\ local'[t].new = local[t].new /\ local'[t].ptr = local[t].ptr
      /\ local'[t].side = local[t].side /\ local'[t].old = local[t].old
    BY <1>3, QLocalsFields DEF QLocalType
<1>5. Leaving(t) /\ Leaving(t)'
    BY <1>1, <1>3 DEF Leaving
<1> QED BY <1>2, <1>3, <1>4, <1>5, QRewrite

\* A call that works on no node, before and after.
LEMMA QIdleSame ==
    ASSUME NEW t \in QThreads, OthersKeep(t), ~Leaving(t), ~Leaving(t)', NEW n
    PROVE  /\ \A s \in QSide : \A u \in QThreads : Leaves(u, s, n)' <=> Leaves(u, s, n)
           /\ ~Referring(t) /\ ~Referring(t)' => QRefs(n)' = QRefs(n)
<1>1. ASSUME NEW s \in QSide, NEW u \in QThreads PROVE Leaves(u, s, n)' <=> Leaves(u, s, n)
    <2>1. CASE u = t
        <3>1. ~Leaves(t, s, n) /\ ~Leaves(t, s, n)'
            BY DEF Leaves
        <3> QED BY <2>1, <3>1
    <2>2. CASE u # t
        BY <2>2, QOthers
    <2> QED BY <2>1, <2>2
<1>2. ~Referring(t) /\ ~Referring(t)' => QRefs(n)' = QRefs(n)
    BY QRefsSame
<1> QED BY <1>1, <1>2

LEMMA QPushShape ==
    ASSUME QTypeOK, QTypeOK', NEW t \in QThreads, NEW c \in Seq(QNodes),
           \A u \in QThreads : QLocals(u), Shaped(c), QPush(t)
    PROVE  Shaped(c)'
<1>1. PICK w \in QCount, o \in QOwed : QShape(c, w, o)
    BY DEF Shaped
<1>2. QChain(c) /\ QPlaced(c, o) /\ Tally(w, o)
    BY <1>1 DEF QShape
<1>3. PICK n \in QNodes \ qalloc :
        /\ qalloc' = qalloc \cup {n} /\ UNCHANGED <<ends, qnode>>
        /\ OthersKeep(t) /\ qpc[t] = "idle" /\ qpc'[t] = "increase"
        /\ local'[t] = [local[t] EXCEPT !.side = "tail", !.new = n, !.old = ends.tail]
    BY QPushEff
<1>4. n \in QNodes /\ n # QNull /\ UNCHANGED ends /\ UNCHANGED qnode
    BY <1>3, QFacts
<1>5. local'[t].new = n /\ local[t].new = QNull
    BY <1>3, QLocalsFields, QFacts DEF QLocalType, QLocals
<1>6. ~Referring(t) /\ ~Referring(t)' /\ ~Leaving(t) /\ ~Leaving(t)'
    BY <1>3 DEF Referring, Leaving
<1>7. \A m : QRefs(m)' = QRefs(m) /\ \A s \in QSide : \A u \in QThreads : Leaves(u, s, m)' <=> Leaves(u, s, m)
    BY <1>3, <1>6, QIdleSame
<1>8. ~OnQ(c, n) /\ Fresh(n) /\ \A u \in QThreads : local[u].new # n
    BY <1>2, <1>3, <1>4 DEF QPlaced, OnList, NewNode
<1>9. Fresh(n)'
    BY <1>4, <1>7, <1>8 DEF Fresh
<1>10. \A u \in QThreads : local[u].ptr = n => ~Referring(u) /\ ~Leaving(u)
    BY <1>8, QWorkedOn, QLocalsFields
<1>11. Calm(t, c, w, o, w, o, n)
    <2>1. \A m \in QNodes : m # n => QSame(w, o, w, o, m)
        BY <1>3, <1>4, <1>7 DEF QSame
    <2>2. \A s \in QSide : EndCounted(w, o, s)'
        BY <1>2, <1>4 DEF Tally, EndCounted
    <2> QED BY <1>3, <1>4, <1>5, <1>6, <2>1, <2>2 DEF Calm
<1>12. Touched(t, c, w, o, n)
    <2>1. n # QSecond
        BY <1>4, <1>8 DEF OnQ
    <2>2. Balanced(w, o, n)'
        <3>1. QEven(w, o, w, o, n)
            BY <1>4, <1>7 DEF QEven
        <3>2. Balanced(w, o, n)
            BY <1>2, <1>4 DEF Tally
        <3> QED BY <3>1, <3>2, BalancedSame
    <2>3. \A s \in QSide : w[s][n] = 0 \/ ends[s].ptr = n \/ \E u \in QThreads : Leaves(u, s, n)'
        BY <1>2, <1>4, <1>7 DEF Tally
    <2> QED BY <1>3, <1>4, <1>5, <1>8, <1>9, <1>10, <2>1, <2>2, <2>3 DEF Touched
<1>13. QShape(c, w, o)'
    BY <1>1, <1>11, <1>12, QCalm
<1> QED BY <1>13 DEF Shaped

\* head and tail point to nodes of the list.
LEMMA QEnds ==
    ASSUME NEW c \in Seq(QNodes), QChain(c), NEW s \in QSide
    PROVE  /\ ends[s].ptr \in QNodes /\ OnQ(c, ends[s].ptr) /\ ends[s].ptr # QSecond
           /\ In(c, ends[s].ptr) \/ ends[s].ptr = QLast
<1>1. CASE s = "tail"
    BY <1>1, QFacts DEF QChain, QLast, OnQ
<1>2. CASE s = "head"
    <2>1. PICK h, links, last : h = ends["head"].ptr /\ links = QLinks /\ last = QLast
        OBVIOUS
    <2>2. Linked(h, links, last, c) /\ last \in QNodes
        BY <2>1 DEF QChain
    <2>3. c = <<>> \/ (1 \in DOMAIN c /\ c[1] \in QNodes)
        <3>1. DOMAIN c = 1 .. Len(c) /\ Len(c) \in Nat /\ (c = <<>> <=> Len(c) = 0)
            BY LenProperties, EmptySeq
        <3>2. c # <<>> => 1 \in 1 .. Len(c)
            BY <3>1
        <3> QED BY <3>1, <3>2, ElementOfSeq
    <2>4. h \in QNodes /\ (In(c, h) \/ h = last)
        BY <2>2, <2>3 DEF Linked, In
    <2> QED BY <1>2, <2>1, <2>4, QFacts DEF QChain, OnQ
<1> QED BY <1>1, <1>2, SideFacts

\* A reference that is taken.
LEMMA QTakeRef ==
    ASSUME NEW t \in QThreads, OthersKeep(t), ~Referring(t), NEW n, Referring(t)', local'[t].ptr = n,
           IsFiniteSet(QRefs(n))
    PROVE  IsFiniteSet(QRefs(n)') /\ Cardinality(QRefs(n)') = Cardinality(QRefs(n)) + 1
<1>1. QRefs(n)' = QRefs(n) \cup {t} /\ t \notin QRefs(n)
    BY QRefsStep DEF QRefs
<1> QED BY <1>1, FS_AddElement

LEMMA QIncreaseShape ==
    ASSUME QTypeOK, QTypeOK', NEW t \in QThreads, NEW c \in Seq(QNodes),
           \A u \in QThreads : QLocals(u), Shaped(c), increase_external_count(t)
    PROVE  Shaped(c)'
<1>1. PICK w \in QCount, o \in QOwed : QShape(c, w, o)
    BY DEF Shaped
<1>2. QChain(c) /\ QPlaced(c, o) /\ Tally(w, o)
    BY <1>1 DEF QShape
<1>3. PICK s \in QSide : s = local[t].side
    BY QLocalsFields
<1>4. UNCHANGED qnode /\ UNCHANGED qalloc /\ OthersKeep(t) /\ qpc[t] = "increase"
    BY <1>3, QIncreaseEff
<1>5. CASE ends[s] # local[t].old
    <2>1. /\ UNCHANGED ends /\ qpc'[t] = "increase"
          /\ local'[t] = [local[t] EXCEPT !.old = ends[s]]
        BY <1>3, <1>5, QIncreaseEff
    <2>2. QMembersStay
        BY <1>4, <2>1 DEF QMembersStay
    <2> QED BY <1>4, <2>1, <2>2, QLost
<1>6. CASE ends[s] = local[t].old
    <2>1. PICK p \in QPointer :
            /\ p.ptr = ends[s].ptr /\ p.external_count = ends[s].external_count + 1
            /\ ends' = [ends EXCEPT ![s] = p]
            /\ qpc'[t] = IF s = "tail" THEN "store" ELSE "test"
            /\ local'[t] = [local[t] EXCEPT !.old = p, !.ptr = p.ptr]
        BY <1>3, <1>6, QIncreaseEff
    <2>2. PICK n \in QNodes : n = ends[s].ptr
        BY <1>2, QEnds
    <2>3. /\ OnQ(c, n) /\ n # QSecond /\ (In(c, n) \/ n = QLast)
          /\ OnList(c, o, n) /\ n \in qalloc /\ \A u \in QThreads : local[u].new # n
        <3>1. OnQ(c, n) /\ n # QSecond /\ (In(c, n) \/ n = QLast)
            BY <1>2, <2>2, QEnds
        <3> QED BY <1>2, <3>1, QFacts DEF QPlaced, OnList, NewNode
    <2>4. /\ ends'[s] = p /\ \A r \in QSide : r # s => ends'[r] = ends[r]
          /\ \A r \in QSide : ends'[r].ptr = ends[r].ptr
        BY <2>1 DEF QTypeOK
    <2>5. /\ local'[t].ptr = n /\ local'[t].new = local[t].new /\ local'[t].side = s
        BY <1>3, <2>1, <2>2, QLocalsFields DEF QLocalType
    <2>6. ~Referring(t) /\ Referring(t)' /\ ~Leaving(t) /\ ~Leaving(t)'
        BY <1>4, <2>1 DEF Referring, Leaving
    <2>7. \A m : \A r \in QSide : \A u \in QThreads : Leaves(u, r, m)' <=> Leaves(u, r, m)
        BY <1>4, <2>6, QIdleSame
    <2>8. \A m : m # n => QRefs(m)' = QRefs(m)
        <3> SUFFICES ASSUME NEW m, m # n PROVE QRefs(m)' = QRefs(m)
            OBVIOUS
        <3>1. ~(Referring(t)' /\ local'[t].ptr = m)
            BY <2>5
        <3>2. QRefs(m)' = QRefs(m) \ {t} /\ t \notin QRefs(m)
            BY <1>4, <2>6, <3>1, QRefsStep DEF QRefs
        <3> QED BY <3>2
    <2>9. PICK w2 \in QCount : \A r \in QSide, m \in QNodes :
            w2[r][m] = IF r = s /\ m = n THEN w[r][m] + 1 ELSE w[r][m]
        <3>1. PICK f : f = [r \in QSide |-> [m \in QNodes |-> IF r = s /\ m = n THEN w[r][m] + 1 ELSE w[r][m]]]
            OBVIOUS
        <3>2. \A r \in QSide, m \in QNodes : w[r][m] \in Int
            BY DEF QCount
        <3>3. f \in QCount
            BY <3>1, <3>2 DEF QCount
        <3> QED BY <3>1, <3>3
    <2>10. \A r \in QSide : EndCounted(w2, o, r)'
        <3> SUFFICES ASSUME NEW r \in QSide PROVE EndCounted(w2, o, r)'
            OBVIOUS
        <3>1. EndCounted(w, o, r)
            BY <1>2 DEF Tally
        <3>2. ends[r].ptr \in QNodes
            BY <1>2, QEnds
        <3>3. CASE r = s
            <4>1. w2[s][n] = w[s][n] + 1 /\ w[s][n] = ends[s].external_count - 1 /\ n \in o[s]
                BY <2>2, <2>9, <3>1, <3>3 DEF EndCounted
            <4>2. ends[s].external_count \in Int
                BY QLocalsFields
            <4>3. w2[s][n] = p.external_count - 1
                BY <2>1, <4>1, <4>2
            <4> QED BY <2>1, <2>2, <2>4, <3>3, <4>1, <4>3 DEF EndCounted
        <3>4. CASE r # s
            BY <2>4, <2>9, <3>1, <3>2, <3>4 DEF EndCounted
        <3> QED BY <3>3, <3>4
    <2>11. QRefers(c, t)'
        <3>1. n \in qalloc' /\ QLast' = QLast
            BY <1>4, <2>3, <2>4, SideFacts DEF QLast
        <3>2. s = "tail" => n = QLast'
            BY <2>2, <3>1 DEF QLast
        <3>3. s = "head" => n = ends'["head"].ptr
            BY <2>2, <2>4
        <3>4. qpc'[t] \in {"store", "test"}
            BY <2>1
        <3> QED BY <2>5, <3>1, <3>2, <3>3, <3>4 DEF QRefers
    <2>12. Calm(t, c, w, o, w2, o, n)
        <3>1. \A m \in QNodes : m # n => QSame(w, o, w2, o, m)
            BY <1>4, <2>7, <2>8, <2>9 DEF QSame
        <3> QED BY <1>4, <2>4, <2>5, <2>6, <2>10, <2>11, <3>1 DEF Calm
    <2>13. Balanced(w2, o, n)'
        <3>1. Balanced(w, o, n)
            BY <1>2 DEF Tally
        <3>2. PICK r \in Int : r = Cardinality(QRefs(n))
            BY <3>1, FS_CardinalityType DEF Balanced
        <3>3. IsFiniteSet(QRefs(n)') /\ Cardinality(QRefs(n)') = r + 1
            BY <1>4, <2>5, <2>6, <3>1, <3>2, QTakeRef DEF Balanced
        <3>4. PICK i \in Int, a \in Int, b \in Int :
                i = qnode[n].internal_count /\ a = w["head"][n] /\ b = w["tail"][n]
            BY QLocalsFields, SideFacts DEF QCount
        <3>5. i + a + b = r
            BY <3>1, <3>2, <3>4 DEF Balanced
        <3>6. i + w2["head"][n] + w2["tail"][n] = r + 1
            <4>1. CASE s = "head"
                <5>1. w2["head"][n] = a + 1 /\ w2["tail"][n] = b
                    BY <2>9, <3>4, <4>1, SideFacts
                <5> QED BY <3>5, <5>1
            <4>2. CASE s = "tail"
                <5>1. w2["head"][n] = a /\ w2["tail"][n] = b + 1
                    BY <2>9, <3>4, <4>2, SideFacts
                <5> QED BY <3>5, <5>1
            <4> QED BY <4>1, <4>2, SideFacts
        <3> QED BY <1>4, <3>1, <3>3, <3>4, <3>6 DEF Balanced
    <2>14. ASSUME NEW u \in QThreads \ {t}, Leaving(u), local[u].ptr = n PROVE LeaverCounted(w2, o, u)'
        <3>1. LeaverCounted(w, o, u)
            BY <1>2, <2>14 DEF Tally
        <3>2. PICK r \in QSide : r = local[u].side
            BY QLocalsFields
        <3>3. r # s
            BY <2>2, <2>14, <3>1, <3>2 DEF LeaverCounted
        <3>4. w2[r][n] = w[r][n]
            BY <2>9, <3>3
        <3>5. local'[u] = local[u]
            BY <1>4, QOthers
        <3> QED BY <1>4, <2>4, <2>7, <2>14, <3>1, <3>2, <3>4, <3>5 DEF LeaverCounted
    <2>15. OnList(c, o, n)'
        BY <1>4, <2>3, <2>7, SideFacts DEF OnList
    <2>16. \A r \in QSide : w2[r][n] = 0 \/ ends[r].ptr = n \/ \E u \in QThreads : Leaves(u, r, n)'
        BY <1>2, <2>2, <2>7, <2>9 DEF Tally
    <2>17. Touched(t, c, w2, o, n)
        BY <1>4, <2>3, <2>5, <2>13, <2>14, <2>15, <2>16 DEF Touched
    <2>18. QShape(c, w2, o)'
        BY <1>1, <2>12, <2>17, QCalm
    <2> QED BY <2>18 DEF Shaped
<1> QED BY <1>5, <1>6

\* A push that finds the last node linked: one that was helped deletes its own new node.
LEMMA QHelpedShape ==
    ASSUME QTypeOK, QTypeOK', NEW t \in QThreads, NEW c \in Seq(QNodes),
           \A u \in QThreads : QLocals(u), Shaped(c), LinkNode(t), qnode[local[t].ptr].next # QNoPtr
    PROVE  Shaped(c)'
<1>1. PICK w \in QCount, o \in QOwed : QShape(c, w, o)
    BY DEF Shaped
<1>2. QChain(c) /\ QPlaced(c, o) /\ Tally(w, o)
    BY <1>1 DEF QShape
<1>3. qpc[t] = "link"
    BY DEF LinkNode
<1>4. PICK n \in QNodes : n = local[t].ptr
    BY <1>3 DEF QLocals, Referring
<1>5. /\ UNCHANGED ends /\ UNCHANGED qnode /\ OthersKeep(t) /\ qpc'[t] = "set_tail"
      /\ qalloc' = IF local[t].done THEN qalloc \ {local[t].new} ELSE qalloc
      /\ local'[t] = [local[t] EXCEPT !.next = qnode[n].next,
                                      !.new = IF local[t].done THEN QNull ELSE local[t].new]
    BY <1>4, LinkNodeEff
<1>6. /\ local'[t].ptr = n /\ local'[t].side = "tail" /\ local'[t].next = qnode[n].next
      /\ local'[t].new = IF local[t].done THEN QNull ELSE local[t].new
    BY <1>3, <1>4, <1>5, QLocalsFields DEF QLocalType, QLocals
<1>7. Referring(t) /\ Referring(t)' /\ ~Leaving(t) /\ ~Leaving(t)'
    BY <1>3, <1>5 DEF Referring, Leaving
<1>8. n \in qalloc /\ qnode[n].next # QNoPtr
    BY <1>1, <1>4, <1>7 DEF QShape, QRefers
<1>9. n \in qalloc' => QRefers(c, t)'
    BY <1>5, <1>6, <1>8 DEF QRefers
<1>10. CASE ~local[t].done
    <2>1. QMembersStay /\ local'[t].new = local[t].new
        BY <1>5, <1>6, <1>10 DEF QMembersStay
    <2>2. QRefers(c, t)'
        BY <1>5, <1>8, <1>9, <1>10
    <2> QED BY <1>4, <1>5, <1>6, <1>7, <2>1, <2>2, QQuiet
<1>11. CASE local[t].done
    <2>1. PICK m \in QNodes : m = local[t].new
        BY <1>3, <1>11, QLocalsFields DEF QLocals, QAddress
    <2>2. qalloc' = qalloc \ {m} /\ local'[t].new = QNull /\ m # QNull
        BY <1>5, <1>6, <1>11, <2>1, QFacts
    <2>3. /\ ~OnQ(c, m) /\ Fresh(m) /\ m # QSecond
          /\ \A u \in QThreads : local[u].new = m => u = t
        BY <1>2, <2>1, <2>2 DEF QPlaced, NewNode, OnQ
    <2>4. \A u \in QThreads : local[u].ptr = m => ~Referring(u) /\ ~Leaving(u)
        BY <2>3, QWorkedOn, QLocalsFields
    <2>5. m # n
        BY <1>4, <1>7, <2>4
    <2>6. QRefers(c, t)'
        BY <1>8, <1>9, <2>2, <2>5
    <2>7. \A k : QRefs(k)' = QRefs(k)
        BY <1>4, <1>5, <1>6, <1>7, QRefsSame
    <2>8. \A k : \A s \in QSide : \A u \in QThreads : Leaves(u, s, k)' <=> Leaves(u, s, k)
        BY <1>5, <1>7, QIdleSame
    <2>9. Calm(t, c, w, o, w, o, m)
        <3>1. \A k \in QNodes : k # m => QSame(w, o, w, o, k)
            BY <1>5, <2>2, <2>7, <2>8 DEF QSame
        <3>2. \A s \in QSide : EndCounted(w, o, s)'
            BY <1>2, <1>5 DEF Tally, EndCounted
        <3> QED BY <1>5, <1>7, <2>1, <2>2, <2>6, <3>1, <3>2 DEF Calm
    <2>10. Fresh(m)'
        BY <1>5, <2>3, <2>7, <2>8 DEF Fresh
    <2>11. Balanced(w, o, m)'
        <3>1. QEven(w, o, w, o, m)
            BY <1>5, <2>7, <2>8 DEF QEven
        <3>2. Balanced(w, o, m)
            BY <1>2 DEF Tally
        <3> QED BY <3>1, <3>2, BalancedSame
    <2>12. \A s \in QSide : w[s][m] = 0 \/ ends[s].ptr = m \/ \E u \in QThreads : Leaves(u, s, m)'
        BY <1>2, <2>8 DEF Tally
    <2>13. Touched(t, c, w, o, m)
        BY <2>2, <2>3, <2>4, <2>10, <2>11, <2>12 DEF Touched
    <2>14. QShape(c, w, o)'
        BY <1>1, <2>9, <2>13, QCalm
    <2> QED BY <2>14 DEF Shaped
<1> QED BY <1>10, <1>11

-----------------------------------------------------------------------------
(* CountedQueue: references that are given back                            *)

\* An end that has been accounted for in a node has nothing counted for it.
LEMMA QUncounted ==
    ASSUME QTypeOK, NEW w, NEW o, Tally(w, o), NEW s \in QSide, NEW n \in QNodes, n \notin o[s]
    PROVE  w[s][n] = 0 /\ ends[s].ptr # n /\ \A u \in QThreads : ~Leaves(u, s, n)
<1>1. ends[s].ptr # n
    BY DEF Tally, EndCounted
<1>2. \A u \in QThreads : ~Leaves(u, s, n)
    BY DEF Tally, LeaverCounted, Leaves
<1> QED BY <1>1, <1>2 DEF Tally

\* What t leaves behind of the counts of n: if it has left n, nothing for its end.
Remains(t, n, w, o, w2, o2) ==
    \A s \in QSide : \A m \in QNodes :
        /\ m \in o2[s] <=> m \in o[s] /\ ~(m = n /\ Leaves(t, s, n))
        /\ w2[s][m] = IF m = n /\ Leaves(t, s, n) THEN 0 ELSE w[s][m]

LEMMA RemainsExists ==
    ASSUME NEW t, NEW n, NEW w \in QCount, NEW o \in QOwed
    PROVE  \E w2 \in QCount, o2 \in QOwed : Remains(t, n, w, o, w2, o2)
<1>1. PICK f : f = [s \in QSide |-> [m \in QNodes |-> IF m = n /\ Leaves(t, s, n) THEN 0 ELSE w[s][m]]]
    OBVIOUS
<1>2. PICK g : g = [s \in QSide |-> {m \in o[s] : ~(m = n /\ Leaves(t, s, n))}]
    OBVIOUS
<1>3. f \in QCount
    <2>1. \A s \in QSide, m \in QNodes : w[s][m] \in Int
        BY DEF QCount
    <2> QED BY <1>1, <2>1 DEF QCount
<1>4. g \in QOwed
    BY <1>2 DEF QOwed
<1>5. Remains(t, n, w, o, f, g)
    BY <1>1, <1>2 DEF Remains
<1> QED BY <1>3, <1>4, <1>5

\* What keeps n after t has given back what it had: o2 are the ends still owed.
LEMMA RemainsOwed ==
    ASSUME QTypeOK, NEW t \in QThreads, NEW n \in QNodes, NEW w \in QCount, NEW o \in QOwed,
           NEW w2, NEW o2, Tally(w, o), Remains(t, n, w, o, w2, o2), NEW s \in QSide
    PROVE  /\ n \notin o2[s] => /\ w2[s][n] = 0 /\ ends[s].ptr # n
                                /\ \A u \in QThreads \ {t} : ~Leaves(u, s, n)
           /\ n \in o2[s] => n \in o[s] /\ ~Leaves(t, s, n) /\ w2[s][n] = w[s][n]
<1>1. CASE n \in o2[s]
    BY <1>1 DEF Remains
<1>2. CASE n \notin o2[s] /\ n \notin o[s]
    BY <1>2, QUncounted DEF Remains
<1>3. CASE n \notin o2[s] /\ n \in o[s]
    <2>1. Leaves(t, s, n)
        BY <1>3 DEF Remains
    <2>2. ends[s].ptr # n /\ \A u \in QThreads : Leaves(u, s, n) => u = t
        BY <2>1 DEF Tally, LeaverCounted, Leaves
    <2> QED BY <1>3, <2>1, <2>2 DEF Remains
<1> QED BY <1>1, <1>2, <1>3

\* What a call passes on to the count of its node when it gives up the reference that it
\* has, or the ones that an end has counted.
Given(t, n, i, e) ==
    \/ /\ Referring(t) /\ i = qnode[n].internal_count - 1
       /\ e = qnode[n].external_counters
    \/ /\ Leaving(t) /\ i = qnode[n].internal_count + (local[t].old.external_count - 2)
       /\ e = qnode[n].external_counters - 1

OwedBy(o, s, n) == IF n \in o[s] THEN 1 ELSE 0

\* The sums are right again.
LEMMA UpdateBalance ==
    ASSUME QTypeOK, NEW t \in QThreads, NEW n \in QNodes, NEW w \in QCount, NEW o \in QOwed,
           NEW w2 \in QCount, NEW o2 \in QOwed, Tally(w, o), Remains(t, n, w, o, w2, o2),
           OthersKeep(t), ~Referring(t)', n = local[t].ptr, NEW i, NEW e, Given(t, n, i, e)
    PROVE  /\ IsFiniteSet(QRefs(n)')
           /\ i \in Int /\ i + w2["head"][n] + w2["tail"][n] = Cardinality(QRefs(n)')
           /\ e = OwedBy(o2, "head", n) + OwedBy(o2, "tail", n)
<1>1. PICK j \in Int, k \in Int, a \in Int, b \in Int, r \in Int :
        /\ j = qnode[n].internal_count /\ k = qnode[n].external_counters
        /\ a = w["head"][n] /\ b = w["tail"][n] /\ r = Cardinality(QRefs(n))
    <2>1. /\ qnode[n].internal_count \in Int /\ qnode[n].external_counters \in Int
          /\ w["head"][n] \in Int /\ w["tail"][n] \in Int
        BY QLocalsFields, SideFacts DEF QCount
    <2>2. IsFiniteSet(QRefs(n))
        BY DEF Tally, Balanced
    <2>3. Cardinality(QRefs(n)) \in Int
        BY <2>2, FS_CardinalityType
    <2> QED BY <2>1, <2>3
<1>2. /\ IsFiniteSet(QRefs(n)) /\ j + a + b = r
      /\ k = OwedBy(o, "head", n) + OwedBy(o, "tail", n)
    BY <1>1 DEF Tally, Balanced, OwedBy
<1>3. QRefs(n)' = QRefs(n) \ {t}
    BY QRefsStep
<1>4. CASE Referring(t) /\ i = j - 1 /\ e = k
    <2>1. t \in QRefs(n) /\ ~Leaving(t)
        BY <1>4 DEF QRefs, Referring, Leaving
    <2>2. IsFiniteSet(QRefs(n)') /\ Cardinality(QRefs(n)') = r - 1
        BY <1>1, <1>2, <1>3, <2>1, FS_RemoveElement
    <2>3. \A s \in QSide : w2[s][n] = w[s][n] /\ (n \in o2[s] <=> n \in o[s])
        BY <2>1 DEF Remains, Leaves
    <2>4. w2["head"][n] = a /\ w2["tail"][n] = b
        BY <1>1, <2>3, SideFacts
    <2>5. OwedBy(o2, "head", n) = OwedBy(o, "head", n) /\ OwedBy(o2, "tail", n) = OwedBy(o, "tail", n)
        BY <2>3, SideFacts DEF OwedBy
    <2>6. i + a + b = r - 1
        BY <1>2, <1>4
    <2> QED BY <1>2, <1>4, <2>2, <2>4, <2>5, <2>6
<1>5. CASE Leaving(t) /\ i = j + (local[t].old.external_count - 2) /\ e = k - 1
    <2>1. PICK s \in QSide, m \in Int : s = local[t].side /\ m = local[t].old.external_count - 2
        <3>1. local[t].side \in QSide /\ local[t].old.external_count \in Int
            BY QLocalsFields
        <3>2. local[t].old.external_count - 2 \in Int
            BY <3>1
        <3> QED BY <3>1, <3>2
    <2>2. LeaverCounted(w, o, t) /\ Leaves(t, s, n) /\ \A u \in QSide : u # s => ~Leaves(t, u, n)
        BY <1>5, <2>1 DEF Tally, Leaves
    <2>3. w[s][n] = m /\ n \in o[s]
        BY <2>1, <2>2 DEF LeaverCounted
    <2>4. w2[s][n] = 0 /\ n \notin o2[s]
        BY <2>2 DEF Remains
    <2>5. \A u \in QSide : u # s => w2[u][n] = w[u][n] /\ (n \in o2[u] <=> n \in o[u])
        BY <2>2 DEF Remains
    <2>6. QRefs(n)' = QRefs(n)
        BY <1>3, <1>5 DEF QRefs, Referring, Leaving
    <2>7. i = j + m
        BY <1>5, <2>1
    <2>8. CASE s = "head"
        <3>1. a = m /\ w2["head"][n] = 0 /\ w2["tail"][n] = b
            BY <1>1, <2>3, <2>4, <2>5, <2>8, SideFacts
        <3>2. OwedBy(o, "head", n) = 1 /\ OwedBy(o2, "head", n) = 0 /\ OwedBy(o2, "tail", n) = OwedBy(o, "tail", n)
            BY <2>3, <2>4, <2>5, <2>8, SideFacts DEF OwedBy
        <3>3. OwedBy(o, "tail", n) \in Int
            BY DEF OwedBy
        <3> QED BY <1>1, <1>2, <1>5, <2>6, <2>7, <3>1, <3>2, <3>3
    <2>9. CASE s = "tail"
        <3>1. b = m /\ w2["tail"][n] = 0 /\ w2["head"][n] = a
            BY <1>1, <2>3, <2>4, <2>5, <2>9, SideFacts
        <3>2. OwedBy(o, "tail", n) = 1 /\ OwedBy(o2, "tail", n) = 0 /\ OwedBy(o2, "head", n) = OwedBy(o, "head", n)
            BY <2>3, <2>4, <2>5, <2>9, SideFacts DEF OwedBy
        <3>3. OwedBy(o, "head", n) \in Int
            BY DEF OwedBy
        <3> QED BY <1>1, <1>2, <1>5, <2>6, <2>7, <3>1, <3>2, <3>3
    <2> QED BY <2>8, <2>9, SideFacts
<1> QED BY <1>1, <1>4, <1>5 DEF Given

\* The call works on n no more, and nothing of other nodes has changed.
Released(t, n, w, o, w2, o2) ==
    /\ OthersKeep(t) /\ UNCHANGED ends /\ n = local[t].ptr /\ local'[t].new = local[t].new
    /\ Referring(t) \/ Leaving(t)
    /\ ~Referring(t)' /\ ~Leaving(t)'
    /\ \A m \in QNodes : m # n => qnode'[m] = qnode[m] /\ (m \in qalloc' <=> m \in qalloc)
    /\ Remains(t, n, w, o, w2, o2)

LEMMA ReleasedSame ==
    ASSUME QTypeOK, NEW t \in QThreads, NEW n \in QNodes, NEW w, NEW o, NEW w2, NEW o2,
           Released(t, n, w, o, w2, o2), NEW m \in QNodes, m # n
    PROVE  QSame(w, o, w2, o2, m)
<1>1. /\ OthersKeep(t) /\ n = local[t].ptr /\ ~Referring(t)' /\ ~Leaving(t)'
      /\ qnode'[m] = qnode[m] /\ (m \in qalloc' <=> m \in qalloc)
    BY DEF Released
<1>2. QRefs(m)' = QRefs(m)
    <2>1. t \notin QRefs(m)
        BY <1>1 DEF QRefs
    <2>2. QRefs(m)' = QRefs(m) \ {t}
        BY <1>1, QRefsStep
    <2> QED BY <2>1, <2>2
<1>3. ASSUME NEW s \in QSide, NEW u \in QThreads PROVE Leaves(u, s, m)' <=> Leaves(u, s, m)
    <2>1. CASE u = t
        <3>1. ~Leaves(t, s, m) /\ ~Leaves(t, s, m)'
            BY <1>1 DEF Leaves
        <3> QED BY <2>1, <3>1
    <2>2. CASE u # t
        BY <1>1, <2>2, QOthers
    <2> QED BY <2>1, <2>2
<1>4. \A s \in QSide : w2[s][m] = w[s][m] /\ (m \in o2[s] <=> m \in o[s])
    BY DEF Released, Remains
<1> QED BY <1>1, <1>2, <1>3, <1>4 DEF QSame

\* The leavings of n that remain.
LEMMA ReleasedLeaves ==
    ASSUME NEW t \in QThreads, NEW n, NEW w, NEW o, NEW w2, NEW o2, Released(t, n, w, o, w2, o2), NEW s,
           NEW u \in QThreads
    PROVE  Leaves(u, s, n)' <=> Leaves(u, s, n) /\ u # t
<1>1. OthersKeep(t) /\ ~Leaving(t)'
    BY DEF Released
<1>2. CASE u = t
    <2>1. ~Leaves(t, s, n)'
        BY <1>1 DEF Leaves
    <2> QED BY <1>2, <2>1
<1>3. CASE u # t
    BY <1>1, <1>3, QOthers
<1> QED BY <1>2, <1>3

\* The node is deleted: nothing is left that refers to it.
LEMMA QDeleted ==
    ASSUME QTypeOK, QTypeOK', NEW t \in QThreads, NEW c \in Seq(QNodes), NEW n \in QNodes,
           NEW w \in QCount, NEW o \in QOwed, NEW w2 \in QCount, NEW o2 \in QOwed,
           \A u \in QThreads : QLocals(u), QShape(c, w, o), Released(t, n, w, o, w2, o2),
           NEW i, NEW e, Given(t, n, i, e), i = 0, e = 0,
           qnode'[n] = QNode, qalloc' = qalloc \ {n}
    PROVE  Shaped(c)'
<1>1. QChain(c) /\ QPlaced(c, o) /\ Tally(w, o)
    BY DEF QShape
<1>2. /\ OthersKeep(t) /\ UNCHANGED ends /\ n = local[t].ptr /\ local'[t].new = local[t].new
      /\ Referring(t) \/ Leaving(t)
      /\ ~Referring(t)' /\ ~Leaving(t)'
      /\ Remains(t, n, w, o, w2, o2)
    BY DEF Released
<1>3. /\ IsFiniteSet(QRefs(n)')
      /\ w2["head"][n] + w2["tail"][n] = Cardinality(QRefs(n)')
      /\ 0 = OwedBy(o2, "head", n) + OwedBy(o2, "tail", n)
    <2>1. /\ IsFiniteSet(QRefs(n)')
          /\ i + w2["head"][n] + w2["tail"][n] = Cardinality(QRefs(n)')
          /\ e = OwedBy(o2, "head", n) + OwedBy(o2, "tail", n)
        BY <1>1, <1>2, UpdateBalance
    <2>2. w2["head"][n] \in Int /\ w2["tail"][n] \in Int
        BY SideFacts DEF QCount
    <2> QED BY <2>1, <2>2
<1>4. \A s \in QSide : n \notin o2[s]
    BY <1>3, SideFacts DEF OwedBy
<1>5. \A s \in QSide : w2[s][n] = 0 /\ ends[s].ptr # n /\ \A u \in QThreads \ {t} : ~Leaves(u, s, n)
    BY <1>1, <1>2, <1>4, RemainsOwed
<1>6. QRefs(n)' = {}
    <2>1. Cardinality(QRefs(n)') = 0
        BY <1>3, <1>5, SideFacts
    <2> QED BY <1>3, <2>1, FS_EmptySet
<1>7. \A s \in QSide : \A u \in QThreads : ~Leaves(u, s, n)'
    BY <1>5, ReleasedLeaves
<1>8. Fresh(n)'
    BY <1>6, <1>7 DEF Fresh
<1>9. ~Fresh(n)
    BY <1>2, QLocalsFields, QWorkedOn
<1>10. /\ n # QSecond /\ \A u \in QThreads : local[u].new # n
       /\ OnQ(c, n) => OnList(c, o, n)
    BY <1>1, <1>9, QBusy
<1>11. ~OnQ(c, n)
    BY <1>2, <1>4, <1>10, SideFacts DEF OnList, Remains
<1>12. PICK o3 : o3 = [s \in QSide |-> o2[s] \cup {n}]
    OBVIOUS
<1>13. o3 \in QOwed /\ \A s \in QSide : n \in o3[s] /\ \A m \in QNodes : m # n => (m \in o3[s] <=> m \in o2[s])
    BY <1>12 DEF QOwed
<1>14. \A m \in QNodes : m # n => QSame(w, o, w2, o3, m)
    <2> SUFFICES ASSUME NEW m \in QNodes, m # n PROVE QSame(w, o, w2, o3, m)
        OBVIOUS
    <2>1. QSame(w, o, w2, o2, m)
        BY ReleasedSame
    <2> QED BY <1>13, <2>1 DEF QSame
<1>15. \A s \in QSide : EndCounted(w2, o3, s)'
    <2> SUFFICES ASSUME NEW s \in QSide PROVE EndCounted(w2, o3, s)'
        OBVIOUS
    <2>1. PICK y \in QNodes : y = ends[s].ptr
        BY <1>1, QEnds
    <2>2. EndCounted(w, o, s) /\ QSame(w, o, w2, o3, y)
        BY <1>1, <1>5, <1>14, <2>1 DEF Tally
    <2> QED BY <1>2, <2>1, <2>2 DEF EndCounted, QSame
<1>16. Calm(t, c, w, o, w2, o3, n)
    BY <1>2, <1>14, <1>15 DEF Calm
<1>17. Balanced(w2, o3, n)'
    <2>1. PICK r : r = QRefs(n)'
        OBVIOUS
    <2>2. IsFiniteSet(r) /\ Cardinality(r) = 0
        BY <1>6, <2>1, FS_EmptySet
    <2>3. qnode'[n].internal_count = 0 /\ qnode'[n].external_counters = 2
        BY QFacts
    <2>4. w2["head"][n] = 0 /\ w2["tail"][n] = 0 /\ n \in o3["head"] /\ n \in o3["tail"]
        BY <1>5, <1>13, SideFacts
    <2> QED BY <2>1, <2>2, <2>3, <2>4 DEF Balanced
<1>18. \A u \in QThreads \ {t} : local[u].ptr = n => ~Referring(u) /\ ~Leaving(u)
    <2> SUFFICES ASSUME NEW u \in QThreads \ {t}, local[u].ptr = n PROVE ~Referring(u) /\ ~Leaving(u)
        OBVIOUS
    <2>1. local'[u].ptr = n /\ (Referring(u)' <=> Referring(u))
        BY <1>2, QOthers
    <2>2. ~Referring(u)
        BY <1>6, <2>1 DEF QRefs
    <2>3. ~Leaving(u)
        BY <1>5, QLocalsFields DEF Leaves
    <2> QED BY <2>2, <2>3
<1>19. n \notin qalloc' /\ local'[t].new # n
    BY <1>2, <1>10
<1>20. Touched(t, c, w2, o3, n)
    BY <1>5, <1>8, <1>10, <1>11, <1>17, <1>18, <1>19 DEF Touched
<1>21. QShape(c, w2, o3)'
    BY <1>16, <1>20, QCalm
<1> QED BY <1>13, <1>21 DEF Shaped

\* The node stays: an end or another call has still to be accounted for.
QKept(t, n, i, e) ==
    /\ qnode'[n].internal_count = i /\ qnode'[n].external_counters = e
    /\ qnode'[n].next = qnode[n].next /\ (n \in qalloc' <=> n \in qalloc)
    /\ ~(i = 0 /\ e = 0)

LEMMA QReleased ==
    ASSUME QTypeOK, QTypeOK', NEW t \in QThreads, NEW c \in Seq(QNodes), NEW n \in QNodes,
           NEW w \in QCount, NEW o \in QOwed, NEW w2 \in QCount, NEW o2 \in QOwed,
           \A u \in QThreads : QLocals(u), QShape(c, w, o), Released(t, n, w, o, w2, o2),
           NEW i, NEW e, Given(t, n, i, e), QKept(t, n, i, e)
    PROVE  Shaped(c)'
<1>1. QChain(c) /\ QPlaced(c, o) /\ Tally(w, o)
    BY DEF QShape
<1>2. /\ OthersKeep(t) /\ UNCHANGED ends /\ n = local[t].ptr /\ local'[t].new = local[t].new
      /\ Referring(t) \/ Leaving(t)
      /\ ~Referring(t)' /\ ~Leaving(t)'
      /\ Remains(t, n, w, o, w2, o2)
    BY DEF Released
<1>3. /\ IsFiniteSet(QRefs(n)')
      /\ i \in Int /\ i + w2["head"][n] + w2["tail"][n] = Cardinality(QRefs(n)')
      /\ e = OwedBy(o2, "head", n) + OwedBy(o2, "tail", n)
    BY <1>1, <1>2, UpdateBalance
<1>4. ~Fresh(n)
    BY <1>2, QLocalsFields, QWorkedOn
<1>5. /\ n # QSecond /\ n \in qalloc /\ n \in qalloc' /\ \A u \in QThreads : local[u].new # n
      /\ OnQ(c, n) => OnList(c, o, n)
      /\ ~OnQ(c, n) => OffList(o, n)
    BY <1>1, <1>4, QBusy DEF QKept
<1>6. \A s \in QSide :
        /\ n \notin o2[s] => /\ w2[s][n] = 0 /\ ends[s].ptr # n
                             /\ \A u \in QThreads \ {t} : ~Leaves(u, s, n)
        /\ n \in o2[s] => n \in o[s] /\ ~Leaves(t, s, n) /\ w2[s][n] = w[s][n]
    BY <1>1, <1>2, RemainsOwed
<1>7. \A s \in QSide : \A u \in QThreads : Leaves(u, s, n)' <=> Leaves(u, s, n) /\ u # t
    BY ReleasedLeaves
<1>8. \A m \in QNodes : m # n => QSame(w, o, w2, o2, m)
    BY ReleasedSame
<1>9. \A s \in QSide : EndCounted(w2, o2, s)'
    <2> SUFFICES ASSUME NEW s \in QSide PROVE EndCounted(w2, o2, s)'
        OBVIOUS
    <2>1. PICK y \in QNodes : y = ends[s].ptr
        BY <1>1, QEnds
    <2>2. EndCounted(w, o, s)
        BY <1>1 DEF Tally
    <2>3. CASE y = n
        BY <1>2, <1>6, <2>1, <2>2, <2>3 DEF EndCounted
    <2>4. CASE y # n
        <3>1. QSame(w, o, w2, o2, y)
            BY <1>8, <2>4
        <3> QED BY <1>2, <2>1, <2>2, <3>1 DEF EndCounted, QSame
    <2> QED BY <2>3, <2>4
<1>10. Calm(t, c, w, o, w2, o2, n)
    BY <1>2, <1>8, <1>9 DEF Calm
<1>11. OnQ(c, n) => OnList(c, o2, n)'
    <2> SUFFICES ASSUME OnQ(c, n) PROVE OnList(c, o2, n)'
        OBVIOUS
    <2>1. /\ n \in o["head"] /\ \A u \in QThreads : ~Leaves(u, "head", n)
          /\ In(c, n) /\ n \in o["tail"] => \E u \in QThreads : Leaves(u, "tail", n)
        BY <1>5 DEF OnList
    <2>2. n \in o2["head"]
        BY <1>2, <2>1, SideFacts DEF Remains
    <2>3. ASSUME In(c, n), n \in o2["tail"] PROVE \E u \in QThreads : Leaves(u, "tail", n)'
        <3>1. n \in o["tail"] /\ ~Leaves(t, "tail", n)
            BY <1>6, <2>3, SideFacts
        <3>2. PICK u \in QThreads : Leaves(u, "tail", n)
            BY <2>1, <2>3, <3>1
        <3> QED BY <1>7, <3>1, <3>2, SideFacts
    <2>4. \A u \in QThreads : ~Leaves(u, "head", n)'
        BY <1>7, <2>1, SideFacts
    <2> QED BY <1>5, <2>2, <2>3, <2>4 DEF OnList
<1>12. ~OnQ(c, n) => OffList(o2, n)'
    <2> SUFFICES ASSUME ~OnQ(c, n) PROVE OffList(o2, n)'
        OBVIOUS
    <2>1. ASSUME NEW s \in QSide, n \in o2[s] PROVE \E u \in QThreads : Leaves(u, s, n)'
        <3>1. n \in o[s] /\ ~Leaves(t, s, n)
            BY <1>6, <2>1
        <3>2. PICK u \in QThreads : Leaves(u, s, n)
            BY <1>5, <3>1 DEF OffList
        <3> QED BY <1>7, <3>1, <3>2
    <2>2. ASSUME \A s \in QSide : n \notin o2[s] PROVE QRefs(n)' # {}
        <3>1. OwedBy(o2, "head", n) = 0 /\ OwedBy(o2, "tail", n) = 0
            BY <2>2, SideFacts DEF OwedBy
        <3>2. e = 0 /\ i # 0
            BY <1>3, <3>1 DEF QKept
        <3>3. w2["head"][n] = 0 /\ w2["tail"][n] = 0
            BY <1>6, <2>2, SideFacts
        <3>4. Cardinality(QRefs(n)') # 0
            BY <1>3, <3>2, <3>3
        <3> QED BY <3>4, FS_EmptySet
    <2> QED BY <2>1, <2>2 DEF OffList
<1>13. Balanced(w2, o2, n)'
    BY <1>3 DEF Balanced, OwedBy, QKept
<1>14. ASSUME NEW s \in QSide
       PROVE  w2[s][n] = 0 \/ ends[s].ptr = n \/ \E u \in QThreads : Leaves(u, s, n)'
    <2>1. CASE n \notin o2[s]
        BY <1>6, <2>1
    <2>2. CASE n \in o2[s]
        <3>1. w2[s][n] = w[s][n] /\ ~Leaves(t, s, n)
            BY <1>6, <2>2
        <3>2. w[s][n] = 0 \/ ends[s].ptr = n \/ \E u \in QThreads : Leaves(u, s, n)
            BY <1>1 DEF Tally
        <3> QED BY <1>7, <3>1, <3>2
    <2> QED BY <2>1, <2>2
<1>15. ASSUME NEW u \in QThreads \ {t}, Leaving(u), local[u].ptr = n PROVE LeaverCounted(w2, o2, u)'
    <2>1. LeaverCounted(w, o, u)
        BY <1>1, <1>15 DEF Tally
    <2>2. PICK s \in QSide : s = local[u].side
        BY QLocalsFields
    <2>3. local'[u] = local[u] /\ Leaves(u, s, n)
        BY <1>2, <1>15, <2>2, QOthers DEF Leaves
    <2>4. n \in o2[s] /\ w2[s][n] = w[s][n]
        BY <1>6, <2>3
    <2>5. \A v \in QThreads : Leaves(v, s, n)' => v = u
        BY <1>7, <1>15, <2>1, <2>2 DEF LeaverCounted
    <2> QED BY <1>2, <1>5, <1>15, <2>1, <2>2, <2>3, <2>4, <2>5 DEF LeaverCounted
<1>16. qnode'[n].next = qnode[n].next
    BY DEF QKept
<1>17. Touched(t, c, w2, o2, n)
    BY <1>2, <1>5, <1>11, <1>12, <1>13, <1>14, <1>15, <1>16 DEF Touched
<1>18. QShape(c, w2, o2)'
    BY <1>10, <1>17, QCalm
<1> QED BY <1>18 DEF Shaped

LEMMA UpdateCountShape ==
    ASSUME QTypeOK, QTypeOK', NEW t \in QThreads, NEW c \in Seq(QNodes),
           \A u \in QThreads : QLocals(u), Shaped(c), free_external_counter(t) \/ release_ref(t)
    PROVE  Shaped(c)'
<1>1. PICK w \in QCount, o \in QOwed : QShape(c, w, o)
    BY DEF Shaped
<1>2. (qpc[t] = "free" /\ free_external_counter(t)) \/ (qpc[t] = "release" /\ release_ref(t))
    BY DEF free_external_counter, release_ref
<1>3. PICK n \in QNodes : n = local[t].ptr
    BY <1>2 DEF QLocals, Referring, Leaving
<1>4. PICK i \in Int, e \in Int, x \in QNodeType : Updated(t, n, i, e, x) /\ Given(t, n, i, e)
    <2>1. CASE qpc[t] = "free"
        <3>1. local[t].old.external_count - 2 \in Int /\ 1 \in Int
            <4>1. local[t].old.external_count \in Int
                BY QLocalsFields
            <4> QED BY <4>1
        <3>2. UpdateCount(t, local[t].old.external_count - 2, 1)
            BY <1>2, <2>1 DEF free_external_counter
        <3>3. PICK x \in QNodeType :
                Updated(t, n, qnode[n].internal_count + (local[t].old.external_count - 2),
                        qnode[n].external_counters - 1, x)
            BY <1>3, <3>1, <3>2, UpdateCountEff
        <3>4. /\ qnode[n].internal_count + (local[t].old.external_count - 2) \in Int
              /\ qnode[n].external_counters - 1 \in Int
            BY <3>1, QLocalsFields
        <3>5. Leaving(t)
            BY <2>1 DEF Leaving
        <3>6. Given(t, n, qnode[n].internal_count + (local[t].old.external_count - 2), qnode[n].external_counters - 1)
            BY <3>5 DEF Given
        <3> QED BY <3>3, <3>4, <3>6
    <2>2. CASE qpc[t] = "release"
        <3>1. UpdateCount(t, -1, 0)
            BY <1>2, <2>2 DEF release_ref
        <3>2. PICK x \in QNodeType :
                Updated(t, n, qnode[n].internal_count + (-1), qnode[n].external_counters - 0, x)
            BY <1>3, <3>1, UpdateCountEff
        <3>3. PICK j \in Int, k \in Int : j = qnode[n].internal_count /\ k = qnode[n].external_counters
            BY QLocalsFields
        <3>4. j + (-1) = j - 1 /\ k - 0 = k /\ j - 1 \in Int
            BY <3>3
        <3>5. Updated(t, n, j - 1, k, x)
            BY <3>2, <3>3, <3>4
        <3>6. Referring(t)
            BY <2>2 DEF Referring
        <3>7. Given(t, n, j - 1, k)
            BY <3>3, <3>6 DEF Given
        <3> QED BY <3>4, <3>5, <3>7
    <2> QED BY <1>2, <2>1, <2>2
<1>5. PICK w2 \in QCount, o2 \in QOwed : Remains(t, n, w, o, w2, o2)
    BY RemainsExists
<1>6. /\ UNCHANGED ends /\ OthersKeep(t) /\ qpc'[t] \in {"idle", "increase"}
      /\ local'[t].new = local[t].new
    <2>1. CASE local[t].done
        <3>1. local[t].new = QNull
            BY <1>2, <2>1, SideFacts, QLocalsFields DEF QLocals
        <3> QED BY <1>4, <2>1, <3>1, QFacts DEF Updated
    <2>2. CASE ~local[t].done
        BY <1>4, <2>2, QLocalsFields DEF Updated, QLocalType
    <2> QED BY <2>1, <2>2
<1>7. Released(t, n, w, o, w2, o2)
    <2>1. ~Referring(t)' /\ ~Leaving(t)' /\ (Referring(t) \/ Leaving(t))
        BY <1>2, <1>6 DEF Referring, Leaving
    <2>2. \A m \in QNodes : m # n => qnode'[m] = qnode[m] /\ (m \in qalloc' <=> m \in qalloc)
        BY <1>4 DEF Updated, QTypeOK
    <2> QED BY <1>3, <1>5, <1>6, <2>1, <2>2 DEF Released
<1>8. CASE i = 0 /\ e = 0
    <2>1. qnode'[n] = QNode /\ qalloc' = qalloc \ {n}
        BY <1>4, <1>8 DEF Updated, QTypeOK
    <2> QED BY <1>1, <1>4, <1>7, <1>8, <2>1, QDeleted
<1>9. CASE ~(i = 0 /\ e = 0)
    <2>1. qnode'[n] = x /\ qalloc' = qalloc
        BY <1>4, <1>9 DEF Updated, QTypeOK
    <2>2. QKept(t, n, i, e)
        BY <1>4, <1>9, <2>1 DEF Updated, QKept
    <2> QED BY <1>1, <1>4, <1>7, <2>2, QReleased
<1> QED BY <1>8, <1>9

-----------------------------------------------------------------------------
(* CountedQueue: an end moves on                                           *)

\* The call t moves end s from n to y: it does not refer to n any more, it leaves n.
Moves(t, s, n, y) ==
    /\ OthersKeep(t) /\ local'[t] = local[t] /\ local[t].side = s /\ local[t].ptr = n
    /\ Referring(t) /\ Leaving(t)' /\ ends[s] = local[t].old /\ ends[s].ptr = n
    /\ ends'[s] = QCounted(1, y) /\ \A r \in QSide : r # s => ends'[r] = ends[r]
    /\ UNCHANGED qnode /\ UNCHANGED qalloc

LEMMA MovesEff ==
    ASSUME NEW t \in QThreads, NEW s \in QSide, NEW n, NEW y, Moves(t, s, n, y)
    PROVE  /\ \A k : k # n => QRefs(k)' = QRefs(k)
           /\ \A r, k : \A u \in QThreads :
                Leaves(u, r, k)' <=> (Leaves(u, r, k) \/ (u = t /\ r = s /\ k = n))
           /\ QRefs(n)' = QRefs(n) \ {t} /\ t \in QRefs(n) /\ ~Leaving(t) /\ ~Referring(t)'
<1>1. /\ OthersKeep(t) /\ local'[t].side = s /\ local'[t].ptr = n /\ Leaving(t)'
      /\ Referring(t) /\ local[t].ptr = n
    BY DEF Moves
<1>2. ~Leaving(t) /\ ~Referring(t)'
    BY <1>1 DEF Leaving, Referring
<1>3. ASSUME NEW k PROVE QRefs(k)' = QRefs(k) \ {t}
    BY <1>1, <1>2, QRefsStep
<1>4. t \in QRefs(n) /\ \A k : k # n => t \notin QRefs(k)
    BY <1>1 DEF QRefs
<1>5. ASSUME NEW r, NEW k, NEW u \in QThreads
      PROVE  Leaves(u, r, k)' <=> (Leaves(u, r, k) \/ (u = t /\ r = s /\ k = n))
    <2>1. CASE u = t
        <3>1. ~Leaves(t, r, k)
            BY <1>2 DEF Leaves
        <3>2. Leaves(t, r, k)' <=> r = s /\ k = n
            BY <1>1 DEF Leaves
        <3> QED BY <2>1, <3>1, <3>2
    <2>2. CASE u # t
        BY <1>1, <2>2, QOthers
    <2> QED BY <2>1, <2>2
<1> QED BY <1>2, <1>3, <1>4, <1>5

LEMMA MovesTally ==
    ASSUME QTypeOK, NEW t \in QThreads, NEW s \in QSide, NEW n \in QNodes, NEW y \in QNodes,
           \A u \in QThreads : QLocals(u), NEW w \in QCount, NEW o \in QOwed, Tally(w, o),
           Moves(t, s, n, y), n \in qalloc, y # n, y \in o[s], \A u \in QThreads : ~Leaves(u, s, y)
    PROVE  \E w2 \in QCount : Tally(w2, o)'
<1>1. /\ OthersKeep(t) /\ local'[t] = local[t] /\ local[t].side = s /\ local[t].ptr = n
      /\ ends[s] = local[t].old /\ ends[s].ptr = n
      /\ ends'[s] = QCounted(1, y) /\ \A r \in QSide : r # s => ends'[r] = ends[r]
      /\ UNCHANGED qnode /\ UNCHANGED qalloc
    BY DEF Moves
<1>2. /\ \A k : k # n => QRefs(k)' = QRefs(k)
      /\ \A r, k : \A u \in QThreads :
            Leaves(u, r, k)' <=> (Leaves(u, r, k) \/ (u = t /\ r = s /\ k = n))
      /\ QRefs(n)' = QRefs(n) \ {t} /\ t \in QRefs(n) /\ ~Leaving(t)
    BY MovesEff
<1>3. ends'[s].ptr = y /\ ends'[s].external_count = 1
    BY <1>1 DEF QCounted
<1>4. PICK w2 \in QCount : \A r \in QSide, m \in QNodes :
        w2[r][m] = IF r = s /\ m = n THEN w[r][m] - 1 ELSE w[r][m]
    <2>1. PICK f : f = [r \in QSide |-> [m \in QNodes |-> IF r = s /\ m = n THEN w[r][m] - 1 ELSE w[r][m]]]
        OBVIOUS
    <2>2. \A r \in QSide, m \in QNodes : w[r][m] \in Int
        BY DEF QCount
    <2>3. f \in QCount
        BY <2>1, <2>2 DEF QCount
    <2> QED BY <2>1, <2>3
<1>5. n \in o[s] /\ w[s][n] = ends[s].external_count - 1 /\ \A u \in QThreads : ~Leaves(u, s, n)
    <2>1. n \in o[s] /\ w[s][n] = ends[s].external_count - 1
        BY <1>1 DEF Tally, EndCounted
    <2>2. \A u \in QThreads : ~Leaves(u, s, n)
        BY <1>1 DEF Tally, LeaverCounted, Leaves
    <2> QED BY <2>1, <2>2
<1>6. w[s][y] = 0
    BY <1>1 DEF Tally
<1>7. \A m \in QNodes : m # n => QEven(w, o, w2, o, m)
    <2> SUFFICES ASSUME NEW m \in QNodes, m # n PROVE QEven(w, o, w2, o, m)
        OBVIOUS
    <2>1. \A r \in QSide : w2[r][m] = w[r][m]
        BY <1>4
    <2> QED BY <1>1, <1>2, <2>1 DEF QEven
<1>8. Balanced(w2, o, n)'
    <2>1. Balanced(w, o, n)
        BY DEF Tally
    <2>2. PICK i \in Int, a \in Int, b \in Int, r \in Int :
            /\ i = qnode[n].internal_count /\ a = w["head"][n] /\ b = w["tail"][n]
            /\ r = Cardinality(QRefs(n)) /\ i + a + b = r
        <3>1. Cardinality(QRefs(n)) \in Int
            BY <2>1, FS_CardinalityType DEF Balanced
        <3> QED BY <2>1, <3>1, QLocalsFields, SideFacts DEF QCount, Balanced
    <2>3. IsFiniteSet(QRefs(n)') /\ Cardinality(QRefs(n)') = r - 1
        BY <1>2, <2>1, <2>2, FS_RemoveElement DEF Balanced
    <2>4. i + w2["head"][n] + w2["tail"][n] = r - 1
        <3>1. CASE s = "head"
            <4>1. w2["head"][n] = a - 1 /\ w2["tail"][n] = b
                BY <1>4, <2>2, <3>1, SideFacts
            <4> QED BY <2>2, <4>1
        <3>2. CASE s = "tail"
            <4>1. w2["head"][n] = a /\ w2["tail"][n] = b - 1
                BY <1>4, <2>2, <3>2, SideFacts
            <4> QED BY <2>2, <4>1
        <3> QED BY <3>1, <3>2, SideFacts
    <2> QED BY <1>1, <2>1, <2>2, <2>3, <2>4 DEF Balanced
<1>9. \A r \in QSide : EndCounted(w2, o, r)'
    <2> SUFFICES ASSUME NEW r \in QSide PROVE EndCounted(w2, o, r)'
        OBVIOUS
    <2>1. CASE r = s
        <3>1. w2[s][y] = 1 - 1
            BY <1>4, <1>6
        <3> QED BY <1>3, <2>1, <3>1 DEF EndCounted
    <2>2. CASE r # s
        <3>1. EndCounted(w, o, r)
            BY DEF Tally
        <3>2. ends[r].ptr \in QNodes
            BY <3>1 DEF EndCounted, QOwed
        <3> QED BY <1>1, <1>4, <2>2, <3>1, <3>2 DEF EndCounted
    <2> QED BY <2>1, <2>2
<1>10. LeaverCounted(w2, o, t)'
    <2>1. PICK k \in Int : k = local[t].old.external_count
        BY QLocalsFields
    <2>2. w2[s][n] = k - 2
        <3>1. w[s][n] = k - 1
            BY <1>1, <1>5, <2>1
        <3>2. w2[s][n] = w[s][n] - 1
            BY <1>4
        <3> QED BY <3>1, <3>2
    <2>3. \A u \in QThreads : Leaves(u, s, n)' => u = t
        BY <1>2, <1>5
    <2> QED BY <1>1, <1>3, <1>5, <2>1, <2>2, <2>3 DEF LeaverCounted
<1>11. ASSUME NEW u \in QThreads \ {t}, Leaving(u)
       PROVE  /\ local[u].ptr \in qalloc' /\ ends'[local[u].side].ptr # local[u].ptr
              /\ local[u].ptr = n => LeaverCounted(w2, o, u)'
    <2>1. PICK m \in QAddress, r \in QSide : m = local[u].ptr /\ r = local[u].side
        BY QLocalsFields
    <2>2. LeaverCounted(w, o, u) /\ Leaves(u, r, m) /\ local'[u] = local[u]
        BY <1>1, <1>11, <2>1, QOthers DEF Tally, Leaves
    <2>3. m \in qalloc' /\ ends[r].ptr # m
        BY <1>1, <2>1, <2>2 DEF LeaverCounted
    <2>4. ends'[r].ptr # m
        <3>1. CASE r = s
            BY <1>3, <2>2, <3>1
        <3>2. CASE r # s
            BY <1>1, <2>3, <3>2
        <3> QED BY <3>1, <3>2
    <2>5. ASSUME m = n PROVE LeaverCounted(w2, o, u)'
        <3>1. r # s
            BY <1>5, <2>2, <2>5
        <3>2. w2[r][n] = w[r][n]
            BY <1>4, <3>1
        <3>3. \A v \in QThreads : Leaves(v, r, n)' => v = u
            BY <1>2, <2>1, <2>2, <2>5, <3>1 DEF LeaverCounted
        <3> QED BY <2>1, <2>2, <2>3, <2>4, <2>5, <3>2, <3>3 DEF LeaverCounted
    <2> QED BY <2>1, <2>3, <2>4, <2>5
<1>12. ASSUME NEW r \in QSide
       PROVE  w2[r][n] = 0 \/ ends'[r].ptr = n \/ \E u \in QThreads : Leaves(u, r, n)'
    <2>1. CASE r = s
        BY <1>2, <2>1
    <2>2. CASE r # s
        BY <1>1, <1>2, <1>4, <2>2 DEF Tally
    <2> QED BY <2>1, <2>2
<1>13. \A r \in QSide : ends'[r].ptr # ends[r].ptr => ends[r].ptr = n
    BY <1>1
<1>14. Shifted(t, w, o, w2, o, n)
    BY <1>1, <1>7, <1>8, <1>9, <1>10, <1>11, <1>12, <1>13 DEF Shifted
<1>15. Tally(w2, o)'
    BY <1>14, TallyKept
<1> QED BY <1>15

\* A list that ends in the node behind its last one.
LEMMA ListAppend ==
    ASSUME NEW N, NEW first, NEW links, NEW last, NEW c \in Seq(N), last \in N,
           Linked(first, links, last, c)
    PROVE  /\ Append(c, last) \in Seq(N) /\ Linked(first, links, links[last], Append(c, last))
           /\ \A e : In(Append(c, last), e) <=> In(c, e) \/ e = last
           /\ Once(c) /\ ~In(c, last) => Once(Append(c, last))
<1>1. PICK k \in Nat : k = Len(c)
    BY LenProperties
<1>2. PICK u : u = Append(c, last)
    OBVIOUS
<1>3. /\ DOMAIN c = 1 .. k /\ (c = <<>> <=> k = 0)
      /\ u \in Seq(N) /\ Len(u) = k + 1 /\ u[k + 1] = last
      /\ \A i \in 1 .. k : u[i] = c[i]
      /\ DOMAIN u = 1 .. k + 1 /\ u # <<>>
    BY <1>1, <1>2, LenProperties, EmptySeq, AppendProperties
<1>4. u[1] = first
    <2>1. CASE k = 0
        BY <1>3, <2>1 DEF Linked
    <2>2. CASE k # 0
        <3>1. 1 \in 1 .. k
            BY <2>2
        <3> QED BY <1>3, <2>2, <3>1 DEF Linked
    <2> QED BY <2>1, <2>2
<1>5. ASSUME NEW i \in 1 .. k + 1 PROVE links[u[i]] = IF i = k + 1 THEN links[last] ELSE u[i + 1]
    <2>1. CASE i = k + 1
        BY <1>3, <2>1
    <2>2. CASE i # k + 1
        <3>1. i \in 1 .. k
            BY <2>2
        <3>2. links[c[i]] = IF i = k THEN last ELSE c[i + 1]
            BY <1>1, <1>3, <3>1 DEF Linked
        <3>3. i # k => i + 1 \in 1 .. k
            BY <3>1
        <3> QED BY <1>3, <2>2, <3>1, <3>2, <3>3
    <2> QED BY <2>1, <2>2
<1>6. Linked(first, links, links[last], u)
    BY <1>3, <1>4, <1>5 DEF Linked
<1>7. ASSUME NEW e PROVE In(u, e) <=> In(c, e) \/ e = last
    <2>1. In(u, e) => In(c, e) \/ e = last
        <3> SUFFICES ASSUME In(u, e) PROVE In(c, e) \/ e = last
            OBVIOUS
        <3>1. PICK i \in 1 .. k + 1 : u[i] = e
            BY <1>3 DEF In
        <3>2. i = k + 1 \/ i \in 1 .. k
            OBVIOUS
        <3> QED BY <1>3, <3>1, <3>2 DEF In
    <2>2. In(c, e) => In(u, e)
        <3> SUFFICES ASSUME In(c, e) PROVE In(u, e)
            OBVIOUS
        <3>1. PICK i \in 1 .. k : c[i] = e
            BY <1>3 DEF In
        <3>2. i \in 1 .. k + 1 /\ u[i] = e
            BY <1>3, <3>1
        <3> QED BY <1>3, <3>2 DEF In
    <2>3. e = last => In(u, e)
        <3>1. k + 1 \in 1 .. k + 1
            OBVIOUS
        <3> QED BY <1>3, <3>1 DEF In
    <2> QED BY <2>1, <2>2, <2>3
<1>8. ASSUME Once(c), ~In(c, last) PROVE Once(u)
    <2> SUFFICES ASSUME NEW i \in 1 .. k + 1, NEW j \in 1 .. k + 1, u[i] = u[j] PROVE i = j
        BY <1>3 DEF Once
    <2>1. \A m \in 1 .. k : u[m] # last
        BY <1>3, <1>8 DEF In
    <2>2. (i \in 1 .. k \/ i = k + 1) /\ (j \in 1 .. k \/ j = k + 1)
        OBVIOUS
    <2>3. i \in 1 .. k /\ j \in 1 .. k => i = j
        BY <1>3, <1>8 DEF Once
    <2> QED BY <1>3, <2>1, <2>2, <2>3
<1> QED BY <1>2, <1>3, <1>6, <1>7, <1>8

LEMMA QForwardNode ==
    ASSUME NEW f \in QForward, f # QNoPtr
    PROVE  f.ptr \in QNodes /\ f = QCounted(1, f.ptr)
<1>1. PICK m \in QNodes : f = QCounted(1, m)
    BY DEF QForward
<1>2. f.ptr = m
    BY <1>1 DEF QCounted
<1> QED BY <1>1, <1>2

\* Both ends have still to be accounted for in a fresh node.
LEMMA QFreshOwed ==
    ASSUME QTypeOK, NEW w, NEW o, Tally(w, o), NEW y \in QNodes, Fresh(y)
    PROVE  /\ \A s \in QSide : y \in o[s] /\ \A u \in QThreads : ~Leaves(u, s, y)
           /\ \A u \in QThreads : local[u].ptr = y => ~Referring(u) /\ ~Leaving(u)
<1>1. qnode[y].external_counters = 2
    BY QFacts DEF Fresh
<1>2. 2 = OwedBy(o, "head", y) + OwedBy(o, "tail", y)
    BY <1>1 DEF Tally, Balanced, OwedBy
<1>3. y \in o["head"] /\ y \in o["tail"]
    BY <1>2 DEF OwedBy
<1>4. \A u \in QThreads : local[u].ptr = y => ~Referring(u) /\ ~Leaving(u)
    BY QWorkedOn, QLocalsFields
<1> QED BY <1>3, <1>4, SideFacts DEF Fresh

\* The tail moves to the node that has been linked behind its node.
LEMMA QTailMoved ==
    ASSUME QTypeOK, NEW t \in QThreads, NEW c \in Seq(QNodes),
           \A u \in QThreads : QLocals(u), NEW w \in QCount, NEW o \in QOwed, QShape(c, w, o),
           set_new_tail(t), ends["tail"] = local[t].old
    PROVE  /\ QSecond \in QNodes /\ QLast = local[t].ptr /\ Moves(t, "tail", QLast, QSecond)
           /\ local[t].side = "tail" /\ QLast' = QSecond /\ QLast # QSecond /\ Fresh(QSecond)
           /\ qnode[QLast].next # QNoPtr
<1>1. /\ UNCHANGED qnode /\ UNCHANGED qalloc /\ OthersKeep(t) /\ qpc[t] = "set_tail"
      /\ ends' = [ends EXCEPT !["tail"] = local[t].next]
      /\ qpc'[t] = "free" /\ local'[t] = local[t]
    BY set_new_tailEff
<1>2. Referring(t) /\ Leaving(t)'
    BY <1>1 DEF Referring, Leaving
<1>3. PICK n \in QNodes : n = QLast
    BY DEF QShape, QChain
<1>4. n = local[t].ptr /\ local[t].side = "tail" /\ ends["tail"].ptr = n
    BY <1>1, <1>3 DEF QLocals, QLast
<1>5. local[t].next = qnode[n].next /\ qnode[n].next # QNoPtr
    BY <1>1, <1>2, <1>4 DEF QShape, QRefers
<1>6. PICK y : y = QSecond
    OBVIOUS
<1>7. y \in QNodes /\ qnode[n].next = QCounted(1, y)
    <2>1. qnode[n].next \in QForward
        BY QLocalsFields
    <2> QED BY <1>3, <1>5, <1>6, <2>1, QForwardNode DEF QSecond
<1>8. y # n /\ Fresh(y)
    BY <1>3, <1>6, <1>7, QFacts DEF QShape, QChain
<1>9. ends'["tail"] = QCounted(1, y) /\ \A r \in QSide : r # "tail" => ends'[r] = ends[r]
    BY <1>1, <1>5, <1>7, SideFacts DEF QTypeOK
<1>10. QLast' = y
    BY <1>9 DEF QLast, QCounted
<1>11. Moves(t, "tail", n, y)
    BY <1>1, <1>2, <1>4, <1>9 DEF Moves
<1> QED BY <1>3, <1>4, <1>5, <1>6, <1>7, <1>8, <1>10, <1>11

LEMMA QTailShape ==
    ASSUME QTypeOK, QTypeOK', NEW t \in QThreads, NEW c \in Seq(QNodes), NEW n \in QNodes, n = QLast,
           \A u \in QThreads : QLocals(u), Shaped(c), set_new_tail(t), ends["tail"] = local[t].old
    PROVE  Append(c, n) \in Seq(QNodes) /\ Shaped(Append(c, n))'
<1>1. PICK w \in QCount, o \in QOwed : QShape(c, w, o)
    BY DEF Shaped
<1>2. /\ QChain(c) /\ QPlaced(c, o) /\ Tally(w, o)
      /\ \A u \in QThreads : Referring(u) => QRefers(c, u)
    BY <1>1 DEF QShape
<1>3. PICK y \in QNodes : y = QSecond
    BY <1>1, QTailMoved
<1>4. /\ n = local[t].ptr /\ Moves(t, "tail", n, y)
      /\ local[t].side = "tail" /\ QLast' = y /\ n # y /\ Fresh(y)
      /\ qnode[n].next # QNoPtr
    BY <1>1, <1>3, QTailMoved
<1>5. /\ OthersKeep(t) /\ local'[t] = local[t] /\ Referring(t)
      /\ \A r \in QSide : r # "tail" => ends'[r] = ends[r]
      /\ UNCHANGED qnode /\ UNCHANGED qalloc
    BY <1>4 DEF Moves
<1>6. /\ \A k : k # n => QRefs(k)' = QRefs(k)
      /\ \A r, k : \A u \in QThreads :
            Leaves(u, r, k)' <=> (Leaves(u, r, k) \/ (u = t /\ r = "tail" /\ k = n))
      /\ QRefs(n)' = QRefs(n) \ {t} /\ t \in QRefs(n) /\ ~Referring(t)'
    BY <1>4, MovesEff, SideFacts
<1>7. /\ \A s \in QSide : y \in o[s] /\ \A u \in QThreads : ~Leaves(u, s, y)
      /\ \A u \in QThreads : local[u].ptr = y => ~Referring(u) /\ ~Leaving(u)
    BY <1>2, <1>4, QFreshOwed
<1>8. n \in qalloc /\ y \in qalloc /\ OnQ(c, n) /\ OnQ(c, y) /\ n \in o["head"] /\ y # QNull
    BY <1>2, <1>3, QFacts DEF QPlaced, OnList, OnQ
<1>9. PICK w2 \in QCount : Tally(w2, o)'
    BY <1>2, <1>4, <1>7, <1>8, MovesTally, SideFacts
<1>10. PICK d : d = Append(c, n)
    OBVIOUS
<1>11. \A k \in QNodes : k # n /\ Fresh(k) => Fresh(k)'
    BY <1>5, <1>6 DEF Fresh
<1>12. PICK links, first : links = QLinks /\ first = ends["head"].ptr
    OBVIOUS
<1>13. links[n] = y
    BY <1>3, <1>12 DEF QLinks, QSecond
<1>14. /\ d \in Seq(QNodes) /\ Linked(first, links, y, d) /\ Once(d)
       /\ \A e : In(d, e) <=> In(c, e) \/ e = n
    BY <1>2, <1>10, <1>12, <1>13, ListAppend DEF QChain
<1>15. QChain(d)'
    <2>1. QLinks' = links /\ ends'["head"].ptr = first
        BY <1>5, <1>12, SideFacts DEF QLinks
    <2>2. QSecond' = QNull
        BY <1>4, <1>5, QFacts DEF QSecond, Fresh
    <2>3. ~In(d, y)
        BY <1>2, <1>3, <1>4, <1>8, <1>14 DEF QChain
    <2> QED BY <1>4, <1>14, <2>1, <2>2, <2>3 DEF QChain
<1>16. \A k \in QNodes : OnQ(d, k)' <=> OnQ(c, k)
    <2>1. QSecond' = QNull
        BY <1>4, <1>5, QFacts DEF QSecond, Fresh
    <2> QED BY <1>3, <1>4, <1>14, <2>1, QFacts DEF OnQ
<1>17. QPlaced(d, o)'
    <2>1. ASSUME NEW k \in QNodes, OnQ(d, k)' PROVE OnList(d, o, k)'
        <3>1. OnList(c, o, k)
            BY <1>2, <1>16, <2>1 DEF QPlaced
        <3>2. \A u \in QThreads : ~Leaves(u, "head", k)'
            BY <1>6, <3>1 DEF OnList
        <3>3. ASSUME In(d, k), k \in o["tail"] PROVE \E u \in QThreads : Leaves(u, "tail", k)'
            <4>1. CASE k = n
                BY <1>6, <4>1
            <4>2. CASE k # n
                <5>1. PICK u \in QThreads : Leaves(u, "tail", k)
                    BY <1>14, <3>1, <3>3, <4>2 DEF OnList
                <5> QED BY <1>6, <5>1
            <4> QED BY <4>1, <4>2
        <3> QED BY <1>5, <3>1, <3>2, <3>3 DEF OnList
    <2>2. \A u \in QThreads : local'[u] = local[u]
        BY <1>5, QOthers
    <2>3. ASSUME NEW u \in QThreads, local[u].new # QNull PROVE NewNode(d, u)'
        <3>1. PICK k \in QNodes : k = local[u].new
            BY <2>3, QLocalsFields DEF QAddress
        <3>2. /\ k \in qalloc /\ ~OnQ(c, k) /\ Fresh(k)
              /\ \A v \in QThreads : local[v].new = k => v = u
            BY <1>2, <2>3, <3>1 DEF QPlaced, NewNode
        <3>3. ~OnQ(d, k)' /\ Fresh(k)'
            BY <1>8, <1>11, <1>16, <3>2
        <3> QED BY <1>5, <2>2, <3>1, <3>2, <3>3 DEF NewNode
    <2>4. \A k \in QNodes : k \notin qalloc' => Fresh(k)'
        BY <1>2, <1>5, <1>8, <1>11 DEF QPlaced
    <2>5. ASSUME NEW k \in qalloc'
          PROVE  OnQ(d, k)' \/ (\E u \in QThreads : local'[u].new = k) \/ OffList(o, k)'
        <3>1. k \in QNodes /\ k \in qalloc
            BY <1>5 DEF QTypeOK
        <3>2. CASE OnQ(c, k) \/ \E u \in QThreads : local[u].new = k
            BY <1>16, <2>2, <3>1, <3>2
        <3>3. CASE ~OnQ(c, k) /\ OffList(o, k)
            <4>1. k # n
                BY <1>8, <3>3
            <4>2. /\ \A s \in QSide : k \in o[s] => \E u \in QThreads : Leaves(u, s, k)
                  /\ (\A s \in QSide : k \notin o[s]) => QRefs(k) # {}
                BY <3>3 DEF OffList
            <4>3. \A s \in QSide : k \in o[s] => \E u \in QThreads : Leaves(u, s, k)'
                BY <1>6, <4>2
            <4> QED BY <1>6, <4>1, <4>2, <4>3 DEF OffList
        <3> QED BY <1>2, <3>1, <3>2, <3>3 DEF QPlaced
    <2> QED BY <2>1, <2>2, <2>3, <2>4, <2>5 DEF QPlaced
<1>18. ASSUME NEW u \in QThreads, Referring(u)' PROVE QRefers(d, u)'
    <2>1. u # t /\ Referring(u) /\ local'[u] = local[u] /\ qpc'[u] = qpc[u]
        BY <1>5, <1>6, <1>18, QOthers
    <2>2. PICK k \in QNodes : k = local[u].ptr
        BY <2>1 DEF QLocals
    <2>3. QRefers(c, u) /\ k # y
        BY <1>2, <1>7, <2>1, <2>2
    <2>4. k = QLast => qnode[k].next # QNoPtr
        BY <1>4
    <2>5. local[u].side = "head" => k = ends'["head"].ptr \/ ~OnQ(d, k)'
        BY <1>5, <1>16, <2>2, <2>3, SideFacts DEF QRefers
    <2> QED BY <1>4, <1>5, <2>1, <2>2, <2>3, <2>4, <2>5 DEF QRefers
<1>19. QShape(d, w2, o)'
    BY <1>9, <1>15, <1>17, <1>18 DEF QShape
<1> QED BY <1>10, <1>14, <1>19 DEF Shaped

\* The head moves to the next node, which is on the list.
LEMMA QHeadMoved ==
    ASSUME QTypeOK, NEW t \in QThreads, NEW c \in Seq(QNodes),
           \A u \in QThreads : QLocals(u), NEW w \in QCount, NEW o \in QOwed, QShape(c, w, o),
           Unlink(t), ends["head"] = local[t].old,
           NEW n \in QNodes, n = local[t].ptr, NEW y, y = qnode[n].next.ptr
    PROVE  /\ y \in QNodes /\ Moves(t, "head", n, y) /\ local[t].side = "head"
           /\ n # QLast /\ c # <<>> /\ Head(c) = n /\ Tail(c) \in Seq(QNodes)
           /\ Linked(y, QLinks, QLast, Tail(c))
           /\ In(Tail(c), y) \/ y = QLast
<1>1. /\ UNCHANGED qnode /\ UNCHANGED qalloc /\ OthersKeep(t) /\ qpc[t] = "unlink"
      /\ ends' = [ends EXCEPT !["head"] = local[t].next]
      /\ qpc'[t] = "exchange" /\ local'[t] = local[t]
    BY UnlinkEff
<1>2. Referring(t) /\ Leaving(t)'
    BY <1>1 DEF Referring, Leaving
<1>3. local[t].side = "head" /\ ends["head"].ptr = n
    BY <1>1 DEF QLocals
<1>4. n # QLast /\ local[t].next = qnode[n].next
    BY <1>1, <1>2 DEF QShape, QRefers
<1>5. PICK last \in QNodes, links \in {QLinks} : last = QLast /\ links = QLinks
    BY DEF QShape, QChain
<1>6. Linked(n, links, last, c) /\ Once(c)
    BY <1>3, <1>5 DEF QShape, QChain
<1>7. links[n] = y
    BY <1>5 DEF QLinks
<1>8. c # <<>> /\ c[1] = n
    BY <1>4, <1>5, <1>6 DEF Linked
<1>9. Head(c) = n /\ Tail(c) \in Seq(QNodes) /\ Linked(y, links, last, Tail(c))
    <2>1. Head(c) \in QNodes /\ Tail(c) \in Seq(QNodes) /\ Head(c) = n
        BY <1>8, TailIn, HeadTailProperties
    <2>2. PICK k \in Nat \ {0} : k = Len(c)
        BY <1>8, LenProperties, EmptySeq
    <2>3. /\ DOMAIN c = 1 .. k /\ Len(Tail(c)) = k - 1 /\ DOMAIN Tail(c) = 1 .. k - 1
          /\ \A i \in 1 .. k - 1 : Tail(c)[i] = c[i + 1]
        BY <1>8, <2>1, <2>2, HeadTailProperties, LenProperties
    <2>4. Tail(c) = <<>> <=> k = 1
        <3>1. Tail(c) = <<>> <=> Len(Tail(c)) = 0
            BY <2>1, EmptySeq
        <3> QED BY <2>2, <2>3, <3>1
    <2>5. \A i \in 1 .. k : links[c[i]] = IF i = k THEN last ELSE c[i + 1]
        BY <1>6, <2>2, <2>3 DEF Linked
    <2>6. y = IF Tail(c) = <<>> THEN last ELSE Tail(c)[1]
        <3>1. 1 \in 1 .. k /\ (k # 1 => 1 \in 1 .. k - 1)
            BY <2>2
        <3> QED BY <1>7, <1>8, <2>3, <2>4, <2>5, <3>1
    <2>7. \A i \in 1 .. k - 1 : links[Tail(c)[i]] = IF i = k - 1 THEN last ELSE Tail(c)[i + 1]
        <3> SUFFICES ASSUME NEW i \in 1 .. k - 1
                     PROVE  links[Tail(c)[i]] = IF i = k - 1 THEN last ELSE Tail(c)[i + 1]
            OBVIOUS
        <3>1. i + 1 \in 1 .. k /\ (i # k - 1 => i + 1 \in 1 .. k - 1) /\ (i = k - 1 <=> i + 1 = k)
            BY <2>2
        <3> QED BY <2>3, <2>5, <3>1
    <2> QED BY <2>1, <2>3, <2>6, <2>7 DEF Linked
<1>10. In(Tail(c), y) \/ y = last
    <2>1. Tail(c) # <<>> => 1 \in DOMAIN Tail(c)
        <3>1. DOMAIN Tail(c) = 1 .. Len(Tail(c)) /\ Len(Tail(c)) \in Nat /\ (Tail(c) = <<>> <=> Len(Tail(c)) = 0)
            BY <1>9, LenProperties, EmptySeq
        <3> QED BY <3>1
    <2> QED BY <1>9, <2>1 DEF Linked, In
<1>11. y \in QNodes
    BY <1>5, <1>9, <1>10, ElementOfSeq, LenProperties DEF In
<1>12. qnode[n].next = QCounted(1, y)
    <2>1. qnode[n].next \in QForward
        BY QLocalsFields
    <2>2. qnode[n].next # QNoPtr
        BY <1>11, QFacts
    <2> QED BY <2>1, <2>2, QForwardNode
<1>13. ends'["head"] = QCounted(1, y) /\ \A r \in QSide : r # "head" => ends'[r] = ends[r]
    BY <1>1, <1>4, <1>12, SideFacts DEF QTypeOK
<1>14. ends["head"] = local[t].old
    OBVIOUS
<1>15. Moves(t, "head", n, y)
    BY <1>1, <1>2, <1>3, <1>13, <1>14 DEF Moves
<1> QED BY <1>3, <1>4, <1>5, <1>8, <1>9, <1>10, <1>11, <1>15

LEMMA QHeadShape ==
    ASSUME QTypeOK, QTypeOK', NEW t \in QThreads, NEW c \in Seq(QNodes),
           \A u \in QThreads : QLocals(u), Shaped(c), Unlink(t), ends["head"] = local[t].old
    PROVE  c # <<>> /\ Head(c) = local[t].ptr /\ Tail(c) \in Seq(QNodes) /\ Shaped(Tail(c))'
<1>1. PICK w \in QCount, o \in QOwed : QShape(c, w, o)
    BY DEF Shaped
<1>2. /\ QChain(c) /\ QPlaced(c, o) /\ Tally(w, o)
      /\ \A u \in QThreads : Referring(u) => QRefers(c, u)
    BY <1>1 DEF QShape
<1>3. PICK n \in QNodes : n = local[t].ptr
    <2>1. qpc[t] = "unlink"
        BY DEF Unlink
    <2> QED BY <2>1 DEF QLocals, Referring
<1>4. PICK y : y = qnode[n].next.ptr
    OBVIOUS
<1>5. /\ y \in QNodes /\ Moves(t, "head", n, y) /\ local[t].side = "head"
      /\ n # QLast /\ c # <<>> /\ Head(c) = n /\ Tail(c) \in Seq(QNodes)
      /\ Linked(y, QLinks, QLast, Tail(c))
      /\ In(Tail(c), y) \/ y = QLast
    BY <1>1, <1>3, <1>4, QHeadMoved
<1>6. /\ OthersKeep(t) /\ local'[t] = local[t] /\ Referring(t)
      /\ ends'["head"] = QCounted(1, y) /\ ends["head"].ptr = n
      /\ \A r \in QSide : r # "head" => ends'[r] = ends[r]
      /\ UNCHANGED qnode /\ UNCHANGED qalloc
    BY <1>5 DEF Moves
<1>7. /\ \A k : k # n => QRefs(k)' = QRefs(k)
      /\ \A r, k : \A u \in QThreads :
            Leaves(u, r, k)' <=> (Leaves(u, r, k) \/ (u = t /\ r = "head" /\ k = n))
      /\ QRefs(n)' = QRefs(n) \ {t} /\ t \in QRefs(n) /\ ~Referring(t)'
    BY <1>5, MovesEff, SideFacts
<1>8. PICK d \in Seq(QNodes) : d = Tail(c)
    BY <1>5
<1>9. Once(d) /\ In(c, n) /\ \A e : In(d, e) <=> In(c, e) /\ e # n
    BY <1>2, <1>5, <1>8, TailIn DEF QChain
<1>10. QLast' = QLast /\ QSecond' = QSecond
    BY <1>6, SideFacts DEF QLast, QSecond
<1>11. n # QSecond
    BY <1>2, <1>3, <1>9, QFacts DEF QChain
<1>12. \A k \in QNodes : OnQ(d, k)' <=> OnQ(c, k) /\ k # n
    BY <1>5, <1>9, <1>10, <1>11 DEF OnQ
<1>13. OnQ(c, y) /\ OnQ(c, n) /\ y # n
    BY <1>5, <1>8, <1>9 DEF OnQ
<1>14. OnList(c, o, y) /\ OnList(c, o, n)
    BY <1>2, <1>5, <1>13 DEF QPlaced
<1>15. PICK w2 \in QCount : Tally(w2, o)'
    <2>1. y \in o["head"] /\ n \in qalloc /\ \A u \in QThreads : ~Leaves(u, "head", y)
        BY <1>14 DEF OnList
    <2> QED BY <1>2, <1>5, <1>13, <2>1, MovesTally, SideFacts
<1>16. \A k \in QNodes : k # n /\ Fresh(k) => Fresh(k)'
    BY <1>6, <1>7 DEF Fresh
<1>17. QChain(d)'
    <2>1. QLinks' = QLinks /\ ends'["head"].ptr = y
        BY <1>6 DEF QLinks, QCounted
    <2>2. PICK z : z = QSecond
        OBVIOUS
    <2>3. z # QNull => z # QLast /\ ~In(d, z) /\ Fresh(z)'
        <3> SUFFICES ASSUME z # QNull PROVE z # QLast /\ ~In(d, z) /\ Fresh(z)'
            OBVIOUS
        <3>1. z # QLast /\ ~In(c, z) /\ Fresh(z)
            BY <1>2, <2>2 DEF QChain
        <3>2. z \in QNodes
            <4>1. QLast \in QNodes
                BY <1>2 DEF QChain
            <4>2. qnode[QLast].next \in QForward
                BY <4>1, QLocalsFields
            <4> QED BY <2>2, <4>2, QFacts DEF QSecond
        <3> QED BY <1>9, <1>11, <1>16, <2>2, <3>1, <3>2
    <2>4. QSecond' = z
        BY <1>10, <2>2
    <2>5. QLast \in QNodes /\ ~In(d, QLast)
        BY <1>2, <1>9 DEF QChain
    <2>6. QSecond' # QNull => QSecond' # QLast' /\ ~In(d, QSecond') /\ Fresh(QSecond)'
        BY <1>10, <2>3, <2>4
    <2>7. Linked(ends'["head"].ptr, QLinks', QLast', d)
        BY <1>5, <1>8, <1>10, <2>1
    <2> QED BY <1>9, <1>10, <2>5, <2>6, <2>7 DEF QChain
<1>18. QPlaced(d, o)'
    <2>1. ASSUME NEW k \in QNodes, OnQ(d, k)' PROVE OnList(d, o, k)'
        <3>1. OnList(c, o, k) /\ k # n
            BY <1>2, <1>12, <2>1 DEF QPlaced
        <3> QED BY <1>6, <1>7, <1>9, <3>1 DEF OnList
    <2>2. \A u \in QThreads : local'[u] = local[u]
        BY <1>6, QOthers
    <2>3. ASSUME NEW u \in QThreads, local[u].new # QNull PROVE NewNode(d, u)'
        <3>1. PICK k \in QNodes : k = local[u].new
            BY <2>3, QLocalsFields DEF QAddress
        <3>2. /\ k \in qalloc /\ ~OnQ(c, k) /\ Fresh(k)
              /\ \A v \in QThreads : local[v].new = k => v = u
            BY <1>2, <2>3, <3>1 DEF QPlaced, NewNode
        <3>3. ~OnQ(d, k)' /\ Fresh(k)'
            BY <1>12, <1>13, <1>16, <3>2
        <3> QED BY <1>6, <2>2, <3>1, <3>2, <3>3 DEF NewNode
    <2>4. \A k \in QNodes : k \notin qalloc' => Fresh(k)'
        <3>1. n \in qalloc
            BY <1>14 DEF OnList
        <3> QED BY <1>2, <1>6, <1>16, <3>1 DEF QPlaced
    <2>5. ASSUME NEW k \in qalloc'
          PROVE  OnQ(d, k)' \/ (\E u \in QThreads : local'[u].new = k) \/ OffList(o, k)'
        <3>1. k \in QNodes /\ k \in qalloc
            BY <1>6 DEF QTypeOK
        <3>2. CASE k = n
            <4>1. n \in o["head"] /\ (n \in o["tail"] => \E u \in QThreads : Leaves(u, "tail", n))
                BY <1>9, <1>14 DEF OnList
            <4>2. \E u \in QThreads : Leaves(u, "head", n)'
                BY <1>7
            <4>3. n \in o["tail"] => \E u \in QThreads : Leaves(u, "tail", n)'
                BY <1>7, <4>1
            <4> QED BY <3>2, <4>1, <4>2, <4>3, SideFacts DEF OffList
        <3>3. CASE k # n /\ (OnQ(c, k) \/ \E u \in QThreads : local[u].new = k)
            BY <1>12, <2>2, <3>1, <3>3
        <3>4. CASE k # n /\ OffList(o, k)
            <4>2. /\ \A s \in QSide : k \in o[s] => \E u \in QThreads : Leaves(u, s, k)
                  /\ (\A s \in QSide : k \notin o[s]) => QRefs(k) # {}
                BY <3>4 DEF OffList
            <4>3. \A s \in QSide : k \in o[s] => \E u \in QThreads : Leaves(u, s, k)'
                BY <1>7, <4>2
            <4> QED BY <1>7, <3>4, <4>2, <4>3 DEF OffList
        <3> QED BY <1>2, <3>1, <3>2, <3>3, <3>4 DEF QPlaced
    <2> QED BY <2>1, <2>2, <2>3, <2>4, <2>5 DEF QPlaced
<1>19. ASSUME NEW u \in QThreads, Referring(u)' PROVE QRefers(d, u)'
    <2>1. u # t /\ Referring(u) /\ local'[u] = local[u] /\ qpc'[u] = qpc[u]
        BY <1>6, <1>7, <1>19, QOthers
    <2>2. PICK k \in QNodes : k = local[u].ptr
        BY <2>1 DEF QLocals
    <2>3. QRefers(c, u)
        BY <1>2, <2>1
    <2>4. local[u].side = "head" => ~OnQ(d, k)'
        BY <1>6, <1>12, <2>2, <2>3 DEF QRefers
    <2> QED BY <1>6, <1>10, <2>1, <2>2, <2>3, <2>4 DEF QRefers
<1>20. QShape(d, w2, o)'
    BY <1>15, <1>17, <1>18, <1>19 DEF QShape
<1> QED BY <1>3, <1>5, <1>8, <1>20 DEF Shaped

\* A new node is linked behind the last one, by the push itself or by a helper.
LEMMA QLinkShape ==
    ASSUME QTypeOK, QTypeOK', NEW t \in QThreads, NEW c \in Seq(QNodes),
           \A u \in QThreads : QLocals(u), Shaped(c), LinkNode(t), qnode[local[t].ptr].next = QNoPtr
    PROVE  Shaped(c)'
<1>1. PICK w \in QCount, o \in QOwed : QShape(c, w, o)
    BY DEF Shaped
<1>2. /\ QChain(c) /\ QPlaced(c, o) /\ Tally(w, o)
      /\ \A u \in QThreads : Referring(u) => QRefers(c, u)
    BY <1>1 DEF QShape
<1>3. qpc[t] = "link"
    BY DEF LinkNode
<1>4. PICK n \in QNodes : n = local[t].ptr
    BY <1>3 DEF QLocals, Referring
<1>5. UNCHANGED ends /\ OthersKeep(t) /\ qpc'[t] = "set_tail"
    BY <1>4, LinkNodeEff
<1>6. PICK m \in IF local[t].done THEN {QNull} ELSE QNodes \ qalloc :
        /\ qalloc' = qalloc \cup ({m} \ {QNull})
        /\ qnode' = [qnode EXCEPT ![n].next = QCounted(1, local[t].new)]
        /\ local'[t] = [local[t] EXCEPT !.next = QCounted(1, local[t].new), !.new = m]
    BY <1>4, LinkNodeEff
<1>7. local[t].side = "tail" /\ Referring(t) /\ Referring(t)' /\ ~Leaving(t) /\ ~Leaving(t)'
    BY <1>3, <1>5 DEF QLocals, Referring, Leaving
<1>8. PICK y \in QNodes : y = local[t].new
    BY <1>3, <1>7, QLocalsFields DEF QLocals, QAddress
<1>9. y # QNull /\ QCounted(1, y).ptr = y /\ QCounted(1, y) # QNoPtr
    BY QFacts DEF QForward
<1>10. n = QLast /\ n \in qalloc
    BY <1>2, <1>4, <1>7 DEF QRefers
<1>11. QSecond = QNull
    BY <1>4, <1>10, QFacts DEF QSecond
<1>12. /\ y \in qalloc /\ ~OnQ(c, y) /\ Fresh(y) /\ y # n
       /\ \A u \in QThreads : local[u].new = y => u = t
    BY <1>2, <1>8, <1>9, <1>10 DEF QPlaced, NewNode, OnQ
<1>13. m = QNull \/ (m \in QNodes /\ m \notin qalloc)
    BY <1>6
<1>14. /\ local'[t].ptr = n /\ local'[t].new = m /\ local'[t].side = "tail"
       /\ local'[t].next = QCounted(1, y)
    BY <1>4, <1>6, <1>7, <1>8, QLocalsFields DEF QLocalType
<1>15. /\ \A k \in QNodes : k # n => qnode'[k] = qnode[k]
       /\ qnode'[n].next = QCounted(1, y)
       /\ qnode'[n].internal_count = qnode[n].internal_count
       /\ qnode'[n].external_counters = qnode[n].external_counters
    <2>1. qnode[n] \in QNodeType
        BY QLocalsFields
    <2>2. PICK r : r = [qnode[n] EXCEPT !.next = QCounted(1, y)]
        OBVIOUS
    <2>3. qnode' = [qnode EXCEPT ![n] = r]
        BY <1>6, <1>8, <2>2
    <2>4. /\ r.next = QCounted(1, y) /\ r.internal_count = qnode[n].internal_count
          /\ r.external_counters = qnode[n].external_counters
        BY <2>1, <2>2 DEF QNodeType
    <2> QED BY <2>3, <2>4 DEF QTypeOK
<1>16. \A k \in QNodes : k \in qalloc' <=> k \in qalloc \/ k = m
    BY <1>6, QFacts
<1>17. \A k : QRefs(k)' = QRefs(k)
    BY <1>4, <1>5, <1>7, <1>14, QRefsSame
<1>18. \A k : \A s \in QSide : \A u \in QThreads : Leaves(u, s, k)' <=> Leaves(u, s, k)
    BY <1>5, <1>7, QIdleSame
<1>19. \A k \in QNodes : k # n /\ Fresh(k) => Fresh(k)'
    BY <1>15, <1>17, <1>18 DEF Fresh
<1>20. QLast' = n /\ QSecond' = y
    <2>1. QLast' = n
        BY <1>5, <1>10 DEF QLast
    <2> QED BY <1>9, <1>15, <2>1 DEF QSecond
<1>21. \A k \in QNodes : OnQ(c, k)' <=> OnQ(c, k) \/ k = y
    BY <1>9, <1>10, <1>11, <1>20 DEF OnQ
<1>22. /\ \A s \in QSide : y \in o[s]
       /\ \A s \in QSide : \A u \in QThreads : ~Leaves(u, s, y)
       /\ \A u \in QThreads : local[u].ptr = y => ~Referring(u) /\ ~Leaving(u)
    BY <1>2, <1>12, QFreshOwed
<1>23. QChain(c)'
    <2>1. PICK first, l1, l2 : first = ends["head"].ptr /\ l1 = QLinks /\ l2 = QLinks'
        OBVIOUS
    <2>2. \A k : In(c, k) => l2[k] = l1[k]
        <3> SUFFICES ASSUME NEW k, In(c, k) PROVE l2[k] = l1[k]
            OBVIOUS
        <3>1. k \in QNodes
            BY ElementOfSeq, LenProperties DEF In
        <3>2. k # n
            BY <1>2, <1>10 DEF QChain
        <3> QED BY <1>15, <2>1, <3>1, <3>2 DEF QLinks
    <2>3. Linked(first, l1, n, c)
        BY <1>2, <1>10, <2>1 DEF QChain
    <2>4. Linked(first, l2, n, c)
        BY <2>2, <2>3, ListFrame
    <2>5. Linked(ends'["head"].ptr, QLinks', QLast', c)
        BY <1>5, <1>20, <2>1, <2>4
    <2>6. ~In(c, n) /\ Once(c)
        BY <1>2, <1>10 DEF QChain
    <2>7. ~In(c, y) /\ Fresh(y)'
        BY <1>12, <1>19 DEF OnQ
    <2>8. QSecond' # QLast' /\ ~In(c, QSecond') /\ Fresh(QSecond)'
        BY <1>12, <1>20, <2>7
    <2> QED BY <1>20, <2>5, <2>6, <2>8 DEF QChain
<1>24. \A k \in QNodes : OnQ(c, k) => k \in qalloc
    BY <1>2 DEF QPlaced, OnList
<1>25. QPlaced(c, o)'
    <2>1. ASSUME NEW k \in QNodes, OnQ(c, k)' PROVE OnList(c, o, k)'
        <3>1. CASE k = y
            <4>1. ~In(c, y)
                BY <1>12 DEF OnQ
            <4> QED BY <1>12, <1>16, <1>18, <1>22, <3>1, <4>1, SideFacts DEF OnList
        <3>2. CASE k # y
            <4>1. OnList(c, o, k)
                BY <1>2, <1>21, <2>1, <3>2 DEF QPlaced
            <4> QED BY <1>16, <1>18, <4>1, SideFacts DEF OnList
        <3> QED BY <3>1, <3>2
    <2>2. ASSUME NEW u \in QThreads, local'[u].new # QNull PROVE NewNode(c, u)'
        <3>1. \A v \in QThreads : v # t => local'[v] = local[v]
            BY <1>5, QOthers
        <3>2. \A v \in QThreads : local[v].new # QNull => local[v].new \in qalloc
            BY <1>2 DEF QPlaced, NewNode
        <3>3. CASE u = t
            <4>1. m \in QNodes /\ m \notin qalloc /\ m # QNull
                BY <1>13, <1>14, <2>2, <3>3
            <4>2. m \in qalloc' /\ ~OnQ(c, m)' /\ m # n
                BY <1>10, <1>12, <1>16, <1>21, <1>24, <4>1
            <4>3. Fresh(m)'
                BY <1>2, <1>19, <4>1, <4>2 DEF QPlaced
            <4>4. \A v \in QThreads : local'[v].new = m => v = t
                BY <3>1, <3>2, <4>1
            <4> QED BY <1>14, <3>3, <4>2, <4>3, <4>4 DEF NewNode
        <3>4. CASE u # t
            <4>1. PICK k \in QNodes : k = local[u].new
                BY <2>2, <3>1, <3>4, QLocalsFields DEF QAddress
            <4>2. /\ k \in qalloc /\ ~OnQ(c, k) /\ Fresh(k)
                  /\ \A v \in QThreads : local[v].new = k => v = u
                BY <1>2, <2>2, <3>1, <3>4, <4>1 DEF QPlaced, NewNode
            <4>3. k # y /\ k # n /\ k # m
                BY <1>2, <1>8, <1>10, <1>13, <3>4, <4>2, QFacts DEF OnQ
            <4>4. ~OnQ(c, k)' /\ Fresh(k)' /\ k \in qalloc'
                BY <1>16, <1>19, <1>21, <4>2, <4>3
            <4>5. \A v \in QThreads : local'[v].new = k => v = u
                BY <1>14, <3>1, <4>2, <4>3
            <4> QED BY <3>1, <3>4, <4>1, <4>4, <4>5 DEF NewNode
        <3> QED BY <3>3, <3>4
    <2>3. \A k \in QNodes : k \notin qalloc' => Fresh(k)'
        BY <1>2, <1>10, <1>16, <1>19 DEF QPlaced
    <2>4. ASSUME NEW k \in qalloc'
          PROVE  OnQ(c, k)' \/ (\E u \in QThreads : local'[u].new = k) \/ OffList(o, k)'
        <3>1. k \in QNodes
            BY DEF QTypeOK
        <3>2. CASE k = m
            BY <1>14, <3>2
        <3>3. CASE k \in qalloc
            <4>1. CASE OnQ(c, k)
                BY <1>21, <3>1, <4>1
            <4>2. CASE \E u \in QThreads : local[u].new = k
                <5>1. PICK u \in QThreads : local[u].new = k
                    BY <4>2
                <5>2. u = t => OnQ(c, k)'
                    BY <1>8, <1>21, <3>1, <5>1
                <5>3. u # t => local'[u].new = k
                    BY <1>5, <5>1, QOthers
                <5> QED BY <5>2, <5>3
            <4>3. CASE OffList(o, k)
                BY <1>17, <1>18, <4>3 DEF OffList
            <4> QED BY <1>2, <3>3, <4>1, <4>2, <4>3 DEF QPlaced
        <3> QED BY <1>16, <3>1, <3>2, <3>3
    <2> QED BY <2>1, <2>2, <2>3, <2>4 DEF QPlaced
<1>26. Tally(w, o)'
    <2>1. ASSUME NEW k \in QNodes PROVE QEven(w, o, w, o, k)
        <3>1. /\ qnode'[k].internal_count = qnode[k].internal_count
              /\ qnode'[k].external_counters = qnode[k].external_counters
            BY <1>15
        <3> QED BY <1>17, <1>18, <3>1 DEF QEven
    <2>2. \A s \in QSide : EndCounted(w, o, s)'
        BY <1>2, <1>5 DEF Tally, EndCounted
    <2>3. ASSUME NEW u \in QThreads \ {t}, Leaving(u)
          PROVE  /\ local[u].ptr \in qalloc' /\ ends'[local[u].side].ptr # local[u].ptr
                 /\ local[u].ptr = QNull => LeaverCounted(w, o, u)'
        <3>1. LeaverCounted(w, o, u) /\ local[u].ptr \in QNodes
            BY <1>2, <2>3 DEF Tally, QLocals
        <3> QED BY <1>5, <1>16, <3>1, QFacts DEF LeaverCounted
    <2>4. Shifted(t, w, o, w, o, QNull)
        BY <1>5, <1>7, <2>1, <2>2, <2>3, QFacts DEF Shifted
    <2> QED BY <1>2, <2>4, TallyKept
<1>27. ASSUME NEW u \in QThreads, Referring(u)' PROVE QRefers(c, u)'
    <2>1. CASE u = t
        <3>1. n \in qalloc'
            BY <1>10, <1>16
        <3> QED BY <1>5, <1>9, <1>14, <1>15, <1>20, <2>1, <3>1 DEF QRefers
    <2>2. CASE u # t
        <3>1. Referring(u) /\ local'[u] = local[u] /\ qpc'[u] = qpc[u]
            BY <1>5, <1>27, <2>2, QOthers
        <3>2. PICK k \in QNodes : k = local[u].ptr
            BY <3>1 DEF QLocals
        <3>3. QRefers(c, u) /\ k # y
            BY <1>2, <1>22, <3>1, <3>2
        <3>4. k # n => qnode'[k].next = qnode[k].next
            BY <1>15
        <3>5. QLast' = QLast
            BY <1>10, <1>20
        <3>6. qpc[u] \in {"unlink", "set_tail"} => k # n
            BY <1>4, <1>6, <1>10, <3>1, <3>2, <3>3 DEF QRefers, QLocals
        <3>7. local[u].side = "head" => k = ends'["head"].ptr \/ ~OnQ(c, k)'
            BY <1>5, <1>21, <3>2, <3>3 DEF QRefers
        <3>8. k \in qalloc'
            BY <1>16, <3>2, <3>3 DEF QRefers
        <3>9. local[u].side = "tail" => k = QLast' \/ qnode'[k].next # QNoPtr
            BY <1>10, <3>2, <3>3, <3>4, <3>5 DEF QRefers
        <3>10. qpc[u] \in {"next", "unlink"} => k # QLast'
            BY <3>2, <3>3, <3>5 DEF QRefers
        <3>11. qpc[u] \in {"unlink", "set_tail"} => local[u].next = qnode'[k].next
            BY <3>2, <3>3, <3>4, <3>6 DEF QRefers
        <3>12. qpc[u] = "set_tail" => qnode'[k].next # QNoPtr
            BY <3>2, <3>3, <3>4, <3>6 DEF QRefers
        <3> QED BY <3>1, <3>2, <3>7, <3>8, <3>9, <3>10, <3>11, <3>12 DEF QRefers
    <2> QED BY <2>1, <2>2
<1>28. QShape(c, w, o)'
    BY <1>23, <1>25, <1>26, <1>27 DEF QShape
<1> QED BY <1>28 DEF Shaped

-----------------------------------------------------------------------------
(* CountedQueue: the invariant is kept                                     *)

LEMMA QInitInv == QInit => QInv
<1> SUFFICES ASSUME QInit PROVE QInv
    OBVIOUS
<1>1. PICK n : n = CHOOSE m \in QNodes : TRUE
    OBVIOUS
<1>2. n \in QNodes
    BY <1>1, QNodesAssumption
<1>3. /\ ends = [head |-> QCounted(1, n), tail |-> QCounted(1, n)]
      /\ qnode = [m \in QNodes |-> QNode] /\ qalloc = {n}
      /\ qpc = [t \in QThreads |-> "idle"] /\ local = [t \in QThreads |-> QNoLocals]
      /\ qpushes = [t \in QThreads |-> 0]
    BY <1>1 DEF QInit
<1>4. QCounted(1, n) \in QPointer /\ QCounted(1, n).ptr = n /\ QCounted(1, n).external_count = 1
    BY <1>2, QFacts DEF QCounted, QPointer
<1>5. \A s \in QSide : ends[s] = QCounted(1, n)
    BY <1>3 DEF QSide
<1>6. QTypeOK
    <2>1. ends \in [QSide -> QPointer]
        BY <1>3, <1>4 DEF QSide
    <2>2. \A t \in QThreads : 0 <= QMaxPushes[t]
        BY QBoundsAssumption
    <2> QED BY <1>2, <1>3, <2>1, <2>2, QFacts DEF QTypeOK, QLabel
<1>7. \A t \in QThreads : qpc[t] = "idle" /\ local[t] = QNoLocals
    BY <1>3
<1>8. \A t \in QThreads : ~Referring(t) /\ ~Leaving(t)
    BY <1>7 DEF Referring, Leaving
<1>9. \A t \in QThreads : QLocals(t)
    BY <1>7, <1>8, QFacts DEF QLocals
<1>10. \A m \in QNodes : QRefs(m) = {} /\ qnode[m] = QNode /\ Fresh(m)
    BY <1>3, <1>8 DEF Fresh, QRefs, Leaves
<1>11. PICK w : w = [s \in QSide |-> [m \in QNodes |-> 0]]
    OBVIOUS
<1>12. PICK o : o = [s \in QSide |-> QNodes]
    OBVIOUS
<1>13. w \in QCount /\ o \in QOwed /\ \A s \in QSide : o[s] = QNodes /\ \A m \in QNodes : w[s][m] = 0
    BY <1>11, <1>12 DEF QCount, QOwed
<1>14. QLast = n /\ QSecond = QNull
    <2>1. QLast = n
        BY <1>4, <1>5, SideFacts DEF QLast
    <2> QED BY <1>2, <1>10, <2>1, QFacts DEF QSecond
<1>15. QChain(<<>>)
    <2>1. Linked(ends["head"].ptr, QLinks, QLast, <<>>)
        <3>1. ends["head"].ptr = QLast
            BY <1>4, <1>5, <1>14, SideFacts
        <3> QED BY <3>1 DEF Linked
    <2> QED BY <1>2, <1>14, <2>1, EmptyIn DEF QChain
<1>16. QPlaced(<<>>, o)
    <2>1. \A m \in QNodes : OnQ(<<>>, m) <=> m = n
        BY <1>14, QFacts, EmptyIn DEF OnQ
    <2>2. \A m \in QNodes : OnQ(<<>>, m) => OnList(<<>>, o, m)
        BY <1>3, <1>8, <1>13, <2>1, EmptyIn, SideFacts DEF OnList, Leaves
    <2> QED BY <1>2, <1>3, <1>7, <1>10, <2>1, <2>2, QFacts DEF QPlaced
<1>17. Tally(w, o)
    <2>1. ASSUME NEW m \in QNodes PROVE Balanced(w, o, m)
        <3>1. IsFiniteSet(QRefs(m)) /\ Cardinality(QRefs(m)) = 0
            BY <1>10, FS_EmptySet
        <3>2. qnode[m].internal_count = 0 /\ qnode[m].external_counters = 2
            BY <1>10, QFacts
        <3>3. w["head"][m] = 0 /\ w["tail"][m] = 0 /\ m \in o["head"] /\ m \in o["tail"]
            BY <1>13, SideFacts
        <3> QED BY <3>1, <3>2, <3>3 DEF Balanced
    <2>2. \A s \in QSide : EndCounted(w, o, s)
        BY <1>2, <1>4, <1>5, <1>13 DEF EndCounted
    <2> QED BY <1>8, <1>13, <2>1, <2>2 DEF Tally
<1>18. Shaped(<<>>)
    BY <1>8, <1>13, <1>15, <1>16, <1>17 DEF Shaped, QShape
<1>19. <<>> \in Seq(QNodes)
    OBVIOUS
<1> QED BY <1>6, <1>9, <1>18, <1>19 DEF QInv

LEMMA QTypesKept ==
    ASSUME QTypeOK, NEW t \in QThreads, QLocals(t), QStep(t) \/ QPush(t) \/ QPop(t),
           \A s \in QSide : ends[s].ptr \in QNodes
    PROVE  QTypeOK' /\ QLocals(t)' /\ OthersKeep(t)
<1>1. QTypeOK' /\ QLocals(t)'
    BY QPopTypes, QPushTypes, QIncreaseTypes, StoreDataTypes, LinkNodeTypes, set_new_tailTypes,
       TestEmptyTypes, LoadNextTypes, UnlinkTypes, ExchangeDataTypes, UpdateCountTypes DEF QStep
<1>2. OthersKeep(t)
    <2>1. PICK l : qpc' = [qpc EXCEPT ![t] = l]
        BY QWrites
    <2>2. PICK r : local' = [local EXCEPT ![t] = r]
        BY QWrites
    <2> QED BY <2>1, <2>2 DEF QTypeOK, OthersKeep
<1> QED BY <1>1, <1>2

TailMoves(t) == set_new_tail(t) /\ ends["tail"] = local[t].old
HeadMoves(t) == Unlink(t) /\ ends["head"] = local[t].old

\* The list after a step: it gets the node that was last, loses its first, or stays.
QBecomes(t, c, d) ==
    \/ TailMoves(t) /\ d = Append(c, QLast)
    \/ HeadMoves(t) /\ c # <<>> /\ Head(c) = local[t].ptr /\ d = Tail(c)
    \/ ~TailMoves(t) /\ ~HeadMoves(t) /\ d = c

LEMMA QShapeStep ==
    ASSUME QTypeOK, QTypeOK', NEW t \in QThreads, NEW c \in Seq(QNodes),
           \A u \in QThreads : QLocals(u), Shaped(c), QStep(t) \/ QPush(t) \/ QPop(t)
    PROVE  \E d \in Seq(QNodes) : Shaped(d)' /\ QBecomes(t, c, d)
<1>1. CASE TailMoves(t)
    <2>1. PICK n \in QNodes : n = QLast
        BY DEF Shaped, QShape, QChain
    <2>2. Append(c, n) \in Seq(QNodes) /\ Shaped(Append(c, n))'
        BY <1>1, <2>1, QTailShape DEF TailMoves
    <2>3. PICK d \in Seq(QNodes) : d = Append(c, n)
        BY <2>2
    <2>4. Shaped(d)'
        BY <2>2, <2>3
    <2>5. QBecomes(t, c, d)
        BY <1>1, <2>1, <2>3 DEF QBecomes
    <2> QED BY <2>4, <2>5
<1>2. CASE HeadMoves(t)
    <2>1. c # <<>> /\ Head(c) = local[t].ptr /\ Tail(c) \in Seq(QNodes) /\ Shaped(Tail(c))'
        BY <1>2, QHeadShape DEF HeadMoves
    <2>2. PICK d \in Seq(QNodes) : d = Tail(c)
        BY <2>1
    <2>3. Shaped(d)'
        BY <2>1, <2>2
    <2>4. QBecomes(t, c, d)
        BY <1>2, <2>1, <2>2 DEF QBecomes
    <2> QED BY <2>3, <2>4
<1>3. CASE ~TailMoves(t) /\ ~HeadMoves(t)
    <2> SUFFICES Shaped(c)'
        BY <1>3 DEF QBecomes
    <2>1. CASE QPop(t)
        BY <2>1, QPopShape
    <2>2. CASE QPush(t)
        BY <2>2, QPushShape
    <2>3. CASE increase_external_count(t)
        BY <2>3, QIncreaseShape
    <2>4. CASE StoreData(t)
        BY <2>4, StoreDataShape
    <2>5. CASE LinkNode(t)
        BY <2>5, QHelpedShape, QLinkShape
    <2>6. CASE set_new_tail(t)
        <3>1. ends["tail"] # local[t].old
            BY <1>3, <2>6 DEF TailMoves
        <3>2. /\ UNCHANGED <<qnode, qalloc>> /\ OthersKeep(t) /\ qpc[t] = "set_tail" /\ UNCHANGED ends
              /\ qpc'[t] \in {"set_tail", "release"}
              /\ local'[t] = [local[t] EXCEPT !.old = ends["tail"]]
            BY <2>6, <3>1, set_new_tailEff
        <3>3. QMembersStay
            BY <3>2 DEF QMembersStay
        <3> QED BY <3>2, <3>3, QLost
    <2>7. CASE TestEmpty(t)
        BY <2>7, TestEmptyShape
    <2>8. CASE LoadNext(t)
        BY <2>8, LoadNextShape
    <2>9. CASE Unlink(t)
        <3>1. ends["head"] # local[t].old
            BY <1>3, <2>9 DEF HeadMoves
        <3>2. /\ UNCHANGED <<qnode, qalloc>> /\ OthersKeep(t) /\ qpc[t] = "unlink" /\ UNCHANGED ends
              /\ qpc'[t] = "release"
              /\ local'[t] = [local[t] EXCEPT !.old = ends["head"]]
            BY <2>9, <3>1, UnlinkEff
        <3>3. QMembersStay
            BY <3>2 DEF QMembersStay
        <3> QED BY <3>2, <3>3, QLost
    <2>10. CASE ExchangeData(t)
        BY <2>10, ExchangeDataShape
    <2>11. CASE free_external_counter(t) \/ release_ref(t)
        BY <2>11, UpdateCountShape
    <2> QED BY <2>1, <2>2, <2>3, <2>4, <2>5, <2>6, <2>7, <2>8, <2>9, <2>10, <2>11 DEF QStep
<1> QED BY <1>1, <1>2, <1>3

LEMMA QInvStep ==
    ASSUME QInv, NEW t \in QThreads, QStep(t) \/ QPush(t) \/ QPop(t)
    PROVE  QInv'
<1>1. PICK c \in Seq(QNodes) : Shaped(c)
    BY DEF QInv
<1>2. QTypeOK /\ \A u \in QThreads : QLocals(u)
    BY DEF QInv
<1>3. \A s \in QSide : ends[s].ptr \in QNodes
    BY <1>1, QEnds DEF Shaped, QShape
<1>4. QTypeOK' /\ QLocals(t)' /\ OthersKeep(t)
    BY <1>2, <1>3, QTypesKept
<1>5. ASSUME NEW u \in QThreads, u # t PROVE QLocals(u)'
    <2>1. qpc'[u] = qpc[u] /\ local'[u] = local[u] /\ (Referring(u)' <=> Referring(u)) /\ (Leaving(u)' <=> Leaving(u))
        BY <1>4, <1>5, QOthers
    <2>2. qpushes'[u] = qpushes[u]
        <3>1. CASE QPush(t)
            <4>1. qpushes' = [qpushes EXCEPT ![t] = @ + 1]
                BY <3>1, Zenon DEF QPush
            <4>2. qpushes \in [QThreads -> Nat]
                BY <1>2 DEF QTypeOK
            <4> QED BY <1>5, <4>1, <4>2
        <3>2. CASE ~QPush(t)
            BY <1>2, <3>2, QWrites
        <3> QED BY <3>1, <3>2
    <2>3. QLocals(u)
        BY <1>2
    <2> QED BY <2>1, <2>2, <2>3 DEF QLocals
<1>6. PICK d \in Seq(QNodes) : Shaped(d)'
    BY <1>1, <1>2, <1>4, QShapeStep
<1> QED BY <1>4, <1>5, <1>6 DEF QInv

LEMMA QShapeIdle ==
    ASSUME QTypeOK, UNCHANGED qVars, NEW c \in Seq(QNodes), Shaped(c)
    PROVE  Shaped(c)'
<1>1. /\ UNCHANGED ends /\ UNCHANGED qnode /\ UNCHANGED qalloc /\ UNCHANGED qpc /\ UNCHANGED local
      /\ UNCHANGED qpushes
    BY DEF qVars, qCalls
<1>3. \A t \in QThreads : /\ Referring(t)' <=> Referring(t)
                          /\ Leaving(t)' <=> Leaving(t)
                          /\ \A s, n : Leaves(t, s, n)' <=> Leaves(t, s, n)
    BY <1>1 DEF Referring, Leaving, Leaves
<1>6. PICK w \in QCount, o \in QOwed : QShape(c, w, o)
    BY DEF Shaped
<1>7. QLast' = QLast /\ QSecond' = QSecond /\ QLinks' = QLinks
    BY <1>1 DEF QLast, QSecond, QLinks
<1>8. \A n : QRefs(n)' = QRefs(n)
    BY <1>3, <1>1 DEF QRefs
<1>9. \A n : Fresh(n)' <=> Fresh(n)
    BY <1>1, <1>3, <1>8 DEF Fresh
<1>10. QChain(c)'
    BY <1>1, <1>6, <1>7, <1>9 DEF QShape, QChain
<1>11. \A n : OnQ(c, n)' <=> OnQ(c, n)
    BY <1>7 DEF OnQ
<1>12. \A n \in QNodes : OnList(c, o, n)' <=> OnList(c, o, n)
    BY <1>1, <1>3 DEF OnList
<1>13. \A n \in QNodes : OffList(o, n)' <=> OffList(o, n)
    BY <1>3, <1>8 DEF OffList
<1>14. \A t \in QThreads : NewNode(c, t)' <=> NewNode(c, t)
    BY <1>1, <1>9, <1>11 DEF NewNode
<1>15. QPlaced(c, o)'
    <2>1. qalloc \subseteq QNodes
        BY DEF QTypeOK
    <2> QED BY <1>1, <1>6, <1>9, <1>11, <1>12, <1>13, <1>14, <2>1 DEF QShape, QPlaced
<1>16. Tally(w, o)'
    <2>1. \A n \in QNodes : Balanced(w, o, n)'
        BY <1>1, <1>6, <1>8 DEF QShape, Tally, Balanced
    <2>2. \A s \in QSide : EndCounted(w, o, s)'
        BY <1>1, <1>6 DEF QShape, Tally, EndCounted
    <2>3. \A t \in QThreads : Leaving(t)' => LeaverCounted(w, o, t)'
        BY <1>1, <1>3, <1>6 DEF QShape, Tally, LeaverCounted
    <2> QED BY <1>1, <1>3, <1>6, <2>1, <2>2, <2>3 DEF QShape, Tally
<1>17. \A t \in QThreads : Referring(t)' => QRefers(c, t)'
    BY <1>1, <1>3, <1>6, <1>7, <1>11 DEF QShape, QRefers
<1> QED BY <1>10, <1>15, <1>16, <1>17 DEF Shaped, QShape

LEMMA QInvIdle == ASSUME QInv, UNCHANGED qVars PROVE QInv'
<1>1. /\ UNCHANGED ends /\ UNCHANGED qnode /\ UNCHANGED qalloc /\ UNCHANGED qpc /\ UNCHANGED local
      /\ UNCHANGED qpushes
    BY DEF qVars, qCalls
<1>2. QTypeOK'
    BY <1>1 DEF QInv, QTypeOK
<1>3. \A t \in QThreads : /\ Referring(t)' <=> Referring(t)
                          /\ Leaving(t)' <=> Leaving(t)
                          /\ \A s, n : Leaves(t, s, n)' <=> Leaves(t, s, n)
    BY <1>1 DEF Referring, Leaving, Leaves
<1>4. ASSUME NEW t \in QThreads PROVE QLocals(t)'
    BY <1>1, <1>3 DEF QInv, QLocals
<1>5. \E c \in Seq(QNodes) : Shaped(c)'
    BY QShapeIdle DEF QInv
<1> QED BY <1>2, <1>4, <1>5 DEF QInv

LEMMA QNextInv == QInv /\ [QNext]_qVars => QInv'
<1> SUFFICES ASSUME QInv, [QNext]_qVars PROVE QInv'
    OBVIOUS
<1>1. CASE QNext
    <2>1. PICK t \in QThreads : QStep(t) \/ QPush(t) \/ QPop(t)
        BY <1>1 DEF QNext
    <2> QED BY <2>1, QInvStep
<1>2. CASE UNCHANGED qVars
    BY <1>2, QInvIdle
<1> QED BY <1>1, <1>2

LEMMA QInvHolds == QSpec => []QInv
BY QInitInv, QNextInv, PTL DEF QSpec

-----------------------------------------------------------------------------
(* CountedQueue: what the invariant says of the nodes                      *)

\* The nodes from the head on: those before the last one, that one, and one more perhaps.
Full(c, l) ==
    /\ Linked(ends["head"].ptr, QLinks, QNull, l) /\ Once(l)
    /\ \A e : In(l, e) <=> OnQ(c, e)
    /\ Len(l) > Len(c) /\ \A i \in 1 .. Len(c) : l[i] = c[i]
    /\ l[Len(c) + 1] = QLast

LEMMA QFull ==
    ASSUME QTypeOK, NEW c \in Seq(QNodes), QChain(c)
    PROVE  \E l \in Seq(QNodes) : Full(c, l)
<1>1. PICK last \in QNodes, links \in {QLinks} : last = QLast /\ links = QLinks
    BY DEF QChain
<1>2. PICK first, second : first = ends["head"].ptr /\ second = QSecond
    OBVIOUS
<1>3. Linked(first, links, last, c) /\ Once(c) /\ ~In(c, last)
    BY <1>1, <1>2 DEF QChain
<1>4. links[last] = second
    BY <1>1, <1>2 DEF QLinks, QSecond
<1>5. PICK d : d = Append(c, last)
    OBVIOUS
<1>6. /\ d \in Seq(QNodes) /\ Linked(first, links, second, d) /\ Once(d)
      /\ \A e : In(d, e) <=> In(c, e) \/ e = last
    BY <1>3, <1>4, <1>5, ListAppend
<1>7. PICK k \in Nat : k = Len(c)
    BY LenProperties
<1>8. Len(d) = k + 1 /\ d[k + 1] = last /\ \A i \in 1 .. k : d[i] = c[i]
    BY <1>5, <1>7, AppendProperties, LenProperties
<1>9. CASE second = QNull
    <2>1. \A e : In(d, e) <=> OnQ(c, e)
        BY <1>1, <1>2, <1>6, <1>9, QFacts DEF OnQ
    <2>2. Len(d) > k
        BY <1>8
    <2>3. Full(c, d)
        BY <1>1, <1>2, <1>6, <1>7, <1>8, <1>9, <2>1, <2>2 DEF Full
    <2> QED BY <1>6, <2>3
<1>10. CASE second # QNull
    <2>1. second # last /\ ~In(c, second) /\ Fresh(second)
        BY <1>1, <1>2, <1>10 DEF QChain
    <2>2. second \in QNodes
        <3>1. qnode[last].next \in QForward
            BY <1>1 DEF QTypeOK, QNodeType
        <3> QED BY <1>1, <1>2, <1>10, <3>1, QFacts DEF QSecond
    <2>3. links[second] = QNull
        BY <1>1, <2>1, <2>2, QFacts DEF QLinks, Fresh
    <2>4. PICK l : l = Append(d, second)
        OBVIOUS
    <2>5. ~In(d, second)
        BY <1>6, <2>1
    <2>6. /\ l \in Seq(QNodes) /\ Linked(first, links, QNull, l) /\ Once(l)
          /\ \A e : In(l, e) <=> In(d, e) \/ e = second
        BY <1>6, <2>2, <2>3, <2>4, <2>5, ListAppend
    <2>7. Len(l) = k + 2 /\ \A i \in 1 .. k + 1 : l[i] = d[i]
        BY <1>6, <1>7, <1>8, <2>2, <2>4, AppendProperties, LenProperties
    <2>8. Len(l) > k /\ l[k + 1] = last /\ \A i \in 1 .. k : l[i] = c[i]
        BY <1>7, <1>8, <2>7
    <2>9. \A e : In(l, e) <=> OnQ(c, e)
        BY <1>1, <1>2, <1>6, <1>10, <2>6 DEF OnQ
    <2>10. Full(c, l)
        BY <1>1, <1>2, <1>7, <2>6, <2>8, <2>9 DEF Full
    <2> QED BY <2>6, <2>10
<1> QED BY <1>9, <1>10

\* The recursive definition of QWalk has one solution.
Walks(n, f) ==
    f = [i \in 0 .. Cardinality(QNodes) |->
            IF i = 0 THEN n ELSE IF f[i - 1] = QNull THEN QNull ELSE qnode[f[i - 1]].next.ptr]

LEMMA WalksUnique ==
    ASSUME NEW n, NEW f, NEW g, Walks(n, f), Walks(n, g)
    PROVE  f = g
<1>1. PICK k \in Nat : k = Cardinality(QNodes)
    BY QNodesAssumption, FS_CardinalityType
<1>2. /\ f = [i \in 0 .. k |-> IF i = 0 THEN n ELSE IF f[i - 1] = QNull THEN QNull ELSE qnode[f[i - 1]].next.ptr]
      /\ g = [i \in 0 .. k |-> IF i = 0 THEN n ELSE IF g[i - 1] = QNull THEN QNull ELSE qnode[g[i - 1]].next.ptr]
    BY <1>1 DEF Walks
<1>3. PICK D : D = {i \in 0 .. k : f[i] # g[i]}
    OBVIOUS
<1>4. D = {}
    <2> SUFFICES ASSUME D # {} PROVE FALSE
        OBVIOUS
    <2>1. D \in SUBSET Nat
        BY <1>3
    <2>2. PICK i \in D : \A m \in D : i <= m
        BY <2>1, Least
    <2>3. i \in 0 .. k /\ f[i] # g[i]
        BY <1>3, <2>2
    <2>4. i # 0
        BY <1>2, <2>3
    <2>5. i - 1 \in 0 .. k /\ i - 1 \notin D
        BY <2>1, <2>2, <2>3, <2>4
    <2>6. f[i - 1] = g[i - 1]
        BY <1>3, <2>5
    <2>7. /\ f[i] = IF f[i - 1] = QNull THEN QNull ELSE qnode[f[i - 1]].next.ptr
          /\ g[i] = IF g[i - 1] = QNull THEN QNull ELSE qnode[g[i - 1]].next.ptr
        BY <1>2, <2>3, <2>4
    <2> QED BY <2>3, <2>6, <2>7
<1>5. \A i \in 0 .. k : f[i] = g[i]
    BY <1>3, <1>4
<1>6. f = [i \in 0 .. k |-> f[i]] /\ g = [i \in 0 .. k |-> g[i]]
    BY <1>2
<1> QED BY <1>5, <1>6

LEMMA QWalkIs ==
    ASSUME QTypeOK, NEW n, NEW l \in Seq(QNodes), Linked(n, QLinks, QNull, l)
    PROVE  QWalk(n) = [i \in 0 .. Cardinality(QNodes) |-> IF i < Len(l) THEN l[i + 1] ELSE QNull]
<1>1. PICK k \in Nat : k = Cardinality(QNodes)
    BY QNodesAssumption, FS_CardinalityType
<1>2. PICK j \in Nat : j = Len(l)
    BY LenProperties
<1>3. /\ DOMAIN l = 1 .. j /\ (l = <<>> <=> j = 0)
      /\ \A i \in 1 .. j : l[i] \in QNodes /\ l[i] # QNull
    BY <1>2, LenProperties, EmptySeq, ElementOfSeq, QFacts
<1>4. PICK g : g = [i \in 0 .. k |-> IF i < j THEN l[i + 1] ELSE QNull]
    OBVIOUS
<1>5. ASSUME NEW i \in 0 .. k
      PROVE  g[i] = IF i = 0 THEN n ELSE IF g[i - 1] = QNull THEN QNull ELSE qnode[g[i - 1]].next.ptr
    <2>1. CASE i = 0
        <3>1. n = IF j = 0 THEN QNull ELSE l[1]
            BY <1>3 DEF Linked
        <3>2. g[0] = IF 0 < j THEN l[0 + 1] ELSE QNull
            BY <1>1, <1>4
        <3>3. 0 + 1 = 1 /\ (0 < j <=> j # 0)
            BY <1>2
        <3> QED BY <2>1, <3>1, <3>2, <3>3
    <2>2. CASE i # 0 /\ i - 1 < j
        <3>1. i - 1 \in 0 .. k /\ i \in 1 .. j /\ (i - 1) + 1 = i /\ (i < j <=> i # j)
            BY <1>1, <1>2, <2>2
        <3>2. g[i - 1] = l[i] /\ l[i] \in QNodes /\ l[i] # QNull
            BY <1>3, <1>4, <2>2, <3>1
        <3>3. qnode[l[i]].next.ptr = IF i = j THEN QNull ELSE l[i + 1]
            BY <1>2, <1>3, <3>1, <3>2 DEF Linked, QLinks
        <3>4. g[i] = IF i < j THEN l[i + 1] ELSE QNull
            BY <1>4
        <3> QED BY <2>2, <3>1, <3>2, <3>3, <3>4
    <2>3. CASE i # 0 /\ ~(i - 1 < j)
        <3>1. i - 1 \in 0 .. k /\ ~(i < j)
            BY <1>1, <1>2, <2>3
        <3>2. g[i - 1] = QNull /\ g[i] = QNull
            BY <1>4, <2>3, <3>1
        <3> QED BY <2>3, <3>2
    <2> QED BY <2>1, <2>2, <2>3
<1>6. g = [i \in 0 .. k |->
            IF i = 0 THEN n ELSE IF g[i - 1] = QNull THEN QNull ELSE qnode[g[i - 1]].next.ptr]
    <2>1. g = [i \in 0 .. k |-> g[i]]
        BY <1>4
    <2> QED BY <1>5, <2>1
<1>7. Walks(n, g)
    BY <1>1, <1>6 DEF Walks
<1>8. QWalk(n) = CHOOSE f : Walks(n, f)
    BY Zenon DEF QWalk, Walks
<1>9. Walks(n, QWalk(n))
    BY <1>7, <1>8, Zenon
<1>10. QWalk(n) = g
    BY <1>7, <1>9, WalksUnique
<1> QED BY <1>1, <1>2, <1>4, <1>10

\* The nodes that can be reached from head are those on the list.
LEMMA QLinkedIs ==
    ASSUME QTypeOK, NEW c \in Seq(QNodes), QChain(c)
    PROVE  QLinked(ends["head"].ptr) = {n \in QNodes : OnQ(c, n)}
<1>1. PICK l \in Seq(QNodes) : Full(c, l)
    BY QFull
<1>2. PICK first : first = ends["head"].ptr
    OBVIOUS
<1>3. Linked(first, QLinks, QNull, l) /\ Once(l) /\ \A e : In(l, e) <=> OnQ(c, e)
    BY <1>1, <1>2 DEF Full
<1>4. PICK k \in Nat : k = Cardinality(QNodes)
    BY QNodesAssumption, FS_CardinalityType
<1>5. PICK j \in Nat : j = Len(l) /\ j <= k
    BY <1>3, <1>4, QNodesAssumption, ListBound, LenProperties
<1>6. PICK g : g = QWalk(first)
    OBVIOUS
<1>7. g = [i \in 0 .. k |-> IF i < j THEN l[i + 1] ELSE QNull]
    BY <1>3, <1>4, <1>5, <1>6, QWalkIs
<1>8. QLinked(first) = {g[i] : i \in 0 .. k} \ {QNull}
    BY <1>4, <1>6, Zenon DEF QLinked
<1>9. DOMAIN l = 1 .. j /\ \A i \in 1 .. j : l[i] \in QNodes
    BY <1>5, LenProperties, ElementOfSeq
<1>10. ASSUME NEW n, n \in QLinked(first) PROVE n \in QNodes /\ OnQ(c, n)
    <2>1. PICK i \in 0 .. k : n = g[i] /\ n # QNull
        BY <1>8, <1>10
    <2>2. i < j /\ n = l[i + 1] /\ i + 1 \in 1 .. j
        BY <1>5, <1>7, <2>1
    <2> QED BY <1>3, <1>9, <2>2 DEF In
<1>11. ASSUME NEW n \in QNodes, OnQ(c, n) PROVE n \in QLinked(first)
    <2>1. PICK i \in 1 .. j : l[i] = n
        BY <1>3, <1>9, <1>11 DEF In
    <2>2. i - 1 \in 0 .. k /\ i - 1 < j /\ (i - 1) + 1 = i
        BY <1>5, <2>1
    <2>3. g[i - 1] = n /\ n # QNull
        BY <1>7, <2>1, <2>2, QFacts
    <2> QED BY <1>8, <2>2, <2>3
<1> QED BY <1>2, <1>10, <1>11

LEMMA QInvCounts == QInv => QueueCounts
<1> SUFFICES ASSUME QInv PROVE QueueCounts
    OBVIOUS
<1>1. QTypeOK /\ \A t \in QThreads : QLocals(t)
    BY DEF QInv
<1>2. PICK c \in Seq(QNodes) : Shaped(c)
    BY DEF QInv
<1>3. PICK w \in QCount, o \in QOwed : QShape(c, w, o)
    BY <1>2 DEF Shaped
<1>4. /\ QChain(c) /\ QPlaced(c, o) /\ Tally(w, o)
      /\ \A t \in QThreads : Referring(t) => QRefers(c, t)
    BY <1>3 DEF QShape
<1>5. QLinked(ends["head"].ptr) = {n \in QNodes : OnQ(c, n)}
    BY <1>1, <1>4, QLinkedIs
<1>6. ASSUME NEW n \in qalloc PROVE OnQ(c, n) \/ n \in QHeld
    <2>1. n \in QNodes
        BY <1>1 DEF QTypeOK
    <2>2. CASE \E t \in QThreads : local[t].new = n
        BY <2>1, <2>2, QFacts DEF QHeld
    <2>3. CASE OffList(o, n)
        <3>1. \E t \in QThreads : local[t].ptr = n
            <4>1. CASE \A s \in QSide : n \notin o[s]
                BY <2>3, <4>1 DEF OffList, QRefs
            <4>2. CASE ~\A s \in QSide : n \notin o[s]
                <5>1. PICK s \in QSide : n \in o[s]
                    BY <4>2
                <5> QED BY <2>3, <5>1 DEF OffList, Leaves
            <4> QED BY <4>1, <4>2
        <3> QED BY <2>1, <3>1, QFacts DEF QHeld
    <2> QED BY <1>4, <2>2, <2>3 DEF QPlaced
<1>7. ASSUME NEW n, n \in QHeld PROVE n \in qalloc
    <2>1. n # QNull
        BY <1>7 DEF QHeld
    <2>2. PICK t \in QThreads : local[t].ptr = n \/ local[t].new = n
        BY <1>7 DEF QHeld
    <2>3. CASE local[t].new = n
        BY <1>4, <2>1, <2>3 DEF QPlaced, NewNode
    <2>4. CASE local[t].ptr = n
        <3>1. Referring(t) \/ Leaving(t)
            BY <1>1, <2>1, <2>4 DEF QLocals
        <3> QED BY <1>4, <2>4, <3>1 DEF QRefers, Tally, LeaverCounted
    <2> QED BY <2>2, <2>3, <2>4
<1>8. \A n \in QNodes : OnQ(c, n) => n \in qalloc
    BY <1>4 DEF QPlaced, OnList
<1>9. qalloc \subseteq QNodes
    BY <1>1 DEF QTypeOK
<1>10. qalloc = QLinked(ends["head"].ptr) \cup QHeld
    BY <1>5, <1>6, <1>7, <1>8, <1>9
<1> QED BY <1>10 DEF QueueCounts

\* No node of the queue is used after delete, deleted twice or lost, for any number of
\* threads and nodes, whichever of head and tail leaves a node last, and although a push
\* can go on in a node that both of them have left.
THEOREM QueueNodesCounted == QSpec => []QueueCounts
BY QInvHolds, QInvCounts, PTL

-----------------------------------------------------------------------------
(* CountedQueue: where the elements are                                    *)

\* The last push that t has begun has stored its element, or there is none.
Settled(t) == local[t].side # "tail" \/ local[t].done
Stored(e) == qpushes[e[1]] > e[2] \/ (qpushes[e[1]] = e[2] /\ Settled(e[1]))

Linking(t) == qpc[t] \in {"link", "set_tail"}
Popping(n) == \E t \in QThreads : qpc[t] = "exchange" /\ local[t].ptr = n

\* All nodes before the last have data; that has some from a push that has still to link a
\* node behind it, or to see that the tail has moved.
QFilled(c) ==
    /\ \A n \in QNodes : In(c, n) \/ Popping(n) => qnode[n].data # QNull
    /\ \A t \in QThreads : Linking(t) /\ local[t].ptr = QLast => qnode[QLast].data # QNull
    /\ qnode[QLast].data # QNull =>
            \E t \in QThreads : /\ Linking(t) /\ local[t].ptr = QLast /\ local[t].done
                                /\ qnode[QLast].data = QArg(t)

QOnce ==
    /\ \A n, m \in QNodes : qnode[n].data # QNull /\ qnode[n].data = qnode[m].data => n = m
    /\ \A n \in QNodes : qnode[n].data # QNull => qnode[n].data \notin popped /\ Stored(qnode[n].data)
    /\ \A e \in popped : e \in QElement /\ Stored(e)

QFound(c) ==
    \A e \in QElement : Stored(e) /\ e \notin late =>
        \/ e \in popped
        \/ \E n \in QNodes : qnode[n].data = e /\ (In(c, n) \/ n = QLast \/ Popping(n))

QDataInv ==
    /\ QInv /\ QOnce
    /\ \E c \in Seq(QNodes) : Shaped(c) /\ QFilled(c) /\ QFound(c)

\* A step of t that stores and takes no data.
NoData(t, c) ==
    /\ OthersKeep(t) /\ \A u \in QThreads \ {t} : qpushes'[u] = qpushes[u]
    /\ popped' = popped /\ late' = late /\ QLast' = QLast
    /\ qpc[t] # "exchange" /\ qpc'[t] # "exchange"
    /\ Linking(t)' /\ local'[t].ptr = QLast <=> Linking(t) /\ local[t].ptr = QLast
    /\ Linking(t) /\ local[t].ptr = QLast =>
            (local'[t].done <=> local[t].done) /\ qpushes'[t] = qpushes[t]
    /\ \A e \in QElement : Stored(e)' <=> Stored(e)
    /\ \A n \in QNodes : \/ qnode'[n].data = qnode[n].data
                         \/ qnode'[n].data = QNull /\ ~OnQ(c, n) /\ ~Popping(n)

LEMMA QElementFields ==
    ASSUME NEW e \in QElement
    PROVE  e[1] \in QThreads /\ e[2] \in Nat /\ e[2] > 0 /\ e = <<e[1], e[2]>>
<1>1. PICK t \in QThreads : e \in {t} \X (1 .. QMaxPushes[t])
    BY DEF QElement
<1> QED BY <1>1, QBoundsAssumption

LEMMA StoredSame ==
    ASSUME QTypeOK, QTypeOK', NEW t \in QThreads, OthersKeep(t),
           \A u \in QThreads \ {t} : qpushes'[u] = qpushes[u],
           \/ qpushes'[t] = qpushes[t] /\ (Settled(t)' <=> Settled(t))
           \/ qpushes'[t] = qpushes[t] + 1 /\ Settled(t) /\ ~Settled(t)'
    PROVE  \A e \in QElement : Stored(e)' <=> Stored(e)
<1> SUFFICES ASSUME NEW e \in QElement PROVE Stored(e)' <=> Stored(e)
    OBVIOUS
<1>1. PICK u \in QThreads, k \in Nat : u = e[1] /\ k = e[2]
    BY QElementFields
<1>2. PICK p \in Nat : p = qpushes[u]
    BY DEF QTypeOK
<1>3. Stored(e) <=> p > k \/ (p = k /\ Settled(u))
    BY <1>1, <1>2 DEF Stored
<1>4. PICK q \in Nat : q = qpushes'[u]
    BY DEF QTypeOK
<1>5. Stored(e)' <=> q > k \/ (q = k /\ Settled(u)')
    BY <1>1, <1>4 DEF Stored
<1>6. CASE u # t
    <2>1. q = p
        BY <1>2, <1>4, <1>6
    <2>2. Settled(u)' <=> Settled(u)
        BY <1>6 DEF OthersKeep, Settled
    <2> QED BY <1>3, <1>5, <2>1, <2>2
<1>7. CASE u = t
    BY <1>2, <1>3, <1>4, <1>5, <1>7
<1> QED BY <1>6, <1>7

LEMMA NoDataPop ==
    ASSUME QTypeOK, QTypeOK', NEW t \in QThreads, NEW c, \A u \in QThreads : QLocals(u), QPop(t)
    PROVE  NoData(t, c)
<1>1. /\ QMembersStay /\ OthersKeep(t) /\ qpc[t] = "idle" /\ qpc'[t] = "increase"
      /\ local'[t] = [local[t] EXCEPT !.side = "head", !.old = ends.head]
    BY QPopEff
<1>2. UNCHANGED <<qpushes, popped, late>>
    BY DEF QPop, qHistory
<1>3. local[t].side = "head" /\ local'[t].side = "head"
    BY <1>1, QFacts, QLocalsFields DEF QLocals, QLocalType
<1>4. Settled(t)' <=> Settled(t)
    BY <1>3 DEF Settled
<1>5. \A e \in QElement : Stored(e)' <=> Stored(e)
    BY <1>1, <1>2, <1>4, StoredSame
<1>6. ~Linking(t) /\ ~Linking(t)'
    BY <1>1 DEF Linking
<1> QED BY <1>1, <1>2, <1>5, <1>6 DEF NoData, QMembersStay, QLast

LEMMA NoDataPush ==
    ASSUME QTypeOK, QTypeOK', NEW t \in QThreads, NEW c, \A u \in QThreads : QLocals(u), QPush(t)
    PROVE  NoData(t, c)
<1>1. PICK n \in QNodes \ qalloc :
            /\ qalloc' = qalloc \cup {n} /\ UNCHANGED <<ends, qnode>>
            /\ OthersKeep(t) /\ qpc[t] = "idle" /\ qpc'[t] = "increase"
            /\ local'[t] = [local[t] EXCEPT !.side = "tail", !.new = n, !.old = ends.tail]
    BY QPushEff
<1>2. UNCHANGED <<popped, late>> /\ qpushes' = [qpushes EXCEPT ![t] = @ + 1]
    BY Zenon DEF QPush, qHistory
<1>3. qpushes'[t] = qpushes[t] + 1 /\ \A u \in QThreads \ {t} : qpushes'[u] = qpushes[u]
    <2>1. qpushes \in [QThreads -> Nat]
        BY DEF QTypeOK
    <2> QED BY <1>2, <2>1
<1>4. local[t].side = "head" /\ local'[t].side = "tail" /\ ~local'[t].done
    BY <1>1, QFacts, QLocalsFields DEF QLocals, QLocalType
<1>5. Settled(t) /\ ~Settled(t)'
    BY <1>4 DEF Settled
<1>6. \A e \in QElement : Stored(e)' <=> Stored(e)
    BY <1>1, <1>3, <1>5, StoredSame
<1>7. ~Linking(t) /\ ~Linking(t)'
    BY <1>1 DEF Linking
<1> QED BY <1>1, <1>2, <1>3, <1>6, <1>7 DEF NoData, QLast

\* Most calls do not change whether they have stored their element either.
LEMMA NoDataCall ==
    ASSUME QTypeOK, QTypeOK', NEW t \in QThreads, NEW c, OthersKeep(t),
           UNCHANGED <<qpushes, popped, late>>, QLast' = QLast, Settled(t)' <=> Settled(t),
           qpc[t] # "exchange", qpc'[t] # "exchange",
           Linking(t)' /\ local'[t].ptr = QLast <=> Linking(t) /\ local[t].ptr = QLast,
           Linking(t) /\ local[t].ptr = QLast => (local'[t].done <=> local[t].done),
           \A n \in QNodes : \/ qnode'[n].data = qnode[n].data
                             \/ qnode'[n].data = QNull /\ ~OnQ(c, n) /\ ~Popping(n)
    PROVE  NoData(t, c)
<1>1. \A e \in QElement : Stored(e)' <=> Stored(e)
    BY StoredSame
<1> QED BY <1>1 DEF NoData

LEMMA NoDataIncrease ==
    ASSUME QTypeOK, QTypeOK', NEW t \in QThreads, NEW c, \A u \in QThreads : QLocals(u),
           increase_external_count(t)
    PROVE  NoData(t, c)
<1>1. PICK s \in QSide : s = local[t].side
    BY QLocalsFields
<1>2. UNCHANGED <<qnode, qalloc>> /\ OthersKeep(t) /\ qpc[t] = "increase"
    BY <1>1, QIncreaseEff
<1>3. UNCHANGED <<qpushes, popped, late>>
    BY DEF increase_external_count, qHistory, qCalls
<1>4. /\ QLast' = QLast /\ qpc'[t] \in {"increase", "store", "test"}
      /\ local'[t].side = local[t].side /\ local'[t].done = local[t].done
    <2>1. CASE ends[s] # local[t].old
        <3>1. /\ UNCHANGED ends /\ qpc'[t] = "increase"
              /\ local'[t] = [local[t] EXCEPT !.old = ends[s]]
            BY <1>1, <2>1, QIncreaseEff
        <3> QED BY <3>1, QLocalsFields DEF QLocalType, QLast
    <2>2. CASE ends[s] = local[t].old
        <3>1. PICK p \in QPointer :
                /\ p.ptr = ends[s].ptr /\ p.external_count = ends[s].external_count + 1
                /\ ends' = [ends EXCEPT ![s] = p]
                /\ qpc'[t] = IF s = "tail" THEN "store" ELSE "test"
                /\ local'[t] = [local[t] EXCEPT !.old = p, !.ptr = p.ptr]
            BY <1>1, <2>2, QIncreaseEff
        <3>2. ends'["tail"].ptr = ends["tail"].ptr
            BY <3>1, SideFacts DEF QTypeOK
        <3>3. local'[t].side = local[t].side /\ local'[t].done = local[t].done
            BY <3>1, QLocalsFields DEF QLocalType
        <3> QED BY <3>1, <3>2, <3>3 DEF QLast
    <2> QED BY <2>1, <2>2
<1>5. Settled(t)' <=> Settled(t)
    BY <1>4 DEF Settled
<1>6. ~Linking(t) /\ ~Linking(t)'
    BY <1>2, <1>4 DEF Linking
<1> QED BY <1>2, <1>3, <1>4, <1>5, <1>6, NoDataCall

LEMMA NoDataLink ==
    ASSUME QTypeOK, QTypeOK', NEW t \in QThreads, NEW c, \A u \in QThreads : QLocals(u), LinkNode(t)
    PROVE  NoData(t, c)
<1>1. qpc[t] = "link"
    BY DEF LinkNode
<1>2. PICK n \in QNodes : n = local[t].ptr
    BY <1>1 DEF QLocals, Referring
<1>3. UNCHANGED ends /\ OthersKeep(t) /\ qpc'[t] = "set_tail"
    BY <1>2, LinkNodeEff
<1>4. UNCHANGED <<qpushes, popped, late>>
    BY DEF LinkNode, qHistory, qCalls
<1>5. /\ \A m \in QNodes : qnode'[m].data = qnode[m].data
      /\ local'[t].side = local[t].side /\ local'[t].done = local[t].done /\ local'[t].ptr = local[t].ptr
    <2>1. CASE qnode[n].next = QNoPtr
        <3>1. PICK m \in IF local[t].done THEN {QNull} ELSE QNodes \ qalloc :
                       /\ qalloc' = qalloc \cup ({m} \ {QNull})
                       /\ qnode' = [qnode EXCEPT ![n].next = QCounted(1, local[t].new)]
                       /\ local'[t] = [local[t] EXCEPT !.next = QCounted(1, local[t].new), !.new = m]
            BY <1>2, <2>1, LinkNodeEff
        <3>2. \A k \in QNodes : qnode'[k].data = qnode[k].data
            BY <3>1 DEF QTypeOK, QNodeType
        <3> QED BY <3>1, <3>2, QLocalsFields DEF QLocalType
    <2>2. CASE qnode[n].next # QNoPtr
        <3>1. /\ UNCHANGED qnode
              /\ local'[t] = [local[t] EXCEPT !.next = qnode[n].next,
                                              !.new = IF local[t].done THEN QNull ELSE local[t].new]
            BY <1>2, <2>2, LinkNodeEff
        <3> QED BY <3>1, QLocalsFields DEF QLocalType
    <2> QED BY <2>1, <2>2
<1>6. Settled(t)' <=> Settled(t)
    BY <1>5 DEF Settled
<1>7. Linking(t) /\ Linking(t)'
    BY <1>1, <1>3 DEF Linking
<1>8. QLast' = QLast
    BY <1>3 DEF QLast
<1> QED BY <1>1, <1>3, <1>4, <1>5, <1>6, <1>7, <1>8, NoDataCall

LEMMA NoDataSetTail ==
    ASSUME QTypeOK, QTypeOK', NEW t \in QThreads, NEW c, \A u \in QThreads : QLocals(u), set_new_tail(t),
           ~TailMoves(t)
    PROVE  NoData(t, c)
<1>1. ends["tail"] # local[t].old
    BY DEF TailMoves
<1>2. /\ UNCHANGED <<qnode, qalloc>> /\ OthersKeep(t) /\ qpc[t] = "set_tail" /\ UNCHANGED ends
      /\ qpc'[t] = IF ends["tail"].ptr = local[t].ptr THEN "set_tail" ELSE "release"
      /\ local'[t] = [local[t] EXCEPT !.old = ends["tail"]]
    BY <1>1, set_new_tailEff
<1>3. UNCHANGED <<qpushes, popped, late>>
    BY DEF set_new_tail, qHistory, qCalls
<1>4. local'[t].side = local[t].side /\ local'[t].done = local[t].done /\ local'[t].ptr = local[t].ptr
    BY <1>2, QLocalsFields DEF QLocalType
<1>5. Settled(t)' <=> Settled(t)
    BY <1>4 DEF Settled
<1>6. Linking(t) /\ (Linking(t)' <=> local[t].ptr = QLast)
    BY <1>2 DEF Linking, QLast
<1>7. QLast' = QLast
    BY <1>2 DEF QLast
<1>8. qpc[t] # "exchange" /\ qpc'[t] # "exchange"
    BY <1>2
<1> QED BY <1>2, <1>3, <1>4, <1>5, <1>6, <1>7, <1>8, NoDataCall

LEMMA NoDataTest ==
    ASSUME QTypeOK, QTypeOK', NEW t \in QThreads, NEW c, \A u \in QThreads : QLocals(u),
           TestEmpty(t) \/ LoadNext(t) \/ (Unlink(t) /\ ~HeadMoves(t))
    PROVE  NoData(t, c)
<1>1. /\ UNCHANGED ends /\ UNCHANGED qnode /\ OthersKeep(t) /\ qpc[t] \in {"test", "next", "unlink"}
      /\ qpc'[t] \in {"next", "unlink", "release"} /\ local'[t].side = local[t].side
    <2>1. CASE TestEmpty(t)
        <3>1. /\ QMembersStay /\ OthersKeep(t) /\ qpc[t] = "test"
              /\ qpc'[t] = IF local[t].ptr = ends["tail"].ptr THEN "release" ELSE "next"
              /\ local'[t] = [local[t] EXCEPT !.done = (local[t].ptr = ends["tail"].ptr)]
            BY <2>1, TestEmptyEff
        <3> QED BY <3>1, QLocalsFields DEF QLocalType, QMembersStay
    <2>2. CASE LoadNext(t)
        <3>1. /\ QMembersStay /\ OthersKeep(t) /\ qpc[t] = "next" /\ qpc'[t] = "unlink"
              /\ local'[t] = [local[t] EXCEPT !.next = qnode[local[t].ptr].next]
            BY <2>2, LoadNextEff
        <3> QED BY <3>1, QLocalsFields DEF QLocalType, QMembersStay
    <2>3. CASE Unlink(t) /\ ~HeadMoves(t)
        <3>1. ends["head"] # local[t].old
            BY <2>3 DEF HeadMoves
        <3>2. /\ UNCHANGED <<qnode, qalloc>> /\ OthersKeep(t) /\ qpc[t] = "unlink" /\ UNCHANGED ends
              /\ qpc'[t] = "release"
              /\ local'[t] = [local[t] EXCEPT !.old = ends["head"]]
            BY <2>3, <3>1, UnlinkEff
        <3> QED BY <3>2, QLocalsFields DEF QLocalType
    <2> QED BY <2>1, <2>2, <2>3
<1>2. UNCHANGED <<qpushes, popped, late>>
    BY DEF TestEmpty, LoadNext, Unlink, qHistory, qCalls
<1>3. Settled(t)' /\ Settled(t)
    BY <1>1 DEF Settled, QLocals
<1>4. ~Linking(t) /\ ~Linking(t)'
    BY <1>1 DEF Linking
<1>5. QLast' = QLast
    BY <1>1 DEF QLast
<1>6. qpc[t] # "exchange" /\ qpc'[t] # "exchange"
    BY <1>1
<1> QED BY <1>1, <1>2, <1>3, <1>4, <1>5, <1>6, NoDataCall

LEMMA NoDataCount ==
    ASSUME QTypeOK, QTypeOK', NEW t \in QThreads, NEW c \in Seq(QNodes),
           \A u \in QThreads : QLocals(u), Shaped(c),
           free_external_counter(t) \/ release_ref(t)
    PROVE  NoData(t, c)
<1>1. /\ (qpc[t] = "free" /\ free_external_counter(t)) \/ (qpc[t] = "release" /\ release_ref(t))
      /\ Shaped(c)'
    BY UpdateCountShape DEF free_external_counter, release_ref
<1>2. PICK n \in QNodes : n = local[t].ptr
    BY <1>1 DEF QLocals, Referring, Leaving
<1>3. PICK i, e : \E x \in QNodeType : Updated(t, n, i, e, x)
    <2>1. PICK a \in Int, b \in Int : UpdateCount(t, a, b)
        <3>1. local[t].old.external_count - 2 \in Int /\ -1 \in Int /\ 0 \in Int /\ 1 \in Int
            <4>1. local[t].old.external_count \in Int
                BY QLocalsFields
            <4> QED BY <4>1
        <3> QED BY <1>1, <3>1 DEF free_external_counter, release_ref
    <2> QED BY <1>2, <2>1, UpdateCountEff
<1>4. PICK x \in QNodeType : Updated(t, n, i, e, x)
    BY <1>3
<1>5. /\ UNCHANGED ends /\ OthersKeep(t) /\ qpc'[t] \in {"idle", "increase"}
      /\ UNCHANGED <<qpushes, popped, late>>
    BY <1>1, <1>4 DEF Updated, free_external_counter, release_ref, UpdateCount, qHistory, qCalls
<1>6. Settled(t)' <=> Settled(t)
    <2>1. CASE local[t].done
        <3>1. local'[t] = QNoLocals
            BY <1>4, <2>1 DEF Updated
        <3> QED BY <2>1, <3>1, QFacts DEF Settled
    <2>2. CASE ~local[t].done
        <3>1. local'[t] = [local[t] EXCEPT !.ptr = QNull, !.next = QNoPtr]
            BY <1>4, <2>2 DEF Updated
        <3>2. local'[t].side = local[t].side /\ local'[t].done = local[t].done
            BY <3>1, QLocalsFields DEF QLocalType
        <3> QED BY <3>2 DEF Settled
    <2> QED BY <2>1, <2>2
<1>7. PICK w \in QCount, o \in QOwed : QShape(c, w, o)
    BY DEF Shaped
<1>8. ASSUME NEW m \in QNodes
      PROVE  \/ qnode'[m].data = qnode[m].data
             \/ qnode'[m].data = QNull /\ ~OnQ(c, m) /\ ~Popping(m)
    <2>1. CASE m # n \/ ~(i = 0 /\ e = 0)
        BY <1>4, <2>1 DEF Updated, QTypeOK
    <2>2. CASE m = n /\ i = 0 /\ e = 0
        <3>1. qnode'[n] = QNode /\ n \notin qalloc'
            BY <1>4, <2>2 DEF Updated, QTypeOK
        <3>2. PICK w2 \in QCount, o2 \in QOwed : QShape(c, w2, o2)'
            BY <1>1 DEF Shaped
        <3>3. ~OnQ(c, n)'
            BY <3>1, <3>2 DEF QShape, QPlaced, OnList
        <3>4. OnQ(c, n) => OnQ(c, n)'
            <4>1. PICK last \in QNodes : last = QLast
                BY <1>7 DEF QShape, QChain
            <4>2. QLast' = QLast
                BY <1>5 DEF QLast
            <4>3. CASE n = QSecond /\ n # QNull
                <5>1. Fresh(n)
                    BY <1>7, <4>3 DEF QShape, QChain
                <5>2. Referring(t) \/ Leaving(t)
                    BY <1>1 DEF Referring, Leaving
                <5> QED BY <1>2, <5>1, <5>2, QWorkedOn, QLocalsFields
            <4> QED BY <4>2, <4>3 DEF OnQ
        <3>5. ~Popping(n)
            <4> SUFFICES ASSUME NEW u \in QThreads, qpc[u] = "exchange", local[u].ptr = n PROVE FALSE
                BY DEF Popping
            <4>1. u # t
                BY <1>1
            <4>2. qpc'[u] = "exchange" /\ local'[u].ptr = n
                BY <1>5, <4>1 DEF OthersKeep
            <4>3. Leaving(u)'
                BY <4>2 DEF Leaving
            <4> QED BY <3>1, <3>2, <4>2, <4>3 DEF QShape, Tally, LeaverCounted
        <3> QED BY <2>2, <3>1, <3>3, <3>4, <3>5, QFacts
    <2> QED BY <2>1, <2>2
<1>9. ~Linking(t) /\ ~Linking(t)'
    BY <1>1, <1>5 DEF Linking
<1>10. QLast' = QLast
    BY <1>5 DEF QLast
<1>11. qpc[t] # "exchange" /\ qpc'[t] # "exchange"
    BY <1>1, <1>5
<1> QED BY <1>5, <1>6, <1>8, <1>9, <1>10, <1>11, NoDataCall

LEMMA NoDataStep ==
    ASSUME QTypeOK, QTypeOK', NEW t \in QThreads, NEW c \in Seq(QNodes),
           \A u \in QThreads : QLocals(u), Shaped(c), QStep(t) \/ QPush(t) \/ QPop(t),
           ~StoreData(t), ~TailMoves(t), ~HeadMoves(t), ~ExchangeData(t)
    PROVE  NoData(t, c)
<1>1. CASE QPop(t)
    BY <1>1, NoDataPop
<1>2. CASE QPush(t)
    BY <1>2, NoDataPush
<1>3. CASE increase_external_count(t)
    BY <1>3, NoDataIncrease
<1>4. CASE LinkNode(t)
    BY <1>4, NoDataLink
<1>5. CASE set_new_tail(t)
    BY <1>5, NoDataSetTail
<1>6. CASE TestEmpty(t) \/ LoadNext(t) \/ Unlink(t)
    BY <1>6, NoDataTest
<1>7. CASE free_external_counter(t) \/ release_ref(t)
    BY <1>7, NoDataCount
<1> QED BY <1>1, <1>2, <1>3, <1>4, <1>5, <1>6, <1>7 DEF QStep

\* Elements stay where they are then.
LEMMA NoDataKeeps ==
    ASSUME QTypeOK, QTypeOK', NEW t \in QThreads, NEW c \in Seq(QNodes), NoData(t, c),
           Shaped(c), QOnce, QFilled(c), QFound(c)
    PROVE  QOnce' /\ QFilled(c)' /\ QFound(c)'
<1>1. PICK last \in QNodes : last = QLast
    BY DEF Shaped, QShape, QChain
<1>2. QLast' = last
    BY <1>1 DEF NoData
<1>3. \A n \in QNodes : \/ qnode'[n].data = qnode[n].data
                        \/ qnode'[n].data = QNull /\ ~OnQ(c, n) /\ ~Popping(n)
    BY DEF NoData
<1>4. \A n : Popping(n)' <=> Popping(n)
    BY DEF NoData, Popping, OthersKeep
<1>5. qnode'[last].data = qnode[last].data /\ \A n \in QNodes : In(c, n) \/ Popping(n) => qnode'[n].data = qnode[n].data
    BY <1>1, <1>3 DEF OnQ
<1>6. \A e \in QElement : Stored(e)' <=> Stored(e)
    BY DEF NoData
<1>7. popped' = popped /\ late' = late
    BY DEF NoData
<1>8. QOnce'
    <2>1. \A n \in QNodes : qnode[n].data \in QElement \cup {QNull}
        BY DEF QTypeOK, QNodeType
    <2>2. \A n \in QNodes : qnode'[n].data # QNull => qnode'[n].data = qnode[n].data
        BY <1>3
    <2>3. \A n, m \in QNodes : qnode'[n].data # QNull /\ qnode'[n].data = qnode'[m].data => n = m
        BY <2>2 DEF QOnce
    <2>4. \A n \in QNodes : qnode'[n].data # QNull => qnode'[n].data \notin popped' /\ Stored(qnode[n].data)'
        BY <1>6, <1>7, <2>1, <2>2 DEF QOnce
    <2>5. \A e \in popped' : e \in QElement /\ Stored(e)'
        BY <1>6, <1>7 DEF QOnce
    <2> QED BY <2>3, <2>4, <2>5 DEF QOnce
<1>9. QFilled(c)'
    <2>1. \A n \in QNodes : In(c, n) \/ Popping(n)' => qnode'[n].data # QNull
        BY <1>4, <1>5 DEF QFilled
    <2>2. ASSUME NEW u \in QThreads
          PROVE  /\ Linking(u)' /\ local'[u].ptr = last <=> Linking(u) /\ local[u].ptr = last
                 /\ Linking(u) /\ local[u].ptr = last =>
                        (local'[u].done <=> local[u].done) /\ QArg(u)' = QArg(u)
        <3>1. CASE u = t
            BY <1>1, <3>1 DEF NoData, QArg
        <3>2. CASE u # t
            BY <3>2 DEF NoData, OthersKeep, Linking, QArg
        <3> QED BY <3>1, <3>2
    <2>3. \A u \in QThreads : Linking(u)' /\ local'[u].ptr = last => qnode'[last].data # QNull
        BY <1>1, <1>5, <2>2 DEF QFilled
    <2>4. ASSUME qnode'[last].data # QNull
          PROVE  \E u \in QThreads : /\ Linking(u)' /\ local'[u].ptr = last /\ local'[u].done
                                     /\ qnode'[last].data = QArg(u)'
        <3>1. PICK u \in QThreads : /\ Linking(u) /\ local[u].ptr = last /\ local[u].done
                                    /\ qnode[last].data = QArg(u)
            BY <1>1, <1>5, <2>4 DEF QFilled
        <3> QED BY <1>5, <2>2, <3>1
    <2> QED BY <1>2, <2>1, <2>3, <2>4 DEF QFilled
<1>10. QFound(c)'
    <2> SUFFICES ASSUME NEW e \in QElement, Stored(e)', e \notin late', e \notin popped'
                 PROVE  \E n \in QNodes : qnode'[n].data = e /\ (In(c, n) \/ n = QLast' \/ Popping(n)')
        BY DEF QFound
    <2>1. PICK n \in QNodes : qnode[n].data = e /\ (In(c, n) \/ n = QLast \/ Popping(n))
        BY <1>6, <1>7 DEF QFound
    <2>2. qnode'[n].data = e
        BY <1>1, <1>5, <2>1
    <2> QED BY <1>1, <1>2, <1>4, <2>1, <2>2
<1> QED BY <1>8, <1>9, <1>10

\* Behind the last node there is a node without an element, or none.
LEMMA QBehindLast ==
    ASSUME QTypeOK, NEW c \in Seq(QNodes), QChain(c), NEW n \in QLinked(ends["tail"].ptr)
    PROVE  n = QLast \/ (n = QSecond /\ n \in QNodes /\ Fresh(n))
<1>1. PICK last \in QNodes, links \in {QLinks} : last = QLast /\ links = QLinks
    BY DEF QChain
<1>2. PICK second : second = QSecond
    OBVIOUS
<1>3. second \in QAddress /\ links[last] = second /\ last # QNull
    BY <1>1, <1>2, QFacts DEF QLinks, QSecond, QTypeOK, QNodeType
<1>4. PICK l \in Seq({last, second} \cap QNodes) : Linked(last, links, QNull, l) /\ l \in Seq(QNodes)
    <2>1. CASE second = QNull
        <3>1. <<last>> \in Seq({last, second} \cap QNodes) /\ <<last>> \in Seq(QNodes)
            BY <1>1
        <3>2. Linked(last, links, QNull, <<last>>)
            BY <1>3, <2>1 DEF Linked
        <3> QED BY <3>1, <3>2
    <2>2. CASE second # QNull
        <3>1. second \in QNodes /\ second # last /\ Fresh(second)
            BY <1>1, <1>2, <1>3, <2>2 DEF QChain, QAddress
        <3>2. links[second] = QNull
            BY <1>1, <3>1, QFacts DEF QLinks, Fresh
        <3>3. <<last, second>> \in Seq({last, second} \cap QNodes) /\ <<last, second>> \in Seq(QNodes)
            BY <1>1, <3>1
        <3>4. Linked(last, links, QNull, <<last, second>>)
            BY <1>3, <3>2 DEF Linked
        <3> QED BY <3>3, <3>4
    <2> QED BY <2>1, <2>2
<1>5. QWalk(last) = [i \in 0 .. Cardinality(QNodes) |-> IF i < Len(l) THEN l[i + 1] ELSE QNull]
    BY <1>1, <1>4, QWalkIs
<1>6. PICK k \in Nat, j \in Nat : k = Cardinality(QNodes) /\ j = Len(l)
    BY QNodesAssumption, FS_CardinalityType, LenProperties
<1>7. \A i \in 1 .. j : l[i] \in {last, second} \cap QNodes
    BY <1>4, <1>6, ElementOfSeq, LenProperties
<1>8. PICK g : g = QWalk(last)
    OBVIOUS
<1>9. n \in {g[i] : i \in 0 .. k} /\ n # QNull
    BY <1>1, <1>6, <1>8 DEF QLinked, QLast
<1>10. PICK i \in 0 .. k : n = g[i]
    BY <1>9
<1>11. i < j /\ n = l[i + 1]
    BY <1>5, <1>6, <1>8, <1>9, <1>10
<1>12. n \in {last, second} /\ n \in QNodes
    <2>1. i + 1 \in 1 .. j
        BY <1>11
    <2> QED BY <1>7, <1>11, <2>1
<1> QED BY <1>1, <1>2, <1>9, <1>12 DEF QChain

LEMMA StoreDataKeeps ==
    ASSUME QTypeOK, QTypeOK', NEW t \in QThreads, NEW c \in Seq(QNodes),
           \A u \in QThreads : QLocals(u), Shaped(c), StoreData(t), QOnce, QFilled(c), QFound(c)
    PROVE  QOnce' /\ QFilled(c)' /\ QFound(c)'
<1>1. PICK w \in QCount, o \in QOwed : QShape(c, w, o)
    BY DEF Shaped
<1>2. QChain(c)
    BY <1>1 DEF QShape
<1>3. PICK last \in QNodes : last = QLast
    BY <1>2 DEF QChain
<1>4. qpc[t] = "store"
    BY DEF StoreData
<1>5. PICK n \in QNodes : n = local[t].ptr
    BY <1>4 DEF QLocals, Referring
<1>6. /\ UNCHANGED <<ends, qalloc>> /\ OthersKeep(t) /\ qpc'[t] = "link"
      /\ qnode' = [qnode EXCEPT ![n].data = IF qnode[n].data = QNull THEN QArg(t) ELSE @]
      /\ local'[t] = [local[t] EXCEPT !.done = (qnode[n].data = QNull)]
    BY <1>5, StoreDataEff
<1>7. UNCHANGED <<qpushes, popped>>
    BY DEF StoreData, qCalls
<1>8. /\ local'[t].side = "tail" /\ local'[t].ptr = n /\ local'[t].done = (qnode[n].data = QNull)
      /\ local[t].side = "tail" /\ ~local[t].done /\ qpushes[t] > 0
    BY <1>4, <1>5, <1>6, QLocalsFields DEF QLocalType, QLocals
<1>9. PICK a \in QElement : a = QArg(t)
    BY <1>8, QArgElement
<1>10. /\ \A m \in QNodes : m # n => qnode'[m].data = qnode[m].data
       /\ qnode[n].data = QNull => qnode'[n].data = a
       /\ qnode[n].data # QNull => qnode'[n].data = qnode[n].data
    BY <1>6, <1>9 DEF QTypeOK, QNodeType
<1>11. QLast' = last
    BY <1>3, <1>6 DEF QLast
<1>12. /\ \A m : Popping(m)' <=> Popping(m)
       /\ \A u \in QThreads \ {t} : /\ Linking(u)' <=> Linking(u)
                                    /\ local'[u] = local[u] /\ QArg(u)' = QArg(u)
       /\ ~Linking(t) /\ Linking(t)'
    BY <1>4, <1>6, <1>7 DEF Popping, Linking, OthersKeep, QArg
<1>13. a # QNull
    BY <1>9, QFacts
<1>14. CASE qnode[n].data # QNull
    <2>1. \A m \in QNodes : qnode'[m].data = qnode[m].data
        BY <1>10, <1>14
    <2>2. ~local'[t].done
        BY <1>8, <1>14
    <2>3. Settled(t)' <=> Settled(t)
        BY <1>8, <2>2 DEF Settled
    <2>4. \A e \in QElement : Stored(e)' <=> Stored(e)
        BY <1>6, <1>7, <2>3, StoredSame
    <2>5. late' = late
        BY <1>5, <1>14 DEF StoreData
    <2>6. QOnce'
        <3>1. \A m \in QNodes : qnode[m].data \in QElement \cup {QNull}
            BY DEF QTypeOK, QNodeType
        <3>2. \A m \in QNodes : qnode'[m].data # QNull => qnode'[m].data \notin popped' /\ Stored(qnode[m].data)'
            BY <1>7, <2>1, <2>4, <3>1 DEF QOnce
        <3>3. \A e \in popped' : e \in QElement /\ Stored(e)'
            BY <1>7, <2>4 DEF QOnce
        <3>4. \A m, k \in QNodes : qnode'[m].data # QNull /\ qnode'[m].data = qnode'[k].data => m = k
            BY <2>1 DEF QOnce
        <3> QED BY <3>2, <3>3, <3>4 DEF QOnce
    <2>7. QFilled(c)'
        <3>1. \A m \in QNodes : In(c, m) \/ Popping(m)' => qnode'[m].data # QNull
            BY <1>12, <2>1 DEF QFilled
        <3>2. ASSUME NEW u \in QThreads, Linking(u)', local'[u].ptr = last PROVE qnode'[last].data # QNull
            <4>1. CASE u = t
                BY <1>8, <1>14, <2>1, <3>2, <4>1
            <4>2. CASE u # t
                BY <1>3, <1>12, <2>1, <3>2, <4>2 DEF QFilled
            <4> QED BY <4>1, <4>2
        <3>3. ASSUME qnode'[last].data # QNull
              PROVE  \E u \in QThreads : /\ Linking(u)' /\ local'[u].ptr = last /\ local'[u].done
                                         /\ qnode'[last].data = QArg(u)'
            <4>1. PICK u \in QThreads : /\ Linking(u) /\ local[u].ptr = last /\ local[u].done
                                        /\ qnode[last].data = QArg(u)
                BY <1>3, <2>1, <3>3 DEF QFilled
            <4>2. u # t
                BY <1>12, <4>1
            <4> QED BY <1>12, <2>1, <4>1, <4>2
        <3> QED BY <1>11, <3>1, <3>2, <3>3 DEF QFilled
    <2>8. QFound(c)'
        <3> SUFFICES ASSUME NEW e \in QElement, Stored(e)', e \notin late', e \notin popped'
                     PROVE  \E m \in QNodes : qnode'[m].data = e /\ (In(c, m) \/ m = QLast' \/ Popping(m)')
            BY DEF QFound
        <3>1. PICK m \in QNodes : qnode[m].data = e /\ (In(c, m) \/ m = QLast \/ Popping(m))
            BY <1>7, <2>4, <2>5 DEF QFound
        <3> QED BY <1>3, <1>11, <1>12, <2>1, <3>1
    <2> QED BY <2>6, <2>7, <2>8
<1>15. CASE qnode[n].data = QNull
    <2>1. \A e \in QElement : Stored(e)' <=> Stored(e) \/ e = a
        <3> SUFFICES ASSUME NEW e \in QElement PROVE Stored(e)' <=> Stored(e) \/ e = a
            OBVIOUS
        <3>1. PICK u \in QThreads, k \in Nat : e = <<u, k>> /\ u = e[1] /\ k = e[2]
            BY QElementFields
        <3>2. PICK p \in Nat : p = qpushes[u] /\ p = qpushes'[u]
            BY <1>7 DEF QTypeOK
        <3>3. /\ Stored(e) <=> p > k \/ (p = k /\ Settled(u))
              /\ Stored(e)' <=> p > k \/ (p = k /\ Settled(u)')
            BY <3>1, <3>2 DEF Stored
        <3>4. CASE u # t
            <4>1. Settled(u)' <=> Settled(u)
                BY <1>12, <3>4 DEF Settled
            <4>2. e # a
                BY <1>9, <3>1, <3>4 DEF QArg
            <4> QED BY <3>3, <4>1, <4>2
        <3>5. CASE u = t
            <4>1. Settled(t)' /\ ~Settled(t)
                BY <1>8, <1>15 DEF Settled
            <4>2. e = a <=> p = k
                BY <1>9, <3>1, <3>2, <3>5 DEF QArg
            <4> QED BY <3>3, <3>5, <4>1, <4>2
        <3> QED BY <3>4, <3>5
    <2>2. ~Stored(a)
        <3>1. PICK k \in Nat : k = qpushes[t]
            BY DEF QTypeOK
        <3>2. a[1] = t /\ a[2] = k
            BY <1>9, <3>1 DEF QArg
        <3> QED BY <1>8, <3>1, <3>2 DEF Stored, Settled
    <2>3. a \notin popped /\ \A m \in QNodes : qnode[m].data # a
        BY <1>13, <2>2 DEF QOnce
    <2>4. late' = late \/ (late' = late \cup {a} /\ n \notin QLinked(ends["tail"].ptr))
        BY <1>5, <1>9, <1>15 DEF StoreData
    <2>5. n # last => a \in late'
        <3> SUFFICES ASSUME n # last PROVE a \in late'
            OBVIOUS
        <3>1. Referring(t)
            BY <1>4 DEF Referring
        <3>2. ~Fresh(n)
            BY <1>5, <3>1, QWorkedOn, QLocalsFields
        <3>3. n \notin QLinked(ends["tail"].ptr)
            BY <1>2, <1>3, <3>2, QBehindLast
        <3> QED BY <1>5, <1>9, <1>15, <3>3 DEF StoreData
    <2>6. ~In(c, n) /\ ~Popping(n)
        BY <1>15 DEF QFilled
    <2>7. QOnce'
        <3>1. \A m \in QNodes : qnode[m].data \in QElement \cup {QNull}
            BY DEF QTypeOK, QNodeType
        <3>2. ASSUME NEW m \in QNodes, qnode'[m].data # QNull
              PROVE  qnode'[m].data \notin popped' /\ Stored(qnode[m].data)'
            <4>1. PICK e \in QElement : e = qnode'[m].data
                BY <3>2, QLocalsFields DEF QTypeOK, QNodeType
            <4>2. e \notin popped /\ (Stored(e) \/ e = a)
                BY <1>10, <1>15, <2>3, <3>2, <4>1 DEF QOnce
            <4>3. Stored(e)'
                BY <2>1, <4>2
            <4> QED BY <1>7, <4>1, <4>2, <4>3 DEF Stored
        <3>3. \A e \in popped' : e \in QElement /\ Stored(e)'
            BY <1>7, <2>1 DEF QOnce
        <3>4. \A m, k \in QNodes : qnode'[m].data # QNull /\ qnode'[m].data = qnode'[k].data => m = k
            BY <1>10, <1>15, <2>3 DEF QOnce
        <3> QED BY <3>2, <3>3, <3>4 DEF QOnce
    <2>8. QFilled(c)'
        <3>1. \A m \in QNodes : In(c, m) \/ Popping(m)' => qnode'[m].data # QNull
            BY <1>10, <1>12, <2>6 DEF QFilled
        <3>2. ASSUME NEW u \in QThreads, Linking(u)', local'[u].ptr = last PROVE qnode'[last].data # QNull
            <4>1. CASE u = t
                BY <1>8, <1>10, <1>13, <1>15, <3>2, <4>1
            <4>2. CASE u # t
                <5>1. qnode[last].data # QNull
                    BY <1>3, <1>12, <3>2, <4>2 DEF QFilled
                <5> QED BY <1>10, <1>15, <5>1
            <4> QED BY <4>1, <4>2
        <3>3. ASSUME qnode'[last].data # QNull
              PROVE  \E u \in QThreads : /\ Linking(u)' /\ local'[u].ptr = last /\ local'[u].done
                                         /\ qnode'[last].data = QArg(u)'
            <4>1. CASE last = n
                <5>1. QArg(t)' = a
                    BY <1>7, <1>9 DEF QArg
                <5>2. local'[t].done
                    BY <1>8, <1>15
                <5> QED BY <1>8, <1>10, <1>12, <1>15, <4>1, <5>1, <5>2
            <4>2. CASE last # n
                <5>1. PICK u \in QThreads : /\ Linking(u) /\ local[u].ptr = last /\ local[u].done
                                            /\ qnode[last].data = QArg(u)
                    BY <1>3, <1>10, <3>3, <4>2 DEF QFilled
                <5>2. u # t
                    BY <1>12, <5>1
                <5> QED BY <1>10, <1>12, <4>2, <5>1, <5>2
            <4> QED BY <4>1, <4>2
        <3> QED BY <1>11, <3>1, <3>2, <3>3 DEF QFilled
    <2>9. QFound(c)'
        <3> SUFFICES ASSUME NEW e \in QElement, Stored(e)', e \notin late', e \notin popped'
                     PROVE  \E m \in QNodes : qnode'[m].data = e /\ (In(c, m) \/ m = QLast' \/ Popping(m)')
            BY DEF QFound
        <3>1. CASE e = a
            BY <1>10, <1>11, <1>15, <2>5, <3>1
        <3>2. CASE e # a
            <4>1. Stored(e) /\ e \notin late /\ e \notin popped
                BY <1>7, <2>1, <2>4, <3>2
            <4>2. PICK m \in QNodes : qnode[m].data = e /\ (In(c, m) \/ m = QLast \/ Popping(m))
                BY <4>1 DEF QFound
            <4>3. m # n
                BY <1>15, <4>2, QFacts
            <4> QED BY <1>3, <1>10, <1>11, <1>12, <4>2, <4>3
        <3> QED BY <3>1, <3>2
    <2> QED BY <2>7, <2>8, <2>9
<1> QED BY <1>14, <1>15

\* The tail moves on to a node without an element, from one with an element.
LEMMA TailMovesKeeps ==
    ASSUME QTypeOK, QTypeOK', NEW t \in QThreads, NEW c \in Seq(QNodes), NEW d \in Seq(QNodes),
           \A u \in QThreads : QLocals(u), Shaped(c), TailMoves(t), d = Append(c, QLast),
           QOnce, QFilled(c), QFound(c)
    PROVE  QOnce' /\ QFilled(d)' /\ QFound(d)'
<1>1. PICK w \in QCount, o \in QOwed : QShape(c, w, o)
    BY DEF Shaped
<1>2. set_new_tail(t) /\ ends["tail"] = local[t].old
    BY DEF TailMoves
<1>3. PICK y \in QNodes : y = QSecond
    BY <1>1, <1>2, QTailMoved
<1>4. PICK last \in QNodes : last = QLast
    BY <1>1 DEF QShape, QChain
<1>5. last = local[t].ptr /\ QLast' = y /\ Fresh(y)
    BY <1>1, <1>2, <1>3, <1>4, QTailMoved
<1>6. UNCHANGED <<qnode, qalloc>> /\ OthersKeep(t) /\ qpc[t] = "set_tail" /\ qpc'[t] = "free" /\ local'[t] = local[t]
    BY <1>2, set_new_tailEff
<1>7. UNCHANGED <<qpushes, popped, late>>
    BY <1>2 DEF set_new_tail, qCalls, qHistory
<1>8. \A e : In(d, e) <=> In(c, e) \/ e = last
    <2>1. Linked(ends["head"].ptr, QLinks, last, c)
        BY <1>1, <1>4 DEF QShape, QChain
    <2> QED BY <1>4, <2>1, ListAppend
<1>9. Settled(t)' <=> Settled(t)
    BY <1>6 DEF Settled
<1>10. \A e \in QElement : Stored(e)' <=> Stored(e)
    BY <1>6, <1>7, <1>9, StoredSame
<1>11. /\ \A m : Popping(m)' <=> Popping(m)
       /\ \A u \in QThreads \ {t} : (Linking(u)' <=> Linking(u)) /\ local'[u] = local[u]
       /\ Linking(t) /\ ~Linking(t)'
    BY <1>6 DEF Popping, Linking, OthersKeep
<1>12. \A m \in QNodes : qnode'[m].data = qnode[m].data
    BY <1>6
<1>13. qnode[y].data = QNull /\ \A u \in QThreads : Referring(u) => local[u].ptr # y
    BY <1>5, QFacts DEF Fresh, QRefs
<1>14. QOnce'
    <2>1. \A m \in QNodes : qnode[m].data \in QElement \cup {QNull}
        BY DEF QTypeOK, QNodeType
    <2>2. \A m \in QNodes : qnode'[m].data # QNull => qnode'[m].data \notin popped' /\ Stored(qnode[m].data)'
        BY <1>7, <1>10, <1>12, <2>1 DEF QOnce
    <2>3. \A e \in popped' : e \in QElement /\ Stored(e)'
        BY <1>7, <1>10 DEF QOnce
    <2>4. \A m, k \in QNodes : qnode'[m].data # QNull /\ qnode'[m].data = qnode'[k].data => m = k
        BY <1>12 DEF QOnce
    <2> QED BY <2>2, <2>3, <2>4 DEF QOnce
<1>15. QFilled(d)'
    <2>1. qnode[last].data # QNull
        BY <1>4, <1>5, <1>11 DEF QFilled
    <2>2. \A m \in QNodes : In(d, m) \/ Popping(m)' => qnode'[m].data # QNull
        BY <1>8, <1>11, <1>12, <2>1 DEF QFilled
    <2>3. \A u \in QThreads : ~(Linking(u)' /\ local'[u].ptr = y)
        BY <1>11, <1>13 DEF Linking, Referring
    <2>4. qnode'[y].data = QNull
        BY <1>12, <1>13
    <2> QED BY <1>5, <2>2, <2>3, <2>4 DEF QFilled
<1>16. QFound(d)'
    <2> SUFFICES ASSUME NEW e \in QElement, Stored(e)', e \notin late', e \notin popped'
                 PROVE  \E m \in QNodes : qnode'[m].data = e /\ (In(d, m) \/ m = QLast' \/ Popping(m)')
        BY DEF QFound
    <2>1. PICK m \in QNodes : qnode[m].data = e /\ (In(c, m) \/ m = QLast \/ Popping(m))
        BY <1>7, <1>10 DEF QFound
    <2> QED BY <1>4, <1>8, <1>11, <1>12, <2>1
<1> QED BY <1>14, <1>15, <1>16

\* The pop that moves the head has the first element in its hands.
LEMMA HeadMovesKeeps ==
    ASSUME QTypeOK, QTypeOK', NEW t \in QThreads, NEW c \in Seq(QNodes), NEW d \in Seq(QNodes),
           \A u \in QThreads : QLocals(u), Shaped(c), HeadMoves(t),
           c # <<>>, Head(c) = local[t].ptr, d = Tail(c), QOnce, QFilled(c), QFound(c)
    PROVE  QOnce' /\ QFilled(d)' /\ QFound(d)'
<1>1. PICK w \in QCount, o \in QOwed : QShape(c, w, o)
    BY DEF Shaped
<1>2. Unlink(t) /\ ends["head"] = local[t].old
    BY DEF HeadMoves
<1>3. PICK last \in QNodes : last = QLast
    BY <1>1 DEF QShape, QChain
<1>4. /\ UNCHANGED <<qnode, qalloc>> /\ OthersKeep(t) /\ qpc[t] = "unlink"
      /\ ends' = [ends EXCEPT !["head"] = local[t].next]
      /\ qpc'[t] = "exchange" /\ local'[t] = local[t]
    BY <1>2, UnlinkEff
<1>5. UNCHANGED <<qpushes, popped, late>>
    BY <1>2 DEF Unlink, qCalls, qHistory
<1>6. QLast' = last
    BY <1>3, <1>4, SideFacts DEF QLast, QTypeOK
<1>7. PICK n \in QNodes : n = Head(c) /\ n = local[t].ptr
    BY TailIn
<1>8. In(c, n) /\ \A e : In(d, e) <=> In(c, e) /\ e # n
    <2>1. Once(c)
        BY <1>1 DEF QShape, QChain
    <2> QED BY <1>7, <2>1, TailIn
<1>9. Settled(t)' <=> Settled(t)
    BY <1>4 DEF Settled
<1>10. \A e \in QElement : Stored(e)' <=> Stored(e)
    BY <1>4, <1>5, <1>9, StoredSame
<1>11. /\ \A m : Popping(m)' <=> Popping(m) \/ m = n
       /\ \A u \in QThreads : (Linking(u)' <=> Linking(u)) /\ local'[u] = local[u] /\ QArg(u)' = QArg(u)
    <2>1. \A u \in QThreads : (Linking(u)' <=> Linking(u)) /\ local'[u] = local[u] /\ QArg(u)' = QArg(u)
        BY <1>4, <1>5 DEF Linking, OthersKeep, QArg
    <2>2. ASSUME NEW m PROVE Popping(m)' <=> Popping(m) \/ m = n
        BY <1>4, <1>7, <2>1 DEF Popping, OthersKeep
    <2> QED BY <2>1, <2>2
<1>12. \A m \in QNodes : qnode'[m].data = qnode[m].data
    BY <1>4
<1>13. QOnce'
    <2>1. \A m \in QNodes : qnode[m].data \in QElement \cup {QNull}
        BY DEF QTypeOK, QNodeType
    <2>2. \A m \in QNodes : qnode'[m].data # QNull => qnode'[m].data \notin popped' /\ Stored(qnode[m].data)'
        BY <1>5, <1>10, <1>12, <2>1 DEF QOnce
    <2>3. \A e \in popped' : e \in QElement /\ Stored(e)'
        BY <1>5, <1>10 DEF QOnce
    <2>4. \A m, k \in QNodes : qnode'[m].data # QNull /\ qnode'[m].data = qnode'[k].data => m = k
        BY <1>12 DEF QOnce
    <2> QED BY <2>2, <2>3, <2>4 DEF QOnce
<1>14. QFilled(d)'
    <2>1. \A m \in QNodes : In(d, m) \/ Popping(m)' => qnode'[m].data # QNull
        BY <1>8, <1>11, <1>12 DEF QFilled
    <2>2. \A u \in QThreads : Linking(u)' /\ local'[u].ptr = last => qnode'[last].data # QNull
        BY <1>3, <1>11, <1>12 DEF QFilled
    <2>3. ASSUME qnode'[last].data # QNull
          PROVE  \E u \in QThreads : /\ Linking(u)' /\ local'[u].ptr = last /\ local'[u].done
                                     /\ qnode'[last].data = QArg(u)'
        <3>1. PICK u \in QThreads : /\ Linking(u) /\ local[u].ptr = last /\ local[u].done
                                    /\ qnode[last].data = QArg(u)
            BY <1>3, <1>12, <2>3 DEF QFilled
        <3> QED BY <1>11, <1>12, <3>1
    <2> QED BY <1>6, <2>1, <2>2, <2>3 DEF QFilled
<1>15. QFound(d)'
    <2> SUFFICES ASSUME NEW e \in QElement, Stored(e)', e \notin late', e \notin popped'
                 PROVE  \E m \in QNodes : qnode'[m].data = e /\ (In(d, m) \/ m = QLast' \/ Popping(m)')
        BY DEF QFound
    <2>1. PICK m \in QNodes : qnode[m].data = e /\ (In(c, m) \/ m = QLast \/ Popping(m))
        BY <1>5, <1>10 DEF QFound
    <2> QED BY <1>3, <1>6, <1>8, <1>11, <1>12, <2>1
<1> QED BY <1>13, <1>14, <1>15

\* One pop has a node that the head has left: what it takes, no other has.
LEMMA ExchangeDataKeeps ==
    ASSUME QTypeOK, QTypeOK', NEW t \in QThreads, NEW c \in Seq(QNodes),
           \A u \in QThreads : QLocals(u), Shaped(c), ExchangeData(t), QOnce, QFilled(c), QFound(c)
    PROVE  QOnce' /\ QFilled(c)' /\ QFound(c)'
<1>1. PICK w \in QCount, o \in QOwed : QShape(c, w, o)
    BY DEF Shaped
<1>2. PICK last \in QNodes : last = QLast
    BY <1>1 DEF QShape, QChain
<1>3. qpc[t] = "exchange"
    BY DEF ExchangeData
<1>4. PICK n \in QNodes : n = local[t].ptr
    BY <1>3 DEF QLocals, Leaving
<1>5. /\ UNCHANGED <<ends, qalloc>> /\ OthersKeep(t) /\ qpc'[t] = "free"
      /\ qnode' = [qnode EXCEPT ![n].data = QNull]
      /\ local'[t] = [local[t] EXCEPT !.done = TRUE]
    BY <1>4, ExchangeDataEff
<1>6. UNCHANGED <<qpushes, late>> /\ popped' = popped \cup {qnode[n].data}
    BY <1>4 DEF ExchangeData, qCalls
<1>7. qnode[n].data # QNull
    BY <1>3, <1>4 DEF QFilled, Popping
<1>8. PICK a \in QElement : a = qnode[n].data
    BY <1>7, QLocalsFields
<1>9. Stored(a) /\ \A m \in QNodes : qnode[m].data = a => m = n
    BY <1>7, <1>8 DEF QOnce
<1>10. local[t].side = "head" /\ local'[t].side = "head"
    BY <1>3, <1>5, QLocalsFields DEF QLocals, QLocalType
<1>11. Settled(t)' <=> Settled(t)
    BY <1>10 DEF Settled
<1>12. \A e \in QElement : Stored(e)' <=> Stored(e)
    BY <1>5, <1>6, <1>11, StoredSame
<1>13. Leaves(t, "head", n)
    BY <1>3, <1>4, <1>10 DEF Leaves, Leaving
<1>14. ~In(c, n) /\ n # last
    BY <1>1, <1>2, <1>13 DEF QShape, QPlaced, OnQ, OnList
<1>15. \A m : Popping(m)' <=> Popping(m) /\ m # n
    <2>1. ASSUME NEW u \in QThreads, u # t, qpc[u] = "exchange" PROVE local[u].ptr # n
        <3>1. local[u].side = "head"
            BY <2>1 DEF QLocals
        <3>2. Leaves(u, "head", n) => u = t
            BY <1>1, <1>3, <1>4, <1>10 DEF QShape, Tally, LeaverCounted, Leaving
        <3> QED BY <2>1, <3>1, <3>2 DEF Leaves, Leaving
    <2> QED BY <1>3, <1>4, <1>5, <2>1 DEF Popping, OthersKeep
<1>16. \A u \in QThreads \ {t} : /\ Linking(u)' <=> Linking(u)
                                 /\ local'[u] = local[u] /\ QArg(u)' = QArg(u)
    BY <1>5, <1>6 DEF Linking, OthersKeep, QArg
<1>17. ~Linking(t) /\ ~Linking(t)'
    BY <1>3, <1>5 DEF Linking
<1>18. qnode'[n].data = QNull /\ \A m \in QNodes : m # n => qnode'[m].data = qnode[m].data
    BY <1>5 DEF QTypeOK, QNodeType
<1>19. QLast' = last
    BY <1>2, <1>5 DEF QLast
<1>20. QOnce'
    <2>1. \A m \in QNodes : qnode[m].data \in QElement \cup {QNull}
        BY DEF QTypeOK, QNodeType
    <2>2. \A m \in QNodes : qnode'[m].data # QNull => qnode'[m].data \notin popped' /\ Stored(qnode[m].data)'
        BY <1>6, <1>8, <1>9, <1>12, <1>18, <2>1 DEF QOnce
    <2>3. \A e \in popped' : e \in QElement /\ Stored(e)'
        BY <1>6, <1>8, <1>9, <1>12 DEF QOnce
    <2>4. \A m, k \in QNodes : qnode'[m].data # QNull /\ qnode'[m].data = qnode'[k].data => m = k
        BY <1>18 DEF QOnce
    <2> QED BY <2>2, <2>3, <2>4 DEF QOnce
<1>21. QFilled(c)'
    <2>1. \A m \in QNodes : In(c, m) \/ Popping(m)' => qnode'[m].data # QNull
        BY <1>14, <1>15, <1>18 DEF QFilled
    <2>2. \A u \in QThreads : Linking(u)' /\ local'[u].ptr = last => qnode'[last].data # QNull
        BY <1>2, <1>14, <1>16, <1>17, <1>18 DEF QFilled
    <2>3. ASSUME qnode'[last].data # QNull
          PROVE  \E u \in QThreads : /\ Linking(u)' /\ local'[u].ptr = last /\ local'[u].done
                                     /\ qnode'[last].data = QArg(u)'
        <3>1. PICK u \in QThreads : /\ Linking(u) /\ local[u].ptr = last /\ local[u].done
                                    /\ qnode[last].data = QArg(u)
            BY <1>2, <1>14, <1>18, <2>3 DEF QFilled
        <3>2. u # t
            BY <1>17, <3>1
        <3> QED BY <1>14, <1>16, <1>18, <3>1, <3>2
    <2> QED BY <1>19, <2>1, <2>2, <2>3 DEF QFilled
<1>22. QFound(c)'
    <2> SUFFICES ASSUME NEW e \in QElement, Stored(e)', e \notin late', e \notin popped'
                 PROVE  \E m \in QNodes : qnode'[m].data = e /\ (In(c, m) \/ m = QLast' \/ Popping(m)')
        BY DEF QFound
    <2>1. e \notin popped /\ e # a
        BY <1>6, <1>8
    <2>2. PICK m \in QNodes : qnode[m].data = e /\ (In(c, m) \/ m = QLast \/ Popping(m))
        BY <1>6, <1>12, <2>1 DEF QFound
    <2>3. m # n
        BY <1>8, <2>1, <2>2
    <2> QED BY <1>2, <1>15, <1>18, <1>19, <2>2, <2>3
<1> QED BY <1>20, <1>21, <1>22

LEMMA QStartsEmpty == ASSUME QInit, NEW c \in Seq(QNodes), Shaped(c) PROVE c = <<>>
<1>1. PICK last \in QNodes : last = QLast
    BY DEF Shaped, QShape, QChain
<1>2. ends["head"].ptr = last
    BY <1>1 DEF QInit, QLast
<1>3. ~In(c, last) /\ Linked(last, QLinks, last, c)
    BY <1>1, <1>2 DEF Shaped, QShape, QChain
<1>4. c # <<>> => In(c, last)
    <2>1. c # <<>> => 1 \in DOMAIN c
        BY EmptySeq, LenProperties
    <2> QED BY <1>3, <2>1 DEF Linked, In
<1> QED BY <1>3, <1>4

LEMMA QDataInit == QInit => QDataInv
<1> SUFFICES ASSUME QInit PROVE QDataInv
    OBVIOUS
<1>1. QInv
    BY QInitInv
<1>2. PICK c \in Seq(QNodes) : Shaped(c)
    BY <1>1 DEF QInv
<1>3. PICK last \in QNodes : last = QLast
    BY <1>2 DEF Shaped, QShape, QChain
<1>4. \A n \in QNodes : qnode[n].data = QNull
    BY QFacts DEF QInit
<1>5. \A u \in QThreads : qpc[u] = "idle" /\ qpushes[u] = 0
    BY DEF QInit
<1>6. c = <<>>
    BY <1>2, QStartsEmpty
<1>7. \A e \in QElement : ~Stored(e)
    BY <1>5, QElementFields DEF Stored
<1>8. QOnce
    BY <1>4 DEF QOnce, QInit
<1>9. QFilled(c) /\ QFound(c)
    <2>1. \A n : ~In(c, n) /\ ~Popping(n)
        BY <1>5, <1>6, EmptyIn DEF Popping
    <2>2. \A u \in QThreads : ~Linking(u)
        BY <1>5 DEF Linking
    <2> QED BY <1>3, <1>4, <1>7, <2>1, <2>2 DEF QFilled, QFound
<1> QED BY <1>1, <1>2, <1>8, <1>9 DEF QDataInv

LEMMA QDataStep ==
    ASSUME QDataInv, QInv', NEW t \in QThreads, QStep(t) \/ QPush(t) \/ QPop(t),
           NEW c \in Seq(QNodes), Shaped(c), QFilled(c), QFound(c)
    PROVE  \E d \in Seq(QNodes) : Shaped(d)' /\ QBecomes(t, c, d) /\ QOnce' /\ QFilled(d)' /\ QFound(d)'
<1>1. QTypeOK /\ QTypeOK' /\ (\A u \in QThreads : QLocals(u)) /\ QOnce
    BY DEF QDataInv, QInv
<1>2. PICK d \in Seq(QNodes) : Shaped(d)' /\ QBecomes(t, c, d)
    BY <1>1, QShapeStep
<1>3. CASE TailMoves(t)
    <2>1. ~HeadMoves(t)
        BY <1>3 DEF TailMoves, HeadMoves, set_new_tail, Unlink
    <2>2. d = Append(c, QLast)
        BY <1>2, <1>3, <2>1 DEF QBecomes
    <2> QED BY <1>1, <1>2, <1>3, <2>2, TailMovesKeeps
<1>4. CASE HeadMoves(t)
    <2>1. ~TailMoves(t)
        BY <1>4 DEF TailMoves, HeadMoves, set_new_tail, Unlink
    <2>2. c # <<>> /\ Head(c) = local[t].ptr /\ d = Tail(c)
        BY <1>2, <1>4, <2>1 DEF QBecomes
    <2> QED BY <1>1, <1>2, <1>4, <2>2, HeadMovesKeeps
<1>5. CASE ~TailMoves(t) /\ ~HeadMoves(t)
    <2>1. d = c
        BY <1>2, <1>5 DEF QBecomes
    <2>2. QOnce' /\ QFilled(c)' /\ QFound(c)'
        <3>1. CASE StoreData(t)
            BY <1>1, <3>1, StoreDataKeeps
        <3>2. CASE ExchangeData(t)
            BY <1>1, <3>2, ExchangeDataKeeps
        <3>3. CASE ~StoreData(t) /\ ~ExchangeData(t)
            <4>1. NoData(t, c)
                BY <1>1, <1>5, <3>3, NoDataStep
            <4> QED BY <1>1, <4>1, NoDataKeeps
        <3> QED BY <3>1, <3>2, <3>3
    <2> QED BY <1>2, <2>1, <2>2
<1> QED BY <1>3, <1>4, <1>5

LEMMA QDataIdle == ASSUME QDataInv, UNCHANGED qVars PROVE QDataInv'
<1>1. QInv'
    BY QInvIdle DEF QDataInv
<1>2. PICK c \in Seq(QNodes) : Shaped(c) /\ QFilled(c) /\ QFound(c)
    BY DEF QDataInv
<1>3. Shaped(c)'
    BY <1>2, QShapeIdle DEF QDataInv, QInv
<1>4. UNCHANGED <<ends, qnode, qpc, local, qpushes, popped, late>>
    BY DEF qVars, qCalls, qHistory
<1>5. /\ \A n : Popping(n)' <=> Popping(n)
      /\ \A u : (Linking(u)' <=> Linking(u)) /\ (Settled(u)' <=> Settled(u)) /\ QArg(u)' = QArg(u)
      /\ QLast' = QLast
    BY <1>4 DEF Popping, Linking, Settled, QArg, QLast
<1>6. \A e : Stored(e)' <=> Stored(e)
    BY <1>4, <1>5 DEF Stored
<1>7. QOnce'
    BY <1>4, <1>6 DEF QDataInv, QOnce
<1>8. QFilled(c)'
    BY <1>2, <1>4, <1>5 DEF QFilled
<1>9. QFound(c)'
    BY <1>2, <1>4, <1>5, <1>6 DEF QFound
<1> QED BY <1>1, <1>3, <1>7, <1>8, <1>9 DEF QDataInv

LEMMA QDataNext == QDataInv /\ [QNext]_qVars => QDataInv'
<1> SUFFICES ASSUME QDataInv, [QNext]_qVars PROVE QDataInv'
    OBVIOUS
<1>1. QInv'
    BY QNextInv DEF QDataInv
<1>2. CASE QNext
    <2>1. PICK t \in QThreads : QStep(t) \/ QPush(t) \/ QPop(t)
        BY <1>2 DEF QNext
    <2>2. PICK c \in Seq(QNodes) : Shaped(c) /\ QFilled(c) /\ QFound(c)
        BY DEF QDataInv
    <2> QED BY <1>1, <2>1, <2>2, QDataStep DEF QDataInv
<1>3. CASE UNCHANGED qVars
    BY <1>3, QDataIdle
<1> QED BY <1>2, <1>3

LEMMA QDataHolds == QSpec => []QDataInv
BY QDataInit, QDataNext, PTL DEF QSpec

-----------------------------------------------------------------------------
(* CountedQueue: it implements the abstract queue and keeps the elements   *)

QData == [n \in QNodes |-> qnode[n].data]
QContentsFact ==
    \A c \in Seq(QNodes) : QChain(c) => QContents = Image(QData, c) /\ Len(c) < Cardinality(QNodes)

\* The contents are the data of the nodes before the last.
LEMMA QContentsAre == QTypeOK => QContentsFact
<1> SUFFICES ASSUME QTypeOK, NEW c \in Seq(QNodes), QChain(c)
             PROVE  QContents = Image(QData, c) /\ Len(c) < Cardinality(QNodes)
    BY DEF QContentsFact
<1>1. PICK l \in Seq(QNodes) : Full(c, l)
    BY QFull
<1>2. PICK last \in QNodes, first \in {ends["head"].ptr} : first = ends["head"].ptr /\ last = QLast
    BY DEF QChain
<1>3. Linked(first, QLinks, QNull, l) /\ Once(l)
    BY <1>1, <1>2 DEF Full
<1>4. PICK k \in Nat : k = Cardinality(QNodes)
    BY QNodesAssumption, FS_CardinalityType
<1>5. PICK j \in Nat : j = Len(l) /\ j <= k
    BY <1>3, <1>4, QNodesAssumption, ListBound, LenProperties
<1>6. PICK m \in Nat : m = Len(c)
    BY LenProperties
<1>7. m < j /\ (\A i \in 1 .. m : l[i] = c[i]) /\ l[m + 1] = last
    BY <1>1, <1>2, <1>5, <1>6 DEF Full
<1>8. PICK g : g = QWalk(first)
    OBVIOUS
<1>9. g = [i \in 0 .. k |-> IF i < j THEN l[i + 1] ELSE QNull]
    BY <1>3, <1>4, <1>5, <1>8, QWalkIs
<1>10. m \in 0 .. k /\ g[m] = last
    BY <1>5, <1>7, <1>9
<1>11. ASSUME NEW i \in 0 .. k, g[i] = last PROVE i = m
    <2>1. i < j /\ l[i + 1] = last
        BY <1>9, <1>11, QFacts
    <2>2. i + 1 \in 1 .. j /\ m + 1 \in 1 .. j
        BY <1>7, <2>1
    <2>3. DOMAIN l = 1 .. j
        BY <1>5, LenProperties
    <2>4. i + 1 = m + 1
        BY <1>3, <1>7, <2>1, <2>2, <2>3 DEF Once
    <2> QED BY <2>4
<1>12. m = CHOOSE i \in 0 .. k : g[i] = last
    BY <1>10, <1>11
<1>13. QContents = [i \in 1 .. m |-> qnode[g[i - 1]].data]
    BY <1>2, <1>4, <1>8, <1>12 DEF QContents, QLast
<1>14. \A i \in 1 .. m : g[i - 1] = c[i] /\ c[i] \in QNodes
    <2> SUFFICES ASSUME NEW i \in 1 .. m PROVE g[i - 1] = c[i] /\ c[i] \in QNodes
        OBVIOUS
    <2>1. i - 1 \in 0 .. k /\ i - 1 < j /\ (i - 1) + 1 = i
        BY <1>5, <1>7
    <2>2. g[i - 1] = l[i]
        BY <1>9, <2>1
    <2> QED BY <1>6, <1>7, <2>2, ElementOfSeq
<1>15. DOMAIN c = 1 .. m
    BY <1>6, LenProperties
<1>16. QContents = [i \in 1 .. m |-> QData[c[i]]]
    BY <1>13, <1>14 DEF QData
<1> QED BY <1>4, <1>5, <1>6, <1>7, <1>15, <1>16 DEF Image

LEMMA QElementsKept == QDataInv => ElementsKept
<1> SUFFICES ASSUME QDataInv, NEW e \in QElement, Returned(e), e \notin late
             PROVE  Cardinality(QPlaces(e)) = 1
    BY DEF ElementsKept
<1>1. QTypeOK /\ (\A t \in QThreads : QLocals(t)) /\ QOnce
    BY DEF QDataInv, QInv
<1>2. PICK c \in Seq(QNodes) : Shaped(c) /\ QFilled(c) /\ QFound(c)
    BY DEF QDataInv
<1>3. PICK w \in QCount, o \in QOwed : QShape(c, w, o)
    BY <1>2 DEF Shaped
<1>4. PICK k \in Nat : k = Len(c)
    BY LenProperties
<1>5. /\ DOMAIN c = 1 .. k /\ Once(c)
      /\ \A i \in 1 .. k : c[i] \in QNodes
    BY <1>3, <1>4, LenProperties, ElementOfSeq DEF QShape, QChain
<1>6. DOMAIN QContents = 1 .. k /\ \A i \in 1 .. k : QContents[i] = qnode[c[i]].data
    <2>1. QContents = Image(QData, c)
        BY <1>1, <1>3, QContentsAre DEF QContentsFact, QShape
    <2> QED BY <1>5, <2>1 DEF Image, QData
<1>7. \A p : p \in QPlaces(e) <=>
            \/ \E i \in 1 .. k : qnode[c[i]].data = e /\ p = <<"queue", i>>
            \/ \E t \in QThreads : qpc[t] = "exchange" /\ qnode[local[t].ptr].data = e /\ p = <<"pop", t>>
            \/ e \in popped /\ p = <<"popped">>
    BY <1>6 DEF QPlaces
<1>8. \A t \in QThreads : qpc[t] = "exchange" => local[t].ptr \in QNodes
    BY <1>1 DEF QLocals, Leaving
<1>9. e # QNull
    BY QFacts
<1>10. \E p : QPlaces(e) = {p}
    <2>1. CASE e \in popped
        <3>1. \A n \in QNodes : qnode[n].data # e
            BY <1>1, <1>9, <2>1 DEF QOnce
        <3>2. QPlaces(e) = {<<"popped">>}
            BY <1>5, <1>7, <1>8, <2>1, <3>1
        <3> QED BY <3>2
    <2>2. CASE e \notin popped
        <3>1. Stored(e)
            BY DEF Returned, Stored, Settled
        <3>2. PICK n \in QNodes : qnode[n].data = e /\ (In(c, n) \/ n = QLast \/ Popping(n))
            BY <1>2, <2>2, <3>1 DEF QFound
        <3>3. \A m \in QNodes : qnode[m].data = e => m = n
            BY <1>1, <1>9, <3>2 DEF QOnce
        <3>4. n # QLast
            <4> SUFFICES ASSUME n = QLast PROVE FALSE
                OBVIOUS
            <4>1. PICK t \in QThreads : Linking(t) /\ e = QArg(t)
                BY <1>2, <1>9, <3>2 DEF QFilled
            <4>2. local[t].side = "tail"
                BY <1>1, <4>1 DEF QLocals, Linking
            <4>3. PICK p \in Nat : p = qpushes[t]
                BY <1>1 DEF QTypeOK
            <4>4. e[1] = t /\ e[2] = p
                BY <4>1, <4>3 DEF QArg
            <4> QED BY <4>2, <4>3, <4>4 DEF Returned
        <3>5. In(c, n) => ~Popping(n)
            <4> SUFFICES ASSUME In(c, n), NEW t \in QThreads, qpc[t] = "exchange", local[t].ptr = n
                         PROVE  FALSE
                BY DEF Popping
            <4>1. Leaves(t, "head", n)
                BY <1>1 DEF QLocals, Leaves, Leaving
            <4> QED BY <1>3, <4>1 DEF QShape, QPlaced, OnQ, OnList
        <3>6. CASE In(c, n)
            <4>1. PICK i \in 1 .. k : c[i] = n
                BY <1>5, <3>6 DEF In
            <4>2. \A j \in 1 .. k : qnode[c[j]].data = e => j = i
                BY <1>5, <3>3, <4>1 DEF Once
            <4>3. \A t \in QThreads : ~(qpc[t] = "exchange" /\ qnode[local[t].ptr].data = e)
                BY <1>8, <3>3, <3>5, <3>6 DEF Popping
            <4>4. QPlaces(e) = {<<"queue", i>>}
                BY <1>7, <2>2, <3>2, <4>1, <4>2, <4>3
            <4> QED BY <4>4
        <3>7. CASE Popping(n)
            <4>1. PICK t \in QThreads : qpc[t] = "exchange" /\ local[t].ptr = n
                BY <3>7 DEF Popping
            <4>2. \A j \in 1 .. k : qnode[c[j]].data # e
                <5> SUFFICES ASSUME NEW j \in 1 .. k, qnode[c[j]].data = e PROVE FALSE
                    OBVIOUS
                <5>1. c[j] = n
                    BY <1>5, <3>3
                <5>2. In(c, n)
                    BY <1>5, <5>1 DEF In
                <5> QED BY <3>5, <3>7, <5>2
            <4>3. ASSUME NEW u \in QThreads, qpc[u] = "exchange", qnode[local[u].ptr].data = e PROVE u = t
                <5>1. local[u].ptr = n
                    BY <1>8, <3>3, <4>3
                <5>2. /\ local[t].side = "head" /\ Leaving(t)
                      /\ Leaves(u, "head", n)
                    BY <1>1, <4>1, <4>3, <5>1 DEF QLocals, Leaves, Leaving
                <5> QED BY <1>3, <4>1, <5>2 DEF QShape, Tally, LeaverCounted
            <4>4. QPlaces(e) = {<<"pop", t>>}
                BY <1>7, <2>2, <3>2, <4>1, <4>2, <4>3
            <4> QED BY <4>4
        <3> QED BY <3>2, <3>4, <3>6, <3>7
    <2> QED BY <2>1, <2>2
<1> QED BY <1>10, FS_Singleton

\* An element that was pushed is in the queue, with one pop, or popped, for any number of
\* threads and nodes, unless it went into a node that had left the queue: neither lost nor
\* twice there, whichever push moves the tail for whom.
THEOREM ElementsAreKept == QSpec => []ElementsKept
BY QDataHolds, QElementsKept, PTL

-----------------------------------------------------------------------------
LEMMA ImageAppend ==
    ASSUME NEW N, NEW V, NEW f \in [N -> V], NEW s \in Seq(N), NEW x \in N
    PROVE  Image(f, Append(s, x)) = Append(Image(f, s), f[x])
<1>1. PICK k \in Nat : k = Len(s)
    BY LenProperties
<1>2. PICK u \in Seq(N) : u = Append(s, x)
    BY AppendProperties
<1>3. Len(u) = k + 1 /\ u[k + 1] = x /\ \A i \in 1 .. k : u[i] = s[i]
    BY <1>1, <1>2, AppendProperties
<1>4. PICK a \in Seq(V) : a = Image(f, u)
    BY ImageFacts
<1>5. Len(a) = k + 1 /\ \A i \in 1 .. k + 1 : a[i] = f[u[i]]
    <2>1. Len(a) = Len(u) /\ \A i \in 1 .. Len(u) : a[i] = f[u[i]]
        BY <1>4, ImageFacts
    <2> QED BY <2>1, <1>3
<1>6. PICK m \in Seq(V) : m = Image(f, s)
    BY ImageFacts
<1>7. Len(m) = k /\ \A i \in 1 .. k : m[i] = f[s[i]]
    BY <1>1, <1>6, ImageFacts
<1>8. PICK b \in Seq(V) : b = Append(m, f[x])
    BY AppendProperties
<1>9. Len(b) = k + 1 /\ b[k + 1] = f[x] /\ \A i \in 1 .. k : b[i] = m[i]
    BY <1>7, <1>8, AppendProperties
<1>10. \A i \in 1 .. k + 1 : a[i] = b[i]
    BY <1>3, <1>5, <1>7, <1>9
<1>11. a = b
    BY <1>5, <1>9, <1>10, SeqEqual
<1> QED BY <1>2, <1>4, <1>6, <1>8, <1>11

\* The data on the list do not change.
LEMMA QDataStays ==
    ASSUME QTypeOK, QTypeOK', NEW t \in QThreads, NEW c \in Seq(QNodes),
           \A u \in QThreads : QLocals(u), Shaped(c), QFilled(c), QStep(t) \/ QPush(t) \/ QPop(t),
           NEW n \in QNodes, In(c, n)
    PROVE  qnode'[n].data = qnode[n].data
<1>1. CASE StoreData(t)
    <2>1. qpc[t] = "store"
        BY <1>1 DEF StoreData
    <2>2. PICK m \in QNodes : m = local[t].ptr
        BY <2>1 DEF QLocals, Referring
    <2>3. qnode' = [qnode EXCEPT ![m].data = IF qnode[m].data = QNull THEN QArg(t) ELSE @]
        BY <1>1, <2>2, StoreDataEff
    <2>4. qnode[n].data # QNull
        BY DEF QFilled
    <2> QED BY <2>3, <2>4 DEF QTypeOK, QNodeType
<1>2. CASE ExchangeData(t)
    <2>1. qpc[t] = "exchange"
        BY <1>2 DEF ExchangeData
    <2>2. PICK m \in QNodes : m = local[t].ptr
        BY <2>1 DEF QLocals, Leaving
    <2>3. qnode' = [qnode EXCEPT ![m].data = QNull]
        BY <1>2, <2>2, ExchangeDataEff
    <2>4. Leaves(t, "head", m)
        BY <2>1, <2>2 DEF QLocals, Leaves, Leaving
    <2>5. m # n
        BY <2>4 DEF Shaped, QShape, QPlaced, OnQ, OnList
    <2> QED BY <2>3, <2>5 DEF QTypeOK
<1>3. CASE TailMoves(t)
    BY <1>3 DEF TailMoves, set_new_tail
<1>4. CASE HeadMoves(t)
    BY <1>4 DEF HeadMoves, Unlink
<1>5. CASE ~StoreData(t) /\ ~ExchangeData(t) /\ ~TailMoves(t) /\ ~HeadMoves(t)
    BY <1>5, NoDataStep DEF NoData, OnQ
<1> QED BY <1>1, <1>2, <1>3, <1>4, <1>5

LEMMA QNewestStays ==
    ASSUME NEW t \in QThreads, QStep(t) \/ QPush(t) \/ QPop(t), ~HeadMoves(t)
    PROVE  newest' = newest
BY DEF QStep, QPush, QPop, increase_external_count, StoreData, LinkNode, set_new_tail, TestEmpty,
       LoadNext, Unlink, ExchangeData, free_external_counter, release_ref, UpdateCount, qHistory, HeadMoves

LEMMA QFifoInit == QInit => QFifo!Init
<1> SUFFICES ASSUME QInit PROVE QFifo!Init
    OBVIOUS
<1>1. QInv
    BY QInitInv
<1>2. PICK c \in Seq(QNodes) : Shaped(c)
    BY <1>1 DEF QInv
<1>3. c = <<>>
    BY <1>2, QStartsEmpty
<1>4. QContents = Image(QData, c)
    BY <1>1, <1>2, QContentsAre DEF QContentsFact, QInv, Shaped, QShape
<1>5. Image(QData, <<>>) = <<>>
    <2>1. QData \in [QNodes -> QElement \cup {QNull}] /\ <<>> \in Seq(QNodes)
        BY <1>1 DEF QInv, QTypeOK, QNodeType, QData
    <2> QED BY <2>1, ImageFacts
<1>6. newest = QNull
    BY DEF QInit
<1> QED BY <1>3, <1>4, <1>5, <1>6 DEF QFifo!Init

LEMMA QFifoNext == QDataInv /\ QDataInv' /\ [QNext]_qVars => [QFifo!Next]_(QFifo!vars)
<1> SUFFICES ASSUME QDataInv, QDataInv', [QNext]_qVars PROVE [QFifo!Next]_(QFifo!vars)
    OBVIOUS
<1>t. QTypeOK /\ QTypeOK' /\ QInv' /\ \A u \in QThreads : QLocals(u)
    BY DEF QDataInv, QInv
<1>c. QContentsFact /\ QContentsFact'
    BY <1>t, QContentsAre, PTL
<1>q. PICK c \in Seq(QNodes) : Shaped(c) /\ QFilled(c) /\ QFound(c)
    BY DEF QDataInv
<1>v. PICK V : V = QElement \cup {QNull}
    OBVIOUS
<1>d. QData \in [QNodes -> V] /\ QData' \in [QNodes -> V]
    BY <1>t, <1>v DEF QTypeOK, QNodeType, QData
<1>f. PICK f \in [QNodes -> V], g \in [QNodes -> V] : f = QData /\ g = QData'
    BY <1>d
<1>e. \A n \in QNodes : f[n] = qnode[n].data /\ g[n] = qnode'[n].data
    BY <1>f DEF QData
<1>1. QContents = Image(f, c) /\ Len(c) < Cardinality(QNodes)
    BY <1>c, <1>f, <1>q DEF QContentsFact, Shaped, QShape
<1>2. ASSUME NEW d \in Seq(QNodes), Shaped(d)' PROVE QContents' = Image(g, d)
    BY <1>c, <1>f, <1>2 DEF QContentsFact, Shaped, QShape
<1>i. Len(QContents) = Len(c) /\ (QContents = <<>> <=> c = <<>>)
    <2>1. PICK u \in Seq(V) : u = Image(f, c)
        BY ImageFacts
    <2>2. Len(u) = Len(c) /\ (u = <<>> <=> c = <<>>)
        BY <2>1, ImageFacts
    <2> QED BY <1>1, <2>1, <2>2, Zenon
<1>3. CASE UNCHANGED qVars
    <2>1. Shaped(c)'
        BY <1>3, <1>q, <1>t, QShapeIdle
    <2>2. UNCHANGED <<qnode, newest>>
        BY <1>3 DEF qVars, qHistory
    <2>3. f = g
        <3>1. QData' = QData
            BY <2>2 DEF QData
        <3> QED BY <1>f, <3>1
    <2>4. QContents' = QContents
        BY <1>1, <1>2, <2>1, <2>3
    <2> QED BY <2>2, <2>4 DEF QFifo!vars
<1>4. ASSUME NEW t \in QThreads, QStep(t) \/ QPush(t) \/ QPop(t)
      PROVE  [QFifo!Next]_(QFifo!vars)
    <2>0. PICK d \in Seq(QNodes) : Shaped(d)' /\ QBecomes(t, c, d)
        BY <1>4, <1>q, <1>t, QShapeStep
    <2>1. CASE TailMoves(t)
        <3>1. PICK last \in QNodes : last = QLast
            BY <1>q DEF Shaped, QShape, QChain
        <3>2. ~HeadMoves(t)
            BY <2>1 DEF TailMoves, HeadMoves, set_new_tail, Unlink
        <3>3. d = Append(c, last) /\ newest' = newest
            BY <1>4, <2>0, <2>1, <3>1, <3>2, QNewestStays DEF QBecomes
        <3>4. f = g
            <4>1. UNCHANGED qnode
                BY <2>1 DEF TailMoves, set_new_tail
            <4> QED BY <1>f, <4>1 DEF QData
        <3>5. QContents' = Append(QContents, f[last])
            BY <1>1, <1>2, <2>0, <3>3, <3>4, ImageAppend
        <3>6. f[last] \in QElement
            <4>1. PICK w \in QCount, o \in QOwed : QShape(c, w, o)
                BY <1>q DEF Shaped
            <4>2. QLast = local[t].ptr /\ qpc[t] = "set_tail"
                BY <1>t, <2>1, <4>1, QTailMoved DEF TailMoves, set_new_tail
            <4>3. qnode[last].data # QNull
                BY <1>q, <3>1, <4>2 DEF QFilled, Linking
            <4> QED BY <1>e, <1>v, <4>3
        <3> QED BY <1>1, <1>i, <3>3, <3>5, <3>6 DEF QFifo!Next, QFifo!Push
    <2>2. CASE HeadMoves(t)
        <3>1. ~TailMoves(t)
            BY <2>2 DEF TailMoves, HeadMoves, set_new_tail, Unlink
        <3>2. c # <<>> /\ Head(c) = local[t].ptr /\ d = Tail(c)
            BY <2>0, <2>2, <3>1 DEF QBecomes
        <3>3. UNCHANGED qnode /\ newest' = qnode[local[t].ptr].data
            BY <2>2 DEF HeadMoves, Unlink
        <3>4. f = g
            BY <1>f, <3>3 DEF QData
        <3>5. QContents' = Tail(QContents) /\ Head(QContents) = f[Head(c)]
            BY <1>1, <1>2, <2>0, <3>2, <3>4, ImageTail
        <3>6. newest' = Head(QContents)
            <4>1. Head(c) \in QNodes
                BY <3>2, TailIn
            <4> QED BY <1>e, <3>2, <3>3, <3>5, <4>1
        <3> QED BY <1>i, <3>2, <3>5, <3>6 DEF QFifo!Next, QFifo!Pop
    <2>3. CASE ~TailMoves(t) /\ ~HeadMoves(t)
        <3>1. d = c /\ newest' = newest
            BY <1>4, <2>0, <2>3, QNewestStays DEF QBecomes
        <3>2. \A n : In(c, n) => f[n] = g[n]
            <4> SUFFICES ASSUME NEW n, In(c, n) PROVE f[n] = g[n]
                OBVIOUS
            <4>1. n \in QNodes
                BY LenProperties, ElementOfSeq DEF In
            <4> QED BY <1>4, <1>e, <1>q, <1>t, <4>1, QDataStays
        <3>3. Image(f, c) = Image(g, c)
            BY <3>2, ImageFrame, Zenon
        <3>4. QContents' = QContents
            BY <1>1, <1>2, <2>0, <3>1, <3>3
        <3> QED BY <3>1, <3>4 DEF QFifo!vars
    <2> QED BY <2>1, <2>2, <2>3
<1> QED BY <1>3, <1>4 DEF QNext

\* push and pop of lock_free_queue take effect when a compare_exchange moves tail or head, the
\* push's own or that of a push that helps: a first in, first out queue.
THEOREM CountedQueueRefinement == QSpec => ImplementsCountedQueue
BY QDataHolds, QFifoInit, QFifoNext, PTL DEF QSpec, ImplementsCountedQueue, QFifo!Spec
=============================================================================
