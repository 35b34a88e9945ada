--------------------------- MODULE ChannelProofs ---------------------------
(***************************************************************************)
(* Proofs about the channel, for every capacity and any number of senders, *)
(* receivers, values and threads.                                          *)
(***************************************************************************)
EXTENDS Channel, FiniteSetTheorems, SequenceTheorems, TLAPS

-----------------------------------------------------------------------------
(* Sequences without repetition                                            *)

In(s, e) == \E i \in DOMAIN s : s[i] = e
Once(s) == \A i, k \in DOMAIN s : s[i] = s[k] => i = k

LEMMA EmptyIn == (\A e : ~In(<<>>, e)) /\ Once(<<>>)
BY DEF In, Once

\* What Append(s, x) holds.
LEMMA AppendIn ==
    ASSUME NEW S, NEW s \in Seq(S), NEW x \in S
    PROVE  /\ Append(s, x) \in Seq(S)
           /\ \A e : In(Append(s, x), e) <=> In(s, e) \/ e = x
           /\ Once(s) /\ ~In(s, x) => Once(Append(s, x))
<1>1. /\ Append(s, x) \in Seq(S)
      /\ DOMAIN s = 1 .. Len(s) /\ Len(s) \in Nat
      /\ DOMAIN Append(s, x) = 1 .. Len(s) + 1
      /\ \A i \in 1 .. Len(s) : Append(s, x)[i] = s[i]
      /\ Append(s, x)[Len(s) + 1] = x
    BY AppendProperties
<1>2. ASSUME NEW e PROVE In(Append(s, x), e) <=> In(s, e) \/ e = x
    BY <1>1 DEF In
<1>3. Once(s) /\ ~In(s, x) => Once(Append(s, x))
    BY <1>1 DEF In, Once
<1> QED BY <1>1, <1>2, <1>3

\* What is left without the first element.
LEMMA TailIn ==
    ASSUME NEW S, NEW s \in Seq(S), s # <<>>
    PROVE  /\ Head(s) \in S /\ Tail(s) \in Seq(S)
           /\ In(s, Head(s))
           /\ \A e : In(Tail(s), e) => In(s, e)
           /\ Once(s) => /\ Once(Tail(s))
                         /\ \A e : In(Tail(s), e) <=> In(s, e) /\ e # Head(s)
<1>1. /\ Head(s) \in S /\ Tail(s) \in Seq(S)
      /\ DOMAIN s = 1 .. Len(s) /\ Len(s) \in Nat \ {0} /\ Head(s) = s[1]
      /\ DOMAIN Tail(s) = 1 .. Len(s) - 1
      /\ \A i \in 1 .. Len(s) - 1 : Tail(s)[i] = s[i + 1]
    BY HeadTailProperties, LenProperties, EmptySeq
<1>2. In(s, Head(s)) BY <1>1 DEF In
<1>3. \A e : In(Tail(s), e) => In(s, e) BY <1>1 DEF In
<1>4. Once(s) => Once(Tail(s)) BY <1>1 DEF Once
<1>5. ASSUME Once(s), NEW e PROVE In(Tail(s), e) <=> In(s, e) /\ e # Head(s)
    <2>1. In(Tail(s), e) => e # Head(s) BY <1>1, <1>5 DEF In, Once
    <2>2. ASSUME NEW i \in 1 .. Len(s), s[i] = e, e # Head(s) PROVE In(Tail(s), e)
        <3>1. i - 1 \in 1 .. Len(s) - 1 /\ Tail(s)[i - 1] = s[i] BY <1>1, <2>2
        <3> QED BY <1>1, <2>2, <3>1 DEF In
    <2> QED BY <1>1, <1>3, <2>1, <2>2 DEF In
<1> QED BY <1>1, <1>2, <1>3, <1>4, <1>5

\* What is left without the last element.
LEMMA FrontIn ==
    ASSUME NEW S, NEW s \in Seq(S), s # <<>>
    PROVE  /\ Last(s) \in S /\ Front(s) \in Seq(S)
           /\ In(s, Last(s))
           /\ \A e : In(Front(s), e) => In(s, e)
           /\ Once(s) => /\ Once(Front(s))
                         /\ \A e : In(Front(s), e) <=> In(s, e) /\ e # Last(s)
<1>1. /\ DOMAIN s = 1 .. Len(s) /\ Len(s) \in Nat \ {0} /\ Last(s) = s[Len(s)] /\ Last(s) \in S
    BY LenProperties, EmptySeq, ElementOfSeq DEF Last
<1>2. /\ Front(s) \in Seq(S) /\ DOMAIN Front(s) = 1 .. Len(s) - 1
      /\ \A i \in 1 .. Len(s) - 1 : Front(s)[i] = s[i]
    <2>1. Front(s) = SubSeq(s, 1, Len(s) - 1) BY DEF Front
    <2>2. 1 \in 1 .. Len(s) + 1 /\ Len(s) - 1 \in 1 - 1 .. Len(s) BY <1>1
    <2> QED BY <1>1, <2>1, <2>2, SubSeqProperties, SMT
<1>3. In(s, Last(s)) BY <1>1 DEF In
<1>4. \A e : In(Front(s), e) => In(s, e) BY <1>1, <1>2 DEF In
<1>5. Once(s) => Once(Front(s)) BY <1>1, <1>2 DEF Once
<1>6. ASSUME Once(s), NEW e PROVE In(Front(s), e) <=> In(s, e) /\ e # Last(s)
    <2>1. In(Front(s), e) => e # Last(s) BY <1>1, <1>2, <1>6 DEF In, Once
    <2>2. In(s, e) /\ e # Last(s) => In(Front(s), e) BY <1>1, <1>2 DEF In
    <2> QED BY <1>4, <2>1, <2>2
<1> QED BY <1>1, <1>2, <1>3, <1>4, <1>5, <1>6

\* The same of the components of the pairs in a sequence.
InBy(s, n, e) == \E i \in DOMAIN s : s[i][n] = e
OnceBy(s, n) == \A i, k \in DOMAIN s : s[i][n] = s[k][n] => i = k

LEMMA AppendBy ==
    ASSUME NEW S, NEW s \in Seq(S), NEW x \in S, NEW n
    PROVE  /\ Append(s, x) \in Seq(S)
           /\ \A e : InBy(Append(s, x), n, e) <=> InBy(s, n, e) \/ e = x[n]
           /\ OnceBy(s, n) /\ ~InBy(s, n, x[n]) => OnceBy(Append(s, x), n)
<1>1. /\ Append(s, x) \in Seq(S)
      /\ DOMAIN s = 1 .. Len(s) /\ Len(s) \in Nat
      /\ DOMAIN Append(s, x) = 1 .. Len(s) + 1
      /\ \A i \in 1 .. Len(s) : Append(s, x)[i] = s[i]
      /\ Append(s, x)[Len(s) + 1] = x
    BY AppendProperties
<1>2. ASSUME NEW e PROVE InBy(Append(s, x), n, e) <=> InBy(s, n, e) \/ e = x[n]
    BY <1>1 DEF InBy
<1>3. OnceBy(s, n) /\ ~InBy(s, n, x[n]) => OnceBy(Append(s, x), n)
    BY <1>1 DEF InBy, OnceBy
<1> QED BY <1>1, <1>2, <1>3

LEMMA TailBy ==
    ASSUME NEW S, NEW s \in Seq(S), s # <<>>, NEW n, OnceBy(s, n)
    PROVE  /\ Head(s) \in S /\ Tail(s) \in Seq(S)
           /\ InBy(s, n, Head(s)[n]) /\ OnceBy(Tail(s), n)
           /\ \A e : InBy(Tail(s), n, e) <=> InBy(s, n, e) /\ e # Head(s)[n]
<1>1. /\ Head(s) \in S /\ Tail(s) \in Seq(S)
      /\ DOMAIN s = 1 .. Len(s) /\ Len(s) \in Nat \ {0} /\ Head(s) = s[1]
      /\ DOMAIN Tail(s) = 1 .. Len(s) - 1
      /\ \A i \in 1 .. Len(s) - 1 : Tail(s)[i] = s[i + 1]
    BY HeadTailProperties, LenProperties, EmptySeq
<1>2. InBy(s, n, Head(s)[n]) BY <1>1 DEF InBy
<1>3. \A e : InBy(Tail(s), n, e) => InBy(s, n, e) BY <1>1 DEF InBy
<1>4. OnceBy(Tail(s), n) BY <1>1 DEF OnceBy
<1>5. ASSUME NEW e PROVE InBy(Tail(s), n, e) <=> InBy(s, n, e) /\ e # Head(s)[n]
    <2>1. InBy(Tail(s), n, e) => e # Head(s)[n] BY <1>1 DEF InBy, OnceBy
    <2>2. ASSUME NEW i \in 1 .. Len(s), s[i][n] = e, e # Head(s)[n] PROVE InBy(Tail(s), n, e)
        <3>1. i - 1 \in 1 .. Len(s) - 1 /\ Tail(s)[i - 1] = s[i] BY <1>1, <2>2
        <3> QED BY <1>1, <2>2, <3>1 DEF InBy
    <2> QED BY <1>1, <1>3, <2>1, <2>2 DEF InBy
<1> QED BY <1>1, <1>2, <1>4, <1>5

-----------------------------------------------------------------------------
(* Who runs, who waits                                                     *)

Label == {"new", "ready", "suspend", "waiting", "take", "return", "done"}

LEMMA RunningFacts ==
    ASSUME TypeOK, NEW t \in Threads, NEW p, Running(t, p)
    PROVE  p \in Coroutine /\ In(stack[t], p) /\ stack[t] # <<>> /\ stack[t] \in Seq(Coroutine)
<1>1. stack[t] \in Seq(Coroutine) /\ stack[t] # <<>> /\ Last(stack[t]) = p
    BY DEF TypeOK, Running
<1> QED BY <1>1, FrontIn

LEMMA ContinueFacts ==
    ASSUME TypeOK, NEW p \in Coroutine, NEW l \in Label, Continue(p, l)
    PROVE  /\ pc' \in [Coroutine -> Label] /\ pc'[p] = l
           /\ \A o \in Coroutine : o # p => pc'[o] = pc[o]
           /\ UNCHANGED stack
BY DEF Continue, TypeOK, Label

LEMMA ResumeFacts ==
    ASSUME TypeOK, NEW t \in Threads, NEW p \in Coroutine, NEW q \in Coroutine, p # q,
           NEW l \in Label, NEW m \in Label, Resume(t, p, l, q, m)
    PROVE  /\ pc' \in [Coroutine -> Label] /\ pc'[p] = l /\ pc'[q] = m
           /\ \A o \in Coroutine : o # p /\ o # q => pc'[o] = pc[o]
           /\ stack' \in [Threads -> Seq(Coroutine)]
           /\ \A u \in Threads : u # t => stack'[u] = stack[u]
           /\ \A e : In(stack'[t], e) <=> In(stack[t], e) \/ e = q
           /\ Once(stack[t]) /\ ~In(stack[t], q) => Once(stack'[t])
           /\ stack'[t] # <<>> /\ Last(stack'[t]) = q
<1>1. stack[t] \in Seq(Coroutine) BY DEF TypeOK
<1>2. /\ pc' \in [Coroutine -> Label] /\ pc'[p] = l /\ pc'[q] = m
      /\ \A o \in Coroutine : o # p /\ o # q => pc'[o] = pc[o]
    BY DEF Resume, TypeOK, Label
<1>3. /\ Append(stack[t], q) \in Seq(Coroutine)
      /\ \A e : In(Append(stack[t], q), e) <=> In(stack[t], e) \/ e = q
      /\ Once(stack[t]) /\ ~In(stack[t], q) => Once(Append(stack[t], q))
    BY <1>1, AppendIn
<1>4. Append(stack[t], q) # <<>> /\ Last(Append(stack[t], q)) = q
    BY <1>1, AppendProperties DEF Last
<1>5. /\ stack' \in [Threads -> Seq(Coroutine)] /\ stack'[t] = Append(stack[t], q)
      /\ \A u \in Threads : u # t => stack'[u] = stack[u]
    BY <1>3 DEF Resume, TypeOK
<1> QED BY <1>2, <1>3, <1>4, <1>5

LEMMA LeaveFacts ==
    ASSUME TypeOK, NEW t \in Threads, NEW p \in Coroutine, NEW l \in Label, Running(t, p),
           Leave(t, p, l)
    PROVE  /\ pc' \in [Coroutine -> Label] /\ pc'[p] = l
           /\ \A o \in Coroutine : o # p => pc'[o] = pc[o]
           /\ stack' \in [Threads -> Seq(Coroutine)]
           /\ \A u \in Threads : u # t => stack'[u] = stack[u]
           /\ Once(stack[t]) => /\ Once(stack'[t])
                                /\ \A e : In(stack'[t], e) <=> In(stack[t], e) /\ e # p
<1>1. stack[t] \in Seq(Coroutine) /\ stack[t] # <<>> /\ Last(stack[t]) = p
    BY DEF TypeOK, Running
<1>2. /\ pc' \in [Coroutine -> Label] /\ pc'[p] = l
      /\ \A o \in Coroutine : o # p => pc'[o] = pc[o]
    BY DEF Leave, TypeOK, Label
<1>3. /\ Front(stack[t]) \in Seq(Coroutine)
      /\ Once(stack[t]) => /\ Once(Front(stack[t]))
                           /\ \A e : In(Front(stack[t]), e) <=> In(stack[t], e) /\ e # p
    BY <1>1, FrontIn
<1>4. /\ stack' \in [Threads -> Seq(Coroutine)] /\ stack'[t] = Front(stack[t])
      /\ \A u \in Threads : u # t => stack'[u] = stack[u]
    BY <1>3 DEF Leave, TypeOK
<1> QED BY <1>2, <1>3, <1>4

SendWaits(p) == InBy(m_send_waiters, 1, p)
RecvWaits(p) == In(m_recv_waiters, p)

\* A coroutine that was started and has not ended is in one call of resume() or in one list.
Apart(p) ==
    /\ \A t \in Threads : In(stack[t], p) =>
        /\ \A u \in Threads : In(stack[u], p) => u = t
        /\ ~SendWaits(p) /\ ~RecvWaits(p)
    /\ ~(SendWaits(p) /\ RecvWaits(p))
    /\ RecvWaits(p) => pc[p] = "waiting"
    /\ pc[p] \notin {"new", "done"} <=>
        SendWaits(p) \/ RecvWaits(p) \/ \E t \in Threads : In(stack[t], p)

AInv ==
    /\ \A t \in Threads : Once(stack[t])
    /\ Once(m_recv_waiters) /\ OnceBy(m_send_waiters, 1)
    /\ \A p \in Coroutine : Apart(p)

LEMMA ActiveInit == Init => AInv
BY EmptyIn DEF Init, AInv, Apart, SendWaits, RecvWaits, InBy, OnceBy

\* p goes on.
LEMMA ActiveContinue ==
    ASSUME TypeOK, AInv, NEW t \in Threads, NEW p, Running(t, p),
           NEW l \in Label \ {"new", "done"}, Continue(p, l),
           UNCHANGED <<m_send_waiters, m_recv_waiters>>
    PROVE  AInv'
<1>1. p \in Coroutine /\ In(stack[t], p) BY RunningFacts
<1>2. /\ pc'[p] = l /\ UNCHANGED stack
      /\ \A o \in Coroutine : o # p => pc'[o] = pc[o]
    BY <1>1, ContinueFacts
<1>3. ASSUME NEW o \in Coroutine PROVE Apart(o)'
    <2>1. CASE o = p BY <1>1, <1>2, <2>1 DEF AInv, Apart, SendWaits, RecvWaits
    <2>2. CASE o # p BY <1>2, <2>2 DEF AInv, Apart, SendWaits, RecvWaits
    <2> QED BY <2>1, <2>2
<1> QED BY <1>2, <1>3 DEF AInv

\* p resumes q, which it took out of its list.
LEMMA ActiveResume ==
    ASSUME TypeOK, AInv, NEW t \in Threads, NEW p, Running(t, p), NEW q \in Coroutine,
           NEW l \in Label \ {"new", "done"}, NEW m \in Label \ {"new", "done"},
           Resume(t, p, l, q, m),
           SendWaits(q) \/ RecvWaits(q),
           \A o \in Coroutine : /\ SendWaits(o)' <=> SendWaits(o) /\ o # q
                                /\ RecvWaits(o)' <=> RecvWaits(o) /\ o # q,
           Once(m_recv_waiters'), OnceBy(m_send_waiters', 1)
    PROVE  AInv' /\ p # q
<1>1. p \in Coroutine /\ In(stack[t], p) BY RunningFacts
<1>2. p # q /\ \A u \in Threads : ~In(stack[u], q) BY <1>1 DEF AInv, Apart
<1>3. /\ pc'[p] = l /\ pc'[q] = m
      /\ \A o \in Coroutine : o # p /\ o # q => pc'[o] = pc[o]
      /\ \A u \in Threads : u # t => stack'[u] = stack[u]
      /\ \A e : In(stack'[t], e) <=> In(stack[t], e) \/ e = q
      /\ Once(stack'[t])
    BY <1>1, <1>2, ResumeFacts DEF AInv
<1>4. \A u \in Threads : \A e : In(stack'[u], e) <=> In(stack[u], e) \/ (u = t /\ e = q)
    BY <1>3
<1>5. ASSUME NEW o \in Coroutine PROVE Apart(o)'
    <2>1. CASE o = q BY <1>2, <1>3, <1>4, <2>1 DEF Apart
    <2>2. CASE o = p /\ o # q
        <3>1. Apart(o) BY DEF AInv
        <3>2. ~SendWaits(o)' /\ ~RecvWaits(o)' BY <1>1, <2>2, <3>1 DEF Apart
        <3> QED BY <1>1, <1>3, <1>4, <2>2, <3>1, <3>2 DEF Apart
    <2>3. CASE o # p /\ o # q
        <3>1. /\ Apart(o) /\ pc'[o] = pc[o]
              /\ \A u \in Threads : In(stack'[u], o) <=> In(stack[u], o)
              /\ SendWaits(o)' <=> SendWaits(o)
              /\ RecvWaits(o)' <=> RecvWaits(o)
            BY <1>3, <1>4, <2>3 DEF AInv
        <3> QED BY <3>1 DEF Apart
    <2> QED BY <2>1, <2>2, <2>3
<1>6. \A u \in Threads : Once(stack'[u]) BY <1>3 DEF AInv
<1> QED BY <1>2, <1>5, <1>6 DEF AInv

\* p suspends, its handle in one of the lists, or ends.
LEMMA ActiveLeave ==
    ASSUME TypeOK, AInv, NEW t \in Threads, NEW p, Running(t, p), NEW l \in {"waiting", "done"},
           Leave(t, p, l),
           \A o \in Coroutine : o # p => /\ SendWaits(o)' <=> SendWaits(o)
                                         /\ RecvWaits(o)' <=> RecvWaits(o),
           (l = "waiting") <=> (SendWaits(p)' \/ RecvWaits(p)'), ~(SendWaits(p)' /\ RecvWaits(p)'),
           ~SendWaits(p) /\ ~RecvWaits(p) => Once(m_recv_waiters') /\ OnceBy(m_send_waiters', 1)
    PROVE  AInv'
<1>1. p \in Coroutine /\ In(stack[t], p) BY RunningFacts
<1>2. /\ pc'[p] = l
      /\ \A o \in Coroutine : o # p => pc'[o] = pc[o]
      /\ \A u \in Threads : u # t => stack'[u] = stack[u]
      /\ Once(stack'[t])
      /\ \A e : In(stack'[t], e) <=> In(stack[t], e) /\ e # p
    BY <1>1, LeaveFacts DEF AInv, Label
<1>3. Apart(p) /\ ~SendWaits(p) /\ ~RecvWaits(p) /\ \A u \in Threads : u # t => ~In(stack[u], p)
    BY <1>1 DEF AInv, Apart
<1>4. \A u \in Threads : ~In(stack'[u], p) BY <1>2, <1>3
<1>5. Apart(p)' BY <1>2, <1>4 DEF Apart
<1>6. ASSUME NEW o \in Coroutine, o # p PROVE Apart(o)'
    <2>1. /\ Apart(o) /\ pc'[o] = pc[o]
          /\ \A u \in Threads : In(stack'[u], o) <=> In(stack[u], o)
          /\ SendWaits(o)' <=> SendWaits(o)
          /\ RecvWaits(o)' <=> RecvWaits(o)
        BY <1>2, <1>6 DEF AInv
    <2> QED BY <2>1 DEF Apart
<1>7. \A u \in Threads : Once(stack'[u]) BY <1>2 DEF AInv
<1> QED BY <1>3, <1>5, <1>6, <1>7 DEF AInv

LEMMA ActiveStart ==
    ASSUME TypeOK, AInv, NEW t \in Threads, NEW p \in Coroutine, Start(t, p)
    PROVE  AInv' /\ TypeOK'
<1>1. /\ pc[p] = "new" /\ stack[t] = <<>> /\ UNCHANGED <<chan, sent, val, received>>
      /\ pc' \in [Coroutine -> Label] /\ pc'[p] = "ready"
      /\ \A o \in Coroutine : o # p => pc'[o] = pc[o]
      /\ stack' \in [Threads -> Seq(Coroutine)] /\ stack'[t] = <<p>>
      /\ \A u \in Threads : u # t => stack'[u] = stack[u]
    <2>1. <<p>> \in Seq(Coroutine) OBVIOUS
    <2> QED BY <2>1 DEF Start, TypeOK, Label
<1>2. UNCHANGED <<m_queue, m_send_waiters, m_recv_waiters>> BY <1>1 DEF chan
<1>3. /\ \A e : In(<<p>>, e) <=> e = p
      /\ Once(<<p>>)
    BY DEF In, Once
<1>4. \A u \in Threads : ~In(stack[u], p) BY <1>1 DEF AInv, Apart
<1>5. \A u \in Threads : \A e : In(stack'[u], e) <=> In(stack[u], e) \/ (u = t /\ e = p)
    BY <1>1, <1>3, EmptyIn
<1>6. ASSUME NEW o \in Coroutine PROVE Apart(o)'
    <2>1. (SendWaits(o)' <=> SendWaits(o)) /\ (RecvWaits(o)' <=> RecvWaits(o))
        BY <1>2 DEF SendWaits, RecvWaits
    <2>2. Apart(o) BY DEF AInv
    <2>3. CASE o = p BY <1>1, <1>4, <1>5, <2>1, <2>2, <2>3 DEF Apart
    <2>4. CASE o # p BY <1>1, <1>5, <2>1, <2>2, <2>4 DEF Apart
    <2> QED BY <2>3, <2>4
<1>7. \A u \in Threads : Once(stack'[u]) BY <1>1, <1>3 DEF AInv
<1>8. AInv' BY <1>2, <1>6, <1>7 DEF AInv
<1>9. TypeOK' BY <1>1, <1>2 DEF TypeOK, Label
<1> QED BY <1>8, <1>9

-----------------------------------------------------------------------------
(* Types                                                                   *)

\* A receiver is only resumed for a value that was pushed, and a sender only
\* suspends with a value that it still has to send.
Midway ==
    /\ \A r \in Receivers : pc[r] = "take" => Capacity > 0
    /\ \A s \in Senders : pc[s] = "suspend" => sent[s] < MaxSends

TInv == TypeOK /\ Midway /\ AInv

\* The next value is a value.
LEMMA NextValueType ==
    ASSUME TypeOK, NEW s \in Senders, sent[s] < MaxSends
    PROVE  /\ NextValue(s) \in Value
           /\ [sent EXCEPT ![s] = @ + 1] \in [Senders -> 0 .. MaxSends]
           /\ \A o \in Senders : [sent EXCEPT ![s] = @ + 1][o] = IF o = s THEN sent[s] + 1 ELSE sent[o]
<1>1. sent[s] \in 0 .. MaxSends /\ MaxSends \in Nat BY CapacityAssumption DEF TypeOK
<1>2. sent[s] + 1 \in 1 .. MaxSends BY <1>1
<1>3. NextValue(s) \in Value BY <1>2 DEF NextValue, Value
<1>4. sent[s] + 1 \in 0 .. MaxSends BY <1>2
<1> QED BY <1>3, <1>4 DEF TypeOK

\* The queue without its front.
LEMMA RestFacts ==
    ASSUME TypeOK
    PROVE  /\ Rest \in Seq(Value) /\ Len(Rest) \in Nat
           /\ m_queue # <<>> => Len(Rest) = Len(m_queue) - 1
           /\ m_queue = <<>> => Rest = <<>> /\ Len(Rest) = 0
           /\ FrontValue \in Value \cup {Garbage}
           /\ m_queue # <<>> => FrontValue \in Value /\ In(m_queue, FrontValue)
           /\ m_queue = <<>> => FrontValue = Garbage
           /\ Once(m_queue) => /\ Once(Rest)
                               /\ \A v \in Value : In(Rest, v) <=> In(m_queue, v) /\ v # FrontValue
<1>1. m_queue \in Seq(Value) BY DEF TypeOK
<1>2. CASE m_queue = <<>>
    <2>1. Rest = <<>> /\ FrontValue = Garbage BY <1>2 DEF Rest, FrontValue
    <2>2. <<>> \in Seq(Value) /\ Len(<<>>) = 0 OBVIOUS
    <2> QED BY <1>2, <2>1, <2>2, EmptyIn
<1>3. CASE m_queue # <<>>
    <2>1. Rest = Tail(m_queue) /\ FrontValue = Head(m_queue) BY <1>3 DEF Rest, FrontValue
    <2>2. Len(Tail(m_queue)) = Len(m_queue) - 1 /\ Len(m_queue) - 1 \in Nat
        BY <1>1, <1>3, HeadTailProperties, LenProperties, EmptySeq
    <2> QED BY <1>1, <1>3, <2>1, <2>2, TailIn
<1> QED BY <1>2, <1>3

LEMMA TypesSendReady ==
    ASSUME TInv, NEW t \in Threads, NEW s \in Senders, SendReady(t, s)
    PROVE  TInv'
<1>1. /\ TypeOK /\ AInv /\ Midway /\ Running(t, s) /\ s \in Coroutine /\ sent[s] < MaxSends
      /\ Len(m_queue) < Capacity
      /\ m_queue' = Append(m_queue, NextValue(s)) /\ sent' = [sent EXCEPT ![s] = @ + 1]
      /\ UNCHANGED <<m_send_waiters, single, val, received>>
    BY DEF TInv, SendReady, Coroutine
<1>2. /\ m_queue' \in Seq(Value) /\ Len(m_queue') <= Capacity /\ 0 < Capacity
    <2>1. Len(m_queue) \in Nat /\ m_queue \in Seq(Value) /\ Capacity \in Nat
        BY <1>1, CapacityAssumption DEF TypeOK
    <2>2. Len(m_queue') = Len(m_queue) + 1 /\ m_queue' \in Seq(Value)
        BY <1>1, <2>1, NextValueType, AppendProperties
    <2> QED BY <1>1, <2>1, <2>2
<1>3. sent' \in [Senders -> 0 .. MaxSends] /\ \A o \in Senders : o # s => sent'[o] = sent[o]
    BY <1>1, NextValueType
<1>4. CASE m_recv_waiters = <<>> /\ Continue(s, "ready") /\ UNCHANGED m_recv_waiters
    <2>1. /\ pc' \in [Coroutine -> Label] /\ pc'[s] = "ready" /\ UNCHANGED stack
          /\ \A o \in Coroutine : o # s => pc'[o] = pc[o]
        BY <1>1, <1>4, ContinueFacts DEF Label
    <2>2. AInv' BY <1>1, <1>4, ActiveContinue DEF Label
    <2>3. TypeOK' BY <1>1, <1>2, <1>3, <1>4, <2>1 DEF TypeOK, Label
    <2>4. Midway' BY <1>1, <1>2, <1>3, <2>1, CoroutineAssumption DEF Midway, Coroutine
    <2> QED BY <2>2, <2>3, <2>4 DEF TInv
<1>5. CASE /\ m_recv_waiters # <<>> /\ m_recv_waiters' = Tail(m_recv_waiters)
           /\ Resume(t, s, "ready", Head(m_recv_waiters), "take")
    <2> DEFINE q == Head(m_recv_waiters)
    <2>1. /\ q \in Receivers /\ m_recv_waiters' \in Seq(Receivers) /\ RecvWaits(q)
          /\ Once(m_recv_waiters')
          /\ \A e : In(m_recv_waiters', e) <=> In(m_recv_waiters, e) /\ e # q
        BY <1>1, <1>5, TailIn DEF TypeOK, AInv, RecvWaits
    <2>2. q \in Coroutine /\ ~SendWaits(q) BY <1>1, <2>1 DEF Coroutine, AInv, Apart
    <2>3. \A o \in Coroutine : /\ SendWaits(o)' <=> SendWaits(o) /\ o # q
                               /\ RecvWaits(o)' <=> RecvWaits(o) /\ o # q
        BY <1>1, <2>1, <2>2 DEF SendWaits, RecvWaits
    <2>4. OnceBy(m_send_waiters', 1) BY <1>1 DEF AInv
    <2> HIDE DEF q
    <2>5. Resume(t, s, "ready", q, "take") BY <1>5 DEF q
    <2>6. AInv' /\ s # q BY <1>1, <2>1, <2>2, <2>3, <2>4, <2>5, ActiveResume DEF Label
    <2>7. /\ pc' \in [Coroutine -> Label] /\ pc'[s] = "ready" /\ pc'[q] = "take"
          /\ \A o \in Coroutine : o # s /\ o # q => pc'[o] = pc[o]
          /\ stack' \in [Threads -> Seq(Coroutine)]
        BY <1>1, <2>2, <2>5, <2>6, ResumeFacts DEF Label
    <2>8. TypeOK' BY <1>1, <1>2, <1>3, <2>1, <2>7 DEF TypeOK, Label
    <2>9. Midway' BY <1>1, <1>2, <1>3, <2>1, <2>7, CoroutineAssumption DEF Midway, Coroutine
    <2> QED BY <2>6, <2>8, <2>9 DEF TInv
<1> QED BY <1>4, <1>5 DEF SendReady

\* A coroutine goes on or ends and leaves the channel alone.
LEMMA TypesAlone ==
    ASSUME TInv, NEW t \in Threads, NEW p \in Coroutine, Running(t, p),
           UNCHANGED <<chan, single, sent>>,
           \/ /\ UNCHANGED <<val, received>>
              /\ \/ Continue(p, "suspend") /\ (p \in Senders => sent[p] < MaxSends)
                 \/ Leave(t, p, "done")
           \/ /\ Continue(p, "ready")
              /\ val' \in [Receivers -> Value \cup {NoValue, Garbage}]
              /\ received' \in [Receivers -> Seq(Value \cup {Garbage})]
    PROVE  TInv'
<1>1. /\ TypeOK /\ AInv /\ Midway
      /\ UNCHANGED <<m_queue, m_send_waiters, m_recv_waiters, sent>>
    BY DEF TInv, chan
<1>2. /\ val' \in [Receivers -> Value \cup {NoValue, Garbage}]
      /\ received' \in [Receivers -> Seq(Value \cup {Garbage})]
    BY <1>1 DEF TypeOK
<1>3. ASSUME NEW l \in {"suspend", "ready"}, Continue(p, l),
             p \in Senders /\ l = "suspend" => sent[p] < MaxSends
      PROVE  TInv'
    <2>1. /\ pc' \in [Coroutine -> Label] /\ pc'[p] = l /\ UNCHANGED stack
          /\ \A o \in Coroutine : o # p => pc'[o] = pc[o]
        BY <1>1, <1>3, ContinueFacts DEF Label
    <2>2. AInv' BY <1>1, <1>3, ActiveContinue DEF Label
    <2>3. TypeOK' BY <1>1, <1>2, <2>1 DEF TypeOK, Label
    <2>4. Midway' BY <1>1, <1>3, <2>1 DEF Midway, Coroutine
    <2> QED BY <2>2, <2>3, <2>4 DEF TInv
<1>4. CASE Leave(t, p, "done")
    <2>1. /\ pc' \in [Coroutine -> Label] /\ pc'[p] = "done"
          /\ \A o \in Coroutine : o # p => pc'[o] = pc[o]
          /\ stack' \in [Threads -> Seq(Coroutine)]
        BY <1>1, <1>4, LeaveFacts DEF Label
    <2>2. \A o \in Coroutine : (SendWaits(o)' <=> SendWaits(o)) /\ (RecvWaits(o)' <=> RecvWaits(o))
        BY <1>1 DEF SendWaits, RecvWaits
    <2>3. ~SendWaits(p) /\ ~RecvWaits(p) BY <1>1, RunningFacts DEF AInv, Apart
    <2>4. Once(m_recv_waiters') /\ OnceBy(m_send_waiters', 1) BY <1>1 DEF AInv
    <2>5. AInv' BY <1>1, <1>4, <2>2, <2>3, <2>4, ActiveLeave
    <2>6. TypeOK' BY <1>1, <1>2, <2>1 DEF TypeOK, Label
    <2>7. Midway' BY <1>1, <2>1 DEF Midway, Coroutine
    <2> QED BY <2>5, <2>6, <2>7 DEF TInv
<1> QED BY <1>3, <1>4

LEMMA TypesSendSuspend ==
    ASSUME TInv, NEW t \in Threads, NEW s \in Senders, SendSuspend(t, s)
    PROVE  TInv'
<1>1. /\ TypeOK /\ AInv /\ Midway /\ Running(t, s) /\ s \in Coroutine /\ pc[s] = "suspend"
      /\ m_send_waiters' = Append(m_send_waiters, <<s, NextValue(s)>>)
      /\ sent' = [sent EXCEPT ![s] = @ + 1] /\ Leave(t, s, "waiting")
      /\ UNCHANGED <<m_queue, m_recv_waiters, single, val, received>>
    BY DEF TInv, SendSuspend, Coroutine
<1>2. sent[s] < MaxSends BY <1>1 DEF Midway
<1>3. /\ sent' \in [Senders -> 0 .. MaxSends]
      /\ \A o \in Senders : o # s => sent'[o] = sent[o]
      /\ <<s, NextValue(s)>> \in Senders \X Value
    BY <1>1, <1>2, NextValueType
<1>4. /\ m_send_waiters' \in Seq(Senders \X Value)
      /\ \A e : InBy(m_send_waiters', 1, e) <=> InBy(m_send_waiters, 1, e) \/ e = s
      /\ ~InBy(m_send_waiters, 1, s) => OnceBy(m_send_waiters', 1)
    <2>1. m_send_waiters \in Seq(Senders \X Value) /\ OnceBy(m_send_waiters, 1)
        BY <1>1 DEF TypeOK, AInv
    <2>2. <<s, NextValue(s)>>[1] = s OBVIOUS
    <2> QED BY <1>1, <1>3, <2>1, <2>2, AppendBy
<1>5. /\ pc' \in [Coroutine -> Label] /\ pc'[s] = "waiting"
      /\ \A o \in Coroutine : o # s => pc'[o] = pc[o]
      /\ stack' \in [Threads -> Seq(Coroutine)]
    BY <1>1, LeaveFacts DEF Label
<1>6. ~SendWaits(s) /\ ~RecvWaits(s) BY <1>1, RunningFacts DEF AInv, Apart
<1>7. /\ \A o \in Coroutine : (SendWaits(o)' <=> SendWaits(o) \/ o = s) /\ (RecvWaits(o)' <=> RecvWaits(o))
      /\ Once(m_recv_waiters') /\ OnceBy(m_send_waiters', 1)
    BY <1>1, <1>4, <1>6 DEF SendWaits, RecvWaits, AInv
<1>8. AInv' BY <1>1, <1>6, <1>7, ActiveLeave
<1>9. TypeOK' BY <1>1, <1>3, <1>4, <1>5 DEF TypeOK, Label
<1>10. Midway' BY <1>1, <1>3, <1>5, CoroutineAssumption DEF Midway, Coroutine
<1> QED BY <1>8, <1>9, <1>10 DEF TInv

LEMMA TypesReceiveSuspend ==
    ASSUME TInv, NEW t \in Threads, NEW r \in Receivers, ReceiveSuspend(t, r)
    PROVE  TInv'
<1>1. /\ TypeOK /\ AInv /\ Midway /\ Running(t, r) /\ r \in Coroutine
      /\ m_recv_waiters' = Append(m_recv_waiters, r) /\ Leave(t, r, "waiting")
      /\ UNCHANGED <<m_queue, m_send_waiters, single, sent, val, received>>
    BY DEF TInv, ReceiveSuspend, Coroutine
<1>4. /\ m_recv_waiters' \in Seq(Receivers)
      /\ \A e : In(m_recv_waiters', e) <=> In(m_recv_waiters, e) \/ e = r
      /\ ~In(m_recv_waiters, r) => Once(m_recv_waiters')
    BY <1>1, AppendIn DEF TypeOK, AInv
<1>5. /\ pc' \in [Coroutine -> Label] /\ pc'[r] = "waiting"
      /\ \A o \in Coroutine : o # r => pc'[o] = pc[o]
      /\ stack' \in [Threads -> Seq(Coroutine)]
    BY <1>1, LeaveFacts DEF Label
<1>6. ~SendWaits(r) /\ ~RecvWaits(r) BY <1>1, RunningFacts DEF AInv, Apart
<1>7. /\ \A o \in Coroutine : (SendWaits(o)' <=> SendWaits(o)) /\ (RecvWaits(o)' <=> RecvWaits(o) \/ o = r)
      /\ Once(m_recv_waiters') /\ OnceBy(m_send_waiters', 1)
    BY <1>1, <1>4, <1>6 DEF SendWaits, RecvWaits, AInv
<1>8. AInv' BY <1>1, <1>6, <1>7, ActiveLeave
<1>9. TypeOK' BY <1>1, <1>4, <1>5 DEF TypeOK, Label
<1>10. Midway' BY <1>1, <1>5, CoroutineAssumption DEF Midway, Coroutine
<1> QED BY <1>8, <1>9, <1>10 DEF TInv

LEMMA TypesTake ==
    ASSUME TInv, NEW t \in Threads, NEW r \in Receivers, Running(t, r), Take(t, r),
           m_queue # <<>> \/ pc[r] = "take"
    PROVE  TInv'
<1>1. /\ TypeOK /\ AInv /\ Midway /\ r \in Coroutine
      /\ val' = [val EXCEPT ![r] = FrontValue]
      /\ UNCHANGED <<m_recv_waiters, single, sent, received>>
    BY DEF TInv, Take, Coroutine
<1>2. /\ Rest \in Seq(Value) /\ Len(Rest) \in Nat /\ Len(Rest) <= Capacity
      /\ Len(Rest) + 1 <= Capacity
      /\ val' \in [Receivers -> Value \cup {NoValue, Garbage}]
    <2>1. Len(m_queue) \in Nat /\ Len(m_queue) <= Capacity /\ Capacity \in Nat
        BY <1>1, CapacityAssumption DEF TypeOK
    <2>2. m_queue = <<>> => Capacity > 0 BY <1>1 DEF Midway
    <2>3. m_queue # <<>> => Len(Rest) = Len(m_queue) - 1 BY <1>1, RestFacts
    <2>4. m_queue = <<>> => Len(Rest) = 0 BY <1>1, RestFacts
    <2>5. Len(Rest) \in Nat /\ Rest \in Seq(Value) /\ FrontValue \in Value \cup {Garbage}
        BY <1>1, RestFacts
    <2>6. Len(Rest) + 1 <= Capacity BY <2>1, <2>2, <2>3, <2>4, <2>5
    <2> QED BY <1>1, <2>1, <2>5, <2>6 DEF TypeOK
<1>3. CASE /\ m_send_waiters = <<>> /\ m_queue' = Rest /\ Continue(r, "return")
           /\ UNCHANGED m_send_waiters
    <2>1. /\ pc' \in [Coroutine -> Label] /\ pc'[r] = "return" /\ UNCHANGED stack
          /\ \A o \in Coroutine : o # r => pc'[o] = pc[o]
        BY <1>1, <1>3, ContinueFacts DEF Label
    <2>2. AInv' BY <1>1, <1>3, ActiveContinue DEF Label
    <2>3. TypeOK' BY <1>1, <1>2, <1>3, <2>1 DEF TypeOK, Label
    <2>4. Midway' BY <1>1, <2>1, CoroutineAssumption DEF Midway, Coroutine
    <2> QED BY <2>2, <2>3, <2>4 DEF TInv
<1>4. CASE /\ m_send_waiters # <<>> /\ m_queue' = Append(Rest, Head(m_send_waiters)[2])
           /\ m_send_waiters' = Tail(m_send_waiters)
           /\ Resume(t, r, "return", Head(m_send_waiters)[1], "ready")
    <2> DEFINE q == Head(m_send_waiters)[1]
               w == Head(m_send_waiters)[2]
    <2>1. /\ Head(m_send_waiters) \in Senders \X Value
          /\ m_send_waiters' \in Seq(Senders \X Value) /\ SendWaits(q)
          /\ OnceBy(m_send_waiters', 1)
          /\ \A e : InBy(m_send_waiters', 1, e) <=> InBy(m_send_waiters, 1, e) /\ e # q
        BY <1>1, <1>4, TailBy DEF TypeOK, AInv, SendWaits
    <2>2. q \in Senders /\ w \in Value /\ q \in Coroutine BY <2>1 DEF Coroutine
    <2> HIDE DEF q, w
    <2>3. ~RecvWaits(q) BY <1>1, <2>1, <2>2 DEF AInv, Apart
    <2>4. \A o \in Coroutine : /\ SendWaits(o)' <=> SendWaits(o) /\ o # q
                               /\ RecvWaits(o)' <=> RecvWaits(o) /\ o # q
        BY <1>1, <2>1, <2>3 DEF SendWaits, RecvWaits
    <2>5. Once(m_recv_waiters') BY <1>1 DEF AInv
    <2>6. Resume(t, r, "return", q, "ready") /\ m_queue' = Append(Rest, w) BY <1>4 DEF q, w
    <2>7. AInv' /\ r # q BY <1>1, <2>1, <2>2, <2>4, <2>5, <2>6, ActiveResume DEF Label
    <2>8. /\ pc' \in [Coroutine -> Label] /\ pc'[r] = "return" /\ pc'[q] = "ready"
          /\ \A o \in Coroutine : o # r /\ o # q => pc'[o] = pc[o]
          /\ stack' \in [Threads -> Seq(Coroutine)]
        BY <1>1, <2>2, <2>6, <2>7, ResumeFacts DEF Label
    <2>9. m_queue' \in Seq(Value) /\ Len(m_queue') <= Capacity
        <3>1. Len(m_queue') = Len(Rest) + 1 /\ m_queue' \in Seq(Value)
            BY <1>2, <2>2, <2>6, AppendProperties
        <3> QED BY <1>2, <3>1
    <2>10. TypeOK' BY <1>1, <1>2, <2>1, <2>8, <2>9 DEF TypeOK, Label
    <2>11. Midway' BY <1>1, <2>2, <2>8, CoroutineAssumption DEF Midway, Coroutine
    <2> QED BY <2>7, <2>10, <2>11 DEF TInv
<1> QED BY <1>3, <1>4 DEF Take

\* A receive holds a value exactly while it is about to return it.
Fetched == \A r \in Receivers : val[r] # NoValue <=> pc[r] = "return"

LEMMA FetchedNext ==
    ASSUME TInv, Fetched, NEW t \in Threads, Run(t)
    PROVE  TInv' /\ Fetched'
<1>1. TypeOK /\ AInv /\ Midway BY DEF TInv
<1>2. ASSUME NEW p \in Coroutine, Start(t, p) PROVE TInv' /\ Fetched'
    <2>1. AInv' /\ TypeOK' BY <1>1, <1>2, ActiveStart
    <2>2. /\ pc[p] = "new" /\ pc'[p] = "ready" /\ UNCHANGED <<sent, val>>
          /\ \A o \in Coroutine : o # p => pc'[o] = pc[o]
        BY <1>1, <1>2 DEF Start, TypeOK
    <2>3. Midway' BY <1>1, <2>2 DEF Midway, Coroutine
    <2>4. Fetched' BY <2>2 DEF Fetched, Coroutine
    <2> QED BY <2>1, <2>3, <2>4 DEF TInv
<1>3. ASSUME NEW s \in Senders, SendReady(t, s) PROVE TInv' /\ Fetched'
    <2>1. TInv' BY <1>3, TypesSendReady
    <2>2. /\ s \in Coroutine /\ s \notin Receivers /\ Running(t, s) /\ UNCHANGED val
        BY <1>3, CoroutineAssumption DEF SendReady, Coroutine
    <2>3. CASE Continue(s, "ready")
        BY <1>1, <2>1, <2>2, <2>3, ContinueFacts DEF Fetched, Label, Coroutine
    <2>4. CASE m_recv_waiters # <<>> /\ Resume(t, s, "ready", Head(m_recv_waiters), "take")
        <3>1. PICK q : q = Head(m_recv_waiters) OBVIOUS
        <3>2. q \in Receivers /\ RecvWaits(q) BY <1>1, <2>4, <3>1, TailIn DEF TypeOK, RecvWaits
        <3>3. q \in Coroutine /\ q # s /\ pc[q] = "waiting"
            BY <1>1, <2>2, <3>2 DEF AInv, Apart, Coroutine
        <3>4. /\ pc'[q] = "take" /\ \A o \in Coroutine : o # s /\ o # q => pc'[o] = pc[o]
            BY <1>1, <2>2, <2>4, <3>1, <3>3, ResumeFacts DEF Label
        <3>5. ASSUME NEW o \in Receivers PROVE val'[o] # NoValue <=> pc'[o] = "return"
            <4>1. o \in Coroutine /\ o # s /\ val'[o] = val[o] BY <2>2 DEF Coroutine
            <4>2. val[o] # NoValue <=> pc[o] = "return" BY DEF Fetched
            <4> QED BY <3>3, <3>4, <4>1, <4>2
        <3> QED BY <2>1, <3>5 DEF Fetched
    <2> QED BY <1>3, <2>3, <2>4 DEF SendReady
<1>4. ASSUME NEW s \in Senders, SendFull(t, s) PROVE TInv' /\ Fetched'
    <2>1. /\ s \in Coroutine /\ s \notin Receivers /\ Running(t, s) /\ sent[s] < MaxSends
          /\ Continue(s, "suspend") /\ UNCHANGED <<chan, single, sent, val, received>>
        BY <1>4, CoroutineAssumption DEF SendFull, Coroutine
    <2>2. TInv' BY <2>1, TypesAlone
    <2>3. Fetched' BY <1>1, <2>1, ContinueFacts DEF Fetched, Label, Coroutine
    <2> QED BY <2>2, <2>3
<1>5. ASSUME NEW s \in Senders, SendSuspend(t, s) PROVE TInv' /\ Fetched'
    <2>1. /\ s \in Coroutine /\ s \notin Receivers /\ Running(t, s)
          /\ Leave(t, s, "waiting") /\ UNCHANGED val
        BY <1>5, CoroutineAssumption DEF SendSuspend, Coroutine
    <2>2. TInv' BY <1>5, TypesSendSuspend
    <2>3. Fetched' BY <1>1, <2>1, LeaveFacts DEF Fetched, Label, Coroutine
    <2> QED BY <2>2, <2>3
<1>6. ASSUME NEW s \in Senders, SendEnd(t, s) PROVE TInv' /\ Fetched'
    <2>1. /\ s \in Coroutine /\ s \notin Receivers /\ Running(t, s)
          /\ Leave(t, s, "done") /\ UNCHANGED <<chan, single, sent, val, received>>
        BY <1>6, CoroutineAssumption DEF SendEnd, Coroutine
    <2>2. TInv' BY <2>1, TypesAlone
    <2>3. Fetched' BY <1>1, <2>1, LeaveFacts DEF Fetched, Label, Coroutine
    <2> QED BY <2>2, <2>3
<1>7. ASSUME NEW r \in Receivers, Running(t, r), Take(t, r), m_queue # <<>> \/ pc[r] = "take"
      PROVE TInv' /\ Fetched'
    <2>1. TInv' BY <1>7, TypesTake
    <2>2. r \in Coroutine /\ val' = [val EXCEPT ![r] = FrontValue] BY <1>7 DEF Take, Coroutine
    <2>3. FrontValue # NoValue BY <1>1, RestFacts, NotValues
    <2>4. val'[r] # NoValue /\ \A o \in Receivers : o # r => val'[o] = val[o]
        BY <1>1, <2>2, <2>3 DEF TypeOK
    <2>5. CASE Continue(r, "return")
        BY <1>1, <2>1, <2>2, <2>4, <2>5, ContinueFacts DEF Fetched, Label, Coroutine
    <2>6. CASE m_send_waiters # <<>> /\ Resume(t, r, "return", Head(m_send_waiters)[1], "ready")
        <3>1. PICK q : q = Head(m_send_waiters)[1] OBVIOUS
        <3>2. Head(m_send_waiters) \in Senders \X Value
            BY <1>1, <2>6, TailBy DEF TypeOK, AInv
        <3>3. q \in Coroutine /\ q # r /\ q \notin Receivers
            BY <3>1, <3>2, CoroutineAssumption DEF Coroutine
        <3>4. /\ pc'[r] = "return" /\ \A o \in Coroutine : o # r /\ o # q => pc'[o] = pc[o]
            BY <1>1, <2>2, <2>6, <3>1, <3>3, ResumeFacts DEF Label
        <3> QED BY <2>1, <2>4, <3>3, <3>4 DEF Fetched, Coroutine
    <2> QED BY <1>7, <2>5, <2>6 DEF Take
<1>8. ASSUME NEW r \in Receivers, ReceiveEmpty(t, r) PROVE TInv' /\ Fetched'
    <2>1. /\ r \in Coroutine /\ r \notin Senders /\ Running(t, r) /\ pc[r] = "ready"
          /\ Continue(r, "suspend") /\ UNCHANGED <<chan, single, sent, val, received>>
        BY <1>8, CoroutineAssumption DEF ReceiveEmpty, Coroutine
    <2>2. TInv' BY <2>1, TypesAlone
    <2>3. Fetched' BY <1>1, <2>1, ContinueFacts DEF Fetched, Label, Coroutine
    <2> QED BY <2>2, <2>3
<1>9. ASSUME NEW r \in Receivers, ReceiveSuspend(t, r) PROVE TInv' /\ Fetched'
    <2>1. /\ r \in Coroutine /\ Running(t, r) /\ pc[r] = "suspend"
          /\ Leave(t, r, "waiting") /\ UNCHANGED val
        BY <1>9 DEF ReceiveSuspend, Coroutine
    <2>2. TInv' BY <1>9, TypesReceiveSuspend
    <2>3. Fetched' BY <1>1, <2>1, LeaveFacts DEF Fetched, Label, Coroutine
    <2> QED BY <2>2, <2>3
<1>10. ASSUME NEW r \in Receivers, ReceiveReturn(t, r) PROVE TInv' /\ Fetched'
    <2>1. /\ r \in Coroutine /\ Running(t, r) /\ pc[r] = "return"
          /\ received' = [received EXCEPT ![r] = Append(@, val[r])]
          /\ val' = [val EXCEPT ![r] = NoValue]
          /\ Continue(r, "ready") /\ UNCHANGED <<chan, single, sent>>
        BY <1>10 DEF ReceiveReturn, Coroutine
    <2>2. val[r] \in Value \cup {Garbage} BY <1>1, <2>1 DEF Fetched, TypeOK
    <2>3. Append(received[r], val[r]) \in Seq(Value \cup {Garbage})
        BY <1>1, <2>2, AppendIn DEF TypeOK
    <2>4. /\ received' \in [Receivers -> Seq(Value \cup {Garbage})]
          /\ val' \in [Receivers -> Value \cup {NoValue, Garbage}]
          /\ val'[r] = NoValue /\ \A o \in Receivers : o # r => val'[o] = val[o]
        BY <1>1, <2>1, <2>3 DEF TypeOK
    <2>5. TInv' BY <2>1, <2>4, TypesAlone
    <2>6. Fetched' BY <1>1, <2>1, <2>4, ContinueFacts DEF Fetched, Label, Coroutine
    <2> QED BY <2>5, <2>6
<1>11. ASSUME NEW s \in Senders, Send(t, s) PROVE TInv' /\ Fetched'
    BY <1>3, <1>4, <1>5, <1>6, <1>11 DEF Send
<1>12. ASSUME NEW r \in Receivers, Receive(t, r) PROVE TInv' /\ Fetched'
    BY <1>7, <1>8, <1>9, <1>10, <1>12 DEF Receive, ReceiveReady, ReceiveResume
<1> QED BY <1>2, <1>11, <1>12 DEF Run

-----------------------------------------------------------------------------
(* Every coroutine is resumed once                                         *)

LEMMA CountActivations == TInv => OneActivation
<1> SUFFICES ASSUME TInv, NEW p \in Coroutine
             PROVE  Cardinality(Activations(p)) = IF pc[p] \in {"new", "done"} THEN 0 ELSE 1
    BY DEF OneActivation
<1>1. /\ Apart(p) /\ Once(m_recv_waiters) /\ OnceBy(m_send_waiters, 1)
      /\ \A t \in Threads : Once(stack[t])
    BY DEF TInv, AInv
<1> DEFINE S == UNION {{<<"stack", t, i>> : i \in Occurrences(stack[t], p)} : t \in Threads}
           W == {<<"send", i>> : i \in {j \in DOMAIN m_send_waiters : m_send_waiters[j][1] = p}}
           R == {<<"recv", i>> : i \in Occurrences(m_recv_waiters, p)}
<1>2. Activations(p) = S \cup W \cup R BY DEF Activations
<1>3. (\A t \in Threads : ~In(stack[t], p)) => S = {}
    BY DEF In, Occurrences
<1>4. ~SendWaits(p) => W = {} BY DEF SendWaits, InBy
<1>5. ~RecvWaits(p) => R = {} BY DEF RecvWaits, In, Occurrences
<1>6. SendWaits(p) => \E x : W = {x}
    <2> SUFFICES ASSUME SendWaits(p) PROVE \E x : W = {x} OBVIOUS
    <2>1. PICK i \in DOMAIN m_send_waiters : m_send_waiters[i][1] = p BY DEF SendWaits, InBy
    <2>2. {j \in DOMAIN m_send_waiters : m_send_waiters[j][1] = p} = {i}
        BY <1>1, <2>1 DEF OnceBy
    <2>3. W = {<<"send", i>>} BY <2>2
    <2> QED BY <2>3
<1>7. RecvWaits(p) => \E x : R = {x}
    <2> SUFFICES ASSUME RecvWaits(p) PROVE \E x : R = {x} OBVIOUS
    <2>1. PICK i \in DOMAIN m_recv_waiters : m_recv_waiters[i] = p BY DEF RecvWaits, In
    <2>2. Occurrences(m_recv_waiters, p) = {i} BY <1>1, <2>1 DEF Once, Occurrences
    <2>3. R = {<<"recv", i>>} BY <2>2
    <2> QED BY <2>3
<1>8. ASSUME NEW t \in Threads, In(stack[t], p) PROVE \E x : S = {x}
    <2>1. PICK i \in DOMAIN stack[t] : stack[t][i] = p BY <1>8 DEF In
    <2>2. Occurrences(stack[t], p) = {i} BY <1>1, <2>1 DEF Once, Occurrences
    <2>3. \A u \in Threads : u # t => Occurrences(stack[u], p) = {}
        BY <1>1, <1>8 DEF Apart, In, Occurrences
    <2>4. S = {<<"stack", t, i>>} BY <2>2, <2>3
    <2> QED BY <2>4
<1> HIDE DEF S, W, R
<1>9. CASE pc[p] \in {"new", "done"}
    <2>1. S = {} /\ W = {} /\ R = {} BY <1>1, <1>3, <1>4, <1>5, <1>9 DEF Apart
    <2> QED BY <1>2, <1>9, <2>1, FS_EmptySet
<1>10. CASE pc[p] \notin {"new", "done"}
    <2>1. \E x : S \cup W \cup R = {x}
        <3>1. CASE SendWaits(p)
            <4>1. S = {} /\ R = {} BY <1>1, <1>3, <1>5, <3>1 DEF Apart
            <4> QED BY <1>6, <3>1, <4>1
        <3>2. CASE RecvWaits(p)
            <4>1. S = {} /\ W = {} BY <1>1, <1>3, <1>4, <3>2 DEF Apart
            <4> QED BY <1>7, <3>2, <4>1
        <3>3. CASE \E t \in Threads : In(stack[t], p)
            <4>1. W = {} /\ R = {} BY <1>1, <1>4, <1>5, <3>3 DEF Apart
            <4> QED BY <1>8, <3>3, <4>1
        <3> QED BY <1>1, <1>10, <3>1, <3>2, <3>3 DEF Apart
    <2> QED BY <1>2, <1>10, <2>1, FS_Singleton
<1> QED BY <1>9, <1>10

-----------------------------------------------------------------------------
(* Where a value is                                                        *)

OnceAt(s, e) == \A i, k \in DOMAIN s : s[i] = e /\ s[k] = e => i = k

LEMMA AppendAt ==
    ASSUME NEW S, NEW s \in Seq(S), NEW x \in S, NEW e, OnceAt(s, e), ~(In(s, e) /\ e = x)
    PROVE  OnceAt(Append(s, x), e)
<1>1. /\ DOMAIN s = 1 .. Len(s) /\ Len(s) \in Nat
      /\ DOMAIN Append(s, x) = 1 .. Len(s) + 1
      /\ \A i \in 1 .. Len(s) : Append(s, x)[i] = s[i]
      /\ Append(s, x)[Len(s) + 1] = x
    BY AppendProperties
<1> QED BY <1>1 DEF In, OnceAt

Queued(v) == In(m_queue, v)
Offered(v) == InBy(m_send_waiters, 2, v)
Has(r, v) == val[r] = v \/ In(received[r], v)
Begun(v) == v[2] <= sent[v[1]]

\* v is nowhere, or in one place.
Alone(v) ==
    /\ ~(Queued(v) /\ Offered(v))
    /\ \A r \in Receivers : Has(r, v) =>
        /\ ~Queued(v) /\ ~Offered(v)
        /\ \A q \in Receivers : Has(q, v) => q = r
    /\ \A r \in Receivers : ~(val[r] = v /\ In(received[r], v)) /\ OnceAt(received[r], v)
    /\ Begun(v) <=> Queued(v) \/ Offered(v) \/ \E r \in Receivers : Has(r, v)

VInv ==
    /\ Once(m_queue) /\ OnceBy(m_send_waiters, 2)
    /\ \A v \in Value : Alone(v)

LEMMA Undisturbed ==
    ASSUME NEW v \in Value, Alone(v),
           Queued(v)' <=> Queued(v), Offered(v)' <=> Offered(v), Begun(v)' <=> Begun(v),
           \A r \in Receivers : (val'[r] = v <=> val[r] = v) /\ (In(received'[r], v) <=> In(received[r], v))
                                /\ OnceAt(received'[r], v)
    PROVE  Alone(v)'
<1>1. \A r \in Receivers : Has(r, v)' <=> Has(r, v) BY DEF Has
<1> QED BY <1>1 DEF Alone

\* A send begins with one more value, which is nowhere yet.
LEMMA BegunNext ==
    ASSUME TypeOK, NEW s \in Senders, sent[s] < MaxSends, sent' = [sent EXCEPT ![s] = @ + 1]
    PROVE  /\ NextValue(s) \in Value /\ ~Begun(NextValue(s))
           /\ \A v \in Value : Begun(v)' <=> Begun(v) \/ v = NextValue(s)
<1>1. /\ NextValue(s) \in Value
      /\ \A o \in Senders : sent'[o] = IF o = s THEN sent[s] + 1 ELSE sent[o]
    BY NextValueType
<1>2. \A o \in Senders : sent[o] \in Nat BY CapacityAssumption DEF TypeOK
<1>3. NextValue(s)[1] = s /\ NextValue(s)[2] = sent[s] + 1 BY DEF NextValue
<1>4. ~Begun(NextValue(s)) BY <1>2, <1>3 DEF Begun
<1>5. ASSUME NEW v \in Value PROVE Begun(v)' <=> Begun(v) \/ v = NextValue(s)
    <2>1. v[1] \in Senders /\ v[2] \in Nat /\ v = <<v[1], v[2]>> BY DEF Value
    <2>2. CASE v[1] = s
        <3>1. v = NextValue(s) <=> v[2] = sent[s] + 1 BY <2>1, <2>2, <1>3 DEF NextValue
        <3>2. sent'[v[1]] = sent[s] + 1 /\ sent[s] \in Nat BY <1>1, <1>2, <2>2
        <3> QED BY <2>1, <2>2, <3>1, <3>2 DEF Begun
    <2>3. CASE v[1] # s
        <3>1. v # NextValue(s) /\ sent'[v[1]] = sent[v[1]] BY <1>1, <1>3, <2>1, <2>3
        <3> QED BY <3>1 DEF Begun
    <2> QED BY <2>2, <2>3
<1> QED BY <1>1, <1>4, <1>5

\* A value is pushed for the first time.
LEMMA ValueSendReady ==
    ASSUME TInv, VInv, NEW t \in Threads, NEW s \in Senders, SendReady(t, s)
    PROVE  VInv'
<1>1. /\ TypeOK /\ sent[s] < MaxSends /\ m_queue \in Seq(Value)
      /\ m_queue' = Append(m_queue, NextValue(s)) /\ sent' = [sent EXCEPT ![s] = @ + 1]
      /\ UNCHANGED <<m_send_waiters, val, received>>
    BY DEF TInv, SendReady, TypeOK
<1>2. PICK v : v = NextValue(s) OBVIOUS
<1>3. v \in Value /\ ~Begun(v) /\ \A w \in Value : Begun(w)' <=> Begun(w) \/ w = v
    BY <1>1, <1>2, BegunNext
<1>4. Alone(v) /\ ~Queued(v) /\ ~Offered(v) /\ \A r \in Receivers : ~Has(r, v)
    BY <1>3 DEF VInv, Alone
<1>5. Once(m_queue') /\ \A w : Queued(w)' <=> Queued(w) \/ w = v
    BY <1>1, <1>2, <1>3, <1>4, AppendIn DEF VInv, Queued
<1>6. /\ \A w : Offered(w)' <=> Offered(w)
      /\ \A w : \A r \in Receivers : Has(r, w)' <=> Has(r, w)
    BY <1>1 DEF Offered, Has
<1>7. ASSUME NEW w \in Value PROVE Alone(w)'
    <2>1. CASE w = v
        <3>1. \A r \in Receivers : ~(val[r] = v /\ In(received[r], v)) /\ OnceAt(received[r], v)
            BY <1>4 DEF Alone
        <3> QED BY <1>1, <1>3, <1>4, <1>5, <1>6, <2>1, <3>1 DEF Alone
    <2>2. CASE w # v
        <3>1. Alone(w) BY DEF VInv
        <3>2. \A r \in Receivers : OnceAt(received[r], w) BY <3>1 DEF Alone
        <3> QED BY <1>1, <1>3, <1>5, <1>6, <2>2, <3>1, <3>2, Undisturbed
    <2> QED BY <2>1, <2>2
<1>8. OnceBy(m_send_waiters', 2) BY <1>1 DEF VInv
<1> QED BY <1>5, <1>7, <1>8 DEF VInv

\* A value goes into the list of waiting senders.
LEMMA ValueSendSuspend ==
    ASSUME TInv, VInv, NEW t \in Threads, NEW s \in Senders, SendSuspend(t, s)
    PROVE  VInv'
<1>1. /\ TypeOK /\ sent[s] < MaxSends /\ m_send_waiters \in Seq(Senders \X Value)
      /\ m_send_waiters' = Append(m_send_waiters, <<s, NextValue(s)>>)
      /\ sent' = [sent EXCEPT ![s] = @ + 1]
      /\ UNCHANGED <<m_queue, val, received>>
    BY DEF TInv, Midway, SendSuspend, TypeOK
<1>2. PICK v : v = NextValue(s) OBVIOUS
<1>3. v \in Value /\ ~Begun(v) /\ \A w \in Value : Begun(w)' <=> Begun(w) \/ w = v
    BY <1>1, <1>2, BegunNext
<1>4. Alone(v) /\ ~Queued(v) /\ ~Offered(v) /\ \A r \in Receivers : ~Has(r, v)
    BY <1>3 DEF VInv, Alone
<1>5. OnceBy(m_send_waiters', 2) /\ \A w : Offered(w)' <=> Offered(w) \/ w = v
    <2>1. <<s, v>> \in Senders \X Value /\ <<s, v>>[2] = v BY <1>3
    <2> QED BY <1>1, <1>2, <1>4, <2>1, AppendBy DEF VInv, Offered
<1>6. /\ \A w : Queued(w)' <=> Queued(w)
      /\ \A w : \A r \in Receivers : Has(r, w)' <=> Has(r, w)
    BY <1>1 DEF Queued, Has
<1>7. ASSUME NEW w \in Value PROVE Alone(w)'
    <2>1. CASE w = v
        <3>1. \A r \in Receivers : ~(val[r] = v /\ In(received[r], v)) /\ OnceAt(received[r], v)
            BY <1>4 DEF Alone
        <3> QED BY <1>1, <1>3, <1>4, <1>5, <1>6, <2>1, <3>1 DEF Alone
    <2>2. CASE w # v
        <3>1. Alone(w) BY DEF VInv
        <3>2. \A r \in Receivers : OnceAt(received[r], w) BY <3>1 DEF Alone
        <3> QED BY <1>1, <1>3, <1>5, <1>6, <2>2, <3>1, <3>2, Undisturbed
    <2> QED BY <2>1, <2>2
<1>8. Once(m_queue') BY <1>1 DEF VInv
<1> QED BY <1>5, <1>7, <1>8 DEF VInv

\* The front of the queue goes to the receiver, and the value of a waiting sender
\* from the list into the queue.
LEMMA ValueTake ==
    ASSUME TInv, Fetched, VInv, NEW t \in Threads, NEW r \in Receivers, Take(t, r),
           pc[r] # "return"
    PROVE  VInv'
<1>1. /\ TypeOK /\ val' = [val EXCEPT ![r] = FrontValue] /\ UNCHANGED <<sent, received>>
    BY DEF TInv, Take
<1>2. PICK f : f = FrontValue OBVIOUS
<1>3. /\ val[r] = NoValue /\ val'[r] = f
      /\ \A q \in Receivers : q # r => val'[q] = val[q]
    BY <1>1, <1>2 DEF Fetched, TypeOK
<1>4. /\ Rest \in Seq(Value) /\ Once(Rest)
      /\ f # Garbage => f \in Value /\ Queued(f)
      /\ \A v \in Value : In(Rest, v) <=> Queued(v) /\ v # f
    BY <1>1, <1>2, RestFacts DEF VInv, Queued
<1>5. \A v \in Value : Begun(v)' <=> Begun(v) BY <1>1 DEF Begun
<1>6. /\ \A v \in Value : v # NoValue /\ v # Garbage
    BY NotValues
<1>7. \A v \in Value : \A q \in Receivers : Has(q, v)' <=> Has(q, v) \/ (q = r /\ v = f)
    BY <1>1, <1>3, <1>6 DEF Has
<1>8. \A v \in Value : \A q \in Receivers : OnceAt(received'[q], v)
    BY <1>1 DEF VInv, Alone
<1>9. ASSUME NEW v \in Value, v = f, ~Queued(v)', Offered(v)' <=> Offered(v) PROVE Alone(v)'
    <2>1. Alone(v) /\ Queued(v) BY <1>4, <1>6, <1>9 DEF VInv
    <2>2. ~Offered(v) /\ Begun(v) /\ \A q \in Receivers : ~Has(q, v)
        BY <2>1 DEF Alone
    <2>3. \A q \in Receivers : ~In(received'[q], v) BY <1>1, <2>2 DEF Has
    <2> QED BY <1>5, <1>7, <1>8, <1>9, <2>2, <2>3 DEF Alone
<1>10. ASSUME NEW v \in Value, v # f, Queued(v)' <=> Queued(v), Offered(v)' <=> Offered(v)
       PROVE  Alone(v)'
    <2>1. Alone(v) BY DEF VInv
    <2>2. \A q \in Receivers : val'[q] = v <=> val[q] = v BY <1>3, <1>6, <1>10
    <2> QED BY <1>1, <1>5, <1>8, <1>10, <2>1, <2>2, Undisturbed
<1>11. CASE m_send_waiters = <<>> /\ m_queue' = Rest /\ UNCHANGED m_send_waiters
    <2>1. \A v : Offered(v)' <=> Offered(v) BY <1>11 DEF Offered
    <2>2. \A v \in Value : Queued(v)' <=> Queued(v) /\ v # f BY <1>4, <1>11 DEF Queued
    <2>3. \A v \in Value : Alone(v)' BY <1>9, <1>10, <2>1, <2>2
    <2> QED BY <1>4, <1>11, <2>3 DEF VInv
<1>12. CASE /\ m_send_waiters # <<>> /\ m_queue' = Append(Rest, Head(m_send_waiters)[2])
            /\ m_send_waiters' = Tail(m_send_waiters)
    <2>1. PICK w : w = Head(m_send_waiters)[2] OBVIOUS
    <2>2. /\ Head(m_send_waiters) \in Senders \X Value /\ OnceBy(m_send_waiters', 2)
          /\ Offered(w) /\ \A v : Offered(v)' <=> Offered(v) /\ v # w
        BY <1>1, <1>12, <2>1, TailBy DEF TypeOK, VInv, Offered
    <2>3. w \in Value BY <2>1, <2>2
    <2>4. Alone(w) /\ ~Queued(w) /\ Begun(w) /\ \A q \in Receivers : ~Has(q, w)
        BY <2>2, <2>3 DEF VInv, Alone
    <2>5. w # f BY <1>4, <1>6, <2>3, <2>4
    <2>6. /\ Once(m_queue')
          /\ \A v \in Value : Queued(v)' <=> (Queued(v) /\ v # f) \/ v = w
        BY <1>4, <1>12, <2>1, <2>3, <2>4, AppendIn DEF Queued
    <2>7. Alone(w)'
        <3>1. Queued(w)' /\ ~Offered(w)' /\ Begun(w)' BY <1>5, <2>2, <2>3, <2>4, <2>6
        <3>2. \A q \in Receivers : ~Has(q, w)' BY <1>7, <2>3, <2>4, <2>5
        <3>3. \A q \in Receivers : ~In(received'[q], w) BY <1>1, <2>4 DEF Has
        <3> QED BY <1>8, <2>3, <3>1, <3>2, <3>3 DEF Alone
    <2>8. ASSUME NEW v \in Value, v # w PROVE Alone(v)'
        <3>1. (Offered(v)' <=> Offered(v)) /\ (Queued(v)' <=> Queued(v) /\ v # f)
            BY <2>2, <2>6, <2>8
        <3> QED BY <1>9, <1>10, <3>1
    <2> QED BY <2>2, <2>6, <2>7, <2>8 DEF VInv
<1> QED BY <1>11, <1>12 DEF Take

\* receive() returns its value.
LEMMA ValueReturn ==
    ASSUME TInv, Fetched, VInv, NEW t \in Threads, NEW r \in Receivers, ReceiveReturn(t, r)
    PROVE  VInv'
<1>1. /\ TypeOK /\ pc[r] = "return"
      /\ received' = [received EXCEPT ![r] = Append(@, val[r])]
      /\ val' = [val EXCEPT ![r] = NoValue]
      /\ UNCHANGED <<m_queue, m_send_waiters, sent>>
    BY DEF TInv, ReceiveReturn, chan
<1>2. PICK f : f = val[r] OBVIOUS
<1>3. /\ f \in Value \cup {Garbage} /\ val'[r] = NoValue
      /\ \A q \in Receivers : q # r => val'[q] = val[q]
    BY <1>1, <1>2 DEF Fetched, TypeOK
<1>4. /\ received[r] \in Seq(Value \cup {Garbage}) /\ received'[r] = Append(received[r], f)
      /\ \A q \in Receivers : q # r => received'[q] = received[q]
    BY <1>1, <1>2 DEF TypeOK
<1>5. \A e : In(received'[r], e) <=> In(received[r], e) \/ e = f BY <1>3, <1>4, AppendIn
<1>6. \A v : (Queued(v)' <=> Queued(v)) /\ (Offered(v)' <=> Offered(v)) /\ (Begun(v)' <=> Begun(v))
    BY <1>1 DEF Queued, Offered, Begun
<1>7. \A v \in Value : v # NoValue BY NotValues
<1>8. ASSUME NEW v \in Value PROVE Alone(v)'
    <2>1. Alone(v) BY DEF VInv
    <2>2. \A q \in Receivers : OnceAt(received[q], v) /\ ~(val[q] = v /\ In(received[q], v))
        BY <2>1 DEF Alone
    <2>3. \A q \in Receivers : OnceAt(received'[q], v)
        <3>1. OnceAt(received'[r], v) BY <1>2, <1>3, <1>4, <2>2, AppendAt
        <3> QED BY <1>4, <2>2, <3>1
    <2>4. \A q \in Receivers : Has(q, v)' <=> Has(q, v)
        BY <1>2, <1>3, <1>4, <1>5, <1>7 DEF Has
    <2>5. \A q \in Receivers : ~(val'[q] = v /\ In(received'[q], v))
        BY <1>3, <1>4, <1>7, <2>2
    <2> QED BY <1>6, <2>1, <2>3, <2>4, <2>5 DEF Alone
<1> QED BY <1>1, <1>8 DEF VInv

-----------------------------------------------------------------------------
(* One thread                                                              *)

\* Whoever is between two critical sections of one call is the coroutine that runs.
OnTop ==
    /\ \A t \in Threads : t # OneThread => stack[t] = <<>>
    /\ \A p \in Coroutine : pc[p] \in {"take", "suspend"} => Running(OneThread, p)

\* So what it saw in the first is true in the second, and what a waiter waits for
\* is not there, but for the value that a receiver was just resumed to take.
Room ==
    /\ \A s \in Senders : pc[s] = "suspend" => Len(m_queue) = Capacity
    /\ \A r \in Receivers : pc[r] = "suspend" => m_queue = <<>>
    /\ \A r \in Receivers : pc[r] = "take" =>
        /\ m_queue # <<>> /\ m_send_waiters = <<>>
        /\ m_recv_waiters # <<>> => Len(m_queue) = 1
    /\ m_recv_waiters # <<>> => m_queue = <<>> \/ \E r \in Receivers : pc[r] = "take"
    /\ m_send_waiters # <<>> => Len(m_queue) = Capacity
    /\ \A r \in Receivers : val[r] # Garbage /\ ~In(received[r], Garbage)

SInv == single => OnTop /\ Room

Between(p) == pc[p] \in {"take", "suspend"}

LEMMA OthersOut ==
    ASSUME OnTop, NEW t \in Threads, NEW p \in Coroutine, Running(t, p)
    PROVE  t = OneThread /\ \A o \in Coroutine : o # p => ~Between(o)
BY DEF OnTop, Running, Between

\* The running coroutine goes on, resumes one that goes on, or leaves.
LEMMA TopStep ==
    ASSUME TInv, OnTop, NEW t \in Threads, NEW p \in Coroutine, Running(t, p),
           \/ \E l \in Label : Continue(p, l)
           \/ \E q \in Coroutine, l \in {"ready", "return"}, m \in Label :
                p # q /\ Resume(t, p, l, q, m)
           \/ \E l \in {"waiting", "done"} : Leave(t, p, l)
    PROVE  OnTop'
<1>1. TypeOK /\ t = OneThread /\ \A o \in Coroutine : o # p => pc[o] \notin {"take", "suspend"}
    BY OthersOut DEF TInv, Between
<1>2. ASSUME NEW l \in Label, Continue(p, l) PROVE OnTop'
    <2>1. UNCHANGED stack /\ \A o \in Coroutine : o # p => pc'[o] = pc[o]
        BY <1>1, <1>2, ContinueFacts
    <2> QED BY <1>1, <2>1 DEF OnTop, Running
<1>3. ASSUME NEW q \in Coroutine, NEW l \in {"ready", "return"}, NEW m \in Label, p # q,
             Resume(t, p, l, q, m)
      PROVE  OnTop'
    <2>1. /\ pc'[p] = l /\ \A o \in Coroutine : o # p /\ o # q => pc'[o] = pc[o]
          /\ \A u \in Threads : u # t => stack'[u] = stack[u]
          /\ stack'[t] # <<>> /\ Last(stack'[t]) = q
        BY <1>1, <1>3, ResumeFacts DEF Label
    <2> QED BY <1>1, <1>3, <2>1 DEF OnTop, Running
<1>4. ASSUME NEW l \in {"waiting", "done"}, Leave(t, p, l) PROVE OnTop'
    <2>1. /\ pc'[p] = l /\ \A o \in Coroutine : o # p => pc'[o] = pc[o]
          /\ \A u \in Threads : u # t => stack'[u] = stack[u]
        BY <1>1, <1>4, LeaveFacts DEF Label
    <2> QED BY <1>1, <1>4, <2>1 DEF OnTop, Running
<1> QED BY <1>2, <1>3, <1>4

LEMMA QueueLength ==
    ASSUME TypeOK
    PROVE  /\ m_queue \in Seq(Value) /\ Len(m_queue) \in Nat /\ Capacity \in Nat
           /\ Len(m_queue) <= Capacity
           /\ m_queue = <<>> <=> Len(m_queue) = 0
BY CapacityAssumption, EmptySeq DEF TypeOK

LEMMA SingleSendReady ==
    ASSUME TInv, OnTop, Room, NEW t \in Threads, NEW s \in Senders, SendReady(t, s)
    PROVE  OnTop' /\ Room'
<1>1. /\ TypeOK /\ AInv /\ s \in Coroutine /\ Running(t, s) /\ pc[s] = "ready"
      /\ sent[s] < MaxSends /\ Len(m_queue) < Capacity
      /\ m_queue' = Append(m_queue, NextValue(s)) /\ UNCHANGED <<m_send_waiters, val, received>>
    BY DEF TInv, SendReady, Coroutine
<1>2. \A o \in Coroutine : ~Between(o) BY <1>1, OthersOut DEF Between
<1>3. /\ m_send_waiters' = <<>> /\ (m_recv_waiters # <<>> => m_queue = <<>>)
      /\ Len(m_queue') = Len(m_queue) + 1 /\ m_queue' # <<>>
    <2>1. Len(m_queue') = Len(m_queue) + 1 /\ m_queue' # <<>>
        BY <1>1, QueueLength, NextValueType, AppendProperties
    <2>2. m_recv_waiters # <<>> => m_queue = <<>> BY <1>2 DEF Room, Between, Coroutine
    <2>3. m_send_waiters = <<>> BY <1>1, QueueLength DEF Room
    <2> QED BY <1>1, <2>1, <2>2, <2>3
<1>4. CASE m_recv_waiters = <<>> /\ Continue(s, "ready") /\ UNCHANGED m_recv_waiters
    <2>1. OnTop' BY <1>1, <1>4, TopStep DEF Label
    <2>2. \A o \in Coroutine : ~Between(o)' BY <1>1, <1>2, <1>4, ContinueFacts DEF Between, Label
    <2>3. Room' BY <1>1, <1>3, <1>4, <2>2 DEF Room, Between, Coroutine
    <2> QED BY <2>1, <2>3
<1>5. CASE /\ m_recv_waiters # <<>> /\ m_recv_waiters' = Tail(m_recv_waiters)
           /\ Resume(t, s, "ready", Head(m_recv_waiters), "take")
    <2>1. PICK q : q = Head(m_recv_waiters) OBVIOUS
    <2>2. q \in Receivers BY <1>1, <1>5, <2>1, TailIn DEF TypeOK
    <2>3. q \in Coroutine /\ q # s BY <2>2, CoroutineAssumption DEF Coroutine
    <2>4. /\ pc'[s] = "ready" /\ pc'[q] = "take"
          /\ \A o \in Coroutine : o # s /\ o # q => pc'[o] = pc[o]
        BY <1>1, <1>5, <2>1, <2>3, ResumeFacts DEF Label
    <2>5. OnTop' BY <1>1, <1>5, <2>1, <2>3, TopStep DEF Label
    <2>6. \A o \in Coroutine : o # q => ~Between(o)' BY <1>2, <2>4 DEF Between
    <2>7. Len(m_queue') = 1 BY <1>1, <1>3, <1>5, QueueLength
    <2>8. /\ \A o \in Senders : pc'[o] # "suspend"
          /\ \A o \in Receivers : pc'[o] # "suspend"
        BY <2>2, <2>4, <2>6, CoroutineAssumption DEF Between, Coroutine
    <2>9. Room' BY <1>1, <1>3, <2>2, <2>4, <2>7, <2>8 DEF Room
    <2> QED BY <2>5, <2>9
<1> QED BY <1>4, <1>5 DEF SendReady

LEMMA SingleTake ==
    ASSUME TInv, OnTop, Room, NEW t \in Threads, NEW r \in Receivers, Running(t, r), Take(t, r),
           (pc[r] = "ready" /\ m_queue # <<>>) \/ pc[r] = "take"
    PROVE  OnTop' /\ Room'
<1>1. /\ TypeOK /\ AInv /\ r \in Coroutine /\ val' = [val EXCEPT ![r] = FrontValue]
      /\ UNCHANGED <<m_recv_waiters, received>>
    BY DEF TInv, Take, Coroutine
<1>2. \A o \in Coroutine : o # r => ~Between(o) BY <1>1, OthersOut DEF Between
<1>3. m_queue # <<>> BY DEF Room
<1>4. /\ Rest \in Seq(Value) /\ Len(Rest) \in Nat /\ Len(Rest) + 1 = Len(m_queue)
      /\ FrontValue \in Value
    <2>1. Len(Rest) \in Nat /\ Len(Rest) = Len(m_queue) - 1 /\ FrontValue \in Value /\ Rest \in Seq(Value)
        BY <1>1, <1>3, RestFacts
    <2> QED BY <1>1, <2>1, QueueLength
<1>5. \A q \in Receivers : val'[q] # Garbage
    BY <1>1, <1>4, NotValues DEF Room, TypeOK
<1>6. /\ pc[r] = "ready" => m_recv_waiters = <<>>
      /\ pc[r] = "take" => m_send_waiters = <<>> /\ (m_recv_waiters # <<>> => Len(m_queue) = 1)
    BY <1>2, <1>3 DEF Room, Between, Coroutine
<1>7. CASE /\ m_send_waiters = <<>> /\ m_queue' = Rest /\ Continue(r, "return")
           /\ UNCHANGED m_send_waiters
    <2>1. OnTop' BY <1>1, <1>7, TopStep DEF Label
    <2>2. \A o \in Coroutine : ~Between(o)' BY <1>1, <1>2, <1>7, ContinueFacts DEF Between, Label
    <2>3. m_recv_waiters # <<>> => Rest = <<>> BY <1>4, <1>6, EmptySeq
    <2>4. Room' BY <1>1, <1>5, <1>7, <2>2, <2>3 DEF Room, Between, Coroutine
    <2> QED BY <2>1, <2>4
<1>8. CASE /\ m_send_waiters # <<>> /\ m_queue' = Append(Rest, Head(m_send_waiters)[2])
           /\ m_send_waiters' = Tail(m_send_waiters)
           /\ Resume(t, r, "return", Head(m_send_waiters)[1], "ready")
    <2>1. PICK q : q = Head(m_send_waiters)[1] OBVIOUS
    <2>2. Head(m_send_waiters) \in Senders \X Value BY <1>1, <1>8, TailBy DEF TypeOK, AInv
    <2>3. q \in Coroutine /\ q # r BY <2>1, <2>2, CoroutineAssumption DEF Coroutine
    <2>4. /\ pc'[r] = "return" /\ pc'[q] = "ready"
          /\ \A o \in Coroutine : o # r /\ o # q => pc'[o] = pc[o]
        BY <1>1, <1>8, <2>1, <2>3, ResumeFacts DEF Label
    <2>5. OnTop' BY <1>1, <1>8, <2>1, <2>3, TopStep DEF Label
    <2>6. \A o \in Coroutine : ~Between(o)' BY <1>2, <2>4 DEF Between
    <2>7. Len(m_queue') = Capacity
        <3>1. Len(m_queue') = Len(Rest) + 1 BY <1>4, <1>8, <2>2, AppendProperties
        <3> QED BY <1>4, <1>8, <3>1 DEF Room
    <2>8. m_recv_waiters' = <<>> BY <1>1, <1>6, <1>8
    <2>9. Room' BY <1>1, <1>5, <2>6, <2>7, <2>8 DEF Room, Between, Coroutine
    <2> QED BY <2>5, <2>9
<1> QED BY <1>7, <1>8 DEF Take

LEMMA SingleNext ==
    ASSUME TInv, Fetched, SInv, NEW t \in Threads, Run(t)
    PROVE  SInv'
<1> SUFFICES ASSUME single' PROVE OnTop' /\ Room' BY DEF SInv
<1>1. single /\ OnTop /\ Room /\ TypeOK /\ AInv
    <2>1. UNCHANGED single
        BY DEF Run, Start, Send, SendReady, SendFull, SendSuspend, SendEnd, Receive, ReceiveReady,
               ReceiveEmpty, ReceiveSuspend, ReceiveResume, ReceiveReturn, Take
    <2> QED BY <2>1 DEF SInv, TInv
<1>2. ASSUME NEW p \in Coroutine, Start(t, p) PROVE OnTop' /\ Room'
    <2>1. /\ t = OneThread /\ stack[t] = <<>> /\ pc'[p] = "ready"
          /\ \A o \in Coroutine : o # p => pc'[o] = pc[o]
          /\ \A u \in Threads : u # t => stack'[u] = stack[u]
          /\ UNCHANGED <<m_queue, m_send_waiters, m_recv_waiters, val, received>>
        BY <1>1, <1>2 DEF Start, TypeOK, chan
    <2>2. \A o \in Coroutine : ~Between(o) BY <1>1, <2>1 DEF OnTop, Running, Between
    <2>3. \A o \in Coroutine : ~Between(o)' BY <2>1, <2>2 DEF Between
    <2>4. OnTop' BY <1>1, <2>1, <2>3 DEF OnTop, Between
    <2>5. Room' BY <1>1, <2>1, <2>2, <2>3 DEF Room, Between, Coroutine
    <2> QED BY <2>4, <2>5
<1>3. ASSUME NEW s \in Senders, SendFull(t, s) PROVE OnTop' /\ Room'
    <2>1. /\ s \in Coroutine /\ Running(t, s) /\ Len(m_queue) >= Capacity /\ pc[s] = "ready"
          /\ Continue(s, "suspend")
          /\ UNCHANGED <<m_queue, m_send_waiters, m_recv_waiters, val, received>>
        BY <1>3 DEF SendFull, Coroutine, chan
    <2>2. \A o \in Coroutine : ~Between(o) BY <1>1, <2>1, OthersOut DEF Between
    <2>3. pc'[s] = "suspend" /\ \A o \in Coroutine : o # s => pc'[o] = pc[o]
        BY <1>1, <2>1, ContinueFacts DEF Label
    <2>4. OnTop' BY <1>1, <2>1, TopStep DEF Label
    <2>5. Len(m_queue) = Capacity BY <1>1, <2>1, QueueLength
    <2>6. Room'
        BY <1>1, <2>1, <2>2, <2>3, <2>5, CoroutineAssumption DEF Room, Between, Coroutine
    <2> QED BY <2>4, <2>6
<1>4. ASSUME NEW s \in Senders, SendSuspend(t, s) PROVE OnTop' /\ Room'
    <2>1. /\ s \in Coroutine /\ Running(t, s) /\ pc[s] = "suspend" /\ Leave(t, s, "waiting")
          /\ UNCHANGED <<m_queue, m_recv_waiters, val, received>>
        BY <1>4 DEF SendSuspend, Coroutine
    <2>2. \A o \in Coroutine : o # s => ~Between(o) BY <1>1, <2>1, OthersOut
    <2>3. pc'[s] = "waiting" /\ \A o \in Coroutine : o # s => pc'[o] = pc[o]
        BY <1>1, <2>1, LeaveFacts DEF Label
    <2>4. OnTop' BY <1>1, <2>1, TopStep DEF Label
    <2>5. Len(m_queue) = Capacity BY <1>1, <2>1 DEF Room
    <2>6. \A o \in Coroutine : ~Between(o)' BY <2>2, <2>3 DEF Between
    <2>7. m_recv_waiters # <<>> => m_queue = <<>>
        BY <1>1, <2>1, <2>2 DEF Room, Between, Coroutine
    <2>8. Room' BY <1>1, <2>1, <2>5, <2>6, <2>7 DEF Room, Between, Coroutine
    <2> QED BY <2>4, <2>8
<1>5. ASSUME NEW s \in Senders, SendEnd(t, s) PROVE OnTop' /\ Room'
    <2>1. /\ s \in Coroutine /\ Running(t, s) /\ pc[s] = "ready" /\ Leave(t, s, "done")
          /\ UNCHANGED <<m_queue, m_send_waiters, m_recv_waiters, val, received>>
        BY <1>5 DEF SendEnd, Coroutine, chan
    <2>2. \A o \in Coroutine : ~Between(o) BY <1>1, <2>1, OthersOut DEF Between
    <2>3. pc'[s] = "done" /\ \A o \in Coroutine : o # s => pc'[o] = pc[o]
        BY <1>1, <2>1, LeaveFacts DEF Label
    <2>4. OnTop' BY <1>1, <2>1, TopStep DEF Label
    <2>5. \A o \in Coroutine : ~Between(o)' BY <2>2, <2>3 DEF Between
    <2>6. Room' BY <1>1, <2>1, <2>2, <2>5 DEF Room, Between, Coroutine
    <2> QED BY <2>4, <2>6
<1>6. ASSUME NEW r \in Receivers, ReceiveEmpty(t, r) PROVE OnTop' /\ Room'
    <2>1. /\ r \in Coroutine /\ Running(t, r) /\ m_queue = <<>> /\ pc[r] = "ready"
          /\ Continue(r, "suspend")
          /\ UNCHANGED <<m_queue, m_send_waiters, m_recv_waiters, val, received>>
        BY <1>6 DEF ReceiveEmpty, Coroutine, chan
    <2>2. \A o \in Coroutine : ~Between(o) BY <1>1, <2>1, OthersOut DEF Between
    <2>3. pc'[r] = "suspend" /\ \A o \in Coroutine : o # r => pc'[o] = pc[o]
        BY <1>1, <2>1, ContinueFacts DEF Label
    <2>4. OnTop' BY <1>1, <2>1, TopStep DEF Label
    <2>5. Room' BY <1>1, <2>1, <2>2, <2>3, CoroutineAssumption DEF Room, Between, Coroutine
    <2> QED BY <2>4, <2>5
<1>7. ASSUME NEW r \in Receivers, ReceiveSuspend(t, r) PROVE OnTop' /\ Room'
    <2>1. /\ r \in Coroutine /\ Running(t, r) /\ pc[r] = "suspend" /\ Leave(t, r, "waiting")
          /\ UNCHANGED <<m_queue, m_send_waiters, val, received>>
        BY <1>7 DEF ReceiveSuspend, Coroutine
    <2>2. \A o \in Coroutine : o # r => ~Between(o) BY <1>1, <2>1, OthersOut
    <2>3. pc'[r] = "waiting" /\ \A o \in Coroutine : o # r => pc'[o] = pc[o]
        BY <1>1, <2>1, LeaveFacts DEF Label
    <2>4. OnTop' BY <1>1, <2>1, TopStep DEF Label
    <2>5. m_queue = <<>> BY <1>1, <2>1 DEF Room
    <2>6. \A o \in Coroutine : ~Between(o)' BY <2>2, <2>3 DEF Between
    <2>7. Room' BY <1>1, <2>1, <2>5, <2>6 DEF Room, Between, Coroutine
    <2> QED BY <2>4, <2>7
<1>8. ASSUME NEW r \in Receivers, ReceiveReturn(t, r) PROVE OnTop' /\ Room'
    <2>1. /\ r \in Coroutine /\ Running(t, r) /\ pc[r] = "return" /\ Continue(r, "ready")
          /\ received' = [received EXCEPT ![r] = Append(@, val[r])]
          /\ val' = [val EXCEPT ![r] = NoValue]
          /\ UNCHANGED <<m_queue, m_send_waiters, m_recv_waiters>>
        BY <1>8 DEF ReceiveReturn, Coroutine, chan
    <2>2. \A o \in Coroutine : ~Between(o) BY <1>1, <2>1, OthersOut DEF Between
    <2>3. pc'[r] = "ready" /\ \A o \in Coroutine : o # r => pc'[o] = pc[o]
        BY <1>1, <2>1, ContinueFacts DEF Label
    <2>4. OnTop' BY <1>1, <2>1, TopStep DEF Label
    <2>5. \A o \in Coroutine : ~Between(o)' BY <2>2, <2>3 DEF Between
    <2>6. ASSUME NEW q \in Receivers PROVE val'[q] # Garbage /\ ~In(received'[q], Garbage)
        <3>1. val[q] # Garbage /\ ~In(received[q], Garbage) /\ val[r] # Garbage BY <1>1 DEF Room
        <3>2. CASE q = r
            <4>1. val[r] \in Value \cup {Garbage} /\ received[r] \in Seq(Value \cup {Garbage})
                BY <1>1, <2>1 DEF Fetched, TypeOK
            <4>2. received'[q] = Append(received[r], val[r]) /\ val'[q] = NoValue
                BY <1>1, <2>1, <3>2 DEF TypeOK
            <4> QED BY <3>1, <3>2, <4>1, <4>2, AppendIn, NotValues
        <3>3. CASE q # r
            <4>1. received'[q] = received[q] /\ val'[q] = val[q] BY <1>1, <2>1, <3>3 DEF TypeOK
            <4> QED BY <3>1, <4>1
        <3> QED BY <3>2, <3>3
    <2>7. Room' BY <1>1, <2>1, <2>2, <2>5, <2>6 DEF Room, Between, Coroutine
    <2> QED BY <2>4, <2>7
<1>9. ASSUME NEW s \in Senders, Send(t, s) PROVE OnTop' /\ Room'
    BY <1>1, <1>3, <1>4, <1>5, <1>9, SingleSendReady DEF Send
<1>10. ASSUME NEW r \in Receivers, Receive(t, r) PROVE OnTop' /\ Room'
    <2>1. CASE ReceiveReady(t, r) \/ ReceiveResume(t, r)
        BY <1>1, <2>1, SingleTake DEF ReceiveReady, ReceiveResume
    <2> QED BY <1>6, <1>7, <1>8, <1>10, <2>1 DEF Receive
<1> QED BY <1>2, <1>9, <1>10 DEF Run

LEMMA ValueNext ==
    ASSUME TInv, Fetched, VInv, NEW t \in Threads, Run(t)
    PROVE  VInv'
<1>1. ASSUME UNCHANGED <<chan, sent, val, received>> PROVE VInv'
    BY <1>1 DEF VInv, Alone, Queued, Offered, Has, Begun, chan
<1>2. ASSUME NEW p \in Coroutine, Start(t, p) PROVE VInv' BY <1>1, <1>2 DEF Start
<1>3. ASSUME NEW s \in Senders, Send(t, s) PROVE VInv'
    BY <1>1, <1>3, ValueSendReady, ValueSendSuspend DEF Send, SendFull, SendEnd
<1>4. ASSUME NEW r \in Receivers, Receive(t, r) PROVE VInv'
    <2>1. CASE ReceiveReady(t, r) \/ ReceiveResume(t, r)
        BY <2>1, ValueTake DEF ReceiveReady, ReceiveResume
    <2>2. CASE ReceiveEmpty(t, r) BY <1>1, <2>2 DEF ReceiveEmpty
    <2>3. CASE ReceiveSuspend(t, r)
        BY <2>3 DEF ReceiveSuspend, VInv, Alone, Queued, Offered, Has, Begun
    <2> QED BY <1>4, <2>1, <2>2, <2>3, ValueReturn DEF Receive
<1> QED BY <1>2, <1>3, <1>4 DEF Run

-----------------------------------------------------------------------------
(* What the invariants say                                                 *)

LEMMA CountPlaces ==
    ASSUME VInv, NEW v \in Value
    PROVE  Cardinality(Places(v)) = IF v[2] <= sent[v[1]] THEN 1 ELSE 0
<1>1. Alone(v) /\ Once(m_queue) /\ OnceBy(m_send_waiters, 2) BY DEF VInv
<1> DEFINE Q == {<<"queue", i>> : i \in Occurrences(m_queue, v)}
           W == {<<"waiter", i>> : i \in {j \in DOMAIN m_send_waiters : m_send_waiters[j][2] = v}}
           H == {<<"val", r>> : r \in {q \in Receivers : val[q] = v}}
           G == UNION {{<<"received", r, i>> : i \in Occurrences(received[r], v)} : r \in Receivers}
<1>2. Places(v) = Q \cup W \cup H \cup G BY DEF Places
<1>3. ~Queued(v) => Q = {} BY DEF Queued, In, Occurrences
<1>4. ~Offered(v) => W = {} BY DEF Offered, InBy
<1>5. (\A r \in Receivers : val[r] # v) => H = {} OBVIOUS
<1>6. (\A r \in Receivers : ~In(received[r], v)) => G = {} BY DEF In, Occurrences
<1>7. ASSUME Queued(v) PROVE \E x : Q = {x}
    <2>1. PICK i \in DOMAIN m_queue : m_queue[i] = v BY <1>7 DEF Queued, In
    <2>2. Occurrences(m_queue, v) = {i} BY <1>1, <2>1 DEF Once, Occurrences
    <2>3. Q = {<<"queue", i>>} BY <2>2
    <2> QED BY <2>3
<1>8. ASSUME Offered(v) PROVE \E x : W = {x}
    <2>1. PICK i \in DOMAIN m_send_waiters : m_send_waiters[i][2] = v BY <1>8 DEF Offered, InBy
    <2>2. {j \in DOMAIN m_send_waiters : m_send_waiters[j][2] = v} = {i}
        BY <1>1, <2>1 DEF OnceBy
    <2>3. W = {<<"waiter", i>>} BY <2>2
    <2> QED BY <2>3
<1>9. ASSUME NEW r \in Receivers, val[r] = v PROVE \E x : H = {x}
    <2>1. \A q \in Receivers : val[q] = v => q = r BY <1>1, <1>9 DEF Alone, Has
    <2>2. {q \in Receivers : val[q] = v} = {r} BY <1>9, <2>1
    <2>3. H = {<<"val", r>>} BY <2>2
    <2> QED BY <2>3
<1>10. ASSUME NEW r \in Receivers, In(received[r], v) PROVE \E x : G = {x}
    <2>1. PICK i \in DOMAIN received[r] : received[r][i] = v BY <1>10 DEF In
    <2>2. Occurrences(received[r], v) = {i} BY <1>1, <2>1 DEF Alone, OnceAt, Occurrences
    <2>3. \A q \in Receivers : q # r => ~In(received[q], v) BY <1>1, <1>10 DEF Alone, Has
    <2>4. \A q \in Receivers : q # r => Occurrences(received[q], v) = {}
        BY <2>3 DEF In, Occurrences
    <2>5. G = {<<"received", r, i>>} BY <2>2, <2>4
    <2> QED BY <2>5
<1> HIDE DEF Q, W, H, G
<1>11. CASE ~Begun(v)
    <2>1. ~Queued(v) /\ ~Offered(v) /\ \A r \in Receivers : val[r] # v /\ ~In(received[r], v)
        BY <1>1, <1>11 DEF Alone, Has
    <2>2. Places(v) = {} BY <1>2, <1>3, <1>4, <1>5, <1>6, <2>1
    <2> QED BY <1>11, <2>2, FS_EmptySet DEF Begun
<1>12. CASE Begun(v)
    <2>1. \E x : Q \cup W \cup H \cup G = {x}
        <3>1. CASE Queued(v)
            <4>1. W = {} /\ H = {} /\ G = {} BY <1>1, <1>4, <1>5, <1>6, <3>1 DEF Alone, Has
            <4> QED BY <1>7, <3>1, <4>1
        <3>2. CASE Offered(v)
            <4>1. Q = {} /\ H = {} /\ G = {} BY <1>1, <1>3, <1>5, <1>6, <3>2 DEF Alone, Has
            <4> QED BY <1>8, <3>2, <4>1
        <3>3. ASSUME NEW r \in Receivers, val[r] = v PROVE \E x : Q \cup W \cup H \cup G = {x}
            <4>1. ~Queued(v) /\ ~Offered(v) /\ \A q \in Receivers : ~In(received[q], v)
                BY <1>1, <3>3 DEF Alone, Has
            <4>2. Q = {} /\ W = {} /\ G = {} BY <1>3, <1>4, <1>6, <4>1
            <4> QED BY <1>9, <3>3, <4>2
        <3>4. ASSUME NEW r \in Receivers, In(received[r], v)
              PROVE  \E x : Q \cup W \cup H \cup G = {x}
            <4>1. ~Queued(v) /\ ~Offered(v) /\ \A q \in Receivers : val[q] # v
                BY <1>1, <3>4 DEF Alone, Has
            <4>2. Q = {} /\ W = {} /\ H = {} BY <1>3, <1>4, <1>5, <4>1
            <4> QED BY <1>10, <3>4, <4>2
        <3>5. Queued(v) \/ Offered(v) \/ \E r \in Receivers : val[r] = v \/ In(received[r], v)
            BY <1>1, <1>12 DEF Alone, Has
        <3> QED BY <3>1, <3>2, <3>3, <3>4, <3>5
    <2> QED BY <1>2, <1>12, <2>1, FS_Singleton DEF Begun
<1> QED BY <1>11, <1>12

LEMMA ChannelInv == Spec => [](TInv /\ Fetched /\ VInv /\ SInv)
<1>1. Init => TInv /\ Fetched
    <2> SUFFICES ASSUME Init PROVE TInv /\ Fetched OBVIOUS
    <2>1. TypeOK
        <3>1. /\ <<>> \in Seq(Value) /\ Len(<<>>) <= Capacity /\ <<>> \in Seq(Senders \X Value)
              /\ <<>> \in Seq(Receivers) /\ <<>> \in Seq(Coroutine)
              /\ <<>> \in Seq(Value \cup {Garbage})
            BY CapacityAssumption
        <3>2. 0 \in 0 .. MaxSends BY CapacityAssumption
        <3> QED BY <3>1, <3>2 DEF Init, TypeOK
    <2>2. Midway /\ Fetched BY DEF Init, Midway, Fetched, Coroutine
    <2> QED BY <2>1, <2>2, ActiveInit DEF TInv
<1>2. Init => VInv /\ SInv
    <2> SUFFICES ASSUME Init PROVE VInv /\ SInv OBVIOUS
    <2>1. /\ \A e : ~In(<<>>, e) /\ ~InBy(<<>>, 2, e) /\ OnceAt(<<>>, e)
          /\ Once(<<>>) /\ OnceBy(<<>>, 2)
        BY EmptyIn DEF InBy, OnceBy, OnceAt
    <2>2. \A v \in Value : ~Begun(v) /\ \A r \in Receivers : ~Has(r, v)
        BY <2>1, NotValues DEF Init, Begun, Has, Value
    <2>3. VInv BY <2>1, <2>2 DEF Init, VInv, Alone, Queued, Offered
    <2>4. OnTop BY DEF Init, OnTop
    <2>5. Room BY <2>1, NotValues DEF Init, Room, Coroutine
    <2> QED BY <2>3, <2>4, <2>5 DEF SInv
<1>3. TInv /\ Fetched /\ VInv /\ SInv /\ [Next]_vars => (TInv /\ Fetched /\ VInv /\ SInv)'
    <2>1. ASSUME TInv, Fetched, VInv, SInv, UNCHANGED vars PROVE (TInv /\ Fetched /\ VInv /\ SInv)'
        <3>1. TInv' /\ Fetched'
            BY <2>1 DEF TInv, Fetched, TypeOK, Midway, AInv, Apart, SendWaits, RecvWaits, vars, chan
        <3>2. VInv' BY <2>1 DEF VInv, Alone, Queued, Offered, Has, Begun, vars, chan
        <3>3. SInv' BY <2>1 DEF SInv, OnTop, Room, Running, vars, chan
        <3> QED BY <3>1, <3>2, <3>3
    <2> QED BY <2>1, FetchedNext, ValueNext, SingleNext DEF Next
<1> QED BY <1>1, <1>2, <1>3, PTL DEF Spec

\* Types, with the bound of the queue, and one activation for each coroutine that
\* was started and has not ended: channel.hpp resumes a handle once for each time
\* its coroutine suspends, on any number of threads.
THEOREM ResumedOnce == Spec => [](TypeOK /\ OneActivation)
<1>1. TInv => TypeOK BY DEF TInv
<1> QED BY <1>1, ChannelInv, CountActivations, PTL

\* Each value that a send has begun with is in one place, on any number of threads:
\* the critical sections of channel.hpp neither lose nor copy one.  On one thread a
\* receive returns nothing but such values: front() finds the queue not empty.
THEOREM ValuesKept == Spec => []ValueInOnePlace
<1>1. VInv /\ SInv => ValueInOnePlace
    <2> SUFFICES ASSUME VInv, SInv PROVE ValueInOnePlace OBVIOUS
    <2>1. \A v \in Value : Cardinality(Places(v)) = IF v[2] <= sent[v[1]] THEN 1 ELSE 0
        BY CountPlaces
    <2>2. ASSUME single, NEW r \in Receivers PROVE Garbage \notin ToSet(received[r])
        BY <2>2 DEF SInv, Room, In, ToSet
    <2> QED BY <2>1, <2>2 DEF ValueInOnePlace
<1> QED BY <1>1, ChannelInv, PTL

\* On one thread, when nothing runs, no receiver waits while there is a value and
\* no sender while there is room, although await_suspend does not look again.
THEOREM NobodyStranded == Spec => []NoStrandedWaiter
<1>1. SInv => NoStrandedWaiter
    <2> SUFFICES ASSUME SInv, single, Idle
                 PROVE  /\ m_recv_waiters # <<>> => m_queue = <<>>
                        /\ m_send_waiters # <<>> => Len(m_queue) = Capacity
        BY DEF NoStrandedWaiter
    <2>1. OnTop /\ Room BY DEF SInv
    <2>2. \A r \in Receivers : pc[r] # "take"
        BY <2>1, ThreadAssumption DEF OnTop, Running, Idle, Coroutine
    <2> QED BY <2>1, <2>2 DEF Room
<1> QED BY <1>1, ChannelInv, PTL
=============================================================================
