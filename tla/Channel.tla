------------------------------ MODULE Channel ------------------------------
(***************************************************************************)
(* modern_cpp_core/coroutines/channel.hpp: a bounded channel whose senders *)
(* and receivers are coroutines.  Each coroutine runs on the thread that   *)
(* resumed it, inside that thread's call of resume(): a thread is a stack  *)
(* of coroutines and only the last one takes steps.  A critical section of *)
(* the spinlock is one step; await_ready and await_suspend are two, and so *)
(* are the handing over of a value and the await_resume that fetches it.   *)
(***************************************************************************)
EXTENDS Integers, Sequences, FiniteSets, SequencesExt

CONSTANTS
    Senders, Receivers, Threads, Capacity,
    MaxSends,       \* bound: values that one sender sends
    OneThread,      \* the thread all coroutines run on when there is only one
    NoValue,        \* std::nullopt
    Garbage         \* what front() of an empty std::queue yields (undefined)

Coroutine == Senders \cup Receivers
Value == Senders \X (1 .. MaxSends)

ASSUME CapacityAssumption == Capacity \in Nat /\ MaxSends \in Nat
ASSUME ThreadAssumption == OneThread \in Threads
ASSUME CoroutineAssumption == Senders \cap Receivers = {}
ASSUME NotValues == NoValue # Garbage /\ {NoValue, Garbage} \cap Value = {}

VARIABLES
    m_queue, m_send_waiters, m_recv_waiters,
    single,         \* do all coroutines run on one thread?
    stack,          \* the coroutines that each thread is executing, innermost last
    pc,             \* place of each coroutine
    sent,           \* values each sender has begun to send and handed over
    val,            \* what a receive is about to return
    received        \* history: what each receiver got

chan == <<m_queue, m_send_waiters, m_recv_waiters>>
vars == <<chan, single, stack, pc, sent, val, received>>

Init ==
    /\ m_queue = <<>> /\ m_send_waiters = <<>> /\ m_recv_waiters = <<>>
    /\ single \in BOOLEAN
    /\ stack = [t \in Threads |-> <<>>]
    /\ pc = [p \in Coroutine |-> "new"]
    /\ sent = [s \in Senders |-> 0]
    /\ val = [r \in Receivers |-> NoValue]
    /\ received = [r \in Receivers |-> <<>>]

Running(t, p) == stack[t] # <<>> /\ Last(stack[t]) = p

\* p goes to label, inside its thread's call of resume(q) if there is a q to resume.
Resume(t, p, label, q, qlabel) ==
    /\ pc' = [pc EXCEPT ![p] = label, ![q] = qlabel]
    /\ stack' = [stack EXCEPT ![t] = Append(@, q)]

Continue(p, label) == pc' = [pc EXCEPT ![p] = label] /\ UNCHANGED stack

\* p suspends or ends: the resume() that it runs in returns.
Leave(t, p, label) ==
    /\ pc' = [pc EXCEPT ![p] = label]
    /\ stack' = [stack EXCEPT ![t] = Front(@)]

Start(t, p) ==
    /\ pc[p] = "new" /\ stack[t] = <<>>
    /\ single => t = OneThread
    /\ stack' = [stack EXCEPT ![t] = <<p>>]
    /\ pc' = [pc EXCEPT ![p] = "ready"]
    /\ UNCHANGED <<chan, single, sent, val, received>>

-----------------------------------------------------------------------------
(* send                                                                    *)

NextValue(s) == <<s, sent[s] + 1>>

\* Mutant: the waiting receiver is resumed but left in the list.
SendReadyKeepsWaiter(t, s) ==
    /\ Running(t, s) /\ pc[s] = "ready" /\ sent[s] < MaxSends
    /\ Len(m_queue) < Capacity
    /\ m_queue' = Append(m_queue, NextValue(s))
    /\ sent' = [sent EXCEPT ![s] = @ + 1]
    /\ IF m_recv_waiters = <<>> THEN Continue(s, "ready")
       ELSE Resume(t, s, "ready", Head(m_recv_waiters), "take")
    /\ UNCHANGED <<m_send_waiters, m_recv_waiters, single, val, received>>

\* Mutant: a send does not look for a waiting receiver.
SendReadySilent(t, s) ==
    /\ Running(t, s) /\ pc[s] = "ready" /\ sent[s] < MaxSends
    /\ Len(m_queue) < Capacity
    /\ m_queue' = Append(m_queue, NextValue(s))
    /\ sent' = [sent EXCEPT ![s] = @ + 1]
    /\ Continue(s, "ready")
    /\ UNCHANGED <<m_send_waiters, m_recv_waiters, single, val, received>>

\* await_ready, returning true
SendReady(t, s) ==
    /\ Running(t, s) /\ pc[s] = "ready" /\ sent[s] < MaxSends
    /\ Len(m_queue) < Capacity
    /\ m_queue' = Append(m_queue, NextValue(s))
    /\ sent' = [sent EXCEPT ![s] = @ + 1]
    /\ \/ /\ m_recv_waiters = <<>>
          /\ Continue(s, "ready")
          /\ UNCHANGED m_recv_waiters
       \/ /\ m_recv_waiters # <<>>
          /\ m_recv_waiters' = Tail(m_recv_waiters)
          /\ Resume(t, s, "ready", Head(m_recv_waiters), "take")
    /\ UNCHANGED <<m_send_waiters, single, val, received>>

\* await_ready, returning false
SendFull(t, s) ==
    /\ Running(t, s) /\ pc[s] = "ready" /\ sent[s] < MaxSends
    /\ Len(m_queue) >= Capacity
    /\ Continue(s, "suspend")
    /\ UNCHANGED <<chan, single, sent, val, received>>

\* await_suspend: nobody looks again whether there is room by now
SendSuspend(t, s) ==
    /\ Running(t, s) /\ pc[s] = "suspend"
    /\ m_send_waiters' = Append(m_send_waiters, <<s, NextValue(s)>>)
    /\ sent' = [sent EXCEPT ![s] = @ + 1]
    /\ Leave(t, s, "waiting")
    /\ UNCHANGED <<m_queue, m_recv_waiters, single, val, received>>

SendEnd(t, s) ==
    /\ Running(t, s) /\ pc[s] = "ready" /\ sent[s] = MaxSends
    /\ Leave(t, s, "done")
    /\ UNCHANGED <<chan, single, sent, val, received>>

-----------------------------------------------------------------------------
(* receive                                                                 *)

FrontValue == IF m_queue = <<>> THEN Garbage ELSE Head(m_queue)
Rest == IF m_queue = <<>> THEN <<>> ELSE Tail(m_queue)

\* Mutant: the waiting sender is resumed, but its value is not pushed.
TakeDropsValue(t, r) ==
    /\ val' = [val EXCEPT ![r] = FrontValue]
    /\ m_queue' = Rest
    /\ IF m_send_waiters = <<>> THEN Continue(r, "return")
       ELSE Resume(t, r, "return", Head(m_send_waiters)[1], "ready")
    /\ m_send_waiters' = IF m_send_waiters = <<>> THEN <<>> ELSE Tail(m_send_waiters)
    /\ UNCHANGED <<m_recv_waiters, single, sent, received>>

\* The front is taken, and the value of a waiting sender takes up the room.
Take(t, r) ==
    /\ val' = [val EXCEPT ![r] = FrontValue]
    /\ \/ /\ m_send_waiters = <<>>
          /\ m_queue' = Rest
          /\ Continue(r, "return")
          /\ UNCHANGED m_send_waiters
       \/ /\ m_send_waiters # <<>>
          /\ m_queue' = Append(Rest, Head(m_send_waiters)[2])
          /\ m_send_waiters' = Tail(m_send_waiters)
          /\ Resume(t, r, "return", Head(m_send_waiters)[1], "ready")
    /\ UNCHANGED <<m_recv_waiters, single, sent, received>>

\* await_ready, returning true
ReceiveReady(t, r) ==
    /\ Running(t, r) /\ pc[r] = "ready"
    /\ m_queue # <<>>
    /\ Take(t, r)

\* await_ready, returning false
ReceiveEmpty(t, r) ==
    /\ Running(t, r) /\ pc[r] = "ready"
    /\ m_queue = <<>>
    /\ Continue(r, "suspend")
    /\ UNCHANGED <<chan, single, sent, val, received>>

\* await_suspend: nobody looks again whether there is a value by now
ReceiveSuspend(t, r) ==
    /\ Running(t, r) /\ pc[r] = "suspend"
    /\ m_recv_waiters' = Append(m_recv_waiters, r)
    /\ Leave(t, r, "waiting")
    /\ UNCHANGED <<m_queue, m_send_waiters, single, sent, val, received>>

\* await_resume: the value that the sender pushed is assumed to be there still
ReceiveResume(t, r) ==
    /\ Running(t, r) /\ pc[r] = "take"
    /\ Take(t, r)

\* The resume() of a sender, if any, is over: receive() returns its value.
ReceiveReturn(t, r) ==
    /\ Running(t, r) /\ pc[r] = "return"
    /\ received' = [received EXCEPT ![r] = Append(@, val[r])]
    /\ val' = [val EXCEPT ![r] = NoValue]
    /\ Continue(r, "ready")
    /\ UNCHANGED <<chan, single, sent>>

-----------------------------------------------------------------------------
Send(t, s) == SendReady(t, s) \/ SendFull(t, s) \/ SendSuspend(t, s) \/ SendEnd(t, s)

Receive(t, r) ==
    \/ ReceiveReady(t, r) \/ ReceiveEmpty(t, r) \/ ReceiveSuspend(t, r)
    \/ ReceiveResume(t, r) \/ ReceiveReturn(t, r)

Run(t) ==
    \/ \E p \in Coroutine : Start(t, p)
    \/ \E s \in Senders : Send(t, s)
    \/ \E r \in Receivers : Receive(t, r)

Next == \E t \in Threads : Run(t)

Spec == Init /\ [][Next]_vars

\* Threads are scheduled, and coroutines that are not suspended go on.
FairSpec == Spec /\ \A t \in Threads : WF_vars(Run(t))

-----------------------------------------------------------------------------
\* Types, and the bound of the queue, which a receive that pushes for a waiting
\* sender must keep too.
TypeOK ==
    /\ m_queue \in Seq(Value) /\ Len(m_queue) <= Capacity
    /\ m_send_waiters \in Seq(Senders \X Value)
    /\ m_recv_waiters \in Seq(Receivers)
    /\ stack \in [Threads -> Seq(Coroutine)]
    /\ pc \in [Coroutine -> {"new", "ready", "suspend", "waiting", "take", "return", "done"}]
    /\ sent \in [Senders -> 0 .. MaxSends]
    /\ val \in [Receivers -> Value \cup {NoValue, Garbage}]
    /\ received \in [Receivers -> Seq(Value \cup {Garbage})]

Occurrences(seq, e) == {i \in DOMAIN seq : seq[i] = e}

\* A coroutine is resumed once for each time it suspends: it is in no two calls of
\* resume() at once, on one thread or on two, and never runs while a handle to it
\* is still in a list of waiters.
Activations(p) ==
    (UNION {{<<"stack", t, i>> : i \in Occurrences(stack[t], p)} : t \in Threads})
    \cup {<<"send", i>> : i \in {j \in DOMAIN m_send_waiters : m_send_waiters[j][1] = p}}
    \cup {<<"recv", i>> : i \in Occurrences(m_recv_waiters, p)}

OneActivation ==
    \A p \in Coroutine :
        Cardinality(Activations(p)) = IF pc[p] \in {"new", "done"} THEN 0 ELSE 1

\* A value sent is in one place: no hand-over loses or copies one, on however many
\* threads the coroutines run.  On one thread, a receive returns nothing else.
Places(v) ==
    {<<"queue", i>> : i \in Occurrences(m_queue, v)}
    \cup {<<"waiter", i>> : i \in {j \in DOMAIN m_send_waiters : m_send_waiters[j][2] = v}}
    \cup {<<"val", r>> : r \in {q \in Receivers : val[q] = v}}
    \cup (UNION {{<<"received", r, i>> : i \in Occurrences(received[r], v)} : r \in Receivers})

ValueInOnePlace ==
    /\ \A v \in Value : Cardinality(Places(v)) = IF v[2] <= sent[v[1]] THEN 1 ELSE 0
    /\ single => \A r \in Receivers : Garbage \notin ToSet(received[r])

Idle == \A t \in Threads : stack[t] = <<>>

\* On one thread, no coroutine is stranded: when all have suspended no receiver
\* waits while there is a value, and no sender while there is room.
NoStrandedWaiter ==
    single /\ Idle =>
        /\ m_recv_waiters # <<>> => m_queue = <<>>
        /\ m_send_waiters # <<>> => Len(m_queue) = Capacity

Delivered(v) == \E r \in Receivers : v \in ToSet(received[r])

\* On one thread, every value sent is received.
EveryValueReceived ==
    \A v \in Value : (single /\ v[2] <= sent[v[1]]) ~> Delivered(v)

\* The channel's waits and its spinlock serve coroutines on several threads as well
\* (channel.hpp:12, :127): every value sent is received.
ReceivedAcrossThreads == \A v \in Value : (v[2] <= sent[v[1]]) ~> Delivered(v)
=============================================================================
