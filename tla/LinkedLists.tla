---------------------------- MODULE LinkedLists ----------------------------
(***************************************************************************)
(* What the nodes of a linked list are, from its first one on: the lock    *)
(* free containers are defined by links, their promises by sequences.      *)
(***************************************************************************)
EXTENDS Naturals, Sequences, SequencesExt

\* q is the list that begins with first and goes on along links up to null.
Linked(first, links, null, q) ==
    /\ first = IF q = <<>> THEN null ELSE q[1]
    /\ \A i \in DOMAIN q : links[q[i]] = IF i = Len(q) THEN null ELSE q[i + 1]

\* There is such a list of at most n of the nodes in N, unless the links make a cycle.
Ends(first, links, null, N, n) ==
    \E q \in BoundedSeq(N, n) : Linked(first, links, null, q)

ListFrom(first, links, null, N, n) ==
    CHOOSE q \in BoundedSeq(N, n) :
        Ends(first, links, null, N, n) => Linked(first, links, null, q)
=============================================================================
