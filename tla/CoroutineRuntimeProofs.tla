----------------------- MODULE CoroutineRuntimeProofs -----------------------
(***************************************************************************)
(* Proofs about the coroutine runtime, for any number of jobs, descriptors *)
(* and blocks, every size of blocks and frames and every timeout.          *)
(***************************************************************************)
EXTENDS CoroutineRuntime, SequenceTheorems, TLAPS

-----------------------------------------------------------------------------
(* Sequences without repetition                                            *)

In(s, e) == \E i \in DOMAIN s : s[i] = e
Once(s) == \A i, k \in DOMAIN s : s[i] = s[k] => i = k

LEMMA EmptyIn == (\A e : ~In(<<>>, e)) /\ Once(<<>>)
BY DEF In, Once

\* What is left without the first element.
LEMMA TailIn ==
    ASSUME NEW S, NEW s \in Seq(S), s # <<>>
    PROVE  /\ Head(s) \in S /\ Tail(s) \in Seq(S)
           /\ In(s, Head(s))
           /\ \A e : In(Tail(s), e) => In(s, e)
           /\ Once(s) => /\ Once(Tail(s))
                         /\ \A e : In(Tail(s), e) <=> In(s, e) /\ e # Head(s)
<1>1. /\ Head(s) \in S /\ Tail(s) \in Seq(S)
      /\ DOMAIN s = 1 .. Len(s) /\ Len(s) \in Nat \ {0} /\ Head(s) = s[1]
      /\ DOMAIN Tail(s) = 1 .. Len(s) - 1
      /\ \A i \in 1 .. Len(s) - 1 : Tail(s)[i] = s[i + 1]
    BY HeadTailProperties, LenProperties, EmptySeq
<1>2. In(s, Head(s)) BY <1>1 DEF In
<1>3. \A e : In(Tail(s), e) => In(s, e) BY <1>1 DEF In
<1>4. Once(s) => Once(Tail(s)) BY <1>1 DEF Once
<1>5. ASSUME Once(s), NEW e PROVE In(Tail(s), e) <=> In(s, e) /\ e # Head(s)
    <2>1. In(Tail(s), e) => e # Head(s) BY <1>1, <1>5 DEF In, Once
    <2>2. ASSUME NEW i \in 1 .. Len(s), s[i] = e, e # Head(s) PROVE In(Tail(s), e)
        <3>1. i - 1 \in 1 .. Len(s) - 1 /\ Tail(s)[i - 1] = s[i] BY <1>1, <2>2
        <3> QED BY <1>1, <2>2, <3>1 DEF In
    <2> QED BY <1>1, <1>3, <2>1, <2>2 DEF In
<1> QED BY <1>1, <1>2, <1>3, <1>4, <1>5

\* A sequence with one more element in front.
LEMMA PushIn ==
    ASSUME NEW S, NEW s \in Seq(S), NEW x \in S
    PROVE  /\ <<x>> \o s \in Seq(S)
           /\ \A e : In(<<x>> \o s, e) <=> In(s, e) \/ e = x
           /\ Once(s) /\ ~In(s, x) => Once(<<x>> \o s)
<1>1. <<x>> \in Seq(S) /\ Len(<<x>>) = 1 /\ <<x>>[1] = x OBVIOUS
<1>2. /\ <<x>> \o s \in Seq(S) /\ Len(<<x>> \o s) = 1 + Len(s)
      /\ \A i \in 1 .. 1 + Len(s) :
            (<<x>> \o s)[i] = IF i <= 1 THEN <<x>>[i] ELSE s[i - 1]
    BY <1>1, ConcatProperties
<1>3. /\ DOMAIN s = 1 .. Len(s) /\ Len(s) \in Nat /\ DOMAIN (<<x>> \o s) = 1 .. 1 + Len(s)
    BY <1>2, LenProperties
<1>4. (<<x>> \o s)[1] = x /\ \A i \in 1 .. Len(s) : (<<x>> \o s)[i + 1] = s[i]
    BY <1>1, <1>2, <1>3
<1>5. \A i \in 1 .. 1 + Len(s) : i = 1 \/ i - 1 \in 1 .. Len(s) BY <1>3
<1>6. PICK u : u = <<x>> \o s OBVIOUS
<1>7. /\ DOMAIN u = 1 .. 1 + Len(s) /\ u[1] = x
      /\ \A i \in 1 .. Len(s) : u[i + 1] = s[i]
      /\ \A i \in 1 .. 1 + Len(s) : i # 1 => i - 1 \in 1 .. Len(s) /\ u[i] = s[i - 1]
    BY <1>1, <1>2, <1>3, <1>4, <1>5, <1>6
<1>8. ASSUME NEW e PROVE In(u, e) <=> In(s, e) \/ e = x
    <2>1. In(u, e) => In(s, e) \/ e = x BY <1>3, <1>7 DEF In
    <2>2. e = x => In(u, e)
        <3>1. 1 \in DOMAIN u BY <1>3, <1>7
        <3> QED BY <1>7, <3>1 DEF In
    <2>3. In(s, e) => In(u, e)
        <3> SUFFICES ASSUME In(s, e) PROVE In(u, e) OBVIOUS
        <3>1. PICK i \in 1 .. Len(s) : s[i] = e BY <1>3 DEF In
        <3>2. i + 1 \in DOMAIN u /\ u[i + 1] = e BY <1>3, <1>7, <3>1
        <3> QED BY <3>2 DEF In
    <2> QED BY <2>1, <2>2, <2>3
<1>9. ASSUME Once(s), ~In(s, x) PROVE Once(u)
    <2>1. \A i \in DOMAIN u : i # 1 => u[i] # x BY <1>3, <1>7, <1>9 DEF In
    <2>2. ASSUME NEW i \in DOMAIN u, NEW k \in DOMAIN u, u[i] = u[k], i # 1, k # 1 PROVE i = k
        <3>1. i - 1 \in DOMAIN s /\ k - 1 \in DOMAIN s /\ s[i - 1] = s[k - 1]
            BY <1>3, <1>7, <2>2
        <3>2. i - 1 = k - 1 BY <1>9, <3>1 DEF Once
        <3> QED BY <1>3, <1>7, <3>2
    <2> QED BY <1>7, <2>1, <2>2 DEF Once
<1> QED BY <1>2, <1>6, <1>8, <1>9

-----------------------------------------------------------------------------
(* The pool                                                                *)

PoolTypes ==
    /\ s_initialized \in BOOLEAN /\ s_free_list \in Seq(Block) /\ pools \in 0 .. MaxPools
    /\ max_coroutines \in PoolSizes \cup {0}
    /\ frame \in [Jobs -> [Part -> Block \cup {NoBlock}]]

\* The blocks of the pool, if there is one.
InPool(b) == s_initialized /\ b \in {pools} \X (0 .. max_coroutines - 1)
Used(b) == b # NoBlock /\ \E j \in Jobs, p \in Part : frame[j][p] = b

BInv ==
    /\ Once(s_free_list)
    /\ \A i, j \in Jobs, p, q \in Part :
         frame[i][p] # NoBlock /\ frame[i][p] = frame[j][q] => i = j /\ p = q
    /\ \A b : ~(In(s_free_list, b) /\ Used(b))
    /\ \A b : In(s_free_list, b) \/ Used(b) <=> InPool(b)

PInv == PoolTypes /\ BInv

LEMMA BlocksAreBlocks == NoBlock \notin Block
BY PoolAssumption, NotMembers DEF Block

LEMMA PoolUnchanged == PInv /\ UNCHANGED <<pool, frame>> => PInv'
BY DEF PInv, PoolTypes, BInv, InPool, Used, Block, pool

LEMMA PoolStart == Init => PInv
<1> SUFFICES ASSUME Init PROVE PInv OBVIOUS
<1>1. <<>> \in Seq(Block) /\ 0 \in 0 .. MaxPools BY PoolAssumption
<1>2. PoolTypes BY <1>1 DEF Init, PoolTypes
<1>3. \A b : ~Used(b) /\ ~InPool(b) BY DEF Init, Used, InPool
<1>4. BInv BY <1>3, EmptyIn DEF Init, BInv
<1> QED BY <1>2, <1>4 DEF PInv

LEMMA PoolOfInit == PInv /\ PoolInit => PInv'
<1> SUFFICES ASSUME PInv, PoolInit PROVE PInv' OBVIOUS
<1>1. /\ ~s_initialized /\ pools < MaxPools /\ pools' = pools + 1 /\ s_initialized'
      /\ max_coroutines' \in PoolSizes /\ UNCHANGED frame
    BY DEF PoolInit
<1>2. PICK n \in PoolSizes : n = max_coroutines' BY <1>1
<1>3. n \in Nat \ {0} /\ pools \in Nat /\ pools + 1 \in 1 .. MaxPools /\ MaxPools \in Nat
    BY <1>1, PoolAssumption DEF PInv, PoolTypes
<1>4. PICK s : s = [i \in 1 .. n |-> <<pools + 1, i - 1>>] OBVIOUS
<1>5. s_free_list' = s BY <1>2, <1>4 DEF PoolInit
<1>6. Block' = (1 .. MaxPools) \X (0 .. n - 1) BY <1>2 DEF Block
<1>7. \A i \in 1 .. n : s[i] = <<pools + 1, i - 1>> /\ i - 1 \in 0 .. n - 1 BY <1>3, <1>4
<1>8. s \in Seq(Block')
    <2>1. DOMAIN s = 1 .. n /\ \A i \in 1 .. n : s[i] \in Block'
        BY <1>3, <1>4, <1>6, <1>7
    <2>2. s \in [1 .. n -> Block'] BY <1>4, <2>1
    <2> QED BY <1>3, <2>2, SeqDef
<1>9. \A b : ~Used(b) BY <1>1 DEF PInv, BInv, InPool
<1>10. \A j \in Jobs, p \in Part : frame[j][p] = NoBlock BY <1>9 DEF Used
<1>11. frame' \in [Jobs -> [Part -> Block' \cup {NoBlock}]]
    <2>1. frame \in [Jobs -> [Part -> Block \cup {NoBlock}]] BY DEF PInv, PoolTypes
    <2>2. \A j \in Jobs : frame[j] \in [Part -> Block' \cup {NoBlock}] BY <1>10, <2>1
    <2> QED BY <1>1, <2>1, <2>2
<1>12. PoolTypes' BY <1>1, <1>3, <1>5, <1>8, <1>11 DEF PoolTypes
<1>13. \A b : ~Used(b)' BY <1>1, <1>9 DEF Used
<1>14. ASSUME NEW b PROVE In(s, b) <=> b \in {pools + 1} \X (0 .. n - 1)
    <2>1. In(s, b) => b \in {pools + 1} \X (0 .. n - 1) BY <1>4, <1>7 DEF In
    <2>2. ASSUME b \in {pools + 1} \X (0 .. n - 1) PROVE In(s, b)
        <3>1. PICK k \in 0 .. n - 1 : b = <<pools + 1, k>> BY <2>2
        <3>2. k + 1 \in 1 .. n /\ k + 1 - 1 = k BY <1>3
        <3>3. s[k + 1] = b /\ k + 1 \in DOMAIN s BY <1>4, <3>1, <3>2
        <3> QED BY <3>3 DEF In
    <2> QED BY <2>1, <2>2
<1>15. Once(s)
    <2>1. ASSUME NEW i \in 1 .. n, NEW k \in 1 .. n, s[i] = s[k] PROVE i = k
        <3>1. i - 1 = k - 1 BY <1>7, <2>1
        <3> QED BY <1>3, <3>1
    <2> QED BY <1>4, <2>1 DEF Once
<1>16. \A b : InPool(b)' <=> b \in {pools + 1} \X (0 .. n - 1)
    BY <1>1, <1>2 DEF InPool
<1>17. \A b : In(s_free_list', b) <=> InPool(b)' BY <1>5, <1>14, <1>16
<1>18. BInv' BY <1>1, <1>5, <1>10, <1>13, <1>15, <1>17 DEF BInv
<1> QED BY <1>12, <1>18 DEF PInv

LEMMA PoolOfDestroy == PInv /\ PoolDestroy => PInv'
<1> SUFFICES ASSUME PInv, PoolDestroy PROVE PInv' OBVIOUS
<1>1. /\ Live = {} /\ ~s_initialized' /\ s_initialized' \in BOOLEAN /\ s_free_list' = <<>>
      /\ UNCHANGED <<pools, max_coroutines, frame>>
    BY DEF PoolDestroy
<1>2. <<>> \in Seq(Block) /\ Block' = Block BY <1>1 DEF Block
<1>3. PoolTypes'
    <2>1. s_free_list' \in Seq(Block) BY <1>1, <1>2
    <2>2. frame' \in [Jobs -> [Part -> Block \cup {NoBlock}]] BY <1>1 DEF PInv, PoolTypes
    <2>3. pools' \in 0 .. MaxPools /\ max_coroutines' \in PoolSizes \cup {0}
        BY <1>1 DEF PInv, PoolTypes
    <2>4. s_initialized' \in BOOLEAN BY <1>1
    <2>5. Block' = Block BY <1>2
    <2> QED BY <2>1, <2>2, <2>3, <2>4, <2>5 DEF PoolTypes
<1>4. ASSUME NEW j \in Jobs, NEW p \in Part PROVE frame[j][p] = NoBlock
    <2>1. frame[j][p] \in {frame[j][q] : q \in Part} OBVIOUS
    <2>2. frame[j][p] \in UNION {{frame[i][q] : q \in Part} : i \in Jobs} BY <2>1
    <2> QED BY <1>1, <2>2 DEF Live
<1>5. \A b : ~Used(b)' /\ ~InPool(b)' BY <1>1, <1>4 DEF Used, InPool
<1>6. BInv' BY <1>1, <1>4, <1>5, EmptyIn DEF BInv
<1> QED BY <1>3, <1>6 DEF PInv

\* A block is taken for the frame of part p of job j.
LEMMA PoolAllocate ==
    ASSUME PInv, NEW j \in Jobs, NEW p \in Part, frame[j][p] = NoBlock, s_free_list # <<>>,
           Allocate(j, p)
    PROVE  /\ PInv' /\ frame'[j][p] # NoBlock
           /\ \A i \in Jobs, q \in Part : (i # j \/ q # p) => frame'[i][q] = frame[i][q]
<1>1. /\ PoolTypes /\ BInv /\ s_free_list \in Seq(Block)
      /\ frame \in [Jobs -> [Part -> Block \cup {NoBlock}]]
      /\ UNCHANGED <<s_initialized, pools, max_coroutines>>
    BY DEF PInv, PoolTypes, Allocate
<1>2. PICK h : h = Head(s_free_list) OBVIOUS
<1>3. /\ h \in Block /\ s_free_list' \in Seq(Block) /\ In(s_free_list, h) /\ Once(s_free_list')
      /\ \A b : In(s_free_list', b) <=> In(s_free_list, b) /\ b # h
    BY <1>1, <1>2, TailIn DEF Allocate, BInv
<1>4. h # NoBlock BY <1>3, BlocksAreBlocks
<1>5. /\ frame' \in [Jobs -> [Part -> Block \cup {NoBlock}]]
      /\ frame'[j][p] = h
      /\ \A i \in Jobs, q \in Part : (i # j \/ q # p) => frame'[i][q] = frame[i][q]
    BY <1>1, <1>2, <1>3 DEF Allocate
<1>6. PoolTypes'
    <2>1. Block' = Block BY <1>1 DEF Block
    <2>2. s_initialized' \in BOOLEAN BY <1>1 DEF PoolTypes
    <2>3. pools' \in 0 .. MaxPools /\ max_coroutines' \in PoolSizes \cup {0}
        BY <1>1 DEF PoolTypes
    <2> QED BY <1>3, <1>5, <2>1, <2>2, <2>3 DEF PoolTypes
<1>7. ~Used(h) BY <1>1, <1>3 DEF BInv
<1>8. ASSUME NEW b PROVE Used(b)' <=> Used(b) \/ b = h
    <2>1. Used(b)' => Used(b) \/ b = h BY <1>5 DEF Used
    <2>2. b = h => Used(b)' BY <1>4, <1>5 DEF Used
    <2>3. Used(b) => Used(b)' BY <1>5 DEF Used
    <2> QED BY <2>1, <2>2, <2>3
<1>9. ASSUME NEW i \in Jobs, NEW k \in Jobs, NEW q \in Part, NEW r \in Part,
             frame'[i][q] # NoBlock, frame'[i][q] = frame'[k][r]
      PROVE  i = k /\ q = r
    <2>1. \A m \in Jobs, u \in Part : frame[m][u] # h BY <1>4, <1>7 DEF Used
    <2> QED BY <1>1, <1>5, <1>9, <2>1 DEF BInv
<1>10. \A b : InPool(b)' <=> InPool(b) BY <1>1 DEF InPool
<1>11. /\ \A b : ~(In(s_free_list', b) /\ Used(b)')
       /\ \A b : In(s_free_list', b) \/ Used(b)' <=> InPool(b)'
    BY <1>1, <1>3, <1>7, <1>8, <1>10 DEF BInv
<1>12. BInv' BY <1>3, <1>9, <1>11 DEF BInv
<1> QED BY <1>4, <1>5, <1>6, <1>12 DEF PInv

\* The frame of part p of job j is given back.
LEMMA PoolFree ==
    ASSUME PInv, NEW j \in Jobs, NEW p \in Part, frame[j][p] # NoBlock,
           Deallocate(<<frame[j][p]>>), frame' = [frame EXCEPT ![j][p] = NoBlock]
    PROVE  /\ PInv' /\ frame'[j][p] = NoBlock
           /\ \A i \in Jobs, q \in Part : (i # j \/ q # p) => frame'[i][q] = frame[i][q]
<1>1. /\ PoolTypes /\ BInv /\ s_free_list \in Seq(Block)
      /\ frame \in [Jobs -> [Part -> Block \cup {NoBlock}]]
      /\ UNCHANGED <<s_initialized, pools, max_coroutines>>
    BY DEF PInv, PoolTypes, Deallocate
<1>2. PICK h : h = frame[j][p] OBVIOUS
<1>3. h \in Block /\ h # NoBlock /\ Used(h) BY <1>1, <1>2 DEF Used
<1>4. s_initialized /\ ~In(s_free_list, h) BY <1>1, <1>3 DEF BInv, InPool
<1>5. s_free_list' = <<h>> \o s_free_list
    <2>1. <<h>> = [i \in 1 .. Len(<<h>>) |-> <<h>>[Len(<<h>>) + 1 - i]] OBVIOUS
    <2> QED BY <1>2, <1>4, <2>1 DEF Deallocate
<1>6. /\ s_free_list' \in Seq(Block) /\ Once(s_free_list')
      /\ \A b : In(s_free_list', b) <=> In(s_free_list, b) \/ b = h
    BY <1>1, <1>3, <1>4, <1>5, PushIn DEF BInv
<1>7. /\ frame' \in [Jobs -> [Part -> Block \cup {NoBlock}]]
      /\ frame'[j][p] = NoBlock
      /\ \A i \in Jobs, q \in Part : (i # j \/ q # p) => frame'[i][q] = frame[i][q]
    BY <1>1
<1>8. PoolTypes'
    <2>1. Block' = Block BY <1>1 DEF Block
    <2>2. s_initialized' \in BOOLEAN BY <1>1 DEF PoolTypes
    <2>3. pools' \in 0 .. MaxPools /\ max_coroutines' \in PoolSizes \cup {0}
        BY <1>1 DEF PoolTypes
    <2> QED BY <1>6, <1>7, <2>1, <2>2, <2>3 DEF PoolTypes
<1>9. \A i \in Jobs, q \in Part : frame[i][q] = h => i = j /\ q = p
    BY <1>1, <1>2, <1>3 DEF BInv
<1>10. ASSUME NEW b PROVE Used(b)' <=> Used(b) /\ b # h
    <2>1. Used(b)' => Used(b) BY <1>7 DEF Used
    <2>2. ~Used(h)' BY <1>3, <1>7, <1>9 DEF Used
    <2>3. Used(b) /\ b # h => Used(b)' BY <1>2, <1>7 DEF Used
    <2> QED BY <2>1, <2>2, <2>3
<1>11. ASSUME NEW i \in Jobs, NEW k \in Jobs, NEW q \in Part, NEW r \in Part,
              frame'[i][q] # NoBlock, frame'[i][q] = frame'[k][r]
       PROVE  i = k /\ q = r
    BY <1>1, <1>7, <1>11 DEF BInv
<1>12. \A b : InPool(b)' <=> InPool(b) BY <1>1 DEF InPool
<1>13. /\ \A b : ~(In(s_free_list', b) /\ Used(b)')
       /\ \A b : In(s_free_list', b) \/ Used(b)' <=> InPool(b)'
    BY <1>1, <1>3, <1>6, <1>10, <1>12 DEF BInv
<1>14. BInv' BY <1>6, <1>11, <1>13 DEF BInv
<1> QED BY <1>7, <1>8, <1>14 DEF PInv

\* Both frames of job j are given back.
LEMMA PoolFreeBoth ==
    ASSUME PInv, NEW j \in Jobs, frame[j]["root"] # NoBlock, frame[j]["child"] # NoBlock,
           Deallocate(<<frame[j]["child"], frame[j]["root"]>>),
           frame' = [frame EXCEPT ![j] = [p \in Part |-> NoBlock]]
    PROVE  /\ PInv' /\ frame'[j]["root"] = NoBlock /\ frame'[j]["child"] = NoBlock
           /\ \A i \in Jobs, q \in Part : i # j => frame'[i][q] = frame[i][q]
<1>1. /\ PoolTypes /\ BInv /\ s_free_list \in Seq(Block)
      /\ frame \in [Jobs -> [Part -> Block \cup {NoBlock}]]
      /\ UNCHANGED <<s_initialized, pools, max_coroutines>>
    BY DEF PInv, PoolTypes, Deallocate
<1>2. PICK c : c = frame[j]["child"] OBVIOUS
<1>3. PICK h : h = frame[j]["root"] OBVIOUS
<1>4. c \in Block /\ h \in Block /\ Used(c) /\ Used(h) BY <1>1, <1>2, <1>3 DEF Used, Part
<1>5. c # h BY <1>1, <1>2, <1>3 DEF BInv, Part
<1>6. s_initialized /\ ~In(s_free_list, c) /\ ~In(s_free_list, h) BY <1>1, <1>4 DEF BInv, InPool
<1>7. s_free_list' = <<h>> \o (<<c>> \o s_free_list)
    <2>1. [i \in 1 .. Len(<<c, h>>) |-> <<c, h>>[Len(<<c, h>>) + 1 - i]] = <<h, c>> OBVIOUS
    <2>2. <<h, c>> \o s_free_list = <<h>> \o (<<c>> \o s_free_list)
        <3>1. <<h, c>> = <<h>> \o <<c>> OBVIOUS
        <3> QED BY <1>1, <1>4, <3>1, ConcatAssociative
    <2> QED BY <1>2, <1>3, <1>6, <2>1, <2>2 DEF Deallocate
<1>8. /\ <<c>> \o s_free_list \in Seq(Block) /\ Once(<<c>> \o s_free_list)
      /\ \A b : In(<<c>> \o s_free_list, b) <=> In(s_free_list, b) \/ b = c
    BY <1>1, <1>4, <1>6, PushIn DEF BInv
<1>9. /\ s_free_list' \in Seq(Block) /\ Once(s_free_list')
      /\ \A b : In(s_free_list', b) <=> In(s_free_list, b) \/ b = c \/ b = h
    <2>1. PICK u : u = <<c>> \o s_free_list OBVIOUS
    <2>2. u \in Seq(Block) /\ Once(u) /\ ~In(u, h) BY <1>5, <1>6, <1>8, <2>1
    <2>3. /\ <<h>> \o u \in Seq(Block) /\ Once(<<h>> \o u)
          /\ \A b : In(<<h>> \o u, b) <=> In(u, b) \/ b = h
        BY <1>4, <2>2, PushIn
    <2>4. s_free_list' = <<h>> \o u BY <1>7, <2>1
    <2> QED BY <1>8, <2>1, <2>3, <2>4
<1>10. /\ frame' \in [Jobs -> [Part -> Block \cup {NoBlock}]]
       /\ \A q \in Part : frame'[j][q] = NoBlock
       /\ \A i \in Jobs, q \in Part : i # j => frame'[i][q] = frame[i][q]
    BY <1>1
<1>11. PoolTypes'
    <2>1. Block' = Block BY <1>1 DEF Block
    <2>2. s_initialized' \in BOOLEAN BY <1>1 DEF PoolTypes
    <2>3. pools' \in 0 .. MaxPools /\ max_coroutines' \in PoolSizes \cup {0}
        BY <1>1 DEF PoolTypes
    <2> QED BY <1>9, <1>10, <2>1, <2>2, <2>3 DEF PoolTypes
<1>12. \A i \in Jobs, q \in Part : frame[i][q] \in {c, h} => i = j
    BY <1>1, <1>2, <1>3, BlocksAreBlocks, <1>4 DEF BInv, Part
<1>13. ASSUME NEW b PROVE Used(b)' <=> Used(b) /\ b # c /\ b # h
    <2>1. Used(b)' => Used(b) BY <1>10 DEF Used
    <2>2. ~Used(h)' /\ ~Used(c)' BY <1>4, <1>10, <1>12 DEF Used
    <2>3. Used(b) /\ b # c /\ b # h => Used(b)' BY <1>2, <1>3, <1>10 DEF Used, Part
    <2> QED BY <2>1, <2>2, <2>3
<1>14. ASSUME NEW i \in Jobs, NEW k \in Jobs, NEW q \in Part, NEW r \in Part,
              frame'[i][q] # NoBlock, frame'[i][q] = frame'[k][r]
       PROVE  i = k /\ q = r
    BY <1>1, <1>10, <1>14 DEF BInv
<1>15. \A b : InPool(b)' <=> InPool(b) BY <1>1 DEF InPool
<1>16. /\ \A b : ~(In(s_free_list', b) /\ Used(b)')
       /\ \A b : In(s_free_list', b) \/ Used(b)' <=> InPool(b)'
    BY <1>1, <1>4, <1>9, <1>13, <1>15 DEF BInv
<1>17. BInv' BY <1>9, <1>14, <1>16 DEF BInv
<1> QED BY <1>10, <1>11, <1>17 DEF PInv, Part

-----------------------------------------------------------------------------
(* Threads, descriptors and the map of timers                              *)

Starting == {"root", "await", "child", "timer", "insert"}
Awaiting == {"timer", "insert", "suspended", "fired"}
Registered(j) == pc[j] \in {"insert", "suspended"}
Off == {"new", "suspended", "orphan", "done", "failed", "dropped"}

ControlTypes ==
    /\ pc \in [Jobs -> Place] /\ on \in [Jobs -> {"app", "loop", "none"}]
    /\ fd \in [Jobs -> Fds \cup {NoFd}] /\ timeout \in [Jobs -> Timeouts \cup {0}]
    /\ expired \subseteq Fds /\ interest \in [Fds -> {"none", "armed", "off"}]
    /\ timers \in [Fds -> Jobs \cup {NoJob}]
    /\ loop \in {"out", "test", "wait", "event", "resume"}
    /\ batch \subseteq Fds /\ event \in Fds \cup {NoFd} /\ coro \in Jobs \cup {NoJob}

\* A job is on a thread while it has something to do there, on one thread with the others
\* only while nothing is polled.
OnThreads ==
    /\ \A j \in Jobs : on[j] = "none" <=> pc[j] \in Off
    /\ \A i, j \in Jobs : on[i] = on[j] /\ on[i] # "none" => i = j
    /\ \A j \in Jobs : pc[j] \in Starting => on[j] = "app"
    /\ single => \A j \in Jobs : on[j] = "app" => loop = "out"
    /\ loop = "resume" => Idle("loop")

\* A descriptor is open for one job; what the kernel knows of it is about that job.
Descriptors ==
    /\ \A i, j \in Jobs : fd[i] = fd[j] /\ fd[i] # NoFd => i = j
    /\ \A j \in Jobs : fd[j] # NoFd <=> pc[j] \in Awaiting
    /\ \A f \in expired : \E j \in Jobs :
         fd[j] = f /\ timeout[j] > 0 /\ pc[j] \in {"timer", "insert", "suspended"}
    /\ \A f \in Fds : interest[f] = "armed" => \E j \in Jobs : fd[j] = f /\ Registered(j)

\* An event that was taken from the kernel is about a job that still has the descriptor.
Events ==
    /\ \A f \in batch : f \in expired /\ \E j \in Jobs : fd[j] = f /\ Registered(j)
    /\ batch # {} => loop \in {"event", "resume"}
    /\ loop = "resume" =>
         /\ coro \in Jobs /\ event \in Fds
         /\ pc[coro] = "suspended" /\ fd[coro] = event
         /\ event \in expired /\ timeout[coro] > 0
         /\ timers[event] = NoJob /\ event \notin batch

\* An entry is that of the job suspended on the descriptor, or of a job that was dropped.
\* With polls and jobs on one thread every suspended job has its entry.
Entries ==
    /\ \A f \in Fds : timers[f] # NoJob =>
         \/ pc[timers[f]] = "suspended" /\ fd[timers[f]] = f
         \/ single /\ pc[timers[f]] = "dropped"
    /\ single => \A j \in Jobs : pc[j] = "suspended" =>
         timers[fd[j]] = j \/ (loop = "resume" /\ coro = j)

CInv == ControlTypes /\ OnThreads /\ Descriptors /\ Events /\ Entries

LEMMA ControlStart == Init => CInv
<1> SUFFICES ASSUME Init PROVE CInv OBVIOUS
<1>1. ControlTypes BY DEF Init, ControlTypes, Place
<1>2. OnThreads BY DEF Init, OnThreads, Off, Starting
<1>3. Descriptors BY DEF Init, Descriptors, Awaiting
<1>4. Events BY DEF Init, Events
<1>5. Entries BY DEF Init, Entries
<1> QED BY <1>1, <1>2, <1>3, <1>4, <1>5 DEF CInv

LEMMA ControlUnchanged ==
    CInv /\ UNCHANGED <<pc, on, fd, timeout, kernel, timers, loop, batch, event, coro, single>> => CInv'
BY DEF CInv, ControlTypes, OnThreads, Idle, Descriptors, Events, Registered, Entries, kernel

\* The loop is entered, left or goes to wait.
LEMMA LoopMoves ==
    ASSUME CInv, UNCHANGED <<pc, on, fd, timeout, kernel, timers, batch, event, coro, single>>,
           loop # "resume", loop' \in {"out", "test", "wait"}, batch = {},
           single => loop' = "out" \/ Idle("app")
    PROVE  CInv'
<1>1. /\ ControlTypes /\ OnThreads /\ Descriptors /\ Events /\ Entries
      /\ UNCHANGED <<expired, interest>>
    BY DEF CInv, kernel
<1>2. ControlTypes' BY <1>1 DEF ControlTypes
<1>3. OnThreads' BY <1>1 DEF OnThreads, Idle
<1>4. Descriptors' BY <1>1 DEF Descriptors, Registered
<1>5. Events' BY <1>1 DEF Events, Registered
<1>6. Entries' BY <1>1 DEF Entries
<1> QED BY <1>2, <1>3, <1>4, <1>5, <1>6 DEF CInv

\* A job that has no timer yet, or has none any more, goes on.
LEMMA JobMoves ==
    ASSUME CInv, UNCHANGED <<fd, timeout, kernel, timers, loop, batch, event, coro, single>>,
           NEW j \in Jobs, NEW l \in Place \ (Awaiting \cup {"dropped"}),
           pc[j] \notin Awaiting \cup {"dropped"}, Goto(j, l),
           on' \in [Jobs -> {"app", "loop", "none"}], \A i \in Jobs : i # j => on'[i] = on[i],
           on'[j] = "none" <=> l \in Off, l \in Starting => on'[j] = "app",
           \/ on'[j] = "none" \/ on'[j] = on[j]
           \/ on'[j] = "app" /\ Idle("app") /\ (single => loop = "out")
    PROVE  CInv'
<1>1. /\ ControlTypes /\ OnThreads /\ Descriptors /\ Events /\ Entries
      /\ UNCHANGED <<expired, interest>>
    BY DEF CInv, kernel
<1>2. pc' \in [Jobs -> Place] /\ pc'[j] = l /\ \A i \in Jobs : i # j => pc'[i] = pc[i]
    BY <1>1 DEF ControlTypes, Goto
<1>3. ControlTypes' BY <1>1, <1>2 DEF ControlTypes
<1>4. OnThreads'
    <2>1. \A i \in Jobs : on'[i] = "none" <=> pc'[i] \in Off BY <1>1, <1>2 DEF OnThreads
    <2>2. ASSUME NEW i \in Jobs, NEW k \in Jobs, on'[i] = on'[k], on'[i] # "none" PROVE i = k
        BY <1>1, <2>2 DEF OnThreads, Idle
    <2>3. \A i \in Jobs : pc'[i] \in Starting => on'[i] = "app" BY <1>1, <1>2 DEF OnThreads
    <2>4. single' => \A i \in Jobs : on'[i] = "app" => loop' = "out" BY <1>1 DEF OnThreads
    <2>5. loop' = "resume" => Idle("loop")' BY <1>1 DEF OnThreads, Idle
    <2> QED BY <2>1, <2>2, <2>3, <2>4, <2>5 DEF OnThreads
<1>5. Descriptors' BY <1>1, <1>2 DEF Descriptors, Registered, Awaiting
<1>6. Events' BY <1>1, <1>2 DEF Events, Registered, Awaiting
<1>7. Entries'
    <2>1. \A f \in Fds : timers[f] # NoJob => timers[f] \in Jobs /\ timers[f] # j
        BY <1>1 DEF Entries, ControlTypes, Awaiting
    <2>2. pc'[j] # "suspended" BY <1>2 DEF Awaiting
    <2> QED BY <1>1, <1>2, <2>1, <2>2 DEF Entries
<1> QED BY <1>3, <1>4, <1>5, <1>6, <1>7 DEF CInv

\* The constructor of AsyncTimer opens a descriptor.
LEMMA TimerOpens ==
    ASSUME CInv, UNCHANGED <<on, kernel, timers, loop, batch, event, coro, single>>,
           NEW j \in Jobs, pc[j] = "child", Goto(j, "timer"), NEW f \in FreeFds,
           NEW ms \in Timeouts, fd' = [fd EXCEPT ![j] = f], timeout' = [timeout EXCEPT ![j] = ms]
    PROVE  CInv'
<1>1. /\ ControlTypes /\ OnThreads /\ Descriptors /\ Events /\ Entries
      /\ UNCHANGED <<expired, interest>>
    BY DEF CInv, kernel
<1>2. pc' \in [Jobs -> Place] /\ pc'[j] = "timer" /\ \A i \in Jobs : i # j => pc'[i] = pc[i]
    BY <1>1 DEF ControlTypes, Goto, Place
<1>3. f \in Fds /\ f # NoFd /\ \A i \in Jobs : fd[i] # f BY NotMembers DEF FreeFds
<1>4. /\ fd' \in [Jobs -> Fds \cup {NoFd}] /\ fd'[j] = f /\ \A i \in Jobs : i # j => fd'[i] = fd[i]
      /\ timeout' \in [Jobs -> Timeouts \cup {0}] /\ \A i \in Jobs : i # j => timeout'[i] = timeout[i]
    BY <1>1, <1>3 DEF ControlTypes
<1>5. ControlTypes' BY <1>1, <1>2, <1>4 DEF ControlTypes
<1>6. OnThreads' BY <1>1, <1>2 DEF OnThreads, Idle, Off, Starting
<1>7. Descriptors'
    <2>1. ASSUME NEW i \in Jobs, NEW k \in Jobs, fd'[i] = fd'[k], fd'[i] # NoFd PROVE i = k
        BY <1>1, <1>3, <1>4, <2>1 DEF Descriptors
    <2>2. \A i \in Jobs : fd'[i] # NoFd <=> pc'[i] \in Awaiting
        BY <1>1, <1>2, <1>3, <1>4 DEF Descriptors, Awaiting
    <2>3. ASSUME NEW g \in expired'
          PROVE  \E i \in Jobs : fd'[i] = g /\ timeout'[i] > 0 /\ pc'[i] \in {"timer", "insert", "suspended"}
        <3>1. PICK i \in Jobs : fd[i] = g /\ timeout[i] > 0 /\ pc[i] \in {"timer", "insert", "suspended"}
            BY <1>1 DEF Descriptors
        <3>2. i # j BY <3>1
        <3> QED BY <1>2, <1>4, <3>1, <3>2
    <2>4. ASSUME NEW g \in Fds, interest'[g] = "armed"
          PROVE  \E i \in Jobs : fd'[i] = g /\ Registered(i)'
        <3>1. PICK i \in Jobs : fd[i] = g /\ Registered(i) BY <1>1, <2>4 DEF Descriptors
        <3>2. i # j BY <3>1 DEF Registered
        <3> QED BY <1>2, <1>4, <3>1, <3>2 DEF Registered
    <2> QED BY <2>1, <2>2, <2>3, <2>4 DEF Descriptors
<1>8. Events'
    <2>1. ASSUME NEW g \in batch' PROVE \E i \in Jobs : fd'[i] = g /\ Registered(i)'
        <3>1. PICK i \in Jobs : fd[i] = g /\ Registered(i) BY <1>1 DEF Events
        <3>2. i # j BY <3>1 DEF Registered
        <3> QED BY <1>2, <1>4, <3>1, <3>2 DEF Registered
    <2>2. loop = "resume" => coro # j BY <1>1 DEF Events
    <2> QED BY <1>1, <1>2, <1>4, <2>1, <2>2 DEF Events
<1>9. Entries'
    <2>1. \A g \in Fds : timers[g] # NoJob => timers[g] \in Jobs /\ timers[g] # j
        BY <1>1 DEF Entries, ControlTypes
    <2> QED BY <1>1, <1>2, <1>4, <2>1 DEF Entries
<1> QED BY <1>5, <1>6, <1>7, <1>8, <1>9 DEF CInv

\* epoll_ctl succeeds.
LEMMA TimerAdded ==
    ASSUME CInv, UNCHANGED <<on, fd, timeout, expired, timers, loop, batch, event, coro, single>>,
           NEW j \in Jobs, pc[j] = "timer", Goto(j, "insert"),
           interest' = [interest EXCEPT ![fd[j]] = "armed"]
    PROVE  CInv'
<1>1. ControlTypes /\ OnThreads /\ Descriptors /\ Events /\ Entries BY DEF CInv
<1>2. pc' \in [Jobs -> Place] /\ pc'[j] = "insert" /\ \A i \in Jobs : i # j => pc'[i] = pc[i]
    BY <1>1 DEF ControlTypes, Goto, Place
<1>3. fd[j] \in Fds BY <1>1 DEF Descriptors, Awaiting, ControlTypes
<1>4. /\ interest' \in [Fds -> {"none", "armed", "off"}]
      /\ \A g \in Fds : g # fd[j] => interest'[g] = interest[g]
    BY <1>1, <1>3 DEF ControlTypes
<1>5. ControlTypes' BY <1>1, <1>2, <1>4 DEF ControlTypes
<1>6. OnThreads' BY <1>1, <1>2 DEF OnThreads, Idle, Off, Starting
<1>7. Descriptors' BY <1>1, <1>2, <1>4 DEF Descriptors, Awaiting, Registered
<1>8. Events' BY <1>1, <1>2 DEF Events, Registered
<1>9. Entries'
    <2>1. \A g \in Fds : timers[g] # NoJob => timers[g] \in Jobs /\ timers[g] # j
        BY <1>1 DEF Entries, ControlTypes
    <2> QED BY <1>1, <1>2, <2>1 DEF Entries
<1> QED BY <1>5, <1>6, <1>7, <1>8, <1>9 DEF CInv

\* The entry is made and the job suspends.
LEMMA TimerEntered ==
    ASSUME CInv, UNCHANGED <<fd, timeout, kernel, loop, batch, event, coro, single>>,
           NEW j \in Jobs, pc[j] = "insert", Goto(j, "suspended"),
           on' = [on EXCEPT ![j] = "none"], timers' = [timers EXCEPT ![fd[j]] = j]
    PROVE  CInv'
<1>1. /\ ControlTypes /\ OnThreads /\ Descriptors /\ Events /\ Entries
      /\ UNCHANGED <<expired, interest>>
    BY DEF CInv, kernel
<1>2. /\ pc' \in [Jobs -> Place] /\ pc'[j] = "suspended" /\ \A i \in Jobs : i # j => pc'[i] = pc[i]
      /\ on' \in [Jobs -> {"app", "loop", "none"}] /\ on'[j] = "none"
      /\ \A i \in Jobs : i # j => on'[i] = on[i]
    BY <1>1 DEF ControlTypes, Goto, Place
<1>3. fd[j] \in Fds BY <1>1 DEF Descriptors, Awaiting, ControlTypes
<1>4. /\ timers' \in [Fds -> Jobs \cup {NoJob}] /\ timers'[fd[j]] = j
      /\ \A g \in Fds : g # fd[j] => timers'[g] = timers[g]
    BY <1>1, <1>3 DEF ControlTypes
<1>5. ControlTypes' BY <1>1, <1>2, <1>4 DEF ControlTypes
<1>6. OnThreads' BY <1>1, <1>2 DEF OnThreads, Idle, Off, Starting
<1>7. Descriptors' BY <1>1, <1>2 DEF Descriptors, Awaiting, Registered
<1>8. Events'
    <2>1. loop = "resume" => coro # j /\ fd[coro] # fd[j] /\ event # fd[j]
        BY <1>1, <1>3, NotMembers DEF Events, Descriptors
    <2> QED BY <1>1, <1>2, <1>4, <2>1 DEF Events, Registered
<1>9. Entries'
    <2>1. ASSUME NEW g \in Fds, timers'[g] # NoJob
          PROVE  \/ pc'[timers'[g]] = "suspended" /\ fd'[timers'[g]] = g
                 \/ single' /\ pc'[timers'[g]] = "dropped"
        <3>1. CASE g = fd[j] BY <1>2, <1>4, <3>1
        <3>2. CASE g # fd[j]
            <4>1. timers[g] \in Jobs /\ timers[g] # j /\ timers'[g] = timers[g]
                BY <1>1, <1>4, <2>1, <3>2 DEF Entries, ControlTypes
            <4> QED BY <1>1, <1>2, <2>1, <4>1 DEF Entries
        <3> QED BY <3>1, <3>2
    <2>2. ASSUME single, NEW i \in Jobs, pc'[i] = "suspended"
          PROVE  timers'[fd[i]] = i \/ (loop = "resume" /\ coro = i)
        <3>1. CASE i = j BY <1>4, <3>1
        <3>2. CASE i # j
            <4>1. fd[i] \in Fds /\ fd[i] # fd[j]
                BY <1>1, <1>2, <1>3, <2>2, <3>2, NotMembers DEF Descriptors, Awaiting, ControlTypes
            <4> QED BY <1>1, <1>2, <1>4, <2>2, <3>2, <4>1 DEF Entries
        <3> QED BY <3>1, <3>2
    <2> QED BY <2>1, <2>2 DEF Entries
<1> QED BY <1>5, <1>6, <1>7, <1>8, <1>9 DEF CInv

\* The descriptor of j is closed: j gives up its timer, had it fire, or is dropped.
LEMMA TimerCloses ==
    ASSUME CInv, UNCHANGED <<on, timeout, timers, loop, batch, event, coro, single>>,
           NEW j \in Jobs, NEW l, Goto(j, l), Close(j),
           \/ pc[j] = "timer" /\ l = "final"
           \/ pc[j] = "fired" /\ l = "final"
           \/ pc[j] = "suspended" /\ l = "dropped" /\ single /\ loop = "out"
    PROVE  CInv'
<1>1. ControlTypes /\ OnThreads /\ Descriptors /\ Events /\ Entries BY DEF CInv
<1>2. pc' \in [Jobs -> Place] /\ pc'[j] = l /\ \A i \in Jobs : i # j => pc'[i] = pc[i]
    BY <1>1 DEF ControlTypes, Goto, Place
<1>3. PICK f \in Fds : f = fd[j] BY <1>1 DEF Descriptors, Awaiting, ControlTypes
<1>4. f # NoFd /\ \A i \in Jobs : fd[i] = f => i = j
    BY <1>1, <1>3, NotMembers DEF Descriptors
<1>5. /\ fd' \in [Jobs -> Fds \cup {NoFd}] /\ fd'[j] = NoFd /\ \A i \in Jobs : i # j => fd'[i] = fd[i]
      /\ interest' \in [Fds -> {"none", "armed", "off"}] /\ interest'[f] = "none"
      /\ \A g \in Fds : g # f => interest'[g] = interest[g]
      /\ expired' = expired \ {f} /\ expired' \subseteq Fds
    BY <1>1, <1>3 DEF ControlTypes, Close
<1>6. ControlTypes' BY <1>1, <1>2, <1>5 DEF ControlTypes
<1>7. OnThreads' BY <1>1, <1>2 DEF OnThreads, Idle, Off, Starting
<1>8. \A g : g # f => \A i \in Jobs : fd[i] = g => i # j BY <1>3
<1>9. Descriptors'
    <2>1. ASSUME NEW i \in Jobs, NEW k \in Jobs, fd'[i] = fd'[k], fd'[i] # NoFd PROVE i = k
        BY <1>1, <1>5, <2>1 DEF Descriptors
    <2>2. \A i \in Jobs : fd'[i] # NoFd <=> pc'[i] \in Awaiting
        BY <1>1, <1>2, <1>5 DEF Descriptors, Awaiting
    <2>3. ASSUME NEW g \in expired'
          PROVE  \E i \in Jobs : fd'[i] = g /\ timeout'[i] > 0 /\ pc'[i] \in {"timer", "insert", "suspended"}
        <3>1. PICK i \in Jobs : fd[i] = g /\ timeout[i] > 0 /\ pc[i] \in {"timer", "insert", "suspended"}
            BY <1>1, <1>5 DEF Descriptors
        <3>2. i # j BY <1>3, <1>5, <3>1
        <3> QED BY <1>2, <1>5, <3>1, <3>2
    <2>4. ASSUME NEW g \in Fds, interest'[g] = "armed"
          PROVE  \E i \in Jobs : fd'[i] = g /\ Registered(i)'
        <3>1. g # f /\ interest[g] = "armed" BY <1>5, <2>4
        <3>2. PICK i \in Jobs : fd[i] = g /\ Registered(i) BY <1>1, <3>1 DEF Descriptors
        <3>3. i # j BY <1>3, <3>1, <3>2
        <3> QED BY <1>2, <1>5, <3>2, <3>3 DEF Registered
    <2> QED BY <2>1, <2>2, <2>3, <2>4 DEF Descriptors
<1>10. Events'
    <2>1. f \notin batch
        <3> SUFFICES ASSUME f \in batch PROVE FALSE OBVIOUS
        <3>1. Registered(j) /\ loop # "out" BY <1>1, <1>4 DEF Events
        <3> QED BY <3>1 DEF Registered
    <2>2. ASSUME NEW g \in batch' PROVE g \in expired' /\ \E i \in Jobs : fd'[i] = g /\ Registered(i)'
        <3>1. PICK i \in Jobs : fd[i] = g /\ Registered(i) /\ g \in expired BY <1>1 DEF Events
        <3>2. g # f BY <2>1
        <3>3. i # j BY <1>3, <3>1, <3>2
        <3> QED BY <1>2, <1>5, <3>1, <3>2, <3>3 DEF Registered
    <2>3. loop = "resume" => coro # j /\ event # f BY <1>1, <1>4 DEF Events
    <2> QED BY <1>1, <1>2, <1>5, <2>2, <2>3 DEF Events
<1>11. Entries'
    <2>1. ASSUME NEW g \in Fds, timers[g] # NoJob
          PROVE  \/ pc'[timers[g]] = "suspended" /\ fd'[timers[g]] = g
                 \/ single /\ pc'[timers[g]] = "dropped"
        <3>1. timers[g] \in Jobs BY <1>1, <2>1 DEF ControlTypes
        <3>2. CASE timers[g] = j BY <1>1, <1>2, <2>1, <3>2 DEF Entries
        <3>3. CASE timers[g] # j BY <1>1, <1>2, <1>5, <2>1, <3>1, <3>3 DEF Entries
        <3> QED BY <3>2, <3>3
    <2>2. ASSUME single, NEW i \in Jobs, pc'[i] = "suspended"
          PROVE  timers[fd'[i]] = i \/ (loop = "resume" /\ coro = i)
        BY <1>1, <1>2, <1>5, <2>2 DEF Entries
    <2> QED BY <2>1, <2>2 DEF Entries
<1> QED BY <1>6, <1>7, <1>9, <1>10, <1>11 DEF CInv

LEMMA TimerExpires == ASSUME CInv, NEW j \in Jobs, Expire(j) PROVE CInv'
<1>1. /\ ControlTypes /\ OnThreads /\ Descriptors /\ Events /\ Entries
      /\ fd[j] # NoFd /\ timeout[j] > 0 /\ pc[j] \in {"timer", "insert", "suspended"}
      /\ expired' = expired \cup {fd[j]}
      /\ UNCHANGED <<pc, on, fd, timeout, interest, timers, loop, batch, event, coro, single>>
    BY DEF CInv, Expire, eloop
<1>2. ControlTypes' BY <1>1 DEF ControlTypes
<1>3. OnThreads' BY <1>1 DEF OnThreads, Idle
<1>4. Descriptors' BY <1>1 DEF Descriptors, Registered
<1>5. Events' BY <1>1 DEF Events, Registered
<1>6. Entries' BY <1>1 DEF Entries
<1> QED BY <1>2, <1>3, <1>4, <1>5, <1>6 DEF CInv

\* epoll_wait reports descriptors of registered jobs whose timers have expired.
LEMMA EventsTaken == ASSUME CInv, EpollWait PROVE CInv'
<1>1. /\ ControlTypes /\ OnThreads /\ Descriptors /\ Events /\ Entries
      /\ loop = "wait" /\ loop' = "event"
      /\ UNCHANGED <<pc, on, fd, timeout, expired, timers, event, coro, single>>
    BY DEF CInv, EpollWait, coroutines
<1>2. PICK b \in SUBSET Ready :
        batch' = b /\ interest' = [f \in Fds |-> IF f \in b THEN "off" ELSE interest[f]]
    BY DEF EpollWait
<1>3. \A f \in b : f \in Fds /\ f \in expired /\ interest[f] = "armed" BY <1>2 DEF Ready
<1>4. /\ interest' \in [Fds -> {"none", "armed", "off"}]
      /\ \A f \in Fds : interest'[f] = "armed" => interest[f] = "armed"
    BY <1>1, <1>2 DEF ControlTypes
<1>5. ControlTypes' BY <1>1, <1>2, <1>3, <1>4 DEF ControlTypes
<1>6. OnThreads' BY <1>1 DEF OnThreads, Idle
<1>7. Descriptors' BY <1>1, <1>4 DEF Descriptors, Registered
<1>8. Events' BY <1>1, <1>2, <1>3 DEF Events, Descriptors, Registered
<1>9. Entries' BY <1>1 DEF Entries
<1> QED BY <1>5, <1>6, <1>7, <1>8, <1>9 DEF CInv

\* The entry that an event finds is that of the job whose timer it is: with jobs and polls on
\* one thread that job is suspended, and otherwise no job is dropped.
LEMMA EventTaken == ASSUME CInv, TakeEvent PROVE CInv'
<1>1. /\ ControlTypes /\ OnThreads /\ Descriptors /\ Events /\ Entries
      /\ loop = "event" /\ Idle("loop")
      /\ UNCHANGED <<pc, on, fd, timeout, expired, interest, single>>
    BY DEF CInv, TakeEvent, coroutines, kernel
<1>2. PICK f \in batch :
        /\ batch' = batch \ {f}
        /\ \/ /\ timers[f] # NoJob
              /\ coro' = timers[f] /\ event' = f /\ loop' = "resume"
              /\ timers' = [timers EXCEPT ![f] = NoJob]
           \/ timers[f] = NoJob /\ UNCHANGED <<coro, event, loop, timers>>
    BY DEF TakeEvent
<1>3. f \in Fds /\ f \in expired BY <1>1 DEF ControlTypes, Events
<1>4. PICK j \in Jobs : fd[j] = f /\ Registered(j) BY <1>1 DEF Events
<1>5. f # NoFd /\ \A i \in Jobs : fd[i] = f => i = j BY <1>1, <1>3, <1>4, NotMembers DEF Descriptors
<1>6. CASE timers[f] = NoJob /\ UNCHANGED <<coro, event, loop, timers>>
    <2>1. ControlTypes' BY <1>1, <1>2, <1>6 DEF ControlTypes
    <2>2. OnThreads' BY <1>1, <1>6 DEF OnThreads, Idle
    <2>3. Descriptors' BY <1>1 DEF Descriptors, Registered
    <2>4. Events' BY <1>1, <1>2, <1>6 DEF Events, Registered
    <2>5. Entries' BY <1>1, <1>6 DEF Entries
    <2> QED BY <2>1, <2>2, <2>3, <2>4, <2>5 DEF CInv
<1>7. CASE /\ timers[f] # NoJob /\ coro' = timers[f] /\ event' = f /\ loop' = "resume"
           /\ timers' = [timers EXCEPT ![f] = NoJob]
    <2>1. timers[f] \in Jobs BY <1>1, <1>3, <1>7 DEF ControlTypes
    <2>2. single => timers[f] = j
        <3> SUFFICES ASSUME single PROVE timers[f] = j OBVIOUS
        <3>1. on[j] # "app" BY <1>1 DEF OnThreads
        <3>2. pc[j] = "suspended" BY <1>1, <1>4, <3>1 DEF OnThreads, Starting, Registered
        <3> QED BY <1>1, <1>4, <3>2 DEF Entries
    <2>3. pc[timers[f]] = "suspended" /\ fd[timers[f]] = f
        <3>1. CASE single
            <4>1. timers[f] = j /\ pc[j] # "dropped" BY <1>4, <2>2, <3>1 DEF Registered
            <4> QED BY <1>1, <1>3, <1>7, <4>1 DEF Entries
        <3>2. CASE ~single BY <1>1, <1>3, <1>7, <3>2 DEF Entries
        <3> QED BY <3>1, <3>2
    <2>4. timers[f] = j /\ timeout[j] > 0
        <3>1. timers[f] = j BY <1>5, <2>1, <2>3
        <3>2. PICK i \in Jobs : fd[i] = f /\ timeout[i] > 0 BY <1>1, <1>3 DEF Descriptors
        <3> QED BY <1>5, <3>1, <3>2
    <2>5. /\ timers' \in [Fds -> Jobs \cup {NoJob}] /\ timers'[f] = NoJob
          /\ \A g \in Fds : g # f => timers'[g] = timers[g]
        BY <1>1, <1>3, <1>7 DEF ControlTypes
    <2>6. ControlTypes' BY <1>1, <1>2, <1>3, <1>7, <2>1, <2>5 DEF ControlTypes
    <2>7. OnThreads' BY <1>1, <1>7 DEF OnThreads, Idle
    <2>8. Descriptors' BY <1>1 DEF Descriptors, Registered
    <2>9. Events'
        <3>1. \A g \in batch' : g \in expired' /\ \E i \in Jobs : fd'[i] = g /\ Registered(i)'
            BY <1>1, <1>2 DEF Events, Registered
        <3>2. /\ coro' \in Jobs /\ event' \in Fds /\ pc'[coro'] = "suspended" /\ fd'[coro'] = event'
              /\ event' \in expired' /\ timeout'[coro'] > 0
              /\ timers'[event'] = NoJob /\ event' \notin batch'
            BY <1>1, <1>2, <1>3, <1>7, <2>1, <2>3, <2>4, <2>5
        <3> QED BY <1>7, <3>1, <3>2 DEF Events
    <2>10. Entries'
        <3>1. \A g \in Fds : timers'[g] # NoJob => timers'[g] = timers[g] BY <2>5
        <3>2. ASSUME single, NEW i \in Jobs, pc[i] = "suspended", i # j PROVE timers'[fd[i]] = i
            <4>1. fd[i] \in Fds /\ fd[i] # f
                BY <1>1, <1>5, <3>2 DEF Descriptors, Awaiting, ControlTypes
            <4> QED BY <1>1, <2>5, <3>2, <4>1 DEF Entries
        <3> QED BY <1>1, <1>7, <2>4, <3>1, <3>2 DEF Entries
    <2> QED BY <2>6, <2>7, <2>8, <2>9, <2>10 DEF CInv
<1> QED BY <1>2, <1>6, <1>7

LEMMA CoroResumed == ASSUME CInv, ResumeCoro PROVE CInv'
<1>1. /\ ControlTypes /\ OnThreads /\ Descriptors /\ Events /\ Entries
      /\ loop = "resume" /\ loop' = "event" /\ expired' = expired \ {event}
      /\ interest' = [interest EXCEPT ![event] = "none"] /\ Goto(coro, "fired")
      /\ on' = [on EXCEPT ![coro] = "loop"] /\ coro' = NoJob /\ event' = NoFd
      /\ UNCHANGED <<fd, timeout, timers, batch, single>>
    BY DEF CInv, ResumeCoro, coroutines
<1>2. PICK j \in Jobs : j = coro BY <1>1 DEF Events
<1>3. PICK f \in Fds : f = event BY <1>1 DEF Events
<1>4. /\ pc[j] = "suspended" /\ fd[j] = f /\ timers[f] = NoJob /\ f \notin batch
      /\ f # NoFd /\ \A i \in Jobs : fd[i] = f => i = j
    BY <1>1, <1>2, <1>3, NotMembers DEF Events, Descriptors
<1>5. /\ pc' \in [Jobs -> Place] /\ pc'[j] = "fired" /\ \A i \in Jobs : i # j => pc'[i] = pc[i]
      /\ on' \in [Jobs -> {"app", "loop", "none"}] /\ on'[j] = "loop"
      /\ \A i \in Jobs : i # j => on'[i] = on[i]
    BY <1>1, <1>2 DEF ControlTypes, Goto, Place
<1>6. /\ interest' \in [Fds -> {"none", "armed", "off"}] /\ interest'[f] = "none"
      /\ \A g \in Fds : g # f => interest'[g] = interest[g]
      /\ expired' = expired \ {f} /\ expired' \subseteq Fds
    BY <1>1, <1>3 DEF ControlTypes
<1>7. ControlTypes' BY <1>1, <1>5, <1>6 DEF ControlTypes
<1>8. OnThreads' BY <1>1, <1>5 DEF OnThreads, Idle, Off, Starting
<1>9. Descriptors'
    <2>1. \A i \in Jobs : fd'[i] # NoFd <=> pc'[i] \in Awaiting
        BY <1>1, <1>4, <1>5 DEF Descriptors, Awaiting
    <2>2. ASSUME NEW g \in expired'
          PROVE  \E i \in Jobs : fd'[i] = g /\ timeout'[i] > 0 /\ pc'[i] \in {"timer", "insert", "suspended"}
        <3>1. PICK i \in Jobs : fd[i] = g /\ timeout[i] > 0 /\ pc[i] \in {"timer", "insert", "suspended"}
            BY <1>1, <1>6 DEF Descriptors
        <3>2. i # j BY <1>4, <1>6, <3>1
        <3> QED BY <1>1, <1>5, <3>1, <3>2
    <2>3. ASSUME NEW g \in Fds, interest'[g] = "armed"
          PROVE  \E i \in Jobs : fd'[i] = g /\ Registered(i)'
        <3>1. g # f /\ interest[g] = "armed" BY <1>6, <2>3
        <3>2. PICK i \in Jobs : fd[i] = g /\ Registered(i) BY <1>1, <3>1 DEF Descriptors
        <3>3. i # j BY <1>4, <3>1, <3>2
        <3> QED BY <1>1, <1>5, <3>2, <3>3 DEF Registered
    <2> QED BY <1>1, <2>1, <2>2, <2>3 DEF Descriptors
<1>10. Events'
    <2>1. ASSUME NEW g \in batch' PROVE g \in expired' /\ \E i \in Jobs : fd'[i] = g /\ Registered(i)'
        <3>1. PICK i \in Jobs : fd[i] = g /\ Registered(i) /\ g \in expired BY <1>1 DEF Events
        <3>2. g # f BY <1>1, <1>4
        <3>3. i # j BY <1>4, <3>1, <3>2
        <3> QED BY <1>1, <1>5, <1>6, <3>1, <3>2, <3>3 DEF Registered
    <2> QED BY <1>1, <2>1 DEF Events
<1>11. Entries'
    <2>1. \A g \in Fds : timers[g] # NoJob => timers[g] \in Jobs /\ timers[g] # j
        BY <1>1, <1>4 DEF Entries, ControlTypes
    <2> QED BY <1>1, <1>2, <1>5, <2>1 DEF Entries
<1> QED BY <1>7, <1>8, <1>9, <1>10, <1>11 DEF CInv

LEMMA ControlNext == ASSUME CInv, Next PROVE CInv'
<1>1. ControlTypes /\ OnThreads /\ Descriptors /\ Events BY DEF CInv
<1>2. loop \in {"out", "test", "wait"} => batch = {} BY <1>1 DEF Events
<1>3. CASE PoolInit \/ PoolDestroy BY <1>3, ControlUnchanged DEF PoolInit, PoolDestroy, eloop
<1>4. CASE RunBegin BY <1>2, <1>4, LoopMoves DEF RunBegin, coroutines
<1>5. CASE Stop BY <1>5, ControlUnchanged DEF Stop, coroutines
<1>6. CASE EpollWait BY <1>6, EventsTaken
<1>7. CASE PollInterrupted BY <1>2, <1>7, LoopMoves DEF PollInterrupted, coroutines, AfterPoll
<1>8. CASE RunTest
    <2>1. /\ loop = "test" /\ loop' \in {"out", "wait"}
          /\ UNCHANGED <<pc, on, fd, timeout, kernel, timers, batch, event, coro, single>>
        BY <1>8 DEF RunTest, coroutines
    <2>2. single => Idle("app") BY <1>1, <2>1 DEF OnThreads, Idle
    <2> QED BY <1>2, <2>1, <2>2, LoopMoves
<1>9. CASE PollBegin BY <1>2, <1>9, LoopMoves DEF PollBegin, coroutines
<1>10. CASE TakeEvent BY <1>10, EventTaken
<1>11. CASE ResumeCoro BY <1>11, CoroResumed
<1>12. CASE PollEnd BY <1>12, LoopMoves DEF PollEnd, coroutines, AfterPoll
<1>13. ASSUME NEW j \in Jobs, StartJob(j) PROVE CInv'
    <2>1. /\ pc[j] = "new" /\ Idle("app") /\ (single => loop = "out")
          /\ UNCHANGED <<fd, timeout, kernel, timers, loop, batch, event, coro, single>>
        BY <1>13 DEF StartJob, eloop
    <2>2. CASE Goto(j, "root") /\ on' = [on EXCEPT ![j] = "app"]
        <3>1. /\ on' \in [Jobs -> {"app", "loop", "none"}] /\ on'[j] = "app"
              /\ \A i \in Jobs : i # j => on'[i] = on[i]
            BY <1>1, <2>2 DEF ControlTypes
        <3> QED BY <2>1, <2>2, <3>1, JobMoves DEF Place, Awaiting, Starting, Off
    <2>3. CASE Goto(j, "failed") /\ UNCHANGED on
        <3>1. on' \in [Jobs -> {"app", "loop", "none"}] /\ on'[j] = "none"
            BY <1>1, <2>1, <2>3 DEF ControlTypes, OnThreads, Off
        <3> QED BY <2>1, <2>3, <3>1, JobMoves DEF Place, Awaiting, Starting, Off
    <2> QED BY <1>13, <2>2, <2>3 DEF StartJob
<1>14. ASSUME NEW j \in Jobs, NEW l \in Place \ (Awaiting \cup {"dropped"}),
              pc[j] \notin Awaiting \cup {"dropped"} \cup Off, l \notin Off, l \in Starting => pc[j] \in Starting,
              Goto(j, l), UNCHANGED <<on, fd, timeout, kernel, timers, eloop, single>>
       PROVE  CInv'
    <2>1. on \in [Jobs -> {"app", "loop", "none"}] /\ on[j] # "none" /\ (l \in Starting => on[j] = "app")
        BY <1>1, <1>14 DEF ControlTypes, OnThreads
    <2> QED BY <1>14, <2>1, JobMoves DEF eloop
<1>15. ASSUME NEW j \in Jobs, NEW l \in {"orphan", "done", "failed"},
              pc[j] \notin Awaiting \cup {"dropped"}, on' = [on EXCEPT ![j] = "none"],
              Goto(j, l), UNCHANGED <<fd, timeout, kernel, timers, eloop, single>>
       PROVE  CInv'
    <2>1. /\ on' \in [Jobs -> {"app", "loop", "none"}] /\ on'[j] = "none"
          /\ \A i \in Jobs : i # j => on'[i] = on[i]
        BY <1>1, <1>15 DEF ControlTypes
    <2>2. l \in Place \ (Awaiting \cup {"dropped"}) /\ l \in Off /\ l \notin Starting
        BY DEF Place, Awaiting, Off, Starting
    <2> QED BY <1>15, <2>1, <2>2, JobMoves DEF eloop
<1>16. ASSUME NEW j \in Jobs, CallTask(j) PROVE CInv'
    BY <1>14, <1>16 DEF CallTask, Place, Awaiting, Starting, Off
<1>17. ASSUME NEW j \in Jobs, AwaitTask(j) PROVE CInv'
    BY <1>14, <1>17 DEF AwaitTask, Place, Awaiting, Starting, Off
<1>18. ASSUME NEW j \in Jobs, FinalSuspend(j) PROVE CInv'
    <2>1. pc[j] = "final" /\ UNCHANGED <<fd, timeout, kernel, timers, eloop, single>>
        BY <1>18 DEF FinalSuspend
    <2>2. CASE m_continuation[j]
        <3>1. Goto(j, "resumed") /\ on' = [on EXCEPT ![j] = on[j]] BY <1>18, <2>2 DEF FinalSuspend
        <3>2. UNCHANGED on BY <1>1, <3>1 DEF ControlTypes
        <3> QED BY <1>14, <2>1, <3>1, <3>2 DEF Place, Awaiting, Starting, Off
    <2>3. CASE ~m_continuation[j]
        <3>1. Goto(j, "orphan") /\ on' = [on EXCEPT ![j] = "none"] BY <1>18, <2>3 DEF FinalSuspend
        <3> QED BY <1>15, <2>1, <3>1 DEF Awaiting
    <2> QED BY <2>2, <2>3
<1>19. ASSUME NEW j \in Jobs, TaskResult(j) PROVE CInv'
    <2>1. PICK l \in {"caught", "end"} : Goto(j, l) BY <1>19 DEF TaskResult
    <2>2. pc[j] = "resumed" /\ UNCHANGED <<on, fd, timeout, kernel, timers, eloop, single>>
        BY <1>19 DEF TaskResult
    <2> QED BY <1>14, <2>1, <2>2 DEF Place, Awaiting, Starting, Off
<1>20. ASSUME NEW j \in Jobs, EndJob(j) PROVE CInv'
    <2>1. PICK l \in {"done", "failed"} : Goto(j, l) BY <1>20 DEF EndJob
    <2>2. /\ pc[j] \in {"end", "caught"} /\ on' = [on EXCEPT ![j] = "none"]
          /\ UNCHANGED <<fd, timeout, kernel, timers, eloop, single>>
        BY <1>20 DEF EndJob
    <2> QED BY <1>15, <2>1, <2>2 DEF Awaiting
<1>21. ASSUME NEW j \in Jobs, NewTimer(j) PROVE CInv'
    <2>1. pc[j] = "child" /\ UNCHANGED <<on, kernel, timers, eloop, single>> BY <1>21 DEF NewTimer
    <2>2. CASE Goto(j, "final") /\ UNCHANGED <<fd, timeout>>
        BY <1>14, <2>1, <2>2 DEF Place, Awaiting, Starting, Off
    <2>3. ASSUME NEW ms \in Timeouts, NEW f \in FreeFds, Goto(j, "timer"),
                 fd' = [fd EXCEPT ![j] = f], timeout' = [timeout EXCEPT ![j] = ms]
          PROVE  CInv'
        BY <2>1, <2>3, TimerOpens DEF eloop
    <2> QED BY <1>21, <2>2, <2>3 DEF NewTimer, Throw
<1>22. ASSUME NEW j \in Jobs, EpollAdd(j) PROVE CInv'
    BY <1>22, TimerAdded, TimerCloses DEF EpollAdd, Throw, eloop
<1>23. ASSUME NEW j \in Jobs, InsertTimer(j) PROVE CInv'
    BY <1>23, TimerEntered DEF InsertTimer, eloop
<1>24. ASSUME NEW j \in Jobs, TimerFired(j) PROVE CInv'
    BY <1>24, TimerCloses DEF TimerFired, eloop
<1>25. ASSUME NEW j \in Jobs, DropJob(j) PROVE CInv'
    BY <1>25, TimerCloses DEF DropJob, eloop
<1>26. CASE LoopStep BY <1>8, <1>9, <1>10, <1>11, <1>12, <1>26 DEF LoopStep
<1>27. ASSUME NEW j \in Jobs, JobStep(j) PROVE CInv'
    BY <1>16, <1>17, <1>18, <1>19, <1>20, <1>21, <1>22, <1>23, <1>24, <1>27 DEF JobStep
<1> QED BY <1>3, <1>4, <1>5, <1>6, <1>7, <1>13, <1>25, <1>26, <1>27, TimerExpires DEF Next

-----------------------------------------------------------------------------
(* Who has a frame                                                         *)

NoRoot == {"new", "done", "failed", "dropped"}
WithChild == {"await", "child", "timer", "insert", "suspended", "fired", "final", "resumed", "orphan"}

Frames ==
    \A j \in Jobs : /\ frame[j]["root"] # NoBlock <=> pc[j] \notin NoRoot
                    /\ frame[j]["child"] # NoBlock <=> pc[j] \in WithChild

LEMMA FramesKept ==
    ASSUME ControlTypes, PInv, Frames, UNCHANGED <<pool, frame>>, NEW j \in Jobs, NEW l, Goto(j, l),
           l \in NoRoot <=> pc[j] \in NoRoot, l \in WithChild <=> pc[j] \in WithChild
    PROVE  PInv' /\ Frames'
<1>1. pc'[j] = l /\ \A i \in Jobs : i # j => pc'[i] = pc[i] BY DEF ControlTypes, Goto
<1> QED BY <1>1, PoolUnchanged DEF Frames

\* One of the frames of j is allocated or freed.
LEMMA FramesChanged ==
    ASSUME ControlTypes, Frames, NEW j \in Jobs, NEW p \in Part, NEW l, Goto(j, l),
           \A i \in Jobs, q \in Part : (i # j \/ q # p) => frame'[i][q] = frame[i][q],
           p = "root" => /\ frame'[j]["root"] # NoBlock <=> l \notin NoRoot
                         /\ l \in WithChild <=> pc[j] \in WithChild,
           p = "child" => /\ frame'[j]["child"] # NoBlock <=> l \in WithChild
                          /\ l \in NoRoot <=> pc[j] \in NoRoot
    PROVE  Frames'
<1>1. pc'[j] = l /\ \A i \in Jobs : i # j => pc'[i] = pc[i] BY DEF ControlTypes, Goto
<1>2. "root" \in Part /\ "child" \in Part /\ (p = "root" \/ p = "child") BY DEF Part
<1>3. ASSUME NEW i \in Jobs, i # j
      PROVE  /\ frame'[i]["root"] # NoBlock <=> pc'[i] \notin NoRoot
             /\ frame'[i]["child"] # NoBlock <=> pc'[i] \in WithChild
    BY <1>1, <1>2, <1>3 DEF Frames
<1>4. /\ frame'[j]["root"] # NoBlock <=> pc'[j] \notin NoRoot
      /\ frame'[j]["child"] # NoBlock <=> pc'[j] \in WithChild
    BY <1>1, <1>2 DEF Frames
<1> QED BY <1>3, <1>4 DEF Frames

LEMMA FramesNext == ASSUME CInv, PInv, Frames, Next PROVE PInv' /\ Frames'
<1>1. ControlTypes /\ Events BY DEF CInv
<1>2. "root" \in Part /\ "child" \in Part BY DEF Part
<1>3. ASSUME UNCHANGED <<pool, frame, pc>> PROVE PInv' /\ Frames'
    BY <1>3, PoolUnchanged DEF Frames
<1>4. CASE PoolInit BY <1>4, PoolOfInit DEF PoolInit, Frames
<1>5. CASE PoolDestroy BY <1>5, PoolOfDestroy DEF PoolDestroy, Frames
<1>6. CASE RunBegin \/ Stop \/ EpollWait \/ PollInterrupted
    BY <1>3, <1>6 DEF RunBegin, Stop, EpollWait, PollInterrupted, coroutines
<1>7. CASE LoopStep
    <2>1. CASE ResumeCoro
        <3>1. loop = "resume" /\ Goto(coro, "fired") /\ UNCHANGED <<pool, frame>>
            BY <2>1 DEF ResumeCoro, coroutines
        <3>2. coro \in Jobs /\ pc[coro] = "suspended" BY <1>1, <3>1 DEF Events
        <3> QED BY <1>1, <3>1, <3>2, FramesKept DEF NoRoot, WithChild
    <2>2. CASE RunTest \/ PollBegin \/ TakeEvent \/ PollEnd
        BY <1>3, <2>2 DEF RunTest, PollBegin, TakeEvent, PollEnd, coroutines
    <2> QED BY <1>7, <2>1, <2>2 DEF LoopStep
<1>8. ASSUME NEW j \in Jobs, StartJob(j) PROVE PInv' /\ Frames'
    <2>1. pc[j] = "new" /\ frame[j]["root"] = NoBlock BY <1>8 DEF StartJob, Frames, NoRoot
    <2>2. CASE s_free_list # <<>> /\ Allocate(j, "root") /\ Goto(j, "root")
        <3>1. /\ PInv' /\ frame'[j]["root"] # NoBlock
              /\ \A i \in Jobs, q \in Part : (i # j \/ q # "root") => frame'[i][q] = frame[i][q]
            BY <1>2, <2>1, <2>2, PoolAllocate
        <3> QED BY <1>1, <1>2, <2>1, <2>2, <3>1, FramesChanged DEF NoRoot, WithChild
    <2>3. CASE Goto(j, "failed") /\ UNCHANGED <<pool, frame>>
        BY <1>1, <2>1, <2>3, FramesKept DEF NoRoot, WithChild
    <2> QED BY <1>8, <2>2, <2>3 DEF StartJob, CanAllocate
<1>9. ASSUME NEW j \in Jobs, CallTask(j) PROVE PInv' /\ Frames'
    <2>1. pc[j] = "root" /\ frame[j]["child"] = NoBlock BY <1>9 DEF CallTask, Frames, WithChild
    <2>2. CASE s_free_list # <<>> /\ Allocate(j, "child") /\ Goto(j, "await")
        <3>1. /\ PInv' /\ frame'[j]["child"] # NoBlock
              /\ \A i \in Jobs, q \in Part : (i # j \/ q # "child") => frame'[i][q] = frame[i][q]
            BY <1>2, <2>1, <2>2, PoolAllocate
        <3> QED BY <1>1, <1>2, <2>1, <2>2, <3>1, FramesChanged DEF NoRoot, WithChild
    <2>3. CASE Goto(j, "caught") /\ UNCHANGED <<pool, frame>>
        BY <1>1, <2>1, <2>3, FramesKept DEF NoRoot, WithChild
    <2> QED BY <1>9, <2>2, <2>3 DEF CallTask, CanAllocate
<1>10. ASSUME NEW j \in Jobs, TaskResult(j) PROVE PInv' /\ Frames'
    <2>1. PICK l \in {"caught", "end"} : Goto(j, l) BY <1>10 DEF TaskResult
    <2>2. pc[j] = "resumed" /\ frame[j]["child"] # NoBlock BY <1>10 DEF TaskResult, Frames, WithChild
    <2>3. /\ PInv' /\ frame'[j]["child"] = NoBlock
          /\ \A i \in Jobs, q \in Part : (i # j \/ q # "child") => frame'[i][q] = frame[i][q]
        BY <1>2, <1>10, <2>2, PoolFree DEF TaskResult
    <2> QED BY <1>1, <1>2, <2>1, <2>2, <2>3, FramesChanged DEF NoRoot, WithChild
<1>11. ASSUME NEW j \in Jobs, EndJob(j) PROVE PInv' /\ Frames'
    <2>1. PICK l \in {"done", "failed"} : Goto(j, l) BY <1>11 DEF EndJob
    <2>2. pc[j] \in {"end", "caught"} /\ frame[j]["root"] # NoBlock BY <1>11 DEF EndJob, Frames, NoRoot
    <2>3. /\ PInv' /\ frame'[j]["root"] = NoBlock
          /\ \A i \in Jobs, q \in Part : (i # j \/ q # "root") => frame'[i][q] = frame[i][q]
        BY <1>2, <1>11, <2>2, PoolFree DEF EndJob
    <2> QED BY <1>1, <1>2, <2>1, <2>2, <2>3, FramesChanged DEF NoRoot, WithChild
<1>12. ASSUME NEW j \in Jobs, DropJob(j) PROVE PInv' /\ Frames'
    <2>1. /\ pc[j] = "suspended" /\ frame[j]["root"] # NoBlock /\ frame[j]["child"] # NoBlock
        BY <1>12 DEF DropJob, Frames, NoRoot, WithChild
    <2>2. /\ PInv' /\ frame'[j]["root"] = NoBlock /\ frame'[j]["child"] = NoBlock
          /\ \A i \in Jobs, q \in Part : i # j => frame'[i][q] = frame[i][q]
        BY <1>12, <2>1, PoolFreeBoth DEF DropJob
    <2>3. pc'[j] = "dropped" /\ \A i \in Jobs : i # j => pc'[i] = pc[i]
        BY <1>1, <1>12 DEF DropJob, ControlTypes, Goto
    <2> QED BY <1>2, <2>2, <2>3 DEF Frames, NoRoot, WithChild
<1>13. ASSUME NEW j \in Jobs, NEW l \in WithChild, pc[j] \in WithChild, Goto(j, l), UNCHANGED <<pool, frame>>
       PROVE  PInv' /\ Frames'
    BY <1>1, <1>13, FramesKept DEF NoRoot, WithChild
<1>14. ASSUME NEW j \in Jobs,
              AwaitTask(j) \/ NewTimer(j) \/ EpollAdd(j) \/ InsertTimer(j) \/ TimerFired(j)
       PROVE  PInv' /\ Frames'
    BY <1>13, <1>14 DEF AwaitTask, NewTimer, EpollAdd, InsertTimer, TimerFired, Throw, WithChild
<1>15. ASSUME NEW j \in Jobs, FinalSuspend(j) PROVE PInv' /\ Frames'
    <2>1. PICK l \in {"resumed", "orphan"} : Goto(j, l) BY <1>15 DEF FinalSuspend
    <2> QED BY <1>13, <1>15, <2>1 DEF FinalSuspend, WithChild
<1>16. ASSUME NEW j \in Jobs, Expire(j) PROVE PInv' /\ Frames' BY <1>3, <1>16 DEF Expire
<1>17. ASSUME NEW j \in Jobs, JobStep(j) PROVE PInv' /\ Frames'
    BY <1>9, <1>10, <1>11, <1>14, <1>15, <1>17 DEF JobStep
<1> QED BY <1>4, <1>5, <1>6, <1>7, <1>8, <1>12, <1>16, <1>17 DEF Next

-----------------------------------------------------------------------------
(* How a job ends                                                          *)

Threw(j) == m_exception[j] = TRUE

OtherTypes ==
    /\ m_continuation \in [Jobs -> BOOLEAN] /\ m_exception \in [Jobs -> BOOLEAN]
    /\ running \in BOOLEAN /\ single \in BOOLEAN /\ fired \subseteq Jobs /\ missed \subseteq Jobs

Before == {"new", "root", "await", "child", "timer", "insert", "suspended"}

Outcome(j) ==
    /\ pc[j] \in Before => ~Threw(j) /\ j \notin fired
    /\ pc[j] = "fired" => ~Threw(j) /\ j \in fired
    /\ pc[j] \in {"final", "resumed"} => (Threw(j) <=> j \notin fired)
    /\ pc[j] \in {"end", "done"} => j \in fired
    /\ pc[j] \in {"caught", "failed", "dropped"} => j \notin fired

HInv == OtherTypes /\ \A j \in Jobs : Outcome(j)

\* One job moves on, and no other is resumed or throws.
LEMMA OutcomeMoves ==
    ASSUME ControlTypes, HInv, NEW j \in Jobs, NEW l, Goto(j, l), UNCHANGED fired,
           OtherTypes', \A i \in Jobs : i # j => m_exception'[i] = m_exception[i],
           Outcome(j)'
    PROVE  HInv'
<1>1. \A i \in Jobs : i # j => pc'[i] = pc[i] BY DEF ControlTypes, Goto
<1>2. ASSUME NEW i \in Jobs, i # j PROVE Outcome(i)'
    BY <1>1, <1>2 DEF HInv, Outcome, Threw
<1> QED BY <1>2 DEF HInv

LEMMA OutcomeNext == ASSUME CInv, HInv, Next PROVE HInv'
<1>1. ControlTypes /\ Events /\ OtherTypes /\ \A j \in Jobs : Outcome(j) BY DEF CInv, HInv
<1>2. ASSUME UNCHANGED <<promise, pc, single, fired>>, running' \in BOOLEAN, missed' \subseteq Jobs
      PROVE  HInv'
    BY <1>1, <1>2, Zenon DEF HInv, OtherTypes, Outcome, Threw, promise
<1>3. CASE PoolInit \/ PoolDestroy BY <1>1, <1>2, <1>3 DEF PoolInit, PoolDestroy, eloop, OtherTypes
<1>4. CASE RunBegin \/ Stop \/ EpollWait \/ PollInterrupted
    BY <1>1, <1>2, <1>4 DEF RunBegin, Stop, EpollWait, PollInterrupted, coroutines, OtherTypes
<1>5. CASE LoopStep
    <2>1. CASE ResumeCoro
        <3>1. /\ loop = "resume" /\ Goto(coro, "fired") /\ fired' = fired \cup {coro}
              /\ UNCHANGED <<promise, single, running, missed>>
            BY <2>1 DEF ResumeCoro, coroutines
        <3>2. PICK j \in Jobs : j = coro /\ pc[j] = "suspended" BY <1>1, <3>1 DEF Events
        <3>3. pc'[j] = "fired" /\ \A i \in Jobs : i # j => pc'[i] = pc[i]
            BY <1>1, <3>1, <3>2 DEF ControlTypes, Goto
        <3>4. OtherTypes' BY <1>1, <3>1, <3>2 DEF OtherTypes, promise
        <3>5. ASSUME NEW i \in Jobs PROVE Outcome(i)'
            <4>1. (Threw(i)' <=> Threw(i)) /\ (i # j => (i \in fired' <=> i \in fired)) /\ j \in fired'
                BY <3>1, <3>2 DEF Threw, promise
            <4>2. CASE i = j
                <5>1. ~Threw(j) BY <1>1, <3>2 DEF Outcome, Before
                <5> QED BY <3>3, <4>1, <4>2, <5>1 DEF Outcome, Before
            <4>3. CASE i # j BY <1>1, <3>3, <4>1, <4>3 DEF Outcome
            <4> QED BY <4>2, <4>3
        <3> QED BY <3>4, <3>5 DEF HInv
    <2>2. CASE TakeEvent
        <3>1. missed' \subseteq Jobs BY <1>1, <2>2 DEF TakeEvent, OtherTypes
        <3> QED BY <1>1, <1>2, <2>2, <3>1 DEF TakeEvent, coroutines, OtherTypes
    <2>3. CASE RunTest \/ PollBegin \/ PollEnd
        BY <1>1, <1>2, <2>3 DEF RunTest, PollBegin, PollEnd, coroutines, OtherTypes
    <2> QED BY <1>5, <2>1, <2>2, <2>3 DEF LoopStep
<1>6. ASSUME NEW j \in Jobs, NEW l, Goto(j, l), pc'[j] = l => Outcome(j)',
             UNCHANGED <<m_exception, eloop, single>>, m_continuation' \in [Jobs -> BOOLEAN]
      PROVE  HInv'
    <2>1. pc'[j] = l BY <1>1, <1>6 DEF ControlTypes, Goto
    <2>2. OtherTypes' BY <1>1, <1>6 DEF OtherTypes, eloop
    <2> QED BY <1>1, <1>6, <2>1, <2>2, OutcomeMoves DEF eloop
<1>7. ASSUME NEW j \in Jobs, UNCHANGED <<m_exception, eloop>>
      PROVE  (Threw(j)' <=> Threw(j)) /\ (j \in fired' <=> j \in fired)
    BY <1>7 DEF Threw, eloop
<1>8. ASSUME NEW j \in Jobs, NEW l, Goto(j, l), UNCHANGED <<promise, eloop, single>>,
             \/ pc[j] \in Before /\ l \in Before \cup {"caught", "failed", "dropped"}
             \/ pc[j] \in {"fired", "final"} /\ l \in {"final", "resumed", "orphan"}
             \/ pc[j] = "resumed" /\ l = "caught" /\ Threw(j)
             \/ pc[j] = "resumed" /\ l = "end" /\ ~Threw(j)
             \/ pc[j] = "end" /\ l = "done"
             \/ pc[j] = "caught" /\ l = "failed"
      PROVE  HInv'
    <2>1. UNCHANGED m_exception /\ m_continuation' \in [Jobs -> BOOLEAN] /\ Outcome(j)
        BY <1>1, <1>8 DEF promise, OtherTypes
    <2>2. pc'[j] = l BY <1>1, <1>8 DEF ControlTypes, Goto
    <2>3. Outcome(j)' BY <1>7, <1>8, <2>1, <2>2 DEF Outcome, Before
    <2> QED BY <1>6, <1>8, <2>1, <2>3
<1>9. ASSUME NEW j \in Jobs, pc[j] \in Before, Throw(j), UNCHANGED <<m_continuation, eloop, single>>
      PROVE  HInv'
    <2>1. /\ Goto(j, "final") /\ pc'[j] = "final" /\ m_exception' = [m_exception EXCEPT ![j] = TRUE]
        BY <1>1, <1>9 DEF Throw, ControlTypes, Goto
    <2>2. /\ m_exception' \in [Jobs -> BOOLEAN] /\ Threw(j)'
          /\ \A i \in Jobs : i # j => m_exception'[i] = m_exception[i]
        BY <1>1, <2>1 DEF OtherTypes, Threw
    <2>3. OtherTypes' /\ UNCHANGED fired BY <1>1, <1>9, <2>2 DEF OtherTypes, eloop
    <2>4. j \notin fired' BY <1>1, <1>9, <2>3 DEF Outcome
    <2>5. Outcome(j)' BY <2>1, <2>2, <2>4 DEF Outcome, Before
    <2> QED BY <1>1, <2>1, <2>2, <2>3, <2>5, OutcomeMoves
<1>10. ASSUME NEW j \in Jobs, StartJob(j) \/ CallTask(j) \/ InsertTimer(j) \/ TimerFired(j) \/ DropJob(j)
       PROVE  HInv'
    BY <1>8, <1>10 DEF StartJob, CallTask, InsertTimer, TimerFired, DropJob, Before
<1>11. ASSUME NEW j \in Jobs, AwaitTask(j) PROVE HInv'
    <2>1. /\ pc[j] = "await" /\ Goto(j, "child") /\ UNCHANGED <<m_exception, eloop, single>>
          /\ m_continuation' \in [Jobs -> BOOLEAN]
        BY <1>1, <1>11 DEF AwaitTask, OtherTypes
    <2>2. pc'[j] = "child" => Outcome(j)' BY <1>1, <1>7, <2>1 DEF Outcome, Before
    <2> QED BY <1>6, <2>1, <2>2
<1>12. ASSUME NEW j \in Jobs, NewTimer(j) PROVE HInv'
    <2>1. pc[j] = "child" /\ UNCHANGED <<m_continuation, eloop, single>> BY <1>12 DEF NewTimer
    <2>2. CASE Throw(j) BY <1>9, <2>1, <2>2 DEF Before
    <2>3. CASE Goto(j, "timer") /\ UNCHANGED m_exception BY <1>8, <2>1, <2>3 DEF Before, promise
    <2> QED BY <1>12, <2>2, <2>3 DEF NewTimer
<1>13. ASSUME NEW j \in Jobs, EpollAdd(j) PROVE HInv'
    <2>1. pc[j] = "timer" /\ UNCHANGED <<m_continuation, eloop, single>> BY <1>13 DEF EpollAdd
    <2>2. CASE Throw(j) BY <1>9, <2>1, <2>2 DEF Before
    <2>3. CASE Goto(j, "insert") /\ UNCHANGED m_exception BY <1>8, <2>1, <2>3 DEF Before, promise
    <2> QED BY <1>13, <2>2, <2>3 DEF EpollAdd
<1>14. ASSUME NEW j \in Jobs, FinalSuspend(j) PROVE HInv'
    <2>1. PICK l \in {"resumed", "orphan"} : Goto(j, l) BY <1>14 DEF FinalSuspend
    <2> QED BY <1>8, <1>14, <2>1 DEF FinalSuspend
<1>15. ASSUME NEW j \in Jobs, TaskResult(j) PROVE HInv'
    <2>1. m_exception[j] \in BOOLEAN BY <1>1 DEF OtherTypes
    <2>2. CASE m_exception[j] = TRUE
        <3>1. Goto(j, "caught") BY <1>15, <2>2 DEF TaskResult
        <3> QED BY <1>8, <1>15, <2>2, <3>1 DEF TaskResult, Threw
    <2>3. CASE m_exception[j] = FALSE
        <3>1. Goto(j, "end") BY <1>15, <2>3 DEF TaskResult
        <3> QED BY <1>8, <1>15, <2>3, <3>1 DEF TaskResult, Threw
    <2> QED BY <2>1, <2>2, <2>3
<1>16. ASSUME NEW j \in Jobs, EndJob(j) PROVE HInv'
    BY <1>8, <1>16 DEF EndJob
<1>17. ASSUME NEW j \in Jobs, Expire(j) PROVE HInv'
    BY <1>1, <1>2, <1>17 DEF Expire, eloop, OtherTypes
<1>18. ASSUME NEW j \in Jobs, JobStep(j) PROVE HInv'
    BY <1>10, <1>11, <1>12, <1>13, <1>14, <1>15, <1>16, <1>18 DEF JobStep
<1> QED BY <1>3, <1>4, <1>5, <1>10, <1>17, <1>18 DEF Next

-----------------------------------------------------------------------------
(* What the invariants say                                                 *)

RuntimeInv == PInv /\ CInv /\ Frames /\ HInv

LEMMA RuntimeInvariant == Spec => []RuntimeInv
<1>1. Init => RuntimeInv
    <2> SUFFICES ASSUME Init PROVE RuntimeInv OBVIOUS
    <2>1. Frames BY DEF Init, Frames, NoRoot, WithChild, Part
    <2>2. OtherTypes BY DEF Init, OtherTypes
    <2>3. \A j \in Jobs : Outcome(j) BY DEF Init, Outcome, Threw, Before
    <2> QED BY <2>1, <2>2, <2>3, PoolStart, ControlStart DEF RuntimeInv, HInv
<1>2. RuntimeInv /\ [Next]_vars => RuntimeInv'
    <2> SUFFICES ASSUME RuntimeInv, [Next]_vars PROVE RuntimeInv' OBVIOUS
    <2>1. CASE Next BY <2>1, FramesNext, ControlNext, OutcomeNext DEF RuntimeInv
    <2>2. CASE UNCHANGED vars
        <3>1. PInv' /\ CInv' BY <2>2, PoolUnchanged, ControlUnchanged DEF RuntimeInv, vars, eloop
        <3>2. Frames' BY <2>2 DEF RuntimeInv, Frames, vars
        <3>3. HInv'
            BY <2>2, Zenon DEF RuntimeInv, HInv, OtherTypes, Outcome, Threw, vars, promise, eloop
        <3> QED BY <3>1, <3>2, <3>3 DEF RuntimeInv
    <2> QED BY <2>1, <2>2
<1> QED BY <1>1, <1>2, PTL DEF Spec

\* Types; a job is on a thread exactly while it has something to do there, and no
\* thread executes two jobs.
THEOREM RuntimeTypes == Spec => []TypeOK
<1>1. RuntimeInv => TypeOK
    BY DEF RuntimeInv, PInv, PoolTypes, CInv, ControlTypes, OnThreads, Off, HInv, OtherTypes, TypeOK
<1> QED BY <1>1, RuntimeInvariant, PTL

\* CoroutinePoolAllocator gives a block to one frame at a time and gets each one back, over
\* any number of pools, whatever the order in which jobs fail, end or are dropped.
THEOREM BlocksKept == Spec => []BlockInOnePlace
<1>1. RuntimeInv => BlockInOnePlace
    <2> SUFFICES ASSUME RuntimeInv PROVE BlockInOnePlace OBVIOUS
    <2>1. PoolTypes /\ BInv /\ Frames BY DEF RuntimeInv, PInv
    <2> DEFINE free == {s_free_list[i] : i \in DOMAIN s_free_list}
    <2>2. \A b : b \in free <=> In(s_free_list, b) BY DEF In
    <2>3. ASSUME NEW b PROVE b \in Live <=> Used(b)
        <3>1. b \in UNION {{frame[j][p] : p \in Part} : j \in Jobs}
                <=> \E j \in Jobs, p \in Part : frame[j][p] = b
            OBVIOUS
        <3> QED BY <3>1 DEF Live, Used
    <2> HIDE DEF free
    <2>4. free \cap Live = {} BY <2>1, <2>2, <2>3 DEF BInv
    <2>5. free \cup Live = IF s_initialized THEN {pools} \X (0 .. max_coroutines - 1) ELSE {}
        <3>1. \A b : b \in free \cup Live <=> InPool(b) BY <2>1, <2>2, <2>3 DEF BInv
        <3>2. CASE s_initialized
            <4>1. \A b : InPool(b) <=> b \in {pools} \X (0 .. max_coroutines - 1)
                BY <3>2 DEF InPool
            <4>2. free \cup Live = {pools} \X (0 .. max_coroutines - 1) BY <3>1, <4>1, Zenon
            <4> QED BY <3>2, <4>2
        <3>3. CASE ~s_initialized
            <4>1. free \cup Live = {} BY <3>1, <3>3 DEF InPool
            <4> QED BY <3>3, <4>1
        <3> QED BY <3>2, <3>3
    <2> QED BY <2>1, <2>4, <2>5 DEF BlockInOnePlace, BInv, Once, Frames, NoRoot, WithChild, free
<1> QED BY <1>1, RuntimeInvariant, PTL

\* EventLoop::poll resumes a coroutine only for the expiry of the timer it awaits, although
\* descriptors are used again and the entries of dropped coroutines stay in its map; a job
\* ends with a value exactly when it was resumed so.
THEOREM OwnTimerOnly == Spec => []ResumedByOwnTimer
<1>1. RuntimeInv => ResumedByOwnTimer
    BY DEF RuntimeInv, CInv, Events, HInv, Outcome, ResumedByOwnTimer
<1> QED BY <1>1, RuntimeInvariant, PTL
=============================================================================
