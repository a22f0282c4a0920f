---------------------------- MODULE HeapProofs -----------------------------
(***************************************************************************)
(* Proofs about module Heap, for every size of the arena, of the header    *)
(* and of size_t: the blocks tile the arena, clients own disjoint blocks   *)
(* that are large enough, and no two neighbours are free.                  *)
(*                                                                         *)
(* coalesce is a fold over the list.  What a fold computes takes an        *)
(* induction; it is made here with sets in the place of predicates (a set  *)
(* of numbers that holds 0 and is closed under + 1 holds them all), first  *)
(* to show that the function behind the fold exists, then for what the     *)
(* list is after each block.                                               *)
(***************************************************************************)
EXTENDS Heap, TLAPS, WellFoundedInduction

(* The assumptions on the constants, in linear form. *)
LEMMA Sizes ==
  /\ HEAP_SIZE \in Nat /\ HEADER \in Nat /\ ALIGNMENT \in Nat /\ WORD \in Nat
  /\ 0 < ALIGNMENT /\ ALIGNMENT < HEADER /\ HEADER < HEAP_SIZE
  /\ HEAP_SIZE + HEADER + ALIGNMENT < WORD
BY HeapAssumption

(* Induction on the natural numbers. *)
LEMMA SetInduction ==
  ASSUME NEW S, 0 \in S, \A k \in Nat : k \in S => k + 1 \in S
  PROVE  Nat \subseteq S
<1> DEFINE LT == OpToRel(<, Nat)
           T  == Nat \ S
<1> SUFFICES ASSUME T # {} PROVE FALSE
  OBVIOUS
<1>1. PICK x \in T : \A y \in T : ~ (<<y, x>> \in LT)
  BY NatLessThanWellFounded, WFMin
<1>2. x \in Nat /\ x \notin S /\ x # 0
  OBVIOUS
<1>3. x - 1 \in Nat /\ x - 1 < x
  BY <1>2
<1>4. <<x - 1, x>> \in LT
  BY <1>2, <1>3 DEF OpToRel
<1>5. x - 1 \in S
  BY <1>1, <1>3, <1>4
<1>6. (x - 1) + 1 \in S
  BY <1>3, <1>5
<1> QED
  BY <1>2, <1>3, <1>6

LEMMA MaxOfNext ==
  ASSUME NEW m \in Nat, NEW s \in SUBSET (1 .. m + 1), m + 1 \in s
  PROVE  Max(s) = m + 1
<1>1. \A y \in s : m + 1 >= y
  OBVIOUS
<1>2. Max(s) \in s /\ Max(s) >= m + 1
  BY <1>1 DEF Max
<1>3. Max(s) \in 1 .. m + 1
  BY <1>2
<1> QED
  BY <1>2, <1>3

(* A set of indices that is not empty has a greatest element. *)
LEMMA MaxOfIndices ==
  ASSUME NEW m \in Nat, NEW s \in SUBSET (1 .. m), s # {}
  PROVE  Max(s) \in s
<1> DEFINE P == {k \in Nat : \A t \in SUBSET (1 .. k) :
                   t # {} => \E x \in t : \A y \in t : x >= y}
<1>1. 0 \in P
  <2>1. 1 .. 0 = {}
    OBVIOUS
  <2> QED
    BY <2>1
<1>2. ASSUME NEW k \in Nat, k \in P
      PROVE  k + 1 \in P
  <2> SUFFICES ASSUME NEW t \in SUBSET (1 .. k + 1), t # {}
               PROVE  \E x \in t : \A y \in t : x >= y
    OBVIOUS
  <2>1. CASE k + 1 \in t
    BY <2>1
  <2>2. CASE k + 1 \notin t
    <3>1. t \in SUBSET (1 .. k)
      BY <2>2
    <3> QED
      BY <1>2, <3>1
  <2> QED
    BY <2>1, <2>2
<1> HIDE DEF P
<1>3. m \in P
  BY <1>1, <1>2, SetInduction
<1>4. \E x \in s : \A y \in s : x >= y
  BY <1>3 DEF P
<1> QED
  BY <1>4 DEF Max

-----------------------------------------------------------------------------
(* The fold behind coalesce *)

Block == [at : Int, size : Nat, free : {0, 1}]

LEMMA BlockFields ==
  ASSUME NEW b \in Block
  PROVE  b.at \in Int /\ b.size \in Nat /\ b.free \in {0, 1}
BY DEF Block

Resize(list, i, w) == [list EXCEPT ![i].size = w]

(* z is the list with another size of block i. *)
IsResized(z, list, i, w) ==
  /\ z \in Seq(Block) /\ Len(z) = Len(list)
  /\ z[i] = [at |-> list[i].at, size |-> w, free |-> list[i].free]
  /\ \A j \in 1 .. Len(list) : j # i => z[j] = list[j]

LEMMA Resized ==
  ASSUME NEW list \in Seq(Block), NEW i \in 1 .. Len(list), NEW w \in Nat
  PROVE  IsResized(Resize(list, i, w), list, i, w)
<1> DEFINE r == [list[i] EXCEPT !.size = w]
<1>1. list[i] \in Block
  OBVIOUS
<1>2. r \in Block /\ r = [at |-> list[i].at, size |-> w, free |-> list[i].free]
  BY <1>1 DEF Block
<1> HIDE DEF r
<1>3. [list EXCEPT ![i] = r] \in Seq(Block)
  BY <1>2
<1>4. Resize(list, i, w) = [list EXCEPT ![i] = r]
  BY DEF Resize, r
<1> QED
  BY <1>2, <1>3, <1>4 DEF IsResized

(* The merged list after the blocks whose indices are in s. *)
MergedUpTo(f, list, s) ==
  IF s = {} THEN <<>> ELSE Merge(f[s \ {Max(s)}], list[Max(s)])

Passes(list) ==
  CHOOSE f : f = [s \in SUBSET DOMAIN list |->
                    IF s = {} THEN <<>>
                    ELSE Merge(f[s \ {Max(s)}], list[Max(s)])]

LEMMA CoalesceIsLastPass ==
  ASSUME NEW list
  PROVE  coalesce(list) = Passes(list)[DOMAIN list]
BY DEF coalesce, FoldLeft, MapThenFoldSet, Passes

LEMMA MergeType ==
  ASSUME NEW done \in Seq(Block), NEW b \in Block
  PROVE  Merge(done, b) \in Seq(Block)
<1>1. CASE done # <<>> /\ Last(done).free = 1 /\ b.free = 1
  <2>1. Len(done) \in 1 .. Len(done) /\ done[Len(done)] \in Block
    BY <1>1
  <2>2. done[Len(done)].size + HEADER + b.size \in Nat
    <3>1. done[Len(done)].size \in Nat /\ b.size \in Nat
      BY <2>1, BlockFields
    <3>2. \A p, q \in Nat : p + HEADER + q \in Nat
      BY Sizes
    <3> QED
      BY <3>1, <3>2
  <2>3. [done[Len(done)] EXCEPT !.size = @ + HEADER + b.size] \in Block
    BY <2>1, <2>2 DEF Block
  <2> QED
    BY <1>1, <2>1, <2>3 DEF Merge
<1>2. CASE ~(done # <<>> /\ Last(done).free = 1 /\ b.free = 1)
  BY <1>2 DEF Merge
<1> QED
  BY <1>1, <1>2

(* The recursive function exists, for every list. *)
LEMMA PassesExist ==
  ASSUME NEW list \in Seq(Block)
  PROVE  \A s \in SUBSET DOMAIN list :
           Passes(list)[s] = MergedUpTo(Passes(list), list, s)
<1> DEFINE n == Len(list)
           D(m) == SUBSET (1 .. m)
           Is(f, m) == \A s \in D(m) : f[s] = MergedUpTo(f, list, s)
           Ok(m) == \E f \in [D(m) -> Seq(Block)] : Is(f, m)
           P == {m \in Nat : m <= n => Ok(m)}
<1>1. Ok(0)
  <2> DEFINE f == [s \in D(0) |-> <<>>]
  <2>1. D(0) = {{}}
    BY SMT
  <2>2. f \in [D(0) -> Seq(Block)] /\ Is(f, 0)
    BY <2>1 DEF MergedUpTo
  <2> QED
    BY <2>2
<1>2. ASSUME NEW m \in Nat, m + 1 <= n, Ok(m)
      PROVE  Ok(m + 1)
  <2>1. PICK g \in [D(m) -> Seq(Block)] : Is(g, m)
    BY <1>2
  <2> DEFINE f == [s \in D(m + 1) |->
                     IF m + 1 \in s THEN Merge(g[s \ {m + 1}], list[m + 1])
                     ELSE g[s]]
  <2>2. \A s \in D(m + 1) : s \ {m + 1} \in D(m)
    OBVIOUS
  <2>3. list[m + 1] \in Block
    <3>1. m + 1 \in 1 .. Len(list)
      BY <1>2
    <3> QED
      BY <3>1
  <2>4. f \in [D(m + 1) -> Seq(Block)]
    <3> SUFFICES ASSUME NEW s \in D(m + 1) PROVE f[s] \in Seq(Block)
      OBVIOUS
    <3>1. CASE m + 1 \in s
      BY <2>2, <2>3, <3>1, MergeType
    <3>2. CASE m + 1 \notin s
      <4>1. s \in D(m)
        BY <3>2
      <4> QED
        BY <3>2, <4>1
    <3> QED
      BY <3>1, <3>2
  <2>5. ASSUME NEW s \in D(m + 1)
        PROVE  f[s] = MergedUpTo(f, list, s)
    <3>1. CASE m + 1 \in s
      <4>1. Max(s) = m + 1
        BY <3>1, MaxOfNext
      <4>2. s \ {m + 1} \in D(m + 1) /\ m + 1 \notin s \ {m + 1}
        BY <2>2
      <4>3. f[s \ {m + 1}] = g[s \ {m + 1}]
        BY <4>2
      <4>4. f[s] = Merge(g[s \ {m + 1}], list[m + 1])
        BY <3>1
      <4> HIDE DEF f
      <4> QED
        BY <3>1, <4>1, <4>3, <4>4 DEF MergedUpTo
    <3>2. CASE m + 1 \notin s
      <4>1. s \in D(m) /\ s \in SUBSET (1 .. m)
        BY <3>2
      <4>2. f[s] = MergedUpTo(g, list, s)
        BY <2>1, <3>2, <4>1
      <4>3. s # {} => f[s \ {Max(s)}] = g[s \ {Max(s)}]
        <5>1. s \ {Max(s)} \in D(m + 1) /\ m + 1 \notin s \ {Max(s)}
          BY <3>2
        <5> QED
          BY <5>1
      <4> HIDE DEF f
      <4> QED
        BY <4>2, <4>3 DEF MergedUpTo
    <3> QED
      BY <3>1, <3>2
  <2> HIDE DEF f
  <2> QED
    BY <2>4, <2>5
<1>3. n \in Nat /\ DOMAIN list = 1 .. n
  OBVIOUS
<1> HIDE DEF Ok, n
<1>4. n \in P
  <2>1. 0 \in P /\ \A m \in Nat : m \in P => m + 1 \in P
    BY <1>1, <1>2, <1>3
  <2> HIDE DEF P
  <2> QED
    BY <1>3, <2>1, SetInduction
<1>5. PICK f \in [D(n) -> Seq(Block)] : Is(f, n)
  <2>1. Ok(n)
    BY <1>3, <1>4
  <2> QED
    BY <2>1 DEF Ok
<1>6. f = [s \in SUBSET DOMAIN list |->
             IF s = {} THEN <<>> ELSE Merge(f[s \ {Max(s)}], list[Max(s)])]
  BY <1>3, <1>5 DEF MergedUpTo
<1> DEFINE p == Passes(list)
<1>7. p = [s \in SUBSET DOMAIN list |->
             IF s = {} THEN <<>> ELSE Merge(p[s \ {Max(s)}], list[Max(s)])]
  BY <1>6 DEF Passes
<1> HIDE DEF p
<1>8. \A s \in SUBSET DOMAIN list : p[s] = MergedUpTo(p, list, s)
  BY <1>7 DEF MergedUpTo
<1> QED
  BY <1>8 DEF p

(* The list as it is when the first k blocks have been looked at. *)
Pass(list, k) == Passes(list)[1 .. k]

LEMMA PassByPass ==
  ASSUME NEW list \in Seq(Block)
  PROVE  /\ Pass(list, 0) = <<>>
         /\ \A k \in 0 .. Len(list) - 1 :
              Pass(list, k + 1) = Merge(Pass(list, k), list[k + 1])
         /\ coalesce(list) = Pass(list, Len(list))
<1>1. Pass(list, 0) = <<>>
  <2>1. 1 .. 0 = {} /\ {} \in SUBSET DOMAIN list
    OBVIOUS
  <2>2. Passes(list)[{}] = <<>>
    BY <2>1, PassesExist DEF MergedUpTo
  <2> QED
    BY <2>1, <2>2 DEF Pass
<1>2. ASSUME NEW k \in 0 .. Len(list) - 1
      PROVE  Pass(list, k + 1) = Merge(Pass(list, k), list[k + 1])
  <2> DEFINE s == 1 .. k + 1
  <2>1. k \in Nat /\ k + 1 \in s /\ s # {} /\ s \ {k + 1} = 1 .. k
    OBVIOUS
  <2>2. s \in SUBSET DOMAIN list
    OBVIOUS
  <2>3. Max(s) = k + 1
    BY <2>1, MaxOfNext
  <2> HIDE DEF s
  <2>4. Passes(list)[s] = Merge(Passes(list)[s \ {Max(s)}], list[Max(s)])
    BY <2>1, <2>2, PassesExist DEF MergedUpTo
  <2> QED
    BY <2>1, <2>3, <2>4 DEF Pass, s
<1>3. coalesce(list) = Pass(list, Len(list))
  <2>1. DOMAIN list = 1 .. Len(list)
    OBVIOUS
  <2> QED
    BY <2>1, CoalesceIsLastPass DEF Pass
<1> QED
  BY <1>1, <1>2, <1>3

-----------------------------------------------------------------------------
(* What coalesce preserves and what it achieves *)

End(b) == b.at + HEADER + b.size

(* Each block starts where the previous one ends. *)
Adjacent(list) ==
  \A i \in 1 .. Len(list) - 1 : list[i + 1].at = End(list[i])

(* No two neighbours are free. *)
Merged(list) ==
  \A i \in 1 .. Len(list) - 1 : list[i].free = 0 \/ list[i + 1].free = 0

UsedBlocks(list) ==
  {list[i] : i \in {j \in 1 .. Len(list) : list[j].free = 0}}

(* The list m is what blocks 1 .. k of the list come to. *)
PassInv(list, k, m) ==
  /\ m \in Seq(Block) /\ Len(m) >= 1
  /\ Adjacent(m) /\ Merged(m)
  /\ m[1].at = list[1].at
  /\ End(m[Len(m)]) = End(list[k])
  /\ m[Len(m)].free = list[k].free
  /\ \A b : b \in UsedBlocks(m)
       <=> \E j \in 1 .. k : list[j].free = 0 /\ b = list[j]

(* One block more. *)
LEMMA MergeStep ==
  ASSUME NEW list \in Seq(Block), Adjacent(list),
         NEW k \in 1 .. Len(list) - 1, NEW m, PassInv(list, k, m)
  PROVE  PassInv(list, k + 1, Merge(m, list[k + 1]))
<1> DEFINE b == list[k + 1]
           l == Len(m)
<1>1. /\ b \in Block /\ list[k] \in Block /\ b.at = End(list[k])
      /\ k \in Nat /\ k + 1 \in Nat
  BY DEF Adjacent
<1>2. /\ m \in Seq(Block) /\ l \in Nat /\ l >= 1 /\ m[l] \in Block
      /\ Adjacent(m) /\ Merged(m) /\ m[1].at = list[1].at
      /\ End(m[l]) = b.at /\ m[l].free = list[k].free
  BY <1>1 DEF PassInv
<1>3. \A x : x \in UsedBlocks(m)
        <=> \E j \in 1 .. k : list[j].free = 0 /\ x = list[j]
  BY DEF PassInv
<1>4. \A x : (\E j \in 1 .. k + 1 : list[j].free = 0 /\ x = list[j])
        <=> \/ \E j \in 1 .. k : list[j].free = 0 /\ x = list[j]
            \/ b.free = 0 /\ x = b
  BY <1>1
<1>5. CASE m[l].free = 1 /\ b.free = 1
  <2> DEFINE w == m[l].size + HEADER + b.size
             z == [m EXCEPT ![l].size = w]
  <2>1. Merge(m, b) = z
    BY <1>2, <1>5 DEF Merge, Last
  <2>2. w \in Nat
    <3>1. m[l].size \in Nat /\ b.size \in Nat
      BY <1>1, <1>2, BlockFields
    <3>2. \A p, q \in Nat : p + HEADER + q \in Nat
      BY Sizes
    <3> QED
      BY <3>1, <3>2
  <2> HIDE DEF w
  <2>3. /\ z \in Seq(Block) /\ Len(z) = l
        /\ \A i \in 1 .. l : /\ z[i].at = m[i].at /\ z[i].free = m[i].free
                             /\ i # l => z[i] = m[i]
        /\ z[l].size = w
    <3>1. l \in 1 .. Len(m) /\ Len(m) = l
      BY <1>2
    <3> HIDE DEF l
    <3>2. /\ m \in Seq(Block) /\ w \in Nat /\ l \in 1 .. Len(m)
          /\ z = Resize(m, l, w)
      BY <1>2, <2>2, <3>1 DEF Resize
    <3> HIDE DEF z
    <3>3. IsResized(z, m, l, w)
      BY <3>2, Resized
    <3> QED
      BY <3>1, <3>3 DEF IsResized
  <2> HIDE DEF z
  <2>4. End(z[l]) = End(b)
    <3>1. End(z[l]) = m[l].at + HEADER + (m[l].size + HEADER + b.size)
      BY <1>2, <2>3 DEF End, w
    <3>2. b.at = m[l].at + HEADER + m[l].size
      BY <1>2 DEF End
    <3>3. m[l].at \in Int /\ m[l].size \in Int /\ b.size \in Int
      BY <1>1, <1>2, BlockFields
    <3>4. \A p, q, r \in Int :
            p + HEADER + (q + HEADER + r) = (p + HEADER + q) + HEADER + r
      BY Sizes
    <3> QED
      BY <3>1, <3>2, <3>3, <3>4 DEF End
  <2>5. Adjacent(z) /\ Merged(z)
    BY <1>2, <2>3 DEF Adjacent, Merged, End
  <2>6. \A x : x \in UsedBlocks(z) <=> x \in UsedBlocks(m)
    <3>1. \A i \in 1 .. l : z[i].free = 0 <=> m[i].free = 0
      BY <2>3
    <3>2. \A i \in 1 .. l : z[i].free = 0 => z[i] = m[i]
      BY <1>2, <1>5, <2>3
    <3>3. \A x : x \in UsedBlocks(z)
            <=> \E i \in 1 .. l : z[i].free = 0 /\ x = z[i]
      BY <2>3 DEF UsedBlocks
    <3>4. \A x : x \in UsedBlocks(m)
            <=> \E i \in 1 .. l : m[i].free = 0 /\ x = m[i]
      BY DEF UsedBlocks
    <3>5. ASSUME NEW x, x \in UsedBlocks(z) PROVE x \in UsedBlocks(m)
      <4>1. PICK i \in 1 .. l : z[i].free = 0 /\ x = z[i]
        BY <3>3, <3>5
      <4>2. m[i].free = 0 /\ x = m[i]
        BY <3>1, <3>2, <4>1
      <4> QED
        BY <3>4, <4>2
    <3>6. ASSUME NEW x, x \in UsedBlocks(m) PROVE x \in UsedBlocks(z)
      <4>1. PICK i \in 1 .. l : m[i].free = 0 /\ x = m[i]
        BY <3>4, <3>6
      <4>2. z[i].free = 0 /\ x = z[i]
        BY <3>1, <3>2, <4>1
      <4> QED
        BY <3>3, <4>2
    <3> QED
      BY <3>5, <3>6, Zenon
  <2>7. z[1].at = list[1].at /\ z[l].free = b.free
    BY <1>2, <1>5, <2>3
  <2> QED
    BY <1>2, <1>3, <1>4, <1>5, <2>1, <2>3, <2>4, <2>5, <2>6, <2>7 DEF PassInv
<1>6. CASE ~(m[l].free = 1 /\ b.free = 1)
  <2> DEFINE z == Append(m, b)
  <2>1. Merge(m, b) = z
    BY <1>2, <1>6 DEF Merge, Last
  <2>2. /\ z \in Seq(Block) /\ Len(z) = l + 1 /\ z[l + 1] = b
        /\ \A i \in 1 .. l : z[i] = m[i]
    BY <1>1, <1>2
  <2> HIDE DEF z
  <2>3. Adjacent(z)
    <3> SUFFICES ASSUME NEW i \in 1 .. l PROVE z[i + 1].at = End(z[i])
      BY <1>2, <2>2 DEF Adjacent
    <3>1. CASE i = l
      BY <1>2, <2>2, <3>1
    <3>2. CASE i # l
      <4>1. i \in 1 .. l - 1 /\ i + 1 \in 1 .. l
        BY <1>2, <3>2
      <4> QED
        BY <1>2, <2>2, <4>1 DEF Adjacent
    <3> QED
      BY <3>1, <3>2
  <2>4. Merged(z)
    <3>1. m[l].free = 0 \/ b.free = 0
      BY <1>1, <1>2, <1>6, BlockFields
    <3> SUFFICES ASSUME NEW i \in 1 .. l
                 PROVE  z[i].free = 0 \/ z[i + 1].free = 0
      BY <1>2, <2>2 DEF Merged
    <3>2. CASE i = l
      BY <1>2, <2>2, <3>1, <3>2
    <3>3. CASE i # l
      <4>1. i \in 1 .. l - 1 /\ i + 1 \in 1 .. l
        BY <1>2, <3>3
      <4> QED
        BY <1>2, <2>2, <4>1 DEF Merged
    <3> QED
      BY <3>2, <3>3
  <2>5. \A x : x \in UsedBlocks(z)
          <=> x \in UsedBlocks(m) \/ (b.free = 0 /\ x = b)
    <3>1. \A i : i \in 1 .. l + 1 <=> i \in 1 .. l \/ i = l + 1
      BY <1>2
    <3>2. \A x : x \in UsedBlocks(z)
            <=> \E i \in 1 .. l + 1 : z[i].free = 0 /\ x = z[i]
      BY <2>2 DEF UsedBlocks
    <3>3. \A x : x \in UsedBlocks(m)
            <=> \E i \in 1 .. l : m[i].free = 0 /\ x = m[i]
      BY DEF UsedBlocks
    <3> QED
      BY <2>2, <3>1, <3>2, <3>3
  <2>6. z[1].at = list[1].at
    BY <1>2, <2>2
  <2> QED
    BY <1>2, <1>3, <1>4, <2>1, <2>2, <2>3, <2>4, <2>5, <2>6 DEF PassInv
<1> QED
  BY <1>5, <1>6

LEMMA FirstPass ==
  ASSUME NEW list \in Seq(Block), Len(list) >= 1
  PROVE  PassInv(list, 1, Merge(<<>>, list[1]))
<1>1. list[1] \in Block
  OBVIOUS
<1>2. Merge(<<>>, list[1]) = <<list[1]>>
  BY DEF Merge
<1> DEFINE z == <<list[1]>>
<1>3. z \in Seq(Block) /\ Len(z) = 1 /\ z[1] = list[1]
  BY <1>1
<1> HIDE DEF z
<1>4. Adjacent(z) /\ Merged(z)
  BY <1>3 DEF Adjacent, Merged
<1>5. \A b : b \in UsedBlocks(z)
        <=> \E j \in 1 .. 1 : list[j].free = 0 /\ b = list[j]
  BY <1>3 DEF UsedBlocks
<1> QED
  <2>1. PassInv(list, 1, z)
    BY <1>3, <1>4, <1>5 DEF PassInv
  <2> QED
    BY <1>2, <2>1 DEF z

(* coalesce leaves every used block as it is, keeps the list adjacent from *)
(* the first block's start to the last one's end, and merges all that is   *)
(* free.                                                                   *)
LEMMA CoalesceInv ==
  ASSUME NEW list \in Seq(Block), Len(list) >= 1, Adjacent(list)
  PROVE  PassInv(list, Len(list), coalesce(list))
<1> DEFINE n == Len(list)
           Ok(k) == PassInv(list, k + 1, Pass(list, k + 1))
           P == {k \in Nat : k + 1 <= n => Ok(k)}
<1>0. n \in Nat /\ n >= 1
  OBVIOUS
<1>1. Ok(0)
  <2>1. Pass(list, 0 + 1) = Merge(<<>>, list[1])
    BY <1>0, PassByPass
  <2> QED
    BY <2>1, FirstPass
<1>2. ASSUME NEW k \in Nat, (k + 1) + 1 <= n, Ok(k)
      PROVE  Ok(k + 1)
  <2>1. k + 1 \in 1 .. n - 1
    BY <1>0, <1>2
  <2>2. Pass(list, (k + 1) + 1) = Merge(Pass(list, k + 1), list[(k + 1) + 1])
    BY <2>1, PassByPass
  <2> QED
    BY <1>2, <2>1, <2>2, MergeStep
<1> HIDE DEF Ok, n
<1>3. 0 \in P /\ \A k \in Nat : k \in P => k + 1 \in P
  BY <1>0, <1>1, <1>2
<1> HIDE DEF P
<1>4. n - 1 \in P
  BY <1>0, <1>3, SetInduction
<1>5. Ok(n - 1) /\ (n - 1) + 1 = n
  BY <1>0, <1>4 DEF P
<1>6. coalesce(list) = Pass(list, n)
  BY PassByPass DEF n
<1> QED
  BY <1>5, <1>6 DEF Ok, n

-----------------------------------------------------------------------------
(* The inductive invariant *)

(* The blocks cover the arena, each byte once. *)
Tiled(list) ==
  /\ list \in Seq(Block) /\ Len(list) >= 1 /\ Adjacent(list)
  /\ list[1].at = 0 /\ End(list[Len(list)]) = HEAP_SIZE

(* The clients in L hold the blocks in U, one each. *)
Owned(U, L) ==
  /\ L \subseteq [ptr : Int, asked : Int]
  /\ \A x \in L : \E b \in U : payload(b) = x.ptr
  /\ \A b \in U : \E x \in L : payload(b) = x.ptr
  /\ \A x \in L, b \in U :
       payload(b) = x.ptr /\ x.asked \notin WrappingSizes => b.size >= x.asked
  /\ \A x, y \in L : x.ptr = y.ptr => x = y

(* The heap while its list is there. *)
IInv == Tiled(blocks) /\ Merged(blocks) /\ Owned(UsedBlocks(blocks), live)

(* The heap after a kcalloc that wiped the memory. *)
Lost ==
  /\ blocks = Wiped
  /\ \E x \in live : x.asked \in WrappingSizes
  /\ \A x \in live : x.ptr \in 0 .. HEAP_SIZE

(* Later blocks lie at higher addresses, without overlap. *)
LEMMA TiledInOrder ==
  ASSUME NEW list, Tiled(list), NEW i \in 1 .. Len(list),
         NEW j \in 1 .. Len(list), i < j
  PROVE  End(list[i]) <= list[j].at
<1> DEFINE n == Len(list)
           Ok(d) == End(list[i]) <= list[i + 1 + d].at
           P == {d \in Nat : i + 1 + d <= n => Ok(d)}
<1>0. n \in Nat /\ list \in Seq(Block)
  BY DEF Tiled
<1>1. \A k \in 1 .. n : /\ list[k].at \in Int /\ list[k].size \in Nat
                        /\ End(list[k]) \in Int /\ list[k].at <= End(list[k])
  <2> TAKE k \in 1 .. n
  <2>1. list[k] \in Block
    BY <1>0
  <2>2. list[k].at \in Int /\ list[k].size \in Nat
    BY <2>1, BlockFields
  <2>3. \A p \in Int, q \in Nat : p + HEADER + q \in Int /\ p <= p + HEADER + q
    BY Sizes
  <2> QED
    BY <2>2, <2>3 DEF End
<1>2. i + 1 <= n => Ok(0)
  <2>1. i + 1 <= n => list[i + 1].at = End(list[i])
    BY <1>0 DEF Tiled, Adjacent
  <2>2. i + 1 + 0 = i + 1
    OBVIOUS
  <2> QED
    BY <1>1, <2>1, <2>2
<1>3. ASSUME NEW d \in Nat, i + 1 + (d + 1) <= n, Ok(d)
      PROVE  Ok(d + 1)
  <2> DEFINE k == i + 1 + d
  <2>1. k \in 1 .. n - 1 /\ i + 1 + (d + 1) = k + 1
    BY <1>0, <1>3
  <2>2. list[k + 1].at = End(list[k])
    BY <2>1 DEF Tiled, Adjacent
  <2>3. End(list[i]) <= list[k].at
    BY <1>3
  <2>4. k \in 1 .. n /\ i \in 1 .. n
    BY <1>0, <2>1
  <2> HIDE DEF k, n
  <2>5. /\ list[k].at \in Int /\ End(list[k]) \in Int /\ End(list[i]) \in Int
        /\ list[k].at <= End(list[k])
    BY <1>1, <2>4
  <2>6. End(list[i]) <= list[k + 1].at
    BY <2>2, <2>3, <2>5
  <2> QED
    BY <2>1, <2>6
<1> HIDE DEF Ok, n
<1>4. 0 \in P /\ \A d \in Nat : d \in P => d + 1 \in P
  BY <1>0, <1>2, <1>3 DEF n
<1> HIDE DEF P
<1>5. j - i - 1 \in Nat /\ i + 1 + (j - i - 1) = j /\ j <= n
  BY <1>0 DEF n
<1>6. j - i - 1 \in P
  BY <1>4, <1>5, SetInduction
<1>7. Ok(j - i - 1)
  BY <1>5, <1>6 DEF P
<1> QED
  BY <1>5, <1>7 DEF Ok

(* An address belongs to one block, and blocks lie in the arena. *)
LEMMA TiledFacts ==
  ASSUME NEW list, Tiled(list)
  PROVE  /\ Len(list) \in Nat \ {0}
         /\ \A i \in 1 .. Len(list) :
              /\ list[i] \in Block
              /\ list[i].at \in 0 .. HEAP_SIZE /\ list[i].size \in 0 .. HEAP_SIZE
              /\ payload(list[i]) \in 1 .. HEAP_SIZE
         /\ \A i, j \in 1 .. Len(list) :
              list[i].at = list[j].at \/ payload(list[i]) = payload(list[j])
                => i = j
<1> DEFINE n == Len(list)
<1>0. n \in Nat \ {0} /\ list \in Seq(Block)
  BY DEF Tiled
<1>1. \A k \in 1 .. n : /\ list[k] \in Block
                        /\ list[k].at \in Int /\ list[k].size \in Nat
  BY <1>0, BlockFields
<1>2. /\ 1 \in 1 .. n /\ n \in 1 .. n
      /\ list[1].at = 0 /\ End(list[n]) = HEAP_SIZE
  BY <1>0 DEF Tiled
<1>3. \A i, j \in 1 .. n : i < j => End(list[i]) <= list[j].at
  BY TiledInOrder
<1> HIDE DEF n
<1>4. \A k \in 1 .. n : 0 <= list[k].at /\ End(list[k]) <= HEAP_SIZE
  <2> TAKE k \in 1 .. n
  <2>1. k = 1 \/ 1 < k
    BY <1>0
  <2>2. k = n \/ k < n
    BY <1>0
  <2>3. 0 <= list[k].at
    BY <1>1, <1>2, <1>3, <2>1, Sizes DEF End
  <2>4. End(list[k]) <= HEAP_SIZE
    BY <1>1, <1>2, <1>3, <2>2, Sizes DEF End
  <2> QED
    BY <2>3, <2>4
<1>5. ASSUME NEW i \in 1 .. n
      PROVE  /\ list[i].at \in 0 .. HEAP_SIZE /\ list[i].size \in 0 .. HEAP_SIZE
             /\ payload(list[i]) \in 1 .. HEAP_SIZE
  BY <1>1, <1>4, Sizes DEF End, payload
<1>6. ASSUME NEW i \in 1 .. n, NEW j \in 1 .. n,
             list[i].at = list[j].at \/ payload(list[i]) = payload(list[j])
      PROVE  i = j
  <2>1. list[i].at = list[j].at
    BY <1>1, <1>6, Sizes DEF payload
  <2>2. ~(i < j) /\ ~(j < i)
    BY <1>1, <1>3, <2>1, Sizes DEF End
  <2> QED
    BY <1>0, <2>2
<1> QED
  BY <1>0, <1>1, <1>5, <1>6 DEF n

(* kfree's walk from a client's pointer back to the header. *)
LEMMA HeaderOfClient ==
  ASSUME IInv, NEW x \in live
  PROVE  /\ Header(x.ptr) \in 1 .. Len(blocks)
         /\ blocks[Header(x.ptr)].free = 0
         /\ payload(blocks[Header(x.ptr)]) = x.ptr
<1>1. PICK i \in 1 .. Len(blocks) : /\ blocks[i].free = 0
                                    /\ payload(blocks[i]) = x.ptr
  BY DEF IInv, Owned, UsedBlocks
<1>2. blocks[i].at = x.ptr - HEADER
  <2>1. blocks[i].at \in 0 .. HEAP_SIZE
    BY TiledFacts DEF IInv
  <2> QED
    BY <1>1, <2>1, Sizes DEF payload
<1>3. \A j \in 1 .. Len(blocks) : blocks[j].at = x.ptr - HEADER => j = i
  BY <1>2, TiledFacts DEF IInv
<1>4. Header(x.ptr) = i
  BY <1>2, <1>3 DEF Header
<1> QED
  BY <1>1, <1>4

LEMMA ClientsInArena ==
  ASSUME IInv, NEW x \in live
  PROVE  x.ptr \in 0 .. HEAP_SIZE
<1>1. payload(blocks[Header(x.ptr)]) \in 1 .. HEAP_SIZE
  BY HeaderOfClient, TiledFacts DEF IInv
<1> QED
  BY <1>1, HeaderOfClient, Sizes

-----------------------------------------------------------------------------
(* The operations *)

LEMMA InitIInv == Init => IInv
<1> SUFFICES ASSUME Init PROVE IInv
  OBVIOUS
<1> DEFINE b == [at |-> 0, size |-> HEAP_SIZE - HEADER, free |-> 1]
<1>1. blocks = <<b>> /\ live = {}
  BY DEF Init, heap_init
<1>2. b \in Block /\ b.at = 0 /\ b.free = 1 /\ End(b) = HEAP_SIZE
  BY Sizes DEF Block, End
<1> HIDE DEF b
<1>3. blocks \in Seq(Block) /\ Len(blocks) = 1 /\ blocks[1] = b
  BY <1>1, <1>2
<1>4. Tiled(blocks) /\ Merged(blocks)
  BY <1>2, <1>3 DEF Tiled, Adjacent, Merged
<1>5. UsedBlocks(blocks) = {}
  BY <1>2, <1>3 DEF UsedBlocks
<1> QED
  BY <1>1, <1>4, <1>5 DEF IInv, Owned

LEMMA FreeStep ==
  ASSUME IInv, NEW x \in live, Free(x)
  PROVE  IInv'
<1> DEFINE i == Header(x.ptr)
           list == [blocks EXCEPT ![i].free = 1]
<1>1. /\ i \in 1 .. Len(blocks) /\ blocks[i].free = 0
      /\ payload(blocks[i]) = x.ptr
  BY HeaderOfClient
<1> HIDE DEF i
<1>2. /\ blocks \in Seq(Block) /\ Len(blocks) >= 1 /\ Adjacent(blocks)
      /\ blocks[1].at = 0 /\ End(blocks[Len(blocks)]) = HEAP_SIZE
      /\ blocks[i] \in Block /\ Len(blocks) \in Nat
  BY <1>1 DEF IInv, Tiled
<1>3. /\ list \in Seq(Block) /\ Len(list) = Len(blocks)
      /\ \A j \in 1 .. Len(blocks) :
           /\ j # i => list[j] = blocks[j]
           /\ list[j].at = blocks[j].at /\ list[j].size = blocks[j].size
      /\ list[i].free = 1
  <2> DEFINE r == [blocks[i] EXCEPT !.free = 1]
  <2>1. r \in Block /\ r.at = blocks[i].at /\ r.size = blocks[i].size
        /\ r.free = 1
    BY <1>2 DEF Block
  <2>2. list = [blocks EXCEPT ![i] = r]
    BY <1>1, <1>2
  <2> HIDE DEF r, list
  <2> QED
    BY <1>1, <1>2, <2>1, <2>2
<1>4. blocks' = coalesce(list) /\ live' = live \ {x}
  BY DEF Free, kfree, i
<1> HIDE DEF list
<1>5. Adjacent(list) /\ End(list[Len(list)]) = HEAP_SIZE /\ list[1].at = 0
  BY <1>2, <1>3 DEF Adjacent, End
<1>6. PassInv(list, Len(list), blocks')
  BY <1>2, <1>3, <1>4, <1>5, CoalesceInv
<1>7. Tiled(blocks') /\ Merged(blocks')
  BY <1>5, <1>6 DEF PassInv, Tiled
<1>8. \A b : b \in UsedBlocks(blocks')
        <=> b \in UsedBlocks(blocks) /\ payload(b) # x.ptr
  <2>1. \A b : b \in UsedBlocks(blocks')
          <=> \E j \in 1 .. Len(blocks) : list[j].free = 0 /\ b = list[j]
    BY <1>3, <1>6 DEF PassInv
  <2>2. \A j \in 1 .. Len(blocks) : payload(blocks[j]) = x.ptr => j = i
    BY <1>1, TiledFacts DEF IInv
  <2>3. \A j \in 1 .. Len(blocks) :
          list[j].free = 0 <=> blocks[j].free = 0 /\ payload(blocks[j]) # x.ptr
    BY <1>1, <1>3, <2>2
  <2>4. \A j \in 1 .. Len(blocks) : list[j].free = 0 => list[j] = blocks[j]
    BY <1>3
  <2>5. \A b : b \in UsedBlocks(blocks)
          <=> \E j \in 1 .. Len(blocks) : blocks[j].free = 0 /\ b = blocks[j]
    BY DEF UsedBlocks
  <2> QED
    BY <2>1, <2>3, <2>4, <2>5
<1>9. Owned(UsedBlocks(blocks'), live')
  BY <1>4, <1>8 DEF IInv, Owned
<1> QED
  BY <1>7, <1>9 DEF IInv

(* align_up returns a number below WORD, and no less than it was given     *)
(* unless the sum wraps.                                                   *)
LEMMA AlignUp ==
  ASSUME NEW size \in 0 .. WORD - 1
  PROVE  /\ align_up(size) \in Nat
         /\ size <= WORD - ALIGNMENT => align_up(size) >= size
<1> DEFINE sum == (size + ALIGNMENT - 1) % WORD
<1>1. size \in Nat /\ sum \in Nat
  BY Sizes
<1>2. size <= WORD - ALIGNMENT => sum = size + ALIGNMENT - 1
  BY Sizes
<1> HIDE DEF sum
<1>3. sum % ALIGNMENT \in 0 .. ALIGNMENT - 1 /\ sum % ALIGNMENT <= sum
  BY <1>1, Sizes
<1>4. align_up(size) = sum - (sum % ALIGNMENT)
  BY DEF align_up, sum
<1> QED
  BY <1>1, <1>2, <1>3, <1>4, Sizes

(* z is the list with e behind block i. *)
IsInserted(z, list, i, e) ==
  /\ z \in Seq(Block) /\ Len(z) = Len(list) + 1
  /\ \A j \in 1 .. i : z[j] = list[j]
  /\ z[i + 1] = e
  /\ \A j \in i + 1 .. Len(list) : z[j + 1] = list[j]

LEMMA InsertAfter ==
  ASSUME NEW list \in Seq(Block), NEW i \in 1 .. Len(list), NEW e \in Block
  PROVE  IsInserted(InsertAt(list, i + 1, e), list, i, e)
<1> DEFINE n == Len(list)
           a == SubSeq(list, 1, i)
           c == SubSeq(list, i + 1, n)
           y == a \o <<e>>
           z == InsertAt(list, i + 1, e)
<1>1. n \in Nat /\ i \in Nat /\ i <= n
  OBVIOUS
<1>2. /\ a \in Seq(Block) /\ Len(a) = i
      /\ \A j \in 1 .. i : a[j] = list[j]
  BY <1>1
<1>3. /\ c \in Seq(Block) /\ Len(c) = n - i
      /\ \A j \in 1 .. n - i : c[j] = list[i + j]
  BY <1>1
<1>4. z = y \o c
  <2>1. (i + 1) - 1 = i
    BY <1>1
  <2>2. z = SubSeq(list, 1, (i + 1) - 1) \o <<e>> \o SubSeq(list, i + 1, n)
    BY Zenon DEF InsertAt
  <2> QED
    BY <2>1, <2>2, Zenon
<1> HIDE DEF a, c, n, z
<1>5. /\ y \in Seq(Block) /\ Len(y) = i + 1 /\ y[i + 1] = e
      /\ \A j \in 1 .. i : y[j] = list[j]
  BY <1>1, <1>2
<1> HIDE DEF y
<1>6. z \in Seq(Block) /\ Len(z) = n + 1
  <2>1. z \in Seq(Block) /\ Len(z) = Len(y) + Len(c)
    <3>1. \A p, q \in Seq(Block) : /\ p \o q \in Seq(Block)
                                   /\ Len(p \o q) = Len(p) + Len(q)
      OBVIOUS
    <3>2. y \in Seq(Block) /\ c \in Seq(Block)
      BY <1>3, <1>5
    <3> QED
      BY <1>4, <3>1, <3>2
  <2> QED
    BY <1>1, <1>3, <1>5, <2>1
<1>7. \A j \in 1 .. i + 1 : z[j] = y[j]
  BY <1>1, <1>3, <1>4, <1>5
<1>8. ASSUME NEW j \in i + 1 .. n PROVE z[j + 1] = list[j]
  <2>1. j - i \in 1 .. n - i /\ j + 1 = (i + 1) + (j - i) /\ i + (j - i) = j
    BY <1>1
  <2>2. z[(i + 1) + (j - i)] = c[j - i]
    BY <1>1, <1>3, <1>4, <1>5, <2>1
  <2> QED
    BY <1>3, <2>1, <2>2
<1>9. \A j \in 1 .. i : z[j] = list[j]
  BY <1>1, <1>5, <1>7
<1>10. z[i + 1] = e
  BY <1>1, <1>5, <1>7
<1> QED
  BY <1>6, <1>8, <1>9, <1>10 DEF n, z, IsInserted

(* The list with block i taken, cut down to "wanted" bytes if it is split. *)
Taken(i, wanted) == [split(blocks, i, wanted) EXCEPT ![i].free = 0]

(* Taking a free block leaves the others as they are. *)
LEMMA TakeBlock ==
  ASSUME IInv, NEW wanted \in Nat, NEW i \in Fits(wanted)
  PROVE  /\ Tiled(Taken(i, wanted)) /\ Merged(Taken(i, wanted))
         /\ \E r \in Block :
              /\ payload(r) = payload(blocks[i]) /\ r.size >= wanted
              /\ \A b : b \in UsedBlocks(Taken(i, wanted))
                          <=> b \in UsedBlocks(blocks) \/ b = r
<1> DEFINE n == Len(blocks)
           t == Taken(i, wanted)
<1>1. /\ i \in 1 .. n /\ blocks[i].free = 1 /\ blocks[i].size >= wanted
      /\ n \in Nat \ {0} /\ blocks \in Seq(Block) /\ blocks[i] \in Block
      /\ blocks[i].at \in Int /\ blocks[i].size \in Nat
      /\ blocks[1].at = 0 /\ End(blocks[n]) = HEAP_SIZE
      /\ Adjacent(blocks) /\ Merged(blocks)
  BY BlockFields DEF Fits, IInv, Tiled
<1>2. \A b : b \in UsedBlocks(blocks)
        <=> \E j \in 1 .. n : blocks[j].free = 0 /\ b = blocks[j]
  BY DEF UsedBlocks
<1>3. CASE blocks[i].size < wanted + HEADER + ALIGNMENT
  <2> DEFINE r == [blocks[i] EXCEPT !.free = 0]
  <2>1. /\ r \in Block /\ r.at = blocks[i].at /\ r.size = blocks[i].size
        /\ r.free = 0
    BY <1>1 DEF Block
  <2>2. t = [blocks EXCEPT ![i] = r]
    BY <1>1, <1>3 DEF Taken, split
  <2> HIDE DEF r, n, t
  <2>3. /\ t \in Seq(Block) /\ Len(t) = n /\ t[i] = r
        /\ \A j \in 1 .. n : j # i => t[j] = blocks[j]
    BY <1>1, <2>1, <2>2 DEF n
  <2>4. \A j \in 1 .. n : /\ t[j].at = blocks[j].at
                          /\ t[j].size = blocks[j].size
                          /\ blocks[j].free = 0 => t[j].free = 0
    BY <1>1, <2>1, <2>3
  <2>5. Adjacent(t) /\ Merged(t)
    BY <1>1, <2>3, <2>4 DEF Adjacent, Merged, End, n
  <2>6. t[1].at = 0 /\ End(t[n]) = HEAP_SIZE
    BY <1>1, <2>4 DEF End
  <2>7. \A b : b \in UsedBlocks(t)
          <=> \E j \in 1 .. n : t[j].free = 0 /\ b = t[j]
    BY <2>3 DEF UsedBlocks
  <2>8. \A b : b \in UsedBlocks(t) <=> b \in UsedBlocks(blocks) \/ b = r
    <3>1. /\ i \in 1 .. n /\ t[i] = r /\ r.free = 0 /\ blocks[i].free # 0
          /\ \A j \in 1 .. n : j # i => t[j] = blocks[j]
      BY <1>1, <2>1, <2>3
    <3>2. ASSUME NEW b, b \in UsedBlocks(t)
          PROVE  b \in UsedBlocks(blocks) \/ b = r
      <4>1. PICK j \in 1 .. n : t[j].free = 0 /\ b = t[j]
        BY <2>7, <3>2
      <4> QED
        BY <1>2, <3>1, <4>1
    <3>3. ASSUME NEW b, b \in UsedBlocks(blocks) PROVE b \in UsedBlocks(t)
      <4>1. PICK j \in 1 .. n : blocks[j].free = 0 /\ b = blocks[j]
        BY <1>2, <3>3
      <4>2. j # i
        BY <3>1, <4>1
      <4> QED
        BY <2>7, <3>1, <4>1, <4>2
    <3>4. r \in UsedBlocks(t)
      BY <2>7, <3>1
    <3> QED
      BY <3>2, <3>3, <3>4, Zenon
  <2>9. payload(r) = payload(blocks[i]) /\ r.size >= wanted
    BY <1>1, <2>1 DEF payload
  <2>10. Tiled(t)
    BY <1>1, <2>3, <2>5, <2>6 DEF Tiled
  <2> QED
    BY <2>1, <2>5, <2>8, <2>9, <2>10 DEF t
<1>4. CASE ~(blocks[i].size < wanted + HEADER + ALIGNMENT)
  <2> DEFINE cut  == [blocks EXCEPT ![i].size = wanted]
             rest == [at   |-> payload(blocks[i]) + wanted,
                      size |-> blocks[i].size - wanted - HEADER,
                      free |-> 1]
             z    == InsertAt(cut, i + 1, rest)
             r    == [at |-> blocks[i].at, size |-> wanted, free |-> 0]
  <2>1. /\ rest \in Block /\ End(rest) = End(blocks[i])
        /\ rest.at = blocks[i].at + HEADER + wanted /\ rest.free = 1
    <3>1. blocks[i].size - wanted - HEADER \in Nat
      <4>1. \A p \in Nat : ~(p < wanted + HEADER + ALIGNMENT)
                               => p - wanted - HEADER \in Nat
        BY Sizes
      <4> QED
        BY <1>1, <1>4, <4>1
    <3>2. payload(blocks[i]) + wanted \in Int
      BY <1>1, Sizes DEF payload
    <3>3. rest \in Block
      BY <3>1, <3>2 DEF Block
    <3>4. /\ rest.at = blocks[i].at + HEADER + wanted /\ rest.free = 1
          /\ rest.size = blocks[i].size - wanted - HEADER
      BY DEF payload
    <3>5. \A p, q \in Int :
            (p + HEADER + wanted) + HEADER + (q - wanted - HEADER)
              = p + HEADER + q
      BY Sizes
    <3> HIDE DEF rest
    <3>6. End(rest) = (blocks[i].at + HEADER + wanted) + HEADER
                        + (blocks[i].size - wanted - HEADER)
      BY <3>4, Zenon DEF End
    <3>7. blocks[i].at \in Int /\ blocks[i].size \in Int
      BY <1>1
    <3>8. End(rest) = blocks[i].at + HEADER + blocks[i].size
      BY <3>5, <3>6, <3>7, Zenon
    <3> QED
      BY <3>3, <3>4, <3>8, Zenon DEF End
  <2>2. /\ r \in Block /\ r.at = blocks[i].at /\ r.size = wanted /\ r.free = 0
        /\ End(r) = rest.at
    BY <1>1, <2>1 DEF Block, End
  <2>3. /\ cut \in Seq(Block) /\ Len(cut) = n
        /\ cut[i] = [at |-> blocks[i].at, size |-> wanted, free |-> 1]
        /\ \A j \in 1 .. n : j # i => cut[j] = blocks[j]
    <3>1. cut = Resize(blocks, i, wanted)
      BY DEF Resize
    <3> HIDE DEF cut
    <3>2. IsResized(cut, blocks, i, wanted)
      BY <1>1, <3>1, Resized
    <3> QED
      BY <1>1, <3>2 DEF IsResized
  <2>4. split(blocks, i, wanted) = z
    BY <1>4 DEF split
  <2> HIDE DEF cut, rest, n
  <2>5. /\ z \in Seq(Block) /\ Len(z) = n + 1
        /\ \A j \in 1 .. i : z[j] = cut[j]
        /\ z[i + 1] = rest
        /\ \A j \in i + 1 .. n : z[j + 1] = cut[j]
    <3>1. cut \in Seq(Block) /\ i \in 1 .. Len(cut) /\ rest \in Block
      BY <1>1, <2>1, <2>3
    <3>2. IsInserted(z, cut, i, rest)
      BY <3>1, InsertAfter
    <3> HIDE DEF z
    <3> QED
      BY <2>3, <3>2 DEF IsInserted
  <2> HIDE DEF z
  <2>6. t = [z EXCEPT ![i] = r]
    <3>1. z[i] = [at |-> blocks[i].at, size |-> wanted, free |-> 1]
      <4>1. i \in 1 .. i
        BY <1>1
      <4> QED
        BY <2>3, <2>5, <4>1
    <3>2. [z[i] EXCEPT !.free = 0] = r
      BY <3>1
    <3>3. t = [z EXCEPT ![i] = [z[i] EXCEPT !.free = 0]]
      BY <2>4 DEF Taken
    <3> QED
      BY <3>2, <3>3
  <2> HIDE DEF r, t
  <2>7. /\ t \in Seq(Block) /\ Len(t) = n + 1 /\ t[i] = r /\ t[i + 1] = rest
        /\ \A j \in 1 .. i - 1 : t[j] = blocks[j]
        /\ \A j \in i + 1 .. n : t[j + 1] = blocks[j]
    <3>1. i \in 1 .. n + 1 /\ i + 1 \in 1 .. n + 1 /\ i + 1 # i
      BY <1>1
    <3>2. /\ t \in Seq(Block) /\ Len(t) = n + 1 /\ t[i] = r
          /\ \A j \in 1 .. n + 1 : j # i => t[j] = z[j]
      BY <1>1, <2>2, <2>5, <2>6, <3>1
    <3>3. ASSUME NEW j \in 1 .. i - 1 PROVE t[j] = blocks[j]
      <4>1. j \in 1 .. n + 1 /\ j \in 1 .. i /\ j \in 1 .. n /\ j # i
        BY <1>1
      <4> QED
        BY <2>3, <2>5, <3>2, <4>1
    <3>4. ASSUME NEW j \in i + 1 .. n PROVE t[j + 1] = blocks[j]
      <4>1. j + 1 \in 1 .. n + 1 /\ j + 1 # i /\ j \in 1 .. n /\ j # i
        BY <1>1
      <4> QED
        BY <2>3, <2>5, <3>2, <4>1
    <3> QED
      BY <2>5, <3>1, <3>2, <3>3, <3>4
  <2>8. Adjacent(t)
    <3> SUFFICES ASSUME NEW j \in 1 .. n PROVE t[j + 1].at = End(t[j])
      BY <1>1, <2>7 DEF Adjacent
    <3>0. \A k \in 1 .. n - 1 : blocks[k + 1].at = End(blocks[k])
      BY <1>1 DEF Adjacent, n
    <3>1. CASE j + 1 < i
      <4>1. j \in 1 .. i - 1 /\ j + 1 \in 1 .. i - 1 /\ j \in 1 .. n - 1
        BY <1>1, <3>1
      <4> QED
        BY <2>7, <3>0, <4>1
    <3>2. CASE j + 1 = i
      <4>1. j \in 1 .. i - 1 /\ j \in 1 .. n - 1
        BY <1>1, <3>2
      <4> QED
        BY <2>2, <2>7, <3>0, <3>2, <4>1
    <3>3. CASE j = i
      BY <2>2, <2>7, <3>3
    <3>4. CASE j = i + 1
      <4>1. j \in i + 1 .. n /\ i \in 1 .. n - 1
        BY <1>1, <3>4
      <4> QED
        BY <2>1, <2>7, <3>0, <3>4, <4>1
    <3>5. CASE j > i + 1
      <4>1. /\ j \in i + 1 .. n /\ j - 1 \in i + 1 .. n
            /\ (j - 1) + 1 = j /\ j - 1 \in 1 .. n - 1
        BY <1>1, <3>5
      <4>2. t[j + 1] = blocks[j] /\ t[(j - 1) + 1] = blocks[j - 1]
        BY <2>7, <4>1
      <4>3. blocks[(j - 1) + 1].at = End(blocks[j - 1])
        BY <3>0, <4>1
      <4> QED
        BY <4>1, <4>2, <4>3
    <3> QED
      BY <1>1, <3>1, <3>2, <3>3, <3>4, <3>5
  <2>9. Merged(t)
    <3> SUFFICES ASSUME NEW j \in 1 .. n
                 PROVE  t[j].free = 0 \/ t[j + 1].free = 0
      BY <1>1, <2>7 DEF Merged
    <3>0. \A k \in 1 .. n - 1 : blocks[k].free = 0 \/ blocks[k + 1].free = 0
      BY <1>1 DEF Merged, n
    <3>1. CASE j + 1 < i
      <4>1. j \in 1 .. i - 1 /\ j + 1 \in 1 .. i - 1 /\ j \in 1 .. n - 1
        BY <1>1, <3>1
      <4> QED
        BY <2>7, <3>0, <4>1
    <3>2. CASE j + 1 = i \/ j = i
      BY <2>2, <2>7, <3>2
    <3>3. CASE j = i + 1
      <4>1. j \in i + 1 .. n /\ i \in 1 .. n - 1
        BY <1>1, <3>3
      <4>2. blocks[i + 1].free = 0
        BY <1>1, <3>0, <4>1
      <4> QED
        BY <2>7, <3>3, <4>1, <4>2
    <3>4. CASE j > i + 1
      <4>1. /\ j \in i + 1 .. n /\ j - 1 \in i + 1 .. n
            /\ (j - 1) + 1 = j /\ j - 1 \in 1 .. n - 1
        BY <1>1, <3>4
      <4>2. t[j + 1] = blocks[j] /\ t[(j - 1) + 1] = blocks[j - 1]
        BY <2>7, <4>1
      <4>3. blocks[j - 1].free = 0 \/ blocks[(j - 1) + 1].free = 0
        BY <3>0, <4>1
      <4> QED
        BY <4>1, <4>2, <4>3
    <3> QED
      BY <1>1, <3>1, <3>2, <3>3, <3>4
  <2>10. t[1].at = 0
    <3>1. CASE i = 1
      BY <1>1, <2>2, <2>7, <3>1
    <3>2. CASE i # 1
      <4>1. 1 \in 1 .. i - 1
        BY <1>1, <3>2
      <4> QED
        BY <1>1, <2>7, <4>1
    <3> QED
      BY <3>1, <3>2
  <2>11. End(t[n + 1]) = HEAP_SIZE
    <3>1. CASE i = n
      BY <1>1, <2>1, <2>7, <3>1
    <3>2. CASE i # n
      <4>1. n \in i + 1 .. n
        BY <1>1, <3>2
      <4> QED
        BY <1>1, <2>7, <4>1
    <3> QED
      BY <3>1, <3>2
  <2>12. \A b : b \in UsedBlocks(t)
           <=> \E j \in 1 .. n + 1 : t[j].free = 0 /\ b = t[j]
    BY <2>7 DEF UsedBlocks
  <2>13. ASSUME NEW b, b \in UsedBlocks(t)
         PROVE  b \in UsedBlocks(blocks) \/ b = r
    <3>1. PICK j \in 1 .. n + 1 : t[j].free = 0 /\ b = t[j]
      BY <2>12, <2>13
    <3>2. CASE j < i
      <4>1. j \in 1 .. i - 1 /\ j \in 1 .. n
        BY <1>1, <3>2
      <4> QED
        BY <1>2, <2>7, <3>1, <4>1
    <3>3. CASE j = i \/ j = i + 1
      BY <2>1, <2>7, <3>1, <3>3
    <3>4. CASE j > i + 1
      <4>1. j - 1 \in i + 1 .. n /\ (j - 1) + 1 = j /\ j - 1 \in 1 .. n
        BY <1>1, <3>4
      <4>2. t[(j - 1) + 1] = blocks[j - 1]
        BY <2>7, <4>1
      <4> QED
        BY <1>2, <3>1, <4>1, <4>2
    <3> QED
      BY <1>1, <3>2, <3>3, <3>4
  <2>14. ASSUME NEW b, b \in UsedBlocks(blocks) \/ b = r
         PROVE  b \in UsedBlocks(t)
    <3>1. CASE b = r
      BY <1>1, <2>2, <2>7, <2>12, <3>1
    <3>2. CASE b \in UsedBlocks(blocks)
      <4>1. PICK j \in 1 .. n : blocks[j].free = 0 /\ b = blocks[j]
        BY <1>2, <3>2
      <4>2. j # i
        BY <1>1, <4>1
      <4>3. CASE j < i
        <5>1. j \in 1 .. i - 1 /\ j \in 1 .. n + 1
          BY <1>1, <4>3
        <5> QED
          BY <2>7, <2>12, <4>1, <5>1
      <4>4. CASE j > i
        <5>1. j \in i + 1 .. n /\ j + 1 \in 1 .. n + 1
          BY <1>1, <4>4
        <5> QED
          BY <2>7, <2>12, <4>1, <5>1
      <4> QED
        BY <1>1, <4>2, <4>3, <4>4
    <3> QED
      BY <2>14, <3>1, <3>2
  <2>15. payload(r) = payload(blocks[i]) /\ r.size >= wanted
    BY <2>2 DEF payload
  <2>16. Tiled(t)
    BY <1>1, <2>7, <2>8, <2>10, <2>11 DEF Tiled
  <2> QED
    BY <2>2, <2>9, <2>13, <2>14, <2>15, <2>16 DEF t
<1> QED
  BY <1>3, <1>4

(* kmalloc takes the first of the blocks that fit. *)
LEMMA FirstFit ==
  ASSUME NEW wanted, Fits(wanted) # {}
  PROVE  Min(Fits(wanted)) \in Fits(wanted)
<1> DEFINE S  == Fits(wanted)
           LT == OpToRel(<, Nat)
<1>1. S \subseteq Nat
  BY DEF Fits
<1>2. \A x, y \in S : y < x => <<y, x>> \in LT
  BY <1>1 DEF OpToRel
<1>3. \E x \in S : \A y \in S : ~ (<<y, x>> \in LT)
  BY <1>1, NatLessThanWellFounded, WFMin
<1> HIDE DEF LT
<1>4. PICK x \in S : \A y \in S : ~ (y < x)
  BY <1>2, <1>3
<1>5. \A y \in S : x <= y
  BY <1>1, <1>4
<1> HIDE DEF S
<1> QED
  BY <1>5 DEF Min, S

(* A client that asks for "asked" bytes, of which kmalloc is told "size".  *)
LEMMA TakeStep ==
  ASSUME IInv, NEW size \in 0 .. WORD - 1, NEW asked \in Int,
         asked \notin WrappingSizes
           => asked <= size /\ size <= WORD - ALIGNMENT,
         Take(kmalloc(size), asked)
  PROVE  IInv'
<1> DEFINE wanted == align_up(size)
           i == Min(Fits(wanted))
<1>1. CASE size = 0 \/ Fits(wanted) = {}
  <2>1. kmalloc(size) = [ptr |-> NULL, list |-> blocks]
    BY <1>1 DEF kmalloc
  <2>2. blocks' = blocks /\ live' = live
    BY <2>1 DEF Take
  <2> QED
    BY <2>2 DEF IInv
<1>2. CASE ~(size = 0 \/ Fits(wanted) = {})
  <2>1. wanted \in Nat /\ (size <= WORD - ALIGNMENT => wanted >= size)
    BY AlignUp
  <2> HIDE DEF wanted
  <2>2. i \in Fits(wanted)
    BY <1>2, FirstFit
  <2> DEFINE p == payload(blocks[i])
  <2>3. kmalloc(size) = [ptr |-> p, list |-> Taken(i, wanted)]
    BY <1>2 DEF kmalloc, wanted, Taken
  <2> HIDE DEF i
  <2>4. i \in 1 .. Len(blocks) /\ blocks[i].free = 1
    BY <2>2 DEF Fits
  <2>5. p \in 1 .. HEAP_SIZE
    BY <2>4, TiledFacts DEF IInv
  <2>6. /\ blocks' = Taken(i, wanted)
        /\ live' = live \cup {[ptr |-> p, asked |-> asked]}
    <3>1. p # NULL
      BY <2>5, Sizes DEF NULL
    <3> HIDE DEF p
    <3> QED
      BY <2>3, <3>1 DEF Take
  <2>7. Tiled(blocks') /\ Merged(blocks')
    BY <2>1, <2>2, <2>6, TakeBlock
  <2>8. PICK r \in Block :
          /\ payload(r) = p /\ r.size >= wanted
          /\ \A b : b \in UsedBlocks(blocks')
                      <=> b \in UsedBlocks(blocks) \/ b = r
    BY <2>1, <2>2, <2>6, TakeBlock
  <2>9. \A b \in UsedBlocks(blocks) : payload(b) # p
    <3>1. \A j \in 1 .. Len(blocks) : payload(blocks[j]) = p => i = j
      BY <2>4, TiledFacts DEF IInv
    <3> HIDE DEF p
    <3>2. ASSUME NEW b \in UsedBlocks(blocks)
          PROVE  \E j \in 1 .. Len(blocks) : blocks[j].free = 0 /\ b = blocks[j]
      BY DEF UsedBlocks
    <3>3. 0 # 1
      OBVIOUS
    <3> QED
      BY <2>4, <3>1, <3>2, <3>3, Zenon
  <2> DEFINE x == [ptr |-> p, asked |-> asked]
  <2>10. x \in [ptr : Int, asked : Int] /\ x.ptr = p /\ x.asked = asked
    BY <2>5
  <2>11. asked \notin WrappingSizes => r.size >= asked
    <3>1. r.size \in Nat
      BY BlockFields
    <3> QED
      BY <2>1, <2>8, <3>1, Sizes
  <2> HIDE DEF p, x
  <2>12. live' = live \cup {x}
    BY <2>6 DEF x
  <2>13. \A y \in live : y.ptr # p
    BY <2>9 DEF IInv, Owned
  <2>14. Owned(UsedBlocks(blocks'), live')
    <3> DEFINE U == UsedBlocks(blocks)
               V == UsedBlocks(blocks')
    <3>1. /\ \A b : b \in V <=> b \in U \/ b = r
          /\ Owned(U, live) /\ \A b \in U : payload(b) # p /\ payload(r) = p
      BY <2>8, <2>9 DEF IInv
    <3> HIDE DEF U, V
    <3>2. live' \subseteq [ptr : Int, asked : Int]
      BY <2>10, <2>12, <3>1 DEF Owned
    <3>3. \A y \in live' : \E b \in V : payload(b) = y.ptr
      BY <2>8, <2>10, <2>12, <3>1 DEF Owned
    <3>4. \A b \in V : \E y \in live' : payload(b) = y.ptr
      BY <2>8, <2>10, <2>12, <3>1 DEF Owned
    <3>5. ASSUME NEW y \in live', NEW b \in V, payload(b) = y.ptr,
                 y.asked \notin WrappingSizes
          PROVE  b.size >= y.asked
      <4>1. CASE y = x
        BY <2>8, <2>10, <2>11, <3>1, <3>5, <4>1
      <4>2. CASE y \in live
        <5>1. b \in U
          BY <2>8, <2>13, <3>1, <3>5, <4>2
        <5> QED
          BY <3>1, <3>5, <4>2, <5>1 DEF Owned
      <4> QED
        BY <2>12, <4>1, <4>2
    <3>6. \A y, w \in live' : y.ptr = w.ptr => y = w
      BY <2>10, <2>12, <2>13, <3>1 DEF Owned
    <3> QED
      BY <3>2, <3>3, <3>4, <3>5, <3>6 DEF Owned, V
  <2> QED
    BY <2>7, <2>14 DEF IInv
<1> QED
  BY <1>1, <1>2

LEMMA MallocStep ==
  ASSUME IInv, NEW size \in Requests, Malloc(size)
  PROVE  IInv'
<1>1. size \in 0 .. WORD - 1 /\ size \in Int
  BY HeapAssumption
<1>2. size \notin WrappingSizes => size <= WORD - ALIGNMENT
  BY <1>1, Sizes DEF WrappingSizes
<1> QED
  BY <1>1, <1>2, TakeStep DEF Malloc

(* memset stays in the block that kmalloc returned, unless align_up has    *)
(* wrapped.                                                                *)
LEMMA ZeroedInBlock ==
  ASSUME IInv, NEW size \in 0 .. WORD - 1, size \notin WrappingSizes,
         kmalloc(size).ptr # NULL
  PROVE  \E b \in ToSet(kmalloc(size).list) :
           payload(b) = kmalloc(size).ptr /\ size <= b.size
<1> DEFINE wanted == align_up(size)
           i == Min(Fits(wanted))
           p == payload(blocks[i])
<1>1. ~(size = 0 \/ Fits(wanted) = {})
  BY DEF kmalloc
<1>2. size <= WORD - ALIGNMENT
  BY Sizes DEF WrappingSizes
<1>3. wanted \in Nat /\ wanted >= size
  BY <1>2, AlignUp
<1> HIDE DEF wanted
<1>4. i \in Fits(wanted)
  BY <1>1, FirstFit
<1>5. kmalloc(size) = [ptr |-> p, list |-> Taken(i, wanted)]
  BY <1>1 DEF kmalloc, wanted, Taken
<1> HIDE DEF i
<1>6. PICK r \in Block :
        /\ payload(r) = p /\ r.size >= wanted
        /\ \A b : b \in UsedBlocks(Taken(i, wanted))
                    <=> b \in UsedBlocks(blocks) \/ b = r
  BY <1>3, <1>4, TakeBlock
<1> DEFINE list == Taken(i, wanted)
<1>7. list \in Seq(Block)
  BY <1>3, <1>4, TakeBlock DEF Tiled
<1> HIDE DEF list, p
<1>8. r \in ToSet(list)
  BY <1>6, <1>7 DEF UsedBlocks, ToSet, list
<1>9. size <= r.size
  <2>1. r.size \in Nat
    BY BlockFields
  <2> QED
    BY <1>3, <1>6, <2>1, Sizes
<1>10. kmalloc(size).ptr = p /\ kmalloc(size).list = list
  BY <1>5 DEF list
<1> QED
  BY <1>6, <1>8, <1>9, <1>10

(* What kmalloc returns is NULL or in the arena. *)
LEMMA KmallocResult ==
  ASSUME IInv, NEW size
  PROVE  /\ \E ptr, list : kmalloc(size) = [ptr |-> ptr, list |-> list]
         /\ kmalloc(size).ptr # NULL => kmalloc(size).ptr \in 0 .. HEAP_SIZE
<1> DEFINE wanted == align_up(size)
           i == Min(Fits(wanted))
<1>1. CASE size = 0 \/ Fits(wanted) = {}
  BY <1>1 DEF kmalloc
<1>2. CASE ~(size = 0 \/ Fits(wanted) = {})
  <2>1. i \in Fits(wanted)
    BY <1>2, FirstFit
  <2>2. i \in 1 .. Len(blocks)
    BY <2>1 DEF Fits
  <2>3. payload(blocks[i]) \in 1 .. HEAP_SIZE
    BY <2>2, TiledFacts DEF IInv
  <2>4. kmalloc(size) = [ptr |-> payload(blocks[i]), list |-> Taken(i, wanted)]
    BY <1>2 DEF kmalloc, Taken
  <2>5. payload(blocks[i]) \in 0 .. HEAP_SIZE
    BY <2>3, Sizes
  <2> DEFINE p == payload(blocks[i])
             l == Taken(i, wanted)
             k == kmalloc(size)
  <2>6. k = [ptr |-> p, list |-> l] /\ p \in 0 .. HEAP_SIZE
    BY <2>4, <2>5
  <2> HIDE DEF k, p, l
  <2>7. k.ptr \in 0 .. HEAP_SIZE /\ \E q, m : k = [ptr |-> q, list |-> m]
    BY <2>6
  <2> QED
    BY <2>7 DEF k
<1> QED
  BY <1>1, <1>2

(* kcalloc's test finds every product that wraps: the size it hands on is  *)
(* the product, and its memset stays in the block unless align_up wrapped. *)
LEMMA CallocStep ==
  ASSUME IInv, NEW count \in Counts, NEW size \in Requests,
         Calloc(count, size)
  PROVE  IInv' \/ Lost'
<1> DEFINE product == count * size
           total == product % WORD
<1>1. /\ count \in Nat /\ size \in Nat /\ product \in Nat
      /\ WORD \in Nat \ {0}
  BY HeapAssumption
<1>2. total \in 0 .. WORD - 1 /\ total <= product
  <2> HIDE DEF product
  <2> QED
    BY <1>1
<1>3. CASE count # 0 /\ total \div count # size
  <2>1. kcalloc(count, size) = [ptr |-> NULL, list |-> blocks]
    BY <1>3 DEF kcalloc
  <2>2. blocks' = blocks /\ live' = live
    BY <2>1 DEF Calloc, Take
  <2> QED
    BY <2>2 DEF IInv
<1>4. CASE ~(count # 0 /\ total \div count # size)
  <2> DEFINE got == kmalloc(total)
             list == Zeroed(got.list, got.ptr, total)
  <2>1. kcalloc(count, size)
          = IF got.ptr = NULL THEN got ELSE [got EXCEPT !.list = list]
    BY <1>4 DEF kcalloc
  <2>2. total = product
    <3>1. CASE count = 0
      <4>1. product = 0
        BY <1>1, <3>1
      <4> HIDE DEF product
      <4> QED
        BY <1>1, <1>2, <4>1
    <3>2. CASE count # 0
      <4>1. total \in Nat /\ count \in Nat \ {0} /\ total \div count = size
        BY <1>1, <1>2, <1>4, <3>2
      <4> HIDE DEF total
      <4>2. count * (total \div count) <= total
        BY <4>1
      <4>3. product <= total
        BY <4>1, <4>2
      <4> HIDE DEF product
      <4> QED
        BY <1>1, <1>2, <4>1, <4>3
    <3> QED
      BY <3>1, <3>2
  <2> HIDE DEF total
  <2>3. PICK q, l : got = [ptr |-> q, list |-> l]
    BY KmallocResult
  <2>4. Take(kcalloc(count, size), product)
    BY DEF Calloc
  <2> HIDE DEF product, list
  <2>5. CASE got.ptr = NULL \/ list = got.list
    <3>1. kcalloc(count, size) = got
      BY <2>1, <2>3, <2>5
    <3>2. product \notin WrappingSizes => product <= WORD - ALIGNMENT
      BY <1>1, <1>2, <2>2, Sizes DEF WrappingSizes
    <3> QED
      BY <1>1, <1>2, <2>2, <2>4, <3>1, <3>2, TakeStep
  <2>6. CASE got.ptr # NULL /\ list # got.list
    <3>1. list = Wiped
      BY <2>6 DEF Zeroed, list
    <3>2. total \in WrappingSizes
      BY <1>2, <2>6, ZeroedInBlock DEF list, Zeroed
    <3>3. q \in 0 .. HEAP_SIZE /\ q # NULL
      BY <2>3, <2>6, KmallocResult
    <3> HIDE DEF got
    <3>4. kcalloc(count, size) = [ptr |-> q, list |-> Wiped]
      BY <2>1, <2>3, <2>6, <3>1
    <3> DEFINE x == [ptr |-> q, asked |-> product]
    <3>5. blocks' = Wiped /\ live' = live \cup {x}
      BY <2>4, <3>3, <3>4 DEF Take
    <3>6. \A y \in live : y.ptr \in 0 .. HEAP_SIZE
      BY ClientsInArena
    <3>7. x.asked \in WrappingSizes /\ x.ptr \in 0 .. HEAP_SIZE
      BY <2>2, <3>2, <3>3
    <3> HIDE DEF x
    <3> QED
      BY <3>5, <3>6, <3>7 DEF Lost
  <2> QED
    BY <2>5, <2>6
<1> QED
  BY <1>3, <1>4

LEMMA IInvAlways == Spec => [](IInv \/ Lost)
<1>1. (IInv \/ Lost) /\ [Next]_vars => (IInv \/ Lost)'
  <2> SUFFICES ASSUME IInv \/ Lost, [Next]_vars PROVE IInv' \/ Lost'
    OBVIOUS
  <2>1. CASE UNCHANGED vars
    BY <2>1 DEF vars, IInv, Lost
  <2>2. CASE Lost /\ Next
    BY <2>2 DEF Lost, Next
  <2>3. CASE IInv /\ Next
    BY <2>3, MallocStep, CallocStep, FreeStep DEF Next
  <2> QED
    BY <2>1, <2>2, <2>3
<1> QED
  BY <1>1, InitIInv, PTL DEF Spec

LEMMA ListIsThere == IInv => blocks # Wiped
BY DEF IInv, Tiled, Wiped

-----------------------------------------------------------------------------
(* The theorems *)

(* For every arena and every sequence of kmalloc, kcalloc and kfree, the   *)
(* headers in the list hold offsets and sizes inside the arena.            *)
THEOREM HeapTypeAlways == Spec => []TypeOK
<1>0. Lost => TypeOK
  BY DEF Lost, TypeOK, Wiped
<1>1. IInv => TypeOK
  <2> SUFFICES ASSUME IInv PROVE TypeOK
    OBVIOUS
  <2> DEFINE B == [at : 0 .. HEAP_SIZE, size : 0 .. HEAP_SIZE, free : {0, 1}]
  <2>1. blocks \in Seq(B)
    <3>1. blocks \in Seq(Block)
      BY DEF IInv, Tiled
    <3>2. \A i \in 1 .. Len(blocks) : blocks[i] \in B
      BY TiledFacts DEF IInv, Block
    <3> HIDE DEF B
    <3> QED
      BY <3>1, <3>2
  <2> QED
    BY <2>1, ClientsInArena DEF TypeOK
<1> QED
  BY <1>0, <1>1, IInvAlways, PTL

(* split and coalesce lose no byte and put none in two blocks, and the     *)
(* memset of kcalloc writes over no header unless the size asked for is    *)
(* one that align_up wraps.                                                *)
THEOREM TilesAlways == Spec => []BlocksTileTheArena
<1>0. Lost => BlocksTileTheArena
  BY DEF Lost, BlocksTileTheArena, OrWipedByWrap
<1>1. IInv => BlocksTileTheArena
  BY ListIsThere
     DEF IInv, Tiled, Adjacent, End, BlocksTileTheArena, OrWipedByWrap, Last
<1> QED
  BY <1>0, <1>1, IInvAlways, PTL

(* No client's block is given to another, merged away or made smaller      *)
(* while he holds it, and kcalloc's test for a product that wraps is       *)
(* enough.                                                                 *)
THEOREM OwnershipAlways == Spec => []ClientsOwnTheirBlocks
<1>0. Lost => ClientsOwnTheirBlocks
  BY DEF Lost, ClientsOwnTheirBlocks, OrWipedByWrap
<1>1. IInv => ClientsOwnTheirBlocks
  <2> SUFFICES ASSUME IInv PROVE ClientsOwnTheirBlocks
    OBVIOUS
  <2>1. Owned(UsedBlocks(blocks), live)
    BY DEF IInv
  <2> DEFINE A == {payload(b) : b \in {c \in ToSet(blocks) : c.free = 0}}
             L == {x.ptr : x \in live}
  <2>2. \A p : p \in A <=> \E b \in UsedBlocks(blocks) : p = payload(b)
    <3>1. DOMAIN blocks = 1 .. Len(blocks)
      BY DEF IInv, Tiled
    <3> QED
      BY <3>1 DEF UsedBlocks, ToSet
  <2>3. A = L
    <3> HIDE DEF A
    <3>1. \A p : p \in A <=> \E x \in live : p = x.ptr
      BY <2>1, <2>2 DEF Owned
    <3> QED
      BY <3>1
  <2>4. \A x \in live : x.asked \notin WrappingSizes
                          => blocks[Header(x.ptr)].size >= x.asked
    <3> TAKE x \in live
    <3>1. blocks[Header(x.ptr)] \in UsedBlocks(blocks)
      BY HeaderOfClient DEF UsedBlocks
    <3> QED
      BY <2>1, <3>1, HeaderOfClient DEF Owned
  <2>5. \A x, y \in live : x.ptr = y.ptr => x = y
    BY <2>1 DEF Owned
  <2> QED
    BY <2>3, <2>4, <2>5, ListIsThere DEF ClientsOwnTheirBlocks, OrWipedByWrap
<1> QED
  BY <1>0, <1>1, IInvAlways, PTL

(* coalesce's single pass is enough: two free neighbours never remain. *)
THEOREM MergedAlways == Spec => []FullyMerged
<1>0. Lost => FullyMerged
  BY DEF Lost, FullyMerged, Wiped
<1>1. IInv => FullyMerged
  BY DEF IInv, Merged, FullyMerged
<1> QED
  BY <1>0, <1>1, IInvAlways, PTL
=============================================================================
