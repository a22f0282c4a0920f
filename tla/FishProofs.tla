---------------------------- MODULE FishProofs -----------------------------
(***************************************************************************)
(* Proofs about modules Fish and FishView, for every number of nodes, file *)
(* size and set of names: the node array is always one tree, pwd and ls    *)
(* tell the truth about it, and it implements the tree of paths that       *)
(* FishAbs promises.                                                       *)
(*                                                                         *)
(* The argument is about the operators, one lemma per API function: from a *)
(* sound pair (nodes, current) each of them leads to a sound pair.  The    *)
(* actions of Fish are single calls, so the invariance of TypeOK and       *)
(* TreeInv follows by cases.  In a tree the climb of fish_path from any    *)
(* node ends at the root, and no two nodes have the same path; so each     *)
(* call changes the tree of paths the way FishAbs says.                    *)
(***************************************************************************)
EXTENDS FishView, TLAPS, WellFoundedInduction, FiniteSetTheorems,
        SequenceTheorems

-----------------------------------------------------------------------------
(* What the searches return *)

(* A set of slots that is not empty has a least element (FirstOf uses it). *)
LEMMA MinOfNats ==
  ASSUME NEW S \in SUBSET Nat, S # {}
  PROVE  Min(S) \in S /\ \A y \in S : Min(S) <= y
<1> DEFINE LT == OpToRel(<, Nat)
<1>1. \E x \in S : \A y \in S : ~ (<<y, x>> \in LT)
  BY NatLessThanWellFounded, WFMin
<1>2. \A x, y \in S : y < x => <<y, x>> \in LT
  BY DEF OpToRel
<1> HIDE DEF LT
<1>3. PICK x \in S : \A y \in S : ~ (<<y, x>> \in LT)
  BY <1>1
<1>4. \A y \in S : ~ (y < x)
  BY <1>2, <1>3
<1>5. \A y \in S : x <= y
  BY <1>4
<1> QED
  BY <1>5 DEF Min

(* FirstOf returns a member of the set, or -1 when there is none. *)
LEMMA FirstOfSlots ==
  ASSUME NEW S \in SUBSET Node
  PROVE  /\ S = {} => FirstOf(S) = -1
         /\ S # {} => FirstOf(S) \in S
<1>1. S \in SUBSET Nat
  BY SizesAssumption DEF Node
<1> QED
  BY <1>1, MinOfNats DEF FirstOf

(* find_child returns -1 or a node of that directory with that name. *)
LEMMA FindChild ==
  ASSUME NEW n, NEW d, NEW name
  PROVE  LET f == find_child(n, d, name) IN
         \/ f = -1 /\ \A i \in Children(n, d) : n[i].name # name
         \/ f \in Children(n, d) /\ n[f].name = name
<1> DEFINE M == {i \in Children(n, d) : n[i].name = name}
<1>1. M \in SUBSET Node
  BY DEF Children, Used
<1>2. (M = {} => FirstOf(M) = -1) /\ (M # {} => FirstOf(M) \in M)
  BY <1>1, FirstOfSlots
<1>3. find_child(n, d, name) = FirstOf(M)
  BY DEF find_child
<1> QED
  BY <1>2, <1>3

(* allocate returns -1 or a free slot, never slot 0. *)
LEMMA Allocate ==
  ASSUME NEW n
  PROVE  \/ allocate(n) = -1
         \/ allocate(n) \in Node \ {0} /\ n[allocate(n)].used = 0
<1> DEFINE F == {i \in Node \ {0} : n[i].used = 0}
<1>1. (F = {} => FirstOf(F) = -1) /\ (F # {} => FirstOf(F) \in F)
  BY FirstOfSlots
<1> QED
  BY <1>1 DEF allocate

-----------------------------------------------------------------------------
(* Soundness of one call *)

(* A pair (nodes, current) of the right type that is a tree. *)
Sound(n, c) ==
  /\ n \in [Node -> NodeRecord]
  /\ c \in Node
  /\ TreeOK(n, c)

SoundOutcome(o) ==
  /\ Sound(o.nodes, o.current)
  /\ o.ret \in FISH_ERR_FORMAT .. FISH_OK

USE DEF FISH_OK, FISH_ERR_EXISTS, FISH_ERR_NOTDIR, FISH_ERR_NOENT,
        FISH_ERR_FULL, FISH_ERR_NAME, FISH_ERR_ISDIR, FISH_ERR_NOTEMPTY,
        FISH_ERR_SPACE, FISH_ERR_NODISK, FISH_ERR_IO, FISH_ERR_FORMAT

(* A call that changes nothing but the return code is sound. *)
LEMMA Unchanged ==
  ASSUME NEW n, NEW c, Sound(n, c), NEW code \in FISH_ERR_FORMAT .. FISH_OK
  PROVE  SoundOutcome(Outcome(n, c, code))
BY DEF SoundOutcome, Outcome

(* fish_init builds the tree that holds only the root. *)
LEMMA FishInitSound == SoundOutcome(fish_init)
<1>1. 0 \in Node /\ MAX_NODES \in Nat /\ FILE_MAX \in Nat
  BY SizesAssumption DEF Node
<1>2. ZeroNode \in NodeRecord
  BY <1>1, ByteAssumption, SizesAssumption DEF ZeroNode, NodeRecord
<1>3. RootNode \in NodeRecord
  <2>1. ZeroNode.data \in [1 .. FILE_MAX -> Byte]
    BY <1>2 DEF NodeRecord
  <2>2. -1 \in -1 .. MAX_NODES - 1 /\ 0 \in 0 .. FILE_MAX
    BY SizesAssumption
  <2> QED
    BY <2>1, <2>2 DEF RootNode, NodeRecord
<1>4. InitNodes \in [Node -> NodeRecord]
  BY <1>2, <1>3 DEF InitNodes
<1>5. /\ InitNodes[0].used = 1 /\ InitNodes[0].is_dir = 1
      /\ InitNodes[0].parent = -1
  BY <1>1 DEF InitNodes, RootNode, ZeroNode
<1>6. Used(InitNodes) = {0}
  <2>1. \A i \in Node \ {0} : InitNodes[i].used = 0
    BY DEF InitNodes, ZeroNode
  <2> QED
    BY <1>1, <1>5, <2>1 DEF Used
<1>7. Dirs(InitNodes) = {0}
  BY <1>5, <1>6 DEF Dirs
<1>8. TreeOK(InitNodes, 0)
  BY <1>5, <1>6, <1>7
     DEF TreeOK, RootOK, NoneStranded, SiblingsDistinct, Acyclic
<1> QED
  BY <1>1, <1>4, <1>8 DEF fish_init, Outcome, SoundOutcome, Sound

(* make_node: the new node hangs in the current directory, under a name    *)
(* that is new there, in a slot nothing refers to.                         *)
LEMMA MakeNodeSound ==
  ASSUME NEW n, NEW c, Sound(n, c), NEW name, NEW is_dir \in {0, 1}
  PROVE  SoundOutcome(make_node(n, c, name, is_dir))
<1> DEFINE index == allocate(n)
           new   == [name |-> name, used |-> 1, is_dir |-> is_dir,
                     parent |-> c, size |-> 0, data |-> n[index].data]
           m     == [n EXCEPT ![index] = new]
<1>1. CASE \/ ~valid_name(name)
           \/ find_child(n, c, name) >= 0
           \/ index < 0
  BY <1>1, Unchanged DEF make_node
<1>2. CASE /\ valid_name(name)
           /\ ~(find_child(n, c, name) >= 0)
           /\ ~(index < 0)
  <2>1. index \in Node \ {0} /\ n[index].used = 0
    BY <1>2, Allocate
  <2>2. \A i \in Children(n, c) : n[i].name # name
    <3>1. \A i \in Children(n, c) : i >= 0
      BY SizesAssumption DEF Children, Used, Node
    <3> QED
      BY <1>2, <3>1, FindChild
  <2>3. /\ n \in [Node -> NodeRecord] /\ c \in Node
        /\ RootOK(n) /\ c \in Dirs(n) /\ NoneStranded(n)
        /\ SiblingsDistinct(n) /\ Acyclic(n)
    BY DEF Sound, TreeOK
  <2>4. new \in NodeRecord
    <3>1. c \in -1 .. MAX_NODES - 1 /\ 0 \in 0 .. FILE_MAX
      BY <2>3, SizesAssumption DEF Node
    <3>2. n[index].data \in [1 .. FILE_MAX -> Byte]
      BY <2>1, <2>3 DEF NodeRecord
    <3> QED
      BY <1>2, <3>1, <3>2 DEF NodeRecord, valid_name
  <2>5. m \in [Node -> NodeRecord]
    BY <2>1, <2>3, <2>4
  <2>6. /\ m[index].used = 1 /\ m[index].is_dir = is_dir
        /\ m[index].parent = c /\ m[index].name = name
    BY <2>1, <2>3
  <2>7. \A i \in Node \ {index} : m[i] = n[i]
    BY <2>1, <2>3
  <2> HIDE DEF m, index
  <2>8. /\ Used(m) = Used(n) \cup {index}
        /\ index \notin Used(n)
        /\ Dirs(n) \subseteq Dirs(m) /\ Dirs(n) \subseteq Used(n)
    BY <2>1, <2>6, <2>7 DEF Used, Dirs
  <2>9. RootOK(m)
    BY <2>1, <2>3, <2>7, SizesAssumption DEF RootOK, Node
  <2>10. c \in Dirs(m)
    BY <2>3, <2>8
  <2>11. NoneStranded(m)
    BY <2>3, <2>6, <2>7, <2>8 DEF NoneStranded, Used
  <2>12. SiblingsDistinct(m)
    <3> SUFFICES ASSUME NEW i \in Used(m), NEW j \in Used(m),
                        m[i].parent = m[j].parent, m[i].name = m[j].name
                 PROVE  i = j
      BY DEF SiblingsDistinct
    <3>1. CASE i # index /\ j # index
      BY <3>1, <2>3, <2>7, <2>8 DEF SiblingsDistinct, Used
    <3>2. CASE i = index /\ j # index
      <4>1. j \in Children(n, c) /\ n[j].name = name
        BY <3>2, <2>6, <2>7, <2>8 DEF Children, Used
      <4> QED
        BY <4>1, <2>2
    <3>3. CASE i # index /\ j = index
      <4>1. i \in Children(n, c) /\ n[i].name = name
        BY <3>3, <2>6, <2>7, <2>8 DEF Children, Used
      <4> QED
        BY <4>1, <2>2
    <3> QED
      BY <3>1, <3>2, <3>3
  <2>13. Acyclic(m)
    <3> SUFFICES ASSUME NEW S \in SUBSET (Used(m) \ {0}), S # {}
                 PROVE  \E i \in S : m[i].parent \notin S
      BY DEF Acyclic
    <3> DEFINE T == S \ {index}
    <3>1. CASE T = {}
      BY <3>1, <2>3, <2>6, <2>8
    <3>2. CASE T # {}
      <4>1. T \in SUBSET (Used(n) \ {0})
        BY <2>8
      <4>2. PICK i \in T : n[i].parent \notin T
        BY <3>2, <4>1, <2>3 DEF Acyclic
      <4>3. n[i].parent # index
        BY <4>1, <2>3, <2>8 DEF NoneStranded
      <4>4. m[i].parent = n[i].parent
        BY <4>1, <2>7 DEF Used
      <4> QED
        BY <4>2, <4>3, <4>4
    <3> QED
      BY <3>1, <3>2
  <2>14. make_node(n, c, name, is_dir) = Outcome(m, c, FISH_OK)
    BY <1>2 DEF make_node, m, index
  <2> QED
    BY <2>3, <2>5, <2>9, <2>10, <2>11, <2>12, <2>13, <2>14
       DEF SoundOutcome, Sound, TreeOK, Outcome
<1> QED
  BY <1>1, <1>2

(* fish_chdir: the parent of a directory below the root is a directory,    *)
(* so ".." always leads to one.                                            *)
LEMMA ChdirSound ==
  ASSUME NEW n, NEW c, Sound(n, c), NEW name
  PROVE  SoundOutcome(fish_chdir(n, c, name))
<1> DEFINE index == find_child(n, c, name)
           up    == IF n[c].parent >= 0 THEN n[c].parent ELSE c
<1>1. /\ RootOK(n) /\ c \in Dirs(n) /\ NoneStranded(n)
      /\ Dirs(n) \subseteq Used(n) /\ Used(n) \subseteq Node /\ 0 \in Node
  BY SizesAssumption DEF Sound, TreeOK, Dirs, Used, Node
<1>2. \A d \in Dirs(n) : SoundOutcome(Outcome(n, d, FISH_OK))
  BY <1>1 DEF Sound, TreeOK, SoundOutcome, Outcome
<1>3. 0 \in Dirs(n)
  BY <1>1 DEF RootOK, Dirs, Used
<1>4. up \in Dirs(n)
  BY <1>1 DEF NoneStranded, RootOK
<1>5. ~(index < 0) /\ n[index].is_dir # 0 => index \in Dirs(n)
  <2> SUFFICES ASSUME ~(index < 0), n[index].is_dir # 0
               PROVE  index \in Dirs(n)
    OBVIOUS
  <2>1. index \in Children(n, c)
    BY FindChild
  <2>2. index \in Node /\ n[index].is_dir \in {0, 1}
    BY <2>1 DEF Children, Used, Sound, NodeRecord
  <2> QED
    BY <2>1, <2>2 DEF Children, Dirs
<1> HIDE DEF up, index
<1>6. fish_chdir(n, c, name) \in
        {Outcome(n, c, FISH_ERR_NOENT), Outcome(n, 0, FISH_OK),
         Outcome(n, c, FISH_OK), Outcome(n, up, FISH_OK),
         Outcome(n, c, FISH_ERR_NOTDIR)}
      \/ /\ fish_chdir(n, c, name) = Outcome(n, index, FISH_OK)
         /\ ~(index < 0) /\ n[index].is_dir # 0
  BY DEF fish_chdir, up, index
<1> QED
  BY <1>1, <1>2, <1>3, <1>4, <1>5, <1>6, Unchanged

(* fish_remove: the freed slot is neither the root, nor the current        *)
(* directory, nor the parent of a node.                                    *)
LEMMA RemoveSound ==
  ASSUME NEW n, NEW c, Sound(n, c), NEW name
  PROVE  SoundOutcome(fish_remove(n, c, name))
<1> DEFINE index == find_child(n, c, name)
           m     == [n EXCEPT ![index].used = 0]
<1>1. CASE index < 0 \/ (n[index].is_dir = 1 /\ Children(n, index) # {})
  BY <1>1, Unchanged DEF fish_remove
<1>2. CASE ~(index < 0) /\ ~(n[index].is_dir = 1 /\ Children(n, index) # {})
  <2>1. index \in Children(n, c)
    BY <1>2, FindChild
  <2>2. /\ n \in [Node -> NodeRecord] /\ c \in Node
        /\ RootOK(n) /\ c \in Dirs(n) /\ NoneStranded(n)
        /\ SiblingsDistinct(n) /\ Acyclic(n)
    BY DEF Sound, TreeOK
  <2>3. index \in Used(n) /\ index \in Node /\ n[index].parent = c
    BY <2>1 DEF Children, Used
  <2>4. index # 0
    BY <2>2, <2>3, SizesAssumption DEF RootOK, Node
  <2>5. index # c
    <3>1. c \in Used(n)
      BY <2>2 DEF Dirs
    <3>2. c # 0 => n[c].parent \notin {c}
      <4>1. c # 0 => {c} \in SUBSET (Used(n) \ {0})
        BY <3>1
      <4> QED
        BY <4>1, <2>2 DEF Acyclic
    <3> QED
      BY <2>3, <2>4, <3>2
  <2>6. m \in [Node -> NodeRecord]
    BY <2>2, <2>3 DEF NodeRecord
  <2>7. /\ m[index].used = 0
        /\ \A i \in Node : /\ m[i].name = n[i].name
                           /\ m[i].is_dir = n[i].is_dir
                           /\ m[i].parent = n[i].parent
                           /\ i # index => m[i].used = n[i].used
    BY <2>2, <2>3 DEF NodeRecord
  <2> HIDE DEF m, index
  <2>8. /\ Used(m) = Used(n) \ {index}
        /\ Dirs(m) = Dirs(n) \ {index}
        /\ Used(n) \subseteq Node
    BY <2>7, <2>3 DEF Used, Dirs
  <2>9. RootOK(m)
    BY <2>2, <2>4, <2>7, SizesAssumption DEF RootOK, Node
  <2>10. c \in Dirs(m)
    BY <2>2, <2>5, <2>8
  <2>11. NoneStranded(m)
    <3> SUFFICES ASSUME NEW i \in Used(m) \ {0}
                 PROVE  m[i].parent \in Dirs(m)
      BY DEF NoneStranded
    <3>1. i \in Used(n) \ {0} /\ m[i].parent = n[i].parent
      BY <2>7, <2>8
    <3>2. n[i].parent \in Dirs(n)
      BY <3>1, <2>2 DEF NoneStranded
    <3>3. n[i].parent # index
      BY <1>2, <3>1, <3>2 DEF Children, Dirs, index
    <3> QED
      BY <3>1, <3>2, <3>3, <2>8
  <2>12. SiblingsDistinct(m)
    BY <2>2, <2>7, <2>8 DEF SiblingsDistinct
  <2>13. Acyclic(m)
    <3> SUFFICES ASSUME NEW S \in SUBSET (Used(m) \ {0}), S # {}
                 PROVE  \E i \in S : m[i].parent \notin S
      BY DEF Acyclic
    <3>1. S \in SUBSET (Used(n) \ {0})
      BY <2>8
    <3> QED
      BY <3>1, <2>2, <2>7, <2>8 DEF Acyclic
  <2>14. fish_remove(n, c, name) = Outcome(m, c, FISH_OK)
    BY <1>2 DEF fish_remove, m, index
  <2> QED
    BY <2>2, <2>6, <2>9, <2>10, <2>11, <2>12, <2>13, <2>14
       DEF SoundOutcome, Sound, TreeOK, Outcome
<1> QED
  BY <1>1, <1>2

(* A text stored where it fits leaves bytes in every cell. *)
LEMMA StoreType ==
  ASSUME NEW data \in [1 .. FILE_MAX -> Byte], NEW at \in Nat,
         NEW text \in Seq(Byte)
  PROVE  Store(data, at, text) \in [1 .. FILE_MAX -> Byte]
<1> SUFFICES ASSUME NEW k \in 1 .. FILE_MAX, k > at, k <= at + Len(text)
             PROVE  text[k - at] \in Byte
  BY DEF Store
<1>1. k - at \in 1 .. Len(text)
  BY SizesAssumption
<1> QED
  BY <1>1

(* fish_write and fish_append change the size and data of a file: the      *)
(* shape of the tree stays, and the size stays within the file.            *)
LEMMA PutTextSound ==
  ASSUME NEW n, NEW c, Sound(n, c), NEW name, NEW text \in Seq(Byte),
         NEW appending \in BOOLEAN
  PROVE  SoundOutcome(PutText(n, c, name, text, appending))
<1> DEFINE index == find_child(n, c, name)
           at    == IF appending THEN n[index].size ELSE 0
           m     == [n EXCEPT ![index].data = Store(@, at, text),
                              ![index].size = at + Len(text)]
<1>1. CASE \/ index < 0
           \/ n[index].is_dir = 1
           \/ at + Len(text) > FILE_MAX
  BY <1>1, Unchanged DEF PutText
<1>2. CASE /\ ~(index < 0)
           /\ n[index].is_dir # 1
           /\ ~(at + Len(text) > FILE_MAX)
  <2>1. index \in Node
    BY <1>2, FindChild DEF Children, Used
  <2>2. /\ n \in [Node -> NodeRecord] /\ c \in Node
        /\ RootOK(n) /\ c \in Dirs(n) /\ NoneStranded(n)
        /\ SiblingsDistinct(n) /\ Acyclic(n)
    BY DEF Sound, TreeOK
  <2>3. n[index] \in NodeRecord
    BY <2>1, <2>2
  <2> HIDE DEF index
  <2>4. at \in Nat /\ at + Len(text) \in 0 .. FILE_MAX
    <3>0. n[index].size \in 0 .. FILE_MAX
      BY <2>3 DEF NodeRecord
    <3>1. n[index].size \in Nat
      BY <3>0
    <3>2. at \in Nat
      BY <3>1
    <3>3. Len(text) \in Nat
      OBVIOUS
    <3> HIDE DEF at
    <3> QED
      BY <1>2, <3>2, <3>3, SizesAssumption
  <2>5. Store(n[index].data, at, text) \in [1 .. FILE_MAX -> Byte]
    BY <2>3, <2>4, StoreType DEF NodeRecord
  <2> HIDE DEF at
  <2>6. m \in [Node -> NodeRecord]
    BY <2>1, <2>2, <2>3, <2>4, <2>5 DEF NodeRecord
  <2>7. \A i \in Node : /\ m[i].name = n[i].name
                        /\ m[i].used = n[i].used
                        /\ m[i].is_dir = n[i].is_dir
                        /\ m[i].parent = n[i].parent
    BY <2>1, <2>2, <2>3 DEF NodeRecord
  <2> HIDE DEF m
  <2>8. Used(m) = Used(n) /\ Dirs(m) = Dirs(n) /\ Used(n) \subseteq Node
    BY <2>7 DEF Used, Dirs
  <2>9. TreeOK(m, c)
    <3>1. RootOK(m)
      BY <2>2, <2>7, SizesAssumption DEF RootOK, Node
    <3>2. NoneStranded(m) /\ SiblingsDistinct(m)
      BY <2>2, <2>7, <2>8 DEF NoneStranded, SiblingsDistinct
    <3>3. Acyclic(m)
      BY <2>2, <2>7, <2>8 DEF Acyclic
    <3> QED
      BY <3>1, <3>2, <3>3, <2>2, <2>8 DEF TreeOK
  <2>10. PutText(n, c, name, text, appending) = Outcome(m, c, FISH_OK)
    BY <1>2 DEF PutText, m, at, index
  <2> QED
    BY <2>2, <2>6, <2>9, <2>10 DEF SoundOutcome, Sound, Outcome
<1> QED
  BY <1>1, <1>2

-----------------------------------------------------------------------------
(* The tree *)

(* Every shell command on the tree keeps it sound.  One case per command. *)
LEMMA NextSound ==
  ASSUME Sound(nodes, current), ret \in FISH_ERR_FORMAT .. FISH_OK,
         [Next]_fishvars
  PROVE  Sound(nodes, current)' /\ (ret \in FISH_ERR_FORMAT .. FISH_OK)'
<1>0. ASSUME NEW o, Return(o), SoundOutcome(o)
      PROVE  Sound(nodes, current)' /\ (ret \in FISH_ERR_FORMAT .. FISH_OK)'
  BY <1>0 DEF Return, SoundOutcome
<1>1. ASSUME NEW name \in AnyName, cmd_mkdir(name) \/ cmd_touch(name)
      PROVE  Sound(nodes, current)' /\ (ret \in FISH_ERR_FORMAT .. FISH_OK)'
  BY <1>0, <1>1, MakeNodeSound
     DEF cmd_mkdir, cmd_touch, fish_mkdir, fish_create
<1>2. ASSUME NEW name \in AnyName, cmd_rm(name)
      PROVE  Sound(nodes, current)' /\ (ret \in FISH_ERR_FORMAT .. FISH_OK)'
  BY <1>0, <1>2, RemoveSound DEF cmd_rm
<1>3. ASSUME NEW name \in AnyName, cmd_cd(name)
      PROVE  Sound(nodes, current)' /\ (ret \in FISH_ERR_FORMAT .. FISH_OK)'
  BY <1>0, <1>3, ChdirSound DEF cmd_cd
<1>4. ASSUME NEW name \in AnyName, NEW text \in Texts,
             cmd_write(name, text) \/ cmd_append(name, text)
      PROVE  Sound(nodes, current)' /\ (ret \in FISH_ERR_FORMAT .. FISH_OK)'
  <2>1. text \in Seq(Byte)
    BY TextsAssumption
  <2> QED
    BY <1>0, <1>4, <2>1, PutTextSound
       DEF cmd_write, cmd_append, fish_write, fish_append
<1>5. CASE UNCHANGED fishvars
  BY <1>5 DEF fishvars
<1> QED
  BY <1>1, <1>2, <1>3, <1>4, <1>5 DEF Next

(* The inductive invariant: sound, with a return code of fish.h. *)
LEMMA SoundAlways ==
  Spec => [](Sound(nodes, current) /\ ret \in FISH_ERR_FORMAT .. FISH_OK)
<1> DEFINE IInv == Sound(nodes, current) /\ ret \in FISH_ERR_FORMAT .. FISH_OK
<1>1. Init => IInv
  BY FishInitSound DEF Init, SoundOutcome, fish_init, Outcome
<1>2. IInv /\ [Next]_fishvars => IInv'
  BY NextSound
<1> QED
  BY <1>1, <1>2, PTL DEF Spec

(* For every number of nodes, every file size and every set of names,      *)
(* every sequence of shell commands on the tree keeps each slot of fish.c  *)
(* a struct node whose size fits its data, and "current" a slot.           *)
THEOREM TypeAlways == Spec => []TypeOK
<1>1. Sound(nodes, current) /\ ret \in FISH_ERR_FORMAT .. FISH_OK => TypeOK
  BY DEF Sound, TypeOK
<1> QED
  BY <1>1, SoundAlways, PTL

(* Likewise the slots in use stay one tree rooted at slot 0, with distinct *)
(* names in each directory, no cycle, nothing stranded by fish_remove, and *)
(* the user in one of its directories.                                     *)
THEOREM TreeAlways == Spec => []TreeInv
<1>1. Sound(nodes, current) => TreeInv
  BY DEF Sound, TreeInv
<1> QED
  BY <1>1, SoundAlways, PTL

-----------------------------------------------------------------------------
(* Induction and recursion, with a set and a function in the place of      *)
(* operators                                                               *)

(* Induction on the natural numbers. *)
LEMMA SetInduction ==
  ASSUME NEW S, 0 \in S, \A k \in Nat : k \in S => k + 1 \in S
  PROVE  Nat \subseteq S
<1> DEFINE LT == OpToRel(<, Nat)
           T  == Nat \ S
<1> SUFFICES ASSUME T # {} PROVE FALSE
  OBVIOUS
<1>1. PICK x \in T : \A y \in T : ~ (<<y, x>> \in LT)
  BY NatLessThanWellFounded, WFMin
<1>2. x \in Nat /\ x \notin S /\ x # 0
  OBVIOUS
<1>3. x - 1 \in Nat /\ x - 1 < x
  BY <1>2
<1>4. <<x - 1, x>> \in LT
  BY <1>2, <1>3 DEF OpToRel
<1>5. x - 1 \in S
  BY <1>1, <1>3, <1>4
<1>6. (x - 1) + 1 \in S
  BY <1>3, <1>5
<1> QED
  BY <1>2, <1>3, <1>6

(* f[k] is the value after k turns of a loop that replaces x by g[x]. *)
IsLoop(f, S, x, g, m) ==
  f \in [0 .. m -> S] /\ f[0] = x /\ \A k \in 1 .. m : f[k] = g[f[k - 1]]

(* Such a function exists, so a function that is defined by recursion on   *)
(* the turns of a loop satisfies its definition.                           *)
LEMMA Recursion ==
  ASSUME NEW S, NEW x \in S, NEW g \in [S -> S], NEW m \in Nat
  PROVE  \E f : IsLoop(f, S, x, g, m)
<1> DEFINE Is(f, j) == f[0] = x /\ \A k \in 1 .. j : f[k] = g[f[k - 1]]
           P == {j \in Nat : \E f \in [0 .. j -> S] : Is(f, j)}
<1>1. 0 \in P
  <2> DEFINE f == [k \in 0 .. 0 |-> x]
  <2>1. f \in [0 .. 0 -> S] /\ Is(f, 0)
    OBVIOUS
  <2> QED
    BY <2>1
<1>2. ASSUME NEW j \in Nat, j \in P PROVE j + 1 \in P
  <2>1. PICK f \in [0 .. j -> S] : Is(f, j)
    BY <1>2
  <2> DEFINE h == [k \in 0 .. j + 1 |-> IF k = j + 1 THEN g[f[j]] ELSE f[k]]
  <2>2. h \in [0 .. j + 1 -> S]
    <3>1. g[f[j]] \in S
      OBVIOUS
    <3>2. \A k \in 0 .. j + 1 : k # j + 1 => k \in 0 .. j
      OBVIOUS
    <3> QED
      BY <3>1, <3>2
  <2>3. h[0] = x
    BY <2>1
  <2>4. ASSUME NEW k \in 1 .. j + 1 PROVE h[k] = g[h[k - 1]]
    <3>1. k - 1 \in 0 .. j + 1 /\ k - 1 # j + 1 /\ k \in 0 .. j + 1
      OBVIOUS
    <3>2. h[k - 1] = f[k - 1]
      BY <3>1
    <3>3. CASE k = j + 1
      BY <3>1, <3>2, <3>3
    <3>4. CASE k # j + 1
      <4>1. k \in 1 .. j
        BY <3>4
      <4>2. h[k] = f[k] /\ f[k] = g[f[k - 1]]
        BY <2>1, <3>4, <4>1
      <4> QED
        BY <3>2, <4>2
    <3> QED
      BY <3>3, <3>4
  <2> HIDE DEF h
  <2> QED
    BY <2>2, <2>3, <2>4
<1> HIDE DEF P
<1>3. m \in P
  BY <1>1, <1>2, SetInduction
<1> QED
  BY <1>3 DEF P, IsLoop

-----------------------------------------------------------------------------
(* Paths *)

(* What a parent may be. *)
Index == -1 .. MAX_NODES - 1

(* A step of the climb reaches the parent; the root's path has no names. *)
LEMMA ClimbByStep ==
  ASSUME NEW n \in [Node -> NodeRecord]
  PROVE  /\ Climb(n) \in [0 .. MAX_NODES -> [Index -> Seq(AnyName)]]
         /\ Climb(n)[0] = [i \in Index |-> <<>>]
         /\ \A k \in 1 .. MAX_NODES : \A i \in Index :
              Climb(n)[k][i] =
                IF i > 0 THEN Append(Climb(n)[k - 1][n[i].parent], n[i].name)
                         ELSE <<>>
<1> DEFINE M == MAX_NODES
           S == [Index -> Seq(AnyName)]
           x == [i \in Index |-> <<>>]
           g == [p \in S |-> [i \in Index |->
                  IF i > 0 THEN Append(p[n[i].parent], n[i].name) ELSE <<>>]]
<1>0. M \in Nat
  BY SizesAssumption
<1>1. \A i \in Index : i > 0 =>
        i \in Node /\ n[i].parent \in Index /\ n[i].name \in AnyName
  <2> SUFFICES ASSUME NEW i \in Index, i > 0
               PROVE  i \in Node /\ n[i].parent \in Index
                      /\ n[i].name \in AnyName
    OBVIOUS
  <2>1. i \in Node
    BY SizesAssumption DEF Node, Index
  <2> QED
    BY <2>1 DEF NodeRecord, Index, AnyName
<1>2. x \in S
  OBVIOUS
<1>3. g \in [S -> S]
  BY <1>1
<1>3a. PICK f : IsLoop(f, S, x, g, M)
  <2> HIDE DEF S, x, g, M
  <2> QED
    BY <1>0, <1>2, <1>3, Recursion
<1>4. /\ f \in [0 .. M -> S]
      /\ f[0] = x /\ \A k \in 1 .. M : f[k] = g[f[k - 1]]
  BY <1>3a, Zenon DEF IsLoop
<1> DEFINE Step(h) ==
      [k \in 0 .. M |->
         [i \in Index |->
            IF i > 0 /\ k > 0 THEN Append(h[k - 1][n[i].parent], n[i].name)
                              ELSE <<>>]]
<1>5. f = Step(f)
  <2>1. ASSUME NEW k \in 0 .. M PROVE f[k] = Step(f)[k]
    <3>1. CASE k = 0
      BY <1>4, <3>1
    <3>2. CASE k # 0
      <4>1. k \in 1 .. M /\ k - 1 \in 0 .. M /\ k > 0
        BY <1>0, <3>2
      <4>2. f[k - 1] \in S
        BY <1>4, <4>1
      <4>3. f[k] = g[f[k - 1]]
        BY <1>4, <4>1
      <4>4. g[f[k - 1]] = [i \in Index |->
              IF i > 0 THEN Append(f[k - 1][n[i].parent], n[i].name) ELSE <<>>]
        BY <4>2
      <4> QED
        BY <4>1, <4>3, <4>4
    <3> QED
      BY <3>1, <3>2
  <2> HIDE DEF S
  <2> QED
    BY <1>4, <2>1
<1> DEFINE p == Climb(n)
<1>6. p = Step(p)
  BY <1>5 DEF Climb, Index
<1> HIDE DEF p
<1>7. p[0] = x
  BY <1>0, <1>6
<1>8. ASSUME NEW k \in 1 .. M
      PROVE  p[k] = [i \in Index |->
               IF i > 0 THEN Append(p[k - 1][n[i].parent], n[i].name)
                        ELSE <<>>]
  <2>1. k \in 0 .. M /\ k > 0
    BY <1>0
  <2> QED
    BY <1>6, <2>1
<1>9. ASSUME NEW k \in 0 .. M PROVE p[k] \in S
  <2> DEFINE T == {j \in Nat : j <= M => p[j] \in S}
  <2>1. 0 \in T
    BY <1>2, <1>7
  <2>2. ASSUME NEW j \in Nat, j \in T PROVE j + 1 \in T
    <3> SUFFICES ASSUME j + 1 <= M PROVE p[j + 1] \in S
      OBVIOUS
    <3>1. p[j] \in S /\ j + 1 \in 1 .. M /\ (j + 1) - 1 = j
      BY <1>0, <2>2
    <3>2. p[j + 1] = g[p[j]]
      BY <1>8, <3>1
    <3> QED
      BY <1>3, <3>1, <3>2
  <2> HIDE DEF T
  <2>3. k \in T
    BY <2>1, <2>2, SetInduction
  <2> QED
    BY <2>3 DEF T
<1>10. p \in [0 .. M -> S]
  BY <1>6, <1>9
<1>11. \A k \in 1 .. M : \A i \in Index :
         p[k][i] = IF i > 0 THEN Append(p[k - 1][n[i].parent], n[i].name)
                            ELSE <<>>
  BY <1>8
<1> QED
  BY <1>7, <1>10, <1>11, Zenon DEF p

(* A node array that is a tree, wherever the user stands in it. *)
IsTree(n) ==
  /\ n \in [Node -> NodeRecord]
  /\ RootOK(n) /\ NoneStranded(n) /\ SiblingsDistinct(n) /\ Acyclic(n)

(* The parent of a node below the root is a node. *)
LEMMA TreeIndices ==
  ASSUME NEW n, IsTree(n)
  PROVE  /\ 0 \in Used(n) /\ 0 \in Index
         /\ \A i \in Used(n) : i \in Node /\ i \in Index
         /\ \A i \in Used(n) \ {0} :
              /\ i > 0 /\ n[i].parent \in Used(n) /\ n[i].name \in AnyName
              /\ n[i].parent \in Dirs(n)
<1>1. 0 \in Used(n) /\ 0 \in Index
  BY SizesAssumption DEF IsTree, RootOK, Used, Node, Index
<1>2. \A i \in Used(n) : i \in Node /\ i \in Index
  BY SizesAssumption DEF Used, Node, Index
<1>3. ASSUME NEW i \in Used(n) \ {0}
      PROVE  i > 0 /\ n[i].parent \in Used(n) /\ n[i].name \in AnyName
             /\ n[i].parent \in Dirs(n)
  <2>1. i > 0 /\ i \in Node
    BY <1>2, SizesAssumption DEF Node
  <2>2. n[i].parent \in Dirs(n)
    BY DEF IsTree, NoneStranded
  <2>3. n[i].name \in AnyName
    BY <2>1 DEF IsTree, NodeRecord, AnyName
  <2> QED
    BY <2>1, <2>2, <2>3 DEF Dirs
<1> QED
  BY <1>1, <1>2, <1>3

(* Sequences with one element more. *)
LEMMA Appended ==
  ASSUME NEW S, NEW s \in Seq(S), NEW t \in Seq(S), NEW a \in S, NEW b \in S
  PROVE  /\ Append(s, a) # <<>>
         /\ Append(s, a) = Append(t, b) => s = t /\ a = b
<1> DEFINE IsAppended(y, x, c) ==
      /\ Len(y) = Len(x) + 1 /\ y[Len(x) + 1] = c
      /\ \A k \in 1 .. Len(x) : y[k] = x[k]
<1>1. IsAppended(Append(s, a), s, a) /\ IsAppended(Append(t, b), t, b)
  OBVIOUS
<1>2. Append(s, a) # <<>>
  OBVIOUS
<1>3. ASSUME Append(s, a) = Append(t, b) PROVE s = t /\ a = b
  <2> DEFINE y == Append(s, a)
  <2>1. IsAppended(y, s, a) /\ IsAppended(y, t, b)
    BY <1>1, <1>3
  <2> HIDE DEF y
  <2>2. Len(s) = Len(t) /\ a = b
    BY <2>1
  <2>3. \A k \in 1 .. Len(s) : s[k] = t[k]
    BY <2>1, <2>2
  <2> QED
    BY <2>2, <2>3, SeqEqual
<1> QED
  BY <1>2, <1>3

(* The climb from a node ends at the root before its steps are used up:    *)
(* with every step allowed, at least one more node of the tree gets there, *)
(* and there are no more than MAX_NODES nodes.                             *)
LEMMA ClimbEnds ==
  ASSUME NEW n, IsTree(n), NEW i \in Used(n)
  PROVE  Climb(n)[MAX_NODES - 1][i] = Climb(n)[MAX_NODES][i]
<1> DEFINE M == MAX_NODES
           U == Used(n)
           C == Climb(n)
           W(k) == {j \in U : C[k][j] = C[k + 1][j]}
<1>1. /\ M \in Nat /\ M >= 1
      /\ C \in [0 .. M -> [Index -> Seq(AnyName)]]
      /\ C[0] = [j \in Index |-> <<>>]
      /\ \A k \in 1 .. M : \A j \in Index :
           C[k][j] = IF j > 0 THEN Append(C[k - 1][n[j].parent], n[j].name)
                              ELSE <<>>
  BY ClimbByStep, SizesAssumption DEF IsTree
<1>2. /\ 0 \in U /\ 0 \in Index
      /\ \A j \in U : j \in Node /\ j \in Index
      /\ \A j \in U \ {0} :
           j > 0 /\ n[j].parent \in U /\ n[j].name \in AnyName
  BY TreeIndices
<1>3. \A S \in SUBSET (U \ {0}) : S # {} => \E j \in S : n[j].parent \notin S
  BY DEF IsTree, Acyclic
<1> HIDE DEF M, U, C
<1>4. \A k \in 0 .. M : C[k][0] = <<>>
  <2> SUFFICES ASSUME NEW k \in 0 .. M PROVE C[k][0] = <<>>
    OBVIOUS
  <2>1. CASE k = 0
    BY <1>1, <1>2, <2>1
  <2>2. CASE k # 0
    <3>1. k \in 1 .. M
      BY <1>1, <2>2
    <3> QED
      BY <1>1, <1>2, <3>1
  <2> QED
    BY <2>1, <2>2
<1>5. ASSUME NEW k \in 1 .. M, NEW j \in U \ {0}
      PROVE  /\ C[k][j] = Append(C[k - 1][n[j].parent], n[j].name)
             /\ C[k - 1][n[j].parent] \in Seq(AnyName) /\ n[j].name \in AnyName
  <2>0. k - 1 \in 0 .. M
    BY <1>1
  <2>1. /\ n[j].parent \in Index /\ k - 1 \in 0 .. M /\ j \in Index
        /\ j > 0 /\ n[j].name \in AnyName
    BY <1>2, <2>0
  <2>2. C[k - 1] \in [Index -> Seq(AnyName)]
    BY <1>1, <2>1
  <2>3. C[k - 1][n[j].parent] \in Seq(AnyName)
    BY <2>1, <2>2
  <2>4. C[k][j] = Append(C[k - 1][n[j].parent], n[j].name)
    BY <1>1, <2>1
  <2> QED
    BY <2>1, <2>3, <2>4
<1>6. ASSUME NEW k \in 0 .. M - 1 PROVE 0 \in W(k)
  <2>1. k \in 0 .. M /\ k + 1 \in 0 .. M
    BY <1>1
  <2> QED
    BY <1>2, <1>4, <2>1
<1>7. ASSUME NEW k \in Nat, k + 1 < M, NEW j \in U \ {0},
             n[j].parent \in W(k)
      PROVE  j \in W(k + 1)
  <2>1. k + 1 \in 1 .. M /\ k + 2 \in 1 .. M
        /\ (k + 1) - 1 = k /\ (k + 2) - 1 = k + 1 /\ (k + 1) + 1 = k + 2
    BY <1>1, <1>7
  <2>2. /\ C[k + 1][j] = Append(C[k][n[j].parent], n[j].name)
        /\ C[k + 2][j] = Append(C[k + 1][n[j].parent], n[j].name)
    BY <1>5, <2>1
  <2> QED
    BY <1>7, <2>1, <2>2
<1>8. ASSUME NEW k \in Nat, k + 1 < M PROVE W(k) \subseteq W(k + 1)
  <2> DEFINE P == {m \in Nat : m + 1 < M => W(m) \subseteq W(m + 1)}
  <2>1. 0 \in P
    <3> SUFFICES ASSUME 0 + 1 < M, NEW j \in W(0) PROVE j \in W(0 + 1)
      OBVIOUS
    <3>1. j = 0
      <4> SUFFICES ASSUME j # 0 PROVE FALSE
        OBVIOUS
      <4>1. 1 \in 1 .. M /\ j \in U \ {0} /\ j \in Index
        BY <1>1, <1>2
      <4>2. C[1][j] = Append(C[1 - 1][n[j].parent], n[j].name)
            /\ C[1 - 1][n[j].parent] \in Seq(AnyName) /\ n[j].name \in AnyName
        BY <1>5, <4>1
      <4>3. C[1][j] # <<>>
        <5> DEFINE s == C[1 - 1][n[j].parent]
                   a == n[j].name
        <5>1. s \in Seq(AnyName) /\ a \in AnyName /\ C[1][j] = Append(s, a)
          BY <4>2
        <5> HIDE DEF s, a
        <5>2. Append(s, a) # <<>>
          BY <5>1, Appended
        <5> QED
          BY <5>1, <5>2
      <4>4. C[0][j] = <<>>
        BY <1>1, <4>1
      <4> QED
        BY <4>3, <4>4
    <3> QED
      BY <1>1, <1>6, <3>1
  <2>2. ASSUME NEW m \in Nat, m \in P PROVE m + 1 \in P
    <3> SUFFICES ASSUME (m + 1) + 1 < M, NEW j \in W(m + 1)
                 PROVE  j \in W((m + 1) + 1)
      OBVIOUS
    <3>1. CASE j = 0
      BY <1>1, <1>6, <3>1
    <3>2. CASE j # 0
      <4>1. /\ m + 1 \in 1 .. M /\ m + 2 \in 1 .. M /\ j \in U \ {0}
            /\ (m + 1) - 1 = m /\ (m + 2) - 1 = m + 1 /\ (m + 1) + 1 = m + 2
        BY <1>1, <3>2
      <4>2. /\ C[m + 1][j] = Append(C[m][n[j].parent], n[j].name)
            /\ C[m][n[j].parent] \in Seq(AnyName) /\ n[j].name \in AnyName
        BY <1>5, <4>1
      <4>3. /\ C[m + 2][j] = Append(C[m + 1][n[j].parent], n[j].name)
            /\ C[m + 1][n[j].parent] \in Seq(AnyName)
        BY <1>5, <4>1
      <4>4. C[m + 1][j] = C[m + 2][j]
        BY <4>1
      <4>5. C[m][n[j].parent] = C[m + 1][n[j].parent]
        <5> DEFINE s == C[m][n[j].parent]
                   t == C[m + 1][n[j].parent]
                   a == n[j].name
        <5>1. s \in Seq(AnyName) /\ t \in Seq(AnyName) /\ a \in AnyName
          BY <4>2, <4>3
        <5>2. Append(s, a) = Append(t, a)
          BY <4>2, <4>3, <4>4
        <5> HIDE DEF s, t, a
        <5>3. s = t
          BY <5>1, <5>2, Appended
        <5> QED
          BY <5>3 DEF s, t
      <4>6. n[j].parent \in W(m)
        BY <1>2, <4>1, <4>5
      <4>7. n[j].parent \in W(m + 1)
        BY <1>1, <2>2, <4>6
      <4> QED
        BY <1>7, <4>1, <4>7
    <3> QED
      BY <3>1, <3>2
  <2> HIDE DEF P
  <2>3. k \in P
    BY <2>1, <2>2, SetInduction
  <2> QED
    BY <1>8, <2>3 DEF P
<1>9. /\ IsFiniteSet(Node) /\ Cardinality(Node) = M
      /\ U \in SUBSET Node
  <2>1. Node = 0 .. M - 1 /\ 0 \in Int /\ M - 1 \in Int
    BY <1>1 DEF Node, M
  <2>2. IsFiniteSet(0 .. M - 1) /\ Cardinality(0 .. M - 1) = M
    BY <1>1, <2>1, FS_Interval
  <2> QED
    BY <1>2, <2>1, <2>2
<1>10. ASSUME NEW k \in Nat
       PROVE  W(k) \in SUBSET U /\ IsFiniteSet(W(k)) /\ IsFiniteSet(U)
              /\ Cardinality(W(k)) \in Nat /\ Cardinality(U) <= M
              /\ Cardinality(U) \in Nat
  <2>1. W(k) \in SUBSET U /\ W(k) \in SUBSET Node
    BY <1>9
  <2> HIDE DEF W
  <2> QED
    BY <1>9, <2>1, FS_Subset, FS_CardinalityType
<1>11. ASSUME NEW k \in Nat, k < M
       PROVE  W(k) = U \/ Cardinality(W(k)) >= k + 1
  <2> DEFINE P == {m \in Nat : m < M =>
                     W(m) = U \/ Cardinality(W(m)) >= m + 1}
  <2>1. 0 \in P
    <3> SUFFICES ASSUME 0 < M PROVE Cardinality(W(0)) >= 0 + 1
      OBVIOUS
    <3>1. {0} \in SUBSET W(0)
      BY <1>1, <1>6
    <3> HIDE DEF W
    <3>2. Cardinality({0}) <= Cardinality(W(0)) /\ Cardinality({0}) = 1
      BY <1>10, <3>1, FS_Subset, FS_Singleton
    <3> QED
      BY <1>10, <3>2
  <2>2. ASSUME NEW m \in Nat, m \in P PROVE m + 1 \in P
    <3> SUFFICES ASSUME m + 1 < M, W(m + 1) # U
                 PROVE  Cardinality(W(m + 1)) >= (m + 1) + 1
      OBVIOUS
    <3>1. W(m) \subseteq W(m + 1) /\ W(m) \in SUBSET U /\ W(m + 1) \in SUBSET U
      BY <1>8, <1>10
    <3>2. W(m) # U
      BY <3>1
    <3>3. Cardinality(W(m)) >= m + 1
      BY <1>1, <2>2, <3>2
    <3> DEFINE D == U \ W(m)
    <3>4. D \in SUBSET (U \ {0}) /\ D # {}
      <4>1. 0 \in W(m)
        BY <1>1, <1>6
      <4> HIDE DEF W
      <4> QED
        BY <3>1, <3>2, <4>1
    <3>5. PICK j \in D : n[j].parent \notin D
      BY <1>3, <3>4
    <3>6. j \in U \ {0} /\ n[j].parent \in W(m)
      BY <1>2, <3>4, <3>5
    <3>7. j \in W(m + 1) /\ j \notin W(m)
      BY <1>7, <3>5, <3>6
    <3> HIDE DEF W, D
    <3>8. W(m) \cup {j} \in SUBSET W(m + 1)
      BY <3>1, <3>7
    <3>9. Cardinality(W(m) \cup {j}) <= Cardinality(W(m + 1))
      BY <1>10, <3>8, FS_Subset
    <3>10. Cardinality(W(m) \cup {j}) = Cardinality(W(m)) + 1
      BY <1>10, <3>7, FS_AddElement
    <3>11. Cardinality(W(m)) \in Nat /\ Cardinality(W(m + 1)) \in Nat
      BY <1>10
    <3> QED
      BY <3>3, <3>9, <3>10, <3>11
  <2> HIDE DEF P
  <2>3. k \in P
    BY <2>1, <2>2, SetInduction
  <2> QED
    BY <1>11, <2>3 DEF P
<1>12. W(M - 1) = U
  <2> HIDE DEF W
  <2>0. M - 1 \in Nat /\ M - 1 < M
    BY <1>1
  <2> SUFFICES ASSUME Cardinality(W(M - 1)) >= (M - 1) + 1
               PROVE  W(M - 1) = U
    BY <1>11, <2>0
  <2>1. /\ W(M - 1) \in SUBSET U /\ IsFiniteSet(U)
        /\ Cardinality(W(M - 1)) \in Nat /\ Cardinality(U) <= M
        /\ Cardinality(U) \in Nat
    BY <1>1, <1>10
  <2>2. Cardinality(W(M - 1)) <= Cardinality(U)
    BY <2>1, FS_Subset
  <2>3. Cardinality(W(M - 1)) = Cardinality(U)
    BY <1>1, <2>1, <2>2
  <2> QED
    BY <2>1, <2>3, FS_Subset
<1>13. C[M - 1][i] = C[(M - 1) + 1][i]
  <2>1. i \in U
    BY DEF U
  <2> QED
    BY <1>12, <2>1
<1> QED
  BY <1>1, <1>13 DEF C, M

(* The root's path is empty, every other path one name longer than that of *)
(* the parent.                                                             *)
LEMMA PathByStep ==
  ASSUME NEW n, IsTree(n)
  PROVE  /\ PathOf(n, 0) = <<>>
         /\ \A i \in Used(n) : PathOf(n, i) \in Seq(AnyName)
         /\ \A i \in Used(n) \ {0} :
              PathOf(n, i)
                = Append(PathOf(n, n[i].parent), n[i].name)
<1> DEFINE M == MAX_NODES
           C == Climb(n)
<1>1. /\ M \in Nat /\ M >= 1
      /\ C \in [0 .. M -> [Index -> Seq(AnyName)]]
      /\ \A k \in 1 .. M : \A j \in Index :
           C[k][j] = IF j > 0 THEN Append(C[k - 1][n[j].parent], n[j].name)
                              ELSE <<>>
  BY ClimbByStep, SizesAssumption DEF IsTree
<1>2. /\ 0 \in Used(n) /\ 0 \in Index
      /\ \A i \in Used(n) : i \in Node /\ i \in Index
      /\ \A i \in Used(n) \ {0} : i > 0 /\ n[i].parent \in Used(n)
  BY TreeIndices
<1>3. \A i \in Used(n) : C[M - 1][i] = C[M][i]
  BY ClimbEnds
<1>4. \A i : PathOf(n, i) = C[M][i]
  BY DEF PathOf
<1> HIDE DEF M, C
<1>5. M \in 1 .. M /\ M \in 0 .. M
  BY <1>1
<1>6. C[M][0] = <<>>
  BY <1>1, <1>2, <1>5
<1>7. \A i \in Used(n) : C[M][i] \in Seq(AnyName)
  <2>1. C[M] \in [Index -> Seq(AnyName)]
    BY <1>1, <1>5
  <2> QED
    BY <1>2, <2>1
<1>8. ASSUME NEW i \in Used(n) \ {0}
      PROVE  C[M][i] = Append(C[M][n[i].parent], n[i].name)
  <2>1. i \in Index /\ i > 0 /\ n[i].parent \in Used(n)
    BY <1>2
  <2>2. C[M][i] = Append(C[M - 1][n[i].parent], n[i].name)
    BY <1>1, <1>5, <2>1
  <2> QED
    BY <1>3, <2>1, <2>2
<1> QED
  BY <1>4, <1>6, <1>7, <1>8

(* A path leads to one node. *)
LEMMA PathsDistinct ==
  ASSUME NEW n, IsTree(n), NEW i \in Used(n), NEW j \in Used(n),
         PathOf(n, i) = PathOf(n, j)
  PROVE  i = j
<1> DEFINE U == Used(n)
           p(k) == PathOf(n, k)
           D == {k \in U : \E l \in U : l # k /\ p(l) = p(k)}
<1>1. /\ p(0) = <<>>
      /\ \A k \in U : p(k) \in Seq(AnyName)
      /\ \A k \in U \ {0} : p(k) = Append(p(n[k].parent), n[k].name)
  BY PathByStep
<1>2. /\ 0 \in U
      /\ \A k \in U \ {0} : n[k].parent \in U /\ n[k].name \in AnyName
  BY TreeIndices
<1>3. \A S \in SUBSET (U \ {0}) : S # {} => \E k \in S : n[k].parent \notin S
  BY DEF IsTree, Acyclic
<1>4. \A k, l \in U :
        n[k].parent = n[l].parent /\ n[k].name = n[l].name => k = l
  BY DEF IsTree, SiblingsDistinct
<1>5. i \in U /\ j \in U /\ p(i) = p(j)
  OBVIOUS
<1> HIDE DEF U, p
<1>6. \A k \in U \ {0} : p(k) # <<>>
  <2> SUFFICES ASSUME NEW k \in U \ {0} PROVE p(k) # <<>>
    OBVIOUS
  <2>1. /\ p(n[k].parent) \in Seq(AnyName) /\ n[k].name \in AnyName
        /\ p(k) = Append(p(n[k].parent), n[k].name)
    BY <1>1, <1>2
  <2> QED
    BY <2>1, Appended
<1>7. D = {}
  <2> SUFFICES ASSUME D # {} PROVE FALSE
    OBVIOUS
  <2>1. D \in SUBSET (U \ {0})
    BY <1>1, <1>6
  <2>2. PICK k \in D : n[k].parent \notin D
    BY <1>3, <2>1
  <2>3. PICK l \in U : l # k /\ p(l) = p(k)
    BY <2>2
  <2>4. k \in U \ {0} /\ l \in U \ {0}
    BY <1>1, <1>6, <2>1, <2>2, <2>3
  <2>5. /\ p(n[k].parent) \in Seq(AnyName) /\ n[k].name \in AnyName
        /\ p(k) = Append(p(n[k].parent), n[k].name)
        /\ n[k].parent \in U
    BY <1>1, <1>2, <2>4
  <2>6. /\ p(n[l].parent) \in Seq(AnyName) /\ n[l].name \in AnyName
        /\ p(l) = Append(p(n[l].parent), n[l].name)
        /\ n[l].parent \in U
    BY <1>1, <1>2, <2>4
  <2>7. p(n[k].parent) = p(n[l].parent) /\ n[k].name = n[l].name
    <3> DEFINE s == p(n[k].parent)
               t == p(n[l].parent)
    <3>1. s \in Seq(AnyName) /\ t \in Seq(AnyName)
      BY <2>5, <2>6
    <3>2. Append(s, n[k].name) = Append(t, n[l].name)
      BY <2>3, <2>5, <2>6
    <3> HIDE DEF s, t
    <3>3. s = t /\ n[k].name = n[l].name
      BY <2>5, <2>6, <3>1, <3>2, Appended
    <3> QED
      BY <3>3 DEF s, t
  <2>8. n[k].parent = n[l].parent
    BY <2>2, <2>5, <2>6, <2>7
  <2> QED
    BY <1>4, <2>3, <2>4, <2>7, <2>8
<1> QED
  BY <1>5, <1>7

(* Nodes whose ancestors stay as they are keep their paths. *)
LEMMA SamePaths ==
  ASSUME NEW n, IsTree(n), NEW m, IsTree(m),
         NEW T \in SUBSET Used(n), T \subseteq Used(m),
         \A i \in T \ {0} : /\ n[i].parent \in T
                            /\ m[i].parent = n[i].parent
                            /\ m[i].name = n[i].name,
         NEW i \in T
  PROVE  PathOf(m, i) = PathOf(n, i)
<1> DEFINE D == {k \in T : PathOf(m, k) # PathOf(n, k)}
<1>1. D \in SUBSET (Used(n) \ {0})
  BY PathByStep
<1>2. D = {}
  <2> SUFFICES ASSUME D # {} PROVE FALSE
    OBVIOUS
  <2>1. PICK k \in D : n[k].parent \notin D
    BY <1>1 DEF IsTree, Acyclic
  <2>2. k \in T \ {0} /\ k \in Used(n) \ {0} /\ k \in Used(m) \ {0}
    BY <1>1
  <2>3. PathOf(m, n[k].parent) = PathOf(n, n[k].parent)
    BY <2>1, <2>2
  <2>4. PathOf(m, k) = Append(PathOf(m, m[k].parent), m[k].name)
        /\ PathOf(n, k) = Append(PathOf(n, n[k].parent), n[k].name)
    BY <2>2, PathByStep
  <2> QED
    BY <2>1, <2>2, <2>3, <2>4
<1> QED
  BY <1>2

-----------------------------------------------------------------------------
(* The tree of paths *)

(* What a path leads to. *)
Entry(node) ==
  [is_dir |-> node.is_dir,
   text   |-> IF node.is_dir = 1 THEN <<>> ELSE Contents(node)]

Paths(n) == {PathOf(n, i) : i \in Used(n)}

(* The tree of paths has at the path of slot i what slot i holds. *)
LEMMA TreeByNode ==
  ASSUME NEW n, IsTree(n)
  PROVE  /\ DOMAIN TreeOfPaths(n) = Paths(n)
         /\ TreeOfPaths(n) = [p \in Paths(n) |-> TreeOfPaths(n)[p]]
         /\ \A i \in Used(n) : TreeOfPaths(n)[PathOf(n, i)] = Entry(n[i])
<1> DEFINE path == [i \in Used(n) |-> PathOf(n, i)]
           At(p) == n[CHOOSE i \in Used(n) : path[i] = p]
           t == [p \in Paths(n) |-> Entry(At(p))]
<1>1. Range(path) = Paths(n)
  BY DEF Range, Paths
<1>2. TreeOfPaths(n) = t
  BY <1>1 DEF TreeOfPaths, Entry
<1>3. ASSUME NEW i \in Used(n) PROVE t[PathOf(n, i)] = Entry(n[i])
  <2> DEFINE q == PathOf(n, i)
             j == CHOOSE k \in Used(n) : path[k] = q
  <2>1. q \in Paths(n)
    BY DEF Paths
  <2>2. j \in Used(n) /\ path[j] = q
    <3>1. \E k \in Used(n) : path[k] = q
      OBVIOUS
    <3> QED
      BY <3>1
  <2>3. j = i
    BY <2>2, PathsDistinct
  <2>4. At(q) = n[i]
    BY <2>3
  <2> HIDE DEF q
  <2> QED
    BY <2>1, <2>4 DEF q
<1> HIDE DEF t
<1>4. DOMAIN t = Paths(n) /\ t = [p \in Paths(n) |-> t[p]]
  BY DEF t
<1> QED
  BY <1>2, <1>3, <1>4

(* A child's path and the search for it. *)
LEMMA FindEntry ==
  ASSUME NEW n, IsTree(n), NEW c \in Used(n), NEW name \in AnyName
  PROVE  LET f == find_child(n, c, name)
             e == Append(PathOf(n, c), name)
         IN  \/ f = -1 /\ e \notin Paths(n)
             \/ /\ f \in Used(n) \ {0} /\ e = PathOf(n, f)
                /\ n[f].parent = c /\ n[f].name = name
<1> DEFINE f == find_child(n, c, name)
           e == Append(PathOf(n, c), name)
<1>1. \/ f = -1 /\ \A i \in Children(n, c) : n[i].name # name
      \/ f \in Children(n, c) /\ n[f].name = name
  BY FindChild
<1> HIDE DEF f
<1>2. CASE f = -1 /\ \A i \in Children(n, c) : n[i].name # name
  <2> SUFFICES ASSUME NEW j \in Used(n), e = PathOf(n, j) PROVE FALSE
    BY <1>2 DEF Paths, f
  <2>1. PathOf(n, c) \in Seq(AnyName)
    BY PathByStep
  <2>2. j # 0
    BY <2>1, PathByStep, Appended
  <2> DEFINE p == n[j].parent
             s == PathOf(n, c)
             t == PathOf(n, p)
  <2>3. p \in Used(n) /\ n[j].name \in AnyName
    BY <2>2, TreeIndices
  <2>4. t \in Seq(AnyName) /\ PathOf(n, j) = Append(t, n[j].name)
    BY <2>2, <2>3, PathByStep
  <2>5. s = t /\ name = n[j].name
    <3> HIDE DEF s, t
    <3>1. Append(s, name) = Append(t, n[j].name)
      BY <2>4 DEF s
    <3> QED
      BY <2>1, <2>3, <2>4, <3>1, Appended DEF s
  <2>6. p = c
    BY <2>3, <2>5, PathsDistinct
  <2>7. j \in Children(n, c)
    BY <2>6 DEF Children
  <2> QED
    BY <1>2, <2>5, <2>7
<1>3. CASE f \in Children(n, c) /\ n[f].name = name
  <2>1. f \in Used(n) /\ n[f].parent = c
    BY <1>3 DEF Children
  <2>2. f # 0
    BY <2>1, TreeIndices, SizesAssumption DEF IsTree, RootOK, Node
  <2>3. PathOf(n, f) = e
    BY <1>3, <2>1, <2>2, PathByStep
  <2> QED
    BY <1>3, <2>1, <2>2, <2>3 DEF f
<1> QED
  BY <1>1, <1>2, <1>3 DEF f

(* The path above a path is that of the parent. *)
LEMMA PathAbove ==
  ASSUME NEW n, IsTree(n)
  PROVE  /\ Abs!Parent(PathOf(n, 0)) = <<>>
         /\ \A i \in Used(n) \ {0} :
              /\ PathOf(n, i) # <<>>
              /\ Abs!Parent(PathOf(n, i)) = PathOf(n, n[i].parent)
<1>1. Abs!Parent(PathOf(n, 0)) = <<>>
  BY PathByStep DEF Abs!Parent
<1>2. ASSUME NEW i \in Used(n) \ {0}
      PROVE  /\ PathOf(n, i) # <<>>
             /\ Abs!Parent(PathOf(n, i)) = PathOf(n, n[i].parent)
  <2> DEFINE s == PathOf(n, n[i].parent)
             a == n[i].name
  <2>1. s \in Seq(AnyName) /\ a \in AnyName /\ PathOf(n, i) = Append(s, a)
    BY TreeIndices, PathByStep
  <2> HIDE DEF s, a
  <2>2. Append(s, a) # <<>>
    BY <2>1, Appended
  <2>3. SubSeq(Append(s, a), 1, Len(Append(s, a)) - 1) = s
    <3> DEFINE y == SubSeq(Append(s, a), 1, Len(Append(s, a)) - 1)
    <3>1. Len(Append(s, a)) = Len(s) + 1 /\ Len(s) \in Nat
          /\ Append(s, a) \in Seq(AnyName)
          /\ \A k \in 1 .. Len(s) : Append(s, a)[k] = s[k]
      BY <2>1
    <3>2. y = SubSeq(Append(s, a), 1, Len(s))
      BY <3>1
    <3>3. y \in Seq(AnyName) /\ Len(y) = Len(s)
          /\ \A k \in 1 .. Len(s) : y[k] = s[k]
      BY <3>1, <3>2
    <3> HIDE DEF y
    <3> QED
      BY <2>1, <3>3, SeqEqual DEF y
  <2> QED
    BY <2>1, <2>2, <2>3 DEF Abs!Parent, s
<1> QED
  BY <1>1, <1>2

(* There are as many paths as nodes, so the tree is full exactly when no   *)
(* slot is free.                                                           *)
LEMMA Fullness ==
  ASSUME NEW n, IsTree(n)
  PROVE  /\ allocate(n) < 0  => Cardinality(Paths(n)) = MAX_NODES
         /\ ~(allocate(n) < 0) => Cardinality(Paths(n)) < MAX_NODES
<1>1. /\ IsFiniteSet(Node) /\ Cardinality(Node) = MAX_NODES
      /\ MAX_NODES \in Nat
  <2>1. MAX_NODES \in Nat /\ MAX_NODES >= 1
    BY SizesAssumption
  <2>2. IsFiniteSet(0 .. MAX_NODES - 1)
        /\ Cardinality(0 .. MAX_NODES - 1) = MAX_NODES
    BY <2>1, FS_Interval
  <2> QED
    BY <2>1, <2>2 DEF Node
<1>2. Used(n) \in SUBSET Node
  BY DEF Used
<1>3. IsFiniteSet(Used(n))
  BY <1>1, <1>2, FS_Subset
<1>4. Cardinality(Paths(n)) = Cardinality(Used(n))
  <2> DEFINE f == [i \in Used(n) |-> PathOf(n, i)]
  <2>1. f \in [Used(n) -> Paths(n)]
    BY DEF Paths
  <2>2. \A i, j \in Used(n) : f[i] = f[j] => i = j
    BY PathsDistinct
  <2>3. \A p \in Paths(n) : \E i \in Used(n) : f[i] = p
    BY DEF Paths
  <2> HIDE DEF f
  <2>4. f \in Bijection(Used(n), Paths(n))
    BY <2>1, <2>2, <2>3 DEF Bijection, Injection, Surjection, IsInjective
  <2>5. ExistsBijection(Used(n), Paths(n))
    BY <2>4 DEF ExistsBijection
  <2> QED
    BY <1>3, <2>5, FS_Bijection
<1> DEFINE F == {i \in Node \ {0} : n[i].used = 0}
<1>5. allocate(n) = FirstOf(F)
  BY DEF allocate
<1>6. (F = {} => FirstOf(F) = -1) /\ (F # {} => FirstOf(F) \in F)
  BY FirstOfSlots
<1>7. CASE F = {}
  <2>1. ASSUME NEW i \in Node PROVE i \in Used(n)
    <3>1. n[i].used \in {0, 1}
      BY DEF IsTree, NodeRecord
    <3> QED
      BY <1>7, <3>1 DEF IsTree, RootOK, Used
  <2>2. Used(n) = Node
    BY <1>2, <2>1
  <2> QED
    BY <1>1, <1>4, <1>5, <1>6, <1>7, <2>2
<1>8. CASE F # {}
  <2> DEFINE a == FirstOf(F)
  <2>1. a \in Node /\ a \notin Used(n) /\ ~(a < 0)
    BY <1>6, <1>8, SizesAssumption DEF Used, Node
  <2>2. Used(n) # Node /\ Cardinality(Used(n)) <= Cardinality(Node)
        /\ Cardinality(Used(n)) # Cardinality(Node)
    BY <1>1, <1>2, <2>1, FS_Subset
  <2>3. Cardinality(Used(n)) \in Nat
    BY <1>3, FS_CardinalityType
  <2> QED
    BY <1>1, <1>4, <1>5, <2>1, <2>2, <2>3
<1> QED
  BY <1>7, <1>8

-----------------------------------------------------------------------------
(* Every call does to the tree of paths what FishAbs says *)

(* What the lemmas on paths need of a sound pair. *)
LEMMA SoundIsTree ==
  ASSUME NEW n, NEW c
  PROVE  Sound(n, c) => IsTree(n) /\ c \in Used(n) /\ c \in Dirs(n)
BY DEF Sound, TreeOK, IsTree, Dirs

USE DEF Abs!FISH_OK, Abs!FISH_ERR_EXISTS, Abs!FISH_ERR_NOTDIR,
        Abs!FISH_ERR_NOENT, Abs!FISH_ERR_FULL, Abs!FISH_ERR_NAME,
        Abs!FISH_ERR_ISDIR, Abs!FISH_ERR_NOTEMPTY, Abs!FISH_ERR_SPACE

(* FishAbs counts paths with its own instance of FiniteSets. *)
LEMMA SameCardinality ==
  ASSUME NEW S PROVE Abs!Cardinality(S) = Cardinality(S)
BY DEF Abs!Cardinality, Cardinality

(* A call that changes nothing but the return code. *)
LEMMA FailedCall ==
  ASSUME nodes' = nodes, current' = current, NEW code, ret' = code
  PROVE  Abs!Fail(code)
BY DEF Abs!Fail

(* make_node adds one path, or fails for the reason FishAbs gives; a slot  *)
(* that is used again shows nothing of the file that was there before.     *)
LEMMA MakeImplements ==
  ASSUME Sound(nodes, current), NEW name \in AnyName, NEW is_dir \in {0, 1},
         Return(make_node(nodes, current, name, is_dir))
  PROVE  Abs!Make(name, is_dir)
<1> DEFINE n     == nodes
           c     == current
           m     == nodes'
           index == allocate(n)
           f     == find_child(n, c, name)
           e     == Append(PathOf(n, c), name)
<1>1. IsTree(n) /\ c \in Used(n)
  BY SoundIsTree
<1>2. \/ f = -1 /\ e \notin Paths(n)
      \/ f \in Used(n) \ {0} /\ e = PathOf(n, f)
  BY <1>1, FindEntry
<1>3. f >= 0 <=> e \in Paths(n)
  <2>1. \A i \in Used(n) : i >= 0
    BY SizesAssumption DEF Used, Node
  <2>2. \A i \in Used(n) : PathOf(n, i) \in Paths(n)
    BY DEF Paths
  <2> HIDE DEF f, e
  <2> QED
    BY <1>2, <2>1, <2>2
<1>4. DOMAIN TreeOfPaths(n) = Paths(n)
  BY <1>1, TreeByNode
<1>5. CASE ~valid_name(name)
  <2>1. m = n /\ current' = c /\ ret' = FISH_ERR_NAME
    BY <1>5 DEF Return, make_node, Outcome
  <2>2. Abs!Fail(Abs!FISH_ERR_NAME) /\ name \notin ValidNames
    BY <1>5, <2>1, FailedCall DEF valid_name
  <2> QED
    BY <2>2, Zenon DEF Abs!Make
<1>6. CASE valid_name(name) /\ f >= 0
  <2>1. m = n /\ current' = c /\ ret' = FISH_ERR_EXISTS
    BY <1>6 DEF Return, make_node, Outcome
  <2>2. Abs!Fail(Abs!FISH_ERR_EXISTS) /\ name \in ValidNames
        /\ e \in DOMAIN TreeOfPaths(n)
    BY <1>3, <1>4, <1>6, <2>1, FailedCall DEF valid_name
  <2> QED
    BY <2>2, Zenon DEF Abs!Make
<1>7. CASE valid_name(name) /\ ~(f >= 0) /\ index < 0
  <2>1. m = n /\ current' = c /\ ret' = FISH_ERR_FULL
    BY <1>7 DEF Return, make_node, Outcome
  <2>2. Abs!Cardinality(DOMAIN TreeOfPaths(n)) = MAX_NODES
    BY <1>1, <1>4, <1>7, Fullness, SameCardinality
  <2>3. e \notin DOMAIN TreeOfPaths(n) /\ name \in ValidNames
    BY <1>3, <1>4, <1>7 DEF valid_name
  <2>4. Abs!Fail(Abs!FISH_ERR_FULL)
    BY <2>1, FailedCall
  <2> QED
    BY <2>2, <2>3, <2>4, Zenon DEF Abs!Make
<1>8. CASE valid_name(name) /\ ~(f >= 0) /\ ~(index < 0)
  <2> DEFINE new == [name |-> name, used |-> 1, is_dir |-> is_dir,
                     parent |-> c, size |-> 0, data |-> n[index].data]
  <2>1. /\ m = [n EXCEPT ![index] = new]
        /\ current' = c /\ ret' = FISH_OK
    BY <1>8 DEF Return, make_node, Outcome
  <2>2. IsTree(m)
    <3>1. SoundOutcome(make_node(n, c, name, is_dir))
      BY MakeNodeSound
    <3>2. Sound(m, current')
      BY <3>1 DEF SoundOutcome, Return
    <3> QED
      BY <3>2, SoundIsTree
  <2>3. index \in Node \ {0} /\ n[index].used = 0
    BY <1>8, Allocate
  <2>4. n \in [Node -> NodeRecord]
    BY <1>1 DEF IsTree
  <2>5. m[index] = new /\ \A i \in Node \ {index} : m[i] = n[i]
    BY <2>1, <2>3, <2>4
  <2>6. /\ Used(m) = Used(n) \cup {index} /\ index \notin Used(n)
        /\ Used(n) \subseteq Node
    BY <2>3, <2>5 DEF Used
  <2>7. \A i \in Used(n) : m[i] = n[i] /\ PathOf(m, i) = PathOf(n, i)
    <3>1. \A i \in Used(n) : m[i] = n[i]
      BY <2>5, <2>6
    <3>2. \A i \in Used(n) \ {0} : n[i].parent \in Used(n)
      BY <1>1, TreeIndices
    <3>3. Used(n) \subseteq Used(m)
      BY <2>6
    <3> HIDE DEF m, n
    <3> QED
      BY <1>1, <2>2, <3>1, <3>2, <3>3, SamePaths
  <2>8. PathOf(m, index) = e
    <3>1. index \in Used(m) \ {0} /\ m[index].parent = c
          /\ m[index].name = name
      BY <2>3, <2>5, <2>6
    <3>2. PathOf(m, index) = Append(PathOf(m, c), name)
      BY <2>2, <3>1, PathByStep
    <3> QED
      BY <1>1, <2>7, <3>2
  <2>9. Paths(m) = Paths(n) \cup {e}
    BY <2>6, <2>7, <2>8 DEF Paths
  <2> DEFINE x == [is_dir |-> is_dir, text |-> <<>>]
  <2>10. TreeOfPaths(m)[e] = x
    <3>1. TreeOfPaths(m)[PathOf(m, index)] = Entry(m[index])
      BY <2>2, <2>6, TreeByNode
    <3>2. Entry(new) = x
      BY DEF Entry, Contents
    <3> QED
      BY <2>5, <2>8, <3>1, <3>2
  <2>11. \A p \in Paths(n) : TreeOfPaths(m)[p] = TreeOfPaths(n)[p]
    <3> SUFFICES ASSUME NEW i \in Used(n)
                 PROVE  TreeOfPaths(m)[PathOf(n, i)]
                          = TreeOfPaths(n)[PathOf(n, i)]
      BY DEF Paths
    <3>1. TreeOfPaths(n)[PathOf(n, i)] = Entry(n[i])
      BY <1>1, TreeByNode
    <3>2. TreeOfPaths(m)[PathOf(m, i)] = Entry(m[i])
      BY <2>2, <2>6, TreeByNode
    <3> QED
      BY <2>7, <3>1, <3>2
  <2> HIDE DEF m, n, x, e
  <2>12. TreeOfPaths(m) = [p \in Paths(n) \cup {e} |->
                             IF p = e THEN x ELSE TreeOfPaths(n)[p]]
    <3>1. TreeOfPaths(m) = [p \in Paths(n) \cup {e} |-> TreeOfPaths(m)[p]]
      BY <2>2, <2>9, TreeByNode
    <3> QED
      BY <2>10, <2>11, <3>1
  <2>13. Abs!Cardinality(DOMAIN TreeOfPaths(n)) < MAX_NODES
         /\ e \notin DOMAIN TreeOfPaths(n) /\ name \in ValidNames
    BY <1>1, <1>3, <1>4, <1>8, Fullness, SameCardinality DEF valid_name
  <2>14. PathOf(m, current') = PathOf(n, c)
    BY <1>1, <2>1, <2>7
  <2>15. Abs!Done
    BY <2>1 DEF Abs!Done
  <2>16. TreeOfPaths(nodes') = [p \in DOMAIN TreeOfPaths(nodes) \cup {e} |->
           IF p = e THEN x ELSE TreeOfPaths(nodes)[p]]
    BY <1>4, <2>12 DEF m, n
  <2>17. PathOf(nodes', current') = PathOf(nodes, current)
    BY <2>14 DEF m, n
  <2> QED
    BY <2>13, <2>15, <2>16, <2>17, Zenon DEF Abs!Make, n, x, e
<1> QED
  BY <1>5, <1>6, <1>7, <1>8

(* fish_chdir goes to the path FishAbs says. *)
LEMMA ChdirImplements ==
  ASSUME Sound(nodes, current), NEW name \in AnyName,
         Return(fish_chdir(nodes, current, name))
  PROVE  name # "" => Abs!Chdir(name)
<1> DEFINE n == nodes
           c == current
           f == find_child(n, c, name)
           e == Append(PathOf(n, c), name)
<1>1. IsTree(n) /\ c \in Used(n) /\ c \in Node
  BY SoundIsTree DEF Sound
<1>2. \/ f = -1 /\ e \notin Paths(n)
      \/ f \in Used(n) \ {0} /\ e = PathOf(n, f)
  BY <1>1, FindEntry
<1>3. DOMAIN TreeOfPaths(n) = Paths(n)
  BY <1>1, TreeByNode
<1>4. ASSUME current' \in Used(n), nodes' = n, ret' = FISH_OK,
             NEW p, PathOf(n, current') = p
      PROVE  /\ Abs!Done /\ UNCHANGED TreeOfPaths(nodes)
             /\ PathOf(nodes', current') = p
  BY <1>4 DEF Abs!Done
<1>5. CASE name = "/"
  <2>1. nodes' = n /\ current' = 0 /\ ret' = FISH_OK
    BY <1>5 DEF Return, fish_chdir, Outcome
  <2>2. PathOf(n, 0) = <<>> /\ 0 \in Used(n)
    BY <1>1, PathByStep, TreeIndices
  <2>3. Abs!Done /\ UNCHANGED TreeOfPaths(nodes)
        /\ PathOf(nodes', current') = <<>>
    BY <1>4, <2>1, <2>2
  <2> QED
    BY <1>5, <2>3, Zenon DEF Abs!Chdir
<1>6. CASE name = "."
  <2>1. nodes' = n /\ current' = c /\ ret' = FISH_OK
    BY <1>6 DEF Return, fish_chdir, Outcome
  <2>2. Abs!Done /\ UNCHANGED TreeOfPaths(nodes)
        /\ PathOf(nodes', current') = PathOf(nodes, current)
    BY <1>1, <1>4, <2>1
  <2> QED
    BY <1>6, <2>2, Zenon DEF Abs!Chdir
<1>7. CASE name = ".."
  <2>1. nodes' = n /\ ret' = FISH_OK
        /\ current' = IF n[c].parent >= 0 THEN n[c].parent ELSE c
    BY <1>7 DEF Return, fish_chdir, Outcome
  <2>2. current' \in Used(n)
        /\ PathOf(n, current') = Abs!Parent(PathOf(n, c))
    <3>1. CASE c = 0
      <4>1. n[0].parent = -1
        BY <1>1 DEF IsTree, RootOK
      <4> QED
        BY <1>1, <2>1, <3>1, <4>1, PathAbove, PathByStep
    <3>2. CASE c # 0
      <4>1. n[c].parent \in Used(n) /\ n[c].parent >= 0
        <5>1. n[c].parent \in Used(n) /\ n[c].parent \in Node
          BY <1>1, <3>2, TreeIndices
        <5> QED
          BY <5>1, SizesAssumption DEF Node
      <4> QED
        BY <1>1, <2>1, <3>2, <4>1, PathAbove
    <3> QED
      BY <3>1, <3>2
  <2>3. Abs!Done /\ UNCHANGED TreeOfPaths(nodes)
        /\ PathOf(nodes', current') = Abs!Parent(PathOf(nodes, current))
    BY <1>4, <2>1, <2>2
  <2> QED
    BY <1>7, <2>3, Zenon DEF Abs!Chdir
<1>8. CASE name \notin {"", "/", ".", ".."} /\ f < 0
  <2>1. nodes' = n /\ current' = c /\ ret' = FISH_ERR_NOENT
    BY <1>8 DEF Return, fish_chdir, Outcome
  <2>2. Abs!Fail(Abs!FISH_ERR_NOENT)
    BY <2>1, FailedCall
  <2>3. e \notin DOMAIN TreeOfPaths(n)
    <3>1. \A i \in Used(n) : ~(i < 0)
      BY SizesAssumption DEF Used, Node
    <3> HIDE DEF f
    <3> QED
      BY <1>2, <1>3, <1>8, <3>1
  <2> QED
    BY <1>8, <2>2, <2>3, Zenon DEF Abs!Chdir
<1>9. CASE name \notin {"", "/", ".", ".."} /\ ~(f < 0)
  <2>0. f # -1
    <3>1. ~(f < 0)
      BY <1>9, Zenon
    <3> HIDE DEF f
    <3> QED
      BY <3>1
  <2>1. f \in Used(n) \ {0} /\ e = PathOf(n, f)
    BY <1>2, <2>0, Zenon
  <2>2. e \in DOMAIN TreeOfPaths(n) /\ TreeOfPaths(n)[e] = Entry(n[f])
    BY <1>1, <1>3, <2>1, TreeByNode DEF Paths
  <2>3. TreeOfPaths(n)[e].is_dir = n[f].is_dir
    BY <2>2 DEF Entry
  <2>4. CASE n[f].is_dir = 0
    <3>1. nodes' = n /\ current' = c /\ ret' = FISH_ERR_NOTDIR
      BY <1>9, <2>4 DEF Return, fish_chdir, Outcome
    <3>2. Abs!Fail(Abs!FISH_ERR_NOTDIR)
      BY <3>1, FailedCall
    <3>3. TreeOfPaths(n)[e].is_dir = 0
      BY <2>3, <2>4
    <3> QED
      BY <2>2, <3>2, <3>3, Zenon DEF Abs!Chdir
  <2>5. CASE n[f].is_dir # 0
    <3>1. nodes' = n /\ current' = f /\ ret' = FISH_OK
      BY <1>9, <2>5 DEF Return, fish_chdir, Outcome
    <3>2. n[f].is_dir \in {0, 1}
      <4>1. f \in Node /\ n \in [Node -> NodeRecord]
        BY <1>1, <2>1, TreeIndices DEF IsTree
      <4> QED
        BY <4>1 DEF NodeRecord
    <3>3. TreeOfPaths(n)[e].is_dir = 1
      BY <2>3, <2>5, <3>2
    <3>4. Abs!Done /\ UNCHANGED TreeOfPaths(nodes)
          /\ PathOf(nodes', current') = e
      BY <1>4, <2>1, <3>1
    <3> QED
      BY <2>2, <3>3, <3>4, Zenon DEF Abs!Chdir
  <2> QED
    BY <2>4, <2>5
<1> QED
  BY <1>5, <1>6, <1>7, <1>8, <1>9, Zenon

(* fish_remove takes one path away, and only when nothing is below it. *)
LEMMA RemoveImplements ==
  ASSUME Sound(nodes, current), NEW name \in AnyName,
         Return(fish_remove(nodes, current, name))
  PROVE  Abs!Remove(name)
<1> DEFINE n == nodes
           c == current
           m == nodes'
           f == find_child(n, c, name)
           e == Append(PathOf(n, c), name)
           B == {p \in DOMAIN TreeOfPaths(n) \ {<<>>} : Abs!Parent(p) = e}
<1>1. IsTree(n) /\ c \in Used(n)
  BY SoundIsTree
<1>2. \/ f = -1 /\ e \notin Paths(n)
      \/ f \in Used(n) \ {0} /\ e = PathOf(n, f)
  BY <1>1, FindEntry
<1>3. DOMAIN TreeOfPaths(n) = Paths(n)
  BY <1>1, TreeByNode
<1>4. CASE f < 0
  <2>1. m = n /\ current' = c /\ ret' = FISH_ERR_NOENT
    BY <1>4 DEF Return, fish_remove, Outcome
  <2>2. Abs!Fail(Abs!FISH_ERR_NOENT)
    BY <2>1, FailedCall
  <2>3. e \notin DOMAIN TreeOfPaths(n)
    <3>1. \A i \in Used(n) : ~(i < 0)
      BY SizesAssumption DEF Used, Node
    <3> HIDE DEF f
    <3> QED
      BY <1>2, <1>3, <1>4, <3>1
  <2> QED
    BY <2>2, <2>3, Zenon DEF Abs!Remove
<1>5. CASE ~(f < 0)
  <2>1. f \in Used(n) \ {0} /\ e = PathOf(n, f)
    BY <1>2, <1>5
  <2> HIDE DEF e
  <2>2. e \in DOMAIN TreeOfPaths(n)
    BY <1>3, <2>1 DEF Paths
  <2>3. \A j \in Children(n, f) : PathOf(n, j) \in B
    <3> SUFFICES ASSUME NEW j \in Children(n, f) PROVE PathOf(n, j) \in B
      OBVIOUS
    <3>1. j \in Used(n) /\ n[j].parent = f
      BY DEF Children
    <3>2. j # 0
      <4>1. f \in Node
        BY <1>1, <2>1, TreeIndices
      <4> QED
        BY <1>1, <3>1, <4>1, SizesAssumption DEF IsTree, RootOK, Node
    <3> QED
      BY <1>1, <1>3, <2>1, <3>1, <3>2, PathAbove DEF Paths
  <2>4. \A p \in B : \E j \in Children(n, f) : TRUE
    <3> SUFFICES ASSUME NEW j \in Used(n), PathOf(n, j) \in B
                 PROVE  j \in Children(n, f)
      BY <1>3 DEF Paths
    <3>1. j # 0
      BY <1>1, PathByStep
    <3>2. PathOf(n, n[j].parent) = PathOf(n, f)
      BY <1>1, <2>1, <3>1, PathAbove
    <3>3. n[j].parent \in Used(n)
      BY <1>1, <3>1, TreeIndices
    <3>4. n[j].parent = f
      BY <1>1, <2>1, <3>2, <3>3, PathsDistinct
    <3> QED
      BY <3>4 DEF Children
  <2>5. CASE n[f].is_dir = 1 /\ Children(n, f) # {}
    <3>1. m = n /\ current' = c /\ ret' = FISH_ERR_NOTEMPTY
      BY <1>5, <2>5 DEF Return, fish_remove, Outcome
    <3>2. Abs!Fail(Abs!FISH_ERR_NOTEMPTY)
      BY <3>1, FailedCall
    <3>3. B # {}
      BY <2>3, <2>5
    <3> QED
      BY <2>2, <3>2, <3>3, Zenon DEF Abs!Remove, e
  <2>6. CASE ~(n[f].is_dir = 1 /\ Children(n, f) # {})
    <3>1. /\ m = [n EXCEPT ![f].used = 0]
          /\ current' = c /\ ret' = FISH_OK
      BY <1>5, <2>6 DEF Return, fish_remove, Outcome
    <3>2. IsTree(m) /\ c \in Used(m)
      <4>1. SoundOutcome(fish_remove(n, c, name))
        BY RemoveSound
      <4>2. Sound(m, current')
        BY <4>1 DEF SoundOutcome, Return
      <4> QED
        BY <3>1, <4>2, SoundIsTree
    <3>3. f \in Node /\ n \in [Node -> NodeRecord]
      BY <1>1, <2>1, TreeIndices DEF IsTree
    <3>4. m[f].used = 0 /\ \A i \in Node \ {f} : m[i] = n[i]
      BY <3>1, <3>3 DEF NodeRecord
    <3>5. Used(m) = Used(n) \ {f} /\ Used(n) \subseteq Node
      BY <3>3, <3>4 DEF Used
    <3>6. B = {}
      <4>1. Children(n, f) = {}
        <5> SUFFICES ASSUME NEW j \in Children(n, f) PROVE FALSE
          OBVIOUS
        <5>1. j \in Used(n) /\ n[j].parent = f
          BY DEF Children
        <5>2. j # 0
          BY <1>1, <3>3, <5>1, SizesAssumption DEF IsTree, RootOK, Node
        <5>3. f \in Dirs(n)
          BY <1>1, <5>1, <5>2, TreeIndices
        <5> QED
          BY <2>6, <5>3 DEF Dirs
      <4> QED
        BY <2>4, <4>1
    <3>7. \A i \in Used(m) : m[i] = n[i] /\ PathOf(m, i) = PathOf(n, i)
      <4>1. \A i \in Used(m) : m[i] = n[i]
        BY <3>4, <3>5
      <4>2. \A i \in Used(m) \ {0} : n[i].parent \in Used(m)
        BY <3>2, <4>1, TreeIndices
      <4>3. Used(m) \in SUBSET Used(n)
        BY <3>5
      <4> HIDE DEF m, n
      <4> QED
        BY <1>1, <3>2, <4>1, <4>2, <4>3, SamePaths
    <3>8. Paths(m) = Paths(n) \ {e}
      <4>1. \A i \in Used(m) : PathOf(n, i) # e
        BY <1>1, <2>1, <3>5, PathsDistinct
      <4>2. ASSUME NEW p \in Paths(m) PROVE p \in Paths(n) \ {e}
        <5>1. PICK i \in Used(m) : p = PathOf(m, i)
          BY DEF Paths
        <5> QED
          BY <3>5, <3>7, <4>1, <5>1 DEF Paths
      <4>3. ASSUME NEW p \in Paths(n) \ {e} PROVE p \in Paths(m)
        <5>1. PICK i \in Used(n) : p = PathOf(n, i)
          BY DEF Paths
        <5>2. i \in Used(m)
          BY <2>1, <3>5, <5>1
        <5> QED
          BY <3>7, <5>1, <5>2 DEF Paths
      <4> QED
        BY <4>2, <4>3
    <3>9. \A p \in Paths(m) : TreeOfPaths(m)[p] = TreeOfPaths(n)[p]
      <4> SUFFICES ASSUME NEW i \in Used(m)
                   PROVE  TreeOfPaths(m)[PathOf(m, i)]
                            = TreeOfPaths(n)[PathOf(m, i)]
        BY DEF Paths
      <4>1. TreeOfPaths(n)[PathOf(n, i)] = Entry(n[i])
        BY <1>1, <3>5, TreeByNode
      <4>2. TreeOfPaths(m)[PathOf(m, i)] = Entry(m[i])
        BY <3>2, TreeByNode
      <4> QED
        BY <3>7, <4>1, <4>2
    <3> HIDE DEF m, n
    <3>10. TreeOfPaths(m) = [p \in Paths(n) \ {e} |-> TreeOfPaths(n)[p]]
      <4>1. TreeOfPaths(m) = [p \in Paths(n) \ {e} |-> TreeOfPaths(m)[p]]
        BY <3>2, <3>8, TreeByNode
      <4> QED
        BY <3>8, <3>9, <4>1
    <3>11. PathOf(m, current') = PathOf(n, c)
      BY <3>1, <3>2, <3>7
    <3>12. Abs!Done
      BY <3>1 DEF Abs!Done
    <3>13. /\ TreeOfPaths(nodes')
                = [p \in DOMAIN TreeOfPaths(nodes) \ {e} |->
                     TreeOfPaths(nodes)[p]]
           /\ PathOf(nodes', current') = PathOf(nodes, current)
      BY <1>3, <3>10, <3>11 DEF m, n
    <3> QED
      BY <2>2, <3>6, <3>12, <3>13, Zenon DEF Abs!Remove, n, e
  <2> QED
    BY <2>5, <2>6
<1> QED
  BY <1>4, <1>5

(* The first bytes of data, and after them the text just stored. *)
LEMMA StoredText ==
  ASSUME NEW data \in [1 .. FILE_MAX -> Byte], NEW at \in Nat,
         NEW text \in Seq(Byte), at + Len(text) <= FILE_MAX
  PROVE  /\ [k \in 1 .. at |-> data[k]] \in Seq(Byte)
         /\ Len([k \in 1 .. at |-> data[k]]) = at
         /\ [k \in 1 .. at + Len(text) |-> Store(data, at, text)[k]]
              = [k \in 1 .. at |-> data[k]] \o text
<1> DEFINE L == Len(text)
           old == [k \in 1 .. at |-> data[k]]
           new == [k \in 1 .. at + L |-> Store(data, at, text)[k]]
           cat == old \o text
<1>1. L \in Nat /\ FILE_MAX \in Nat /\ at <= FILE_MAX
  BY SizesAssumption
<1>2. old \in Seq(Byte) /\ Len(old) = at
  <2>1. \A k \in 1 .. at : k \in 1 .. FILE_MAX
    BY <1>1
  <2>2. old \in [1 .. at -> Byte]
    BY <2>1
  <2> HIDE DEF old
  <2> QED
    BY <2>2
<1>3. new \in Seq(Byte) /\ Len(new) = at + L
  <2>1. \A k \in 1 .. at + L : k \in 1 .. FILE_MAX
    BY <1>1
  <2>2. new \in [1 .. at + L -> Byte]
    <3>1. Store(data, at, text) \in [1 .. FILE_MAX -> Byte]
      BY StoreType
    <3> QED
      BY <2>1, <3>1
  <2>3. at + L \in Nat
    BY <1>1
  <2> HIDE DEF new, L
  <2> QED
    BY <2>2, <2>3
<1> HIDE DEF old
<1>4. cat \in Seq(Byte) /\ Len(cat) = at + L
  BY <1>2
<1>5. ASSUME NEW k \in 1 .. at + L PROVE new[k] = cat[k]
  <2>1. k \in 1 .. FILE_MAX
    BY <1>1
  <2>2. CASE k <= at
    <3>1. k \in 1 .. at /\ ~(k > at)
      BY <2>2
    <3>2. cat[k] = old[k] /\ old[k] = data[k]
      BY <1>2, <3>1 DEF old
    <3>3. new[k] = data[k]
      BY <2>1, <3>1 DEF Store
    <3> QED
      BY <3>2, <3>3
  <2>3. CASE ~(k <= at)
    <3>1. k > at /\ k <= at + Len(text) /\ ~(k <= at)
      BY <1>1, <2>3
    <3>2. cat[k] = text[k - at]
      BY <1>2, <3>1
    <3>3. new[k] = text[k - at]
      BY <2>1, <3>1 DEF Store
    <3> QED
      BY <3>2, <3>3
  <2> QED
    BY <2>2, <2>3
<1>6. new = cat
  <2> HIDE DEF new, cat, L
  <2> QED
    BY <1>3, <1>4, <1>5, SeqEqual
<1> QED
  BY <1>2, <1>6 DEF old

(* fish_write and fish_append change the text at one path, and fail where  *)
(* the new text would be longer than a file.                               *)
LEMMA PutImplements ==
  ASSUME Sound(nodes, current), NEW name \in AnyName, NEW text \in Seq(Byte),
         NEW appending \in BOOLEAN,
         Return(PutText(nodes, current, name, text, appending))
  PROVE  Abs!Put(name, text, appending)
<1> DEFINE n  == nodes
           c  == current
           m  == nodes'
           f  == find_child(n, c, name)
           e  == Append(PathOf(n, c), name)
           at == IF appending THEN n[f].size ELSE 0
           t  == TreeOfPaths(n)
           w  == (IF appending THEN t[e].text ELSE <<>>) \o text
<1>1. IsTree(n) /\ c \in Used(n) /\ n \in [Node -> NodeRecord]
  BY SoundIsTree DEF IsTree
<1>2. \/ f = -1 /\ e \notin Paths(n)
      \/ f \in Used(n) \ {0} /\ e = PathOf(n, f)
  BY <1>1, FindEntry
<1>3. DOMAIN t = Paths(n)
  BY <1>1, TreeByNode
<1>4. CASE f < 0
  <2>1. m = n /\ current' = c /\ ret' = FISH_ERR_NOENT
    BY <1>4 DEF Return, PutText, Outcome
  <2>2. Abs!Fail(Abs!FISH_ERR_NOENT)
    BY <2>1, FailedCall
  <2>3. e \notin DOMAIN t
    <3>1. \A i \in Used(n) : ~(i < 0)
      BY SizesAssumption DEF Used, Node
    <3> HIDE DEF f, t, e
    <3> QED
      BY <1>2, <1>3, <1>4, <3>1
  <2> QED
    BY <2>2, <2>3, Zenon DEF Abs!Put
<1>5. CASE ~(f < 0)
  <2>1. f \in Used(n) \ {0} /\ e = PathOf(n, f)
    BY <1>2, <1>5
  <2>2. f \in Node /\ n[f] \in NodeRecord
    BY <1>1, <2>1, TreeIndices
  <2>3. e \in DOMAIN t /\ t[e] = Entry(n[f])
    BY <1>1, <1>3, <2>1, TreeByNode DEF Paths
  <2>4. /\ n[f].is_dir \in {0, 1} /\ n[f].size \in 0 .. FILE_MAX
        /\ n[f].data \in [1 .. FILE_MAX -> Byte]
    BY <2>2 DEF NodeRecord
  <2>5. t[e].is_dir = n[f].is_dir
    BY <2>3 DEF Entry
  <2> HIDE DEF f, e, t
  <2>6. CASE n[f].is_dir = 1
    <3>1. m = n /\ current' = c /\ ret' = FISH_ERR_ISDIR
      BY <1>5, <2>6 DEF Return, PutText, Outcome, f
    <3>2. Abs!Fail(Abs!FISH_ERR_ISDIR)
      BY <3>1, FailedCall
    <3>3. t[e].is_dir # 0
      BY <2>5, <2>6
    <3> QED
      BY <2>3, <3>2, <3>3, Zenon DEF Abs!Put, e, t
  <2>7. CASE n[f].is_dir # 1
    <3>1. t[e].is_dir = 0 /\ t[e].text = Contents(n[f])
      BY <2>3, <2>4, <2>5, <2>7 DEF Entry
    <3>2. at \in Nat /\ at <= FILE_MAX
      BY <2>4, SizesAssumption
    <3> DEFINE old == [k \in 1 .. at |-> n[f].data[k]]
    <3>3. w = old \o text
      <4>1. CASE appending
        BY <3>1, <4>1 DEF Contents
      <4>2. CASE ~appending
        BY <4>2
      <4> QED
        BY <4>1, <4>2
    <3>4. Len(w) = at + Len(text)
      <4>1. old \in Seq(Byte) /\ Len(old) = at
        <5>1. \A k \in 1 .. at : k \in 1 .. FILE_MAX
          BY <3>2, SizesAssumption
        <5>2. old \in [1 .. at -> Byte]
          BY <2>4, <5>1
        <5> HIDE DEF old, at
        <5> QED
          BY <3>2, <5>2
      <4> HIDE DEF old, w, at
      <4> QED
        BY <3>3, <4>1
    <3>5. CASE at + Len(text) > FILE_MAX
      <4>1. m = n /\ current' = c /\ ret' = FISH_ERR_SPACE
        BY <1>5, <2>7, <3>5 DEF Return, PutText, Outcome, f
      <4>2. Abs!Fail(Abs!FISH_ERR_SPACE)
        BY <4>1, FailedCall
      <4>3. Len(w) > FILE_MAX
        BY <3>4, <3>5
      <4> QED
        BY <2>3, <3>1, <4>2, <4>3, Zenon DEF Abs!Put, e, t
    <3>6. CASE ~(at + Len(text) > FILE_MAX)
      <4>1. /\ m = [n EXCEPT ![f].data = Store(@, at, text),
                             ![f].size = at + Len(text)]
            /\ current' = c /\ ret' = FISH_OK
        BY <1>5, <2>7, <3>6 DEF Return, PutText, Outcome, f
      <4>2. IsTree(m)
        <5>1. SoundOutcome(PutText(n, c, name, text, appending))
          BY PutTextSound
        <5>2. Sound(m, current')
          BY <5>1 DEF SoundOutcome, Return
        <5> QED
          BY <5>2, SoundIsTree
      <4> HIDE DEF at, w
      <4>3. /\ m[f].data = Store(n[f].data, at, text)
            /\ m[f].size = at + Len(text)
            /\ m[f].is_dir = n[f].is_dir
            /\ m[f].used = n[f].used
            /\ m[f].parent = n[f].parent /\ m[f].name = n[f].name
            /\ \A i \in Node \ {f} : m[i] = n[i]
        BY <1>1, <2>2, <4>1 DEF NodeRecord
      <4>4. Used(m) = Used(n) /\ Used(n) \subseteq Node
        BY <2>2, <4>3 DEF Used
      <4>5. \A i \in Used(n) : PathOf(m, i) = PathOf(n, i)
        <5>1. \A i \in Used(n) : m[i].parent = n[i].parent
                                 /\ m[i].name = n[i].name
          BY <4>3, <4>4
        <5>2. \A i \in Used(n) \ {0} : n[i].parent \in Used(n)
          BY <1>1, TreeIndices
        <5>3. Used(n) \subseteq Used(m)
          BY <4>4
        <5> HIDE DEF m, n
        <5> QED
          BY <1>1, <4>2, <5>1, <5>2, <5>3, SamePaths
      <4>6. Paths(m) = Paths(n)
        BY <4>4, <4>5 DEF Paths
      <4>7. Entry(m[f]) = [is_dir |-> 0, text |-> w]
        <5>1. Contents(m[f]) = old \o text
          <6>1. at + Len(text) <= FILE_MAX
            BY <3>2, <3>6, SizesAssumption
          <6>2. [k \in 1 .. at + Len(text) |-> Store(n[f].data, at, text)[k]]
                  = old \o text
            BY <2>4, <3>2, <6>1, StoredText
          <6>3. Contents(m[f])
                  = [k \in 1 .. at + Len(text) |->
                       Store(n[f].data, at, text)[k]]
            BY <4>3 DEF Contents
          <6> QED
            BY <6>2, <6>3
        <5>2. m[f].is_dir = 0
          BY <2>4, <2>7, <4>3
        <5> HIDE DEF m, n, old
        <5> QED
          BY <3>3, <5>1, <5>2 DEF Entry
      <4>8. TreeOfPaths(m)[e] = [t[e] EXCEPT !.text = w]
        <5>1. TreeOfPaths(m)[PathOf(m, f)] = Entry(m[f])
          BY <2>1, <4>2, <4>4, TreeByNode
        <5>2. PathOf(m, f) = e
          BY <2>1, <4>5
        <5>3. [t[e] EXCEPT !.text = w] = [is_dir |-> 0, text |-> w]
          <6>1. t[e] = [is_dir |-> 0, text |-> Contents(n[f])]
            BY <2>3, <2>4, <2>7 DEF Entry
          <6> QED
            BY <6>1
        <5> QED
          BY <4>7, <5>1, <5>2, <5>3
      <4>9. ASSUME NEW p \in Paths(n), p # e
            PROVE  TreeOfPaths(m)[p] = t[p]
        <5>1. PICK i \in Used(n) : p = PathOf(n, i)
          BY DEF Paths
        <5>2. i # f
          BY <2>1, <4>9, <5>1
        <5>3. TreeOfPaths(n)[PathOf(n, i)] = Entry(n[i])
          BY <1>1, TreeByNode
        <5>4. TreeOfPaths(m)[PathOf(m, i)] = Entry(m[i])
          BY <4>2, <4>4, TreeByNode
        <5>5. m[i] = n[i] /\ PathOf(m, i) = PathOf(n, i)
          BY <4>3, <4>4, <4>5, <5>2
        <5> QED
          BY <5>1, <5>3, <5>4, <5>5 DEF t
      <4> HIDE DEF m, n
      <4>10. TreeOfPaths(m) = [t EXCEPT ![e].text = w]
        <5>1. TreeOfPaths(m) = [p \in Paths(n) |-> TreeOfPaths(m)[p]]
          BY <4>2, <4>6, TreeByNode
        <5>2. t = [p \in Paths(n) |-> t[p]] /\ e \in Paths(n)
          BY <1>1, <1>3, <2>3, TreeByNode DEF t
        <5>3. [t EXCEPT ![e].text = w]
                = [p \in Paths(n) |->
                     IF p = e THEN [t[e] EXCEPT !.text = w] ELSE t[p]]
          BY <5>2
        <5> QED
          BY <4>8, <4>9, <5>1, <5>3
      <4>11. Abs!Done
        BY <4>1 DEF Abs!Done
      <4>12. /\ TreeOfPaths(nodes') = [t EXCEPT ![e].text = w]
             /\ PathOf(nodes', current') = PathOf(nodes, current)
        BY <1>1, <4>1, <4>5, <4>10 DEF m, n
      <4>13. Len(w) <= FILE_MAX
        BY <3>2, <3>4, <3>6, SizesAssumption
      <4> QED
        BY <2>3, <3>1, <4>11, <4>12, <4>13, Zenon DEF Abs!Put, n, e, t, w
    <3> QED
      BY <3>5, <3>6
  <2> QED
    BY <2>6, <2>7
<1> QED
  BY <1>4, <1>5

(* After fish_init the tree of paths holds only the root. *)
LEMMA InitImplements == Init => Abs!Init
<1> SUFFICES ASSUME Init PROVE Abs!Init
  OBVIOUS
<1> DEFINE n == nodes
           x == [is_dir |-> 1, text |-> <<>>]
<1>1. n = InitNodes /\ current = 0 /\ ret = FISH_OK
  BY DEF Init, fish_init, Outcome
<1>2. IsTree(n)
  <2>1. Sound(n, current)
    BY FishInitSound DEF Init, SoundOutcome, fish_init, Outcome
  <2> QED
    BY <2>1, SoundIsTree
<1>3. 0 \in Node
  BY SizesAssumption DEF Node
<1>4. Used(n) = {0}
  <2>1. \A i \in Node \ {0} : n[i].used = 0
    BY <1>1 DEF InitNodes, ZeroNode
  <2>2. n[0].used = 1
    BY <1>1, <1>3 DEF InitNodes, RootNode
  <2> QED
    BY <1>3, <2>1, <2>2 DEF Used
<1>5. PathOf(n, 0) = <<>>
  BY <1>2, PathByStep
<1>6. Paths(n) = {<<>>}
  BY <1>4, <1>5 DEF Paths
<1>7. TreeOfPaths(n)[<<>>] = Entry(n[0])
  BY <1>2, <1>4, <1>5, TreeByNode
<1>8. Entry(n[0]) = x
  BY <1>1, <1>3 DEF InitNodes, RootNode, Entry
<1> HIDE DEF n, x
<1>9. TreeOfPaths(n) = [p \in {<<>>} |-> x]
  <2>1. TreeOfPaths(n) = [p \in {<<>>} |-> TreeOfPaths(n)[p]]
    BY <1>2, <1>6, TreeByNode
  <2> QED
    BY <1>7, <1>8, <2>1
<1>10. TreeOfPaths(nodes) = [p \in {<<>>} |-> [is_dir |-> 1, text |-> <<>>]]
  BY <1>9 DEF n, x
<1>11. PathOf(nodes, current) = <<>> /\ ret = Abs!FISH_OK
  BY <1>1, <1>5 DEF n
<1> QED
  BY <1>10, <1>11, Zenon DEF Abs!Init

(* Every command is the call of FishAbs with the same name and text; "cd"  *)
(* without an argument is a call with "/".                                 *)
LEMMA CallsImplement ==
  ASSUME Sound(nodes, current), NEW name \in AnyName
  PROVE  /\ cmd_mkdir(name) => Abs!Make(name, 1)
         /\ cmd_touch(name) => Abs!Make(name, 0)
         /\ cmd_rm(name)    => Abs!Remove(name)
         /\ cmd_cd(name)    => Abs!Chdir(IF name = "" THEN "/" ELSE name)
         /\ \A text \in Texts :
              /\ cmd_write(name, text)  => Abs!Put(name, text, FALSE)
              /\ cmd_append(name, text) => Abs!Put(name, text, TRUE)
<1>1. cmd_mkdir(name) => Abs!Make(name, 1)
  BY MakeImplements DEF cmd_mkdir, fish_mkdir
<1>2. cmd_touch(name) => Abs!Make(name, 0)
  BY MakeImplements DEF cmd_touch, fish_create
<1>3. cmd_rm(name) => Abs!Remove(name)
  BY RemoveImplements DEF cmd_rm
<1>4. ASSUME cmd_cd(name)
      PROVE  Abs!Chdir(IF name = "" THEN "/" ELSE name)
  <2> DEFINE to == IF name = "" THEN "/" ELSE name
  <2>1. to \in AnyName /\ to # ""
    BY DEF AnyName
  <2>2. Return(fish_chdir(nodes, current, to))
    BY <1>4, Zenon DEF cmd_cd
  <2> HIDE DEF to
  <2>3. Abs!Chdir(to)
    BY <2>1, <2>2, ChdirImplements, Zenon
  <2> QED
    BY <2>3 DEF to
<1>5. ASSUME NEW text \in Texts
      PROVE  /\ cmd_write(name, text)  => Abs!Put(name, text, FALSE)
             /\ cmd_append(name, text) => Abs!Put(name, text, TRUE)
  <2>1. text \in Seq(Byte)
    BY TextsAssumption
  <2>2. \A appending \in BOOLEAN :
          Return(PutText(nodes, current, name, text, appending))
            => Abs!Put(name, text, appending)
    BY <2>1, PutImplements, Zenon
  <2>3. FALSE \in BOOLEAN /\ TRUE \in BOOLEAN
    OBVIOUS
  <2> QED
    BY <2>2, <2>3, Zenon DEF cmd_write, cmd_append, fish_write, fish_append
<1> QED
  BY <1>1, <1>2, <1>3, <1>4, <1>5, Zenon

(* So every step is a step of FishAbs, or none. *)
LEMMA NextImplements ==
  ASSUME Sound(nodes, current), [Next]_fishvars
  PROVE  [Abs!Next]_(Abs!absvars)
<1> DEFINE Names == ValidNames \cup BadNames \cup {"", ".", "..", "/"}
           to(name) == IF name = "" THEN "/" ELSE name
<1>1. /\ AnyName = Names
      /\ \A name \in AnyName : to(name) \in Names
      /\ 0 \in {0, 1} /\ 1 \in {0, 1}
  BY DEF AnyName
<1> HIDE DEF Names, to
<1>2. ASSUME NEW name \in AnyName,
             cmd_mkdir(name) \/ cmd_touch(name) \/ cmd_rm(name) \/ cmd_cd(name)
      PROVE  Abs!Next
  <2>1. \/ \E is_dir \in {0, 1} : Abs!Make(name, is_dir)
        \/ Abs!Remove(name)
        \/ Abs!Chdir(to(name))
    BY <1>1, <1>2, CallsImplement, Zenon DEF to
  <2> QED
    BY <1>1, <2>1, Zenon DEF Abs!Next, Names
<1>3. ASSUME NEW name \in AnyName, NEW text \in Texts,
             cmd_write(name, text) \/ cmd_append(name, text)
      PROVE  Abs!Next
  <2>1. \E appending \in BOOLEAN : Abs!Put(name, text, appending)
    BY <1>3, CallsImplement, Zenon
  <2> QED
    BY <1>1, <2>1, Zenon DEF Abs!Next, Names
<1>4. CASE UNCHANGED fishvars
  BY <1>4 DEF fishvars, Abs!absvars
<1> QED
  BY <1>2, <1>3, <1>4, Zenon DEF Next

(* Each command does to the tree of paths, to the current path and to the  *)
(* return code what FishAbs says of the call with that name and text, for  *)
(* every number of nodes and every file size, whatever calls came before.  *)
THEOREM CallsAlways == Spec => EveryCallAsPromised
<1> DEFINE Calls ==
      \A name \in AnyName :
        /\ cmd_mkdir(name) => Abs!Make(name, 1)
        /\ cmd_touch(name) => Abs!Make(name, 0)
        /\ cmd_rm(name)    => Abs!Remove(name)
        /\ cmd_cd(name)    => Abs!Chdir(IF name = "" THEN "/" ELSE name)
        /\ \A text \in Texts :
             /\ cmd_write(name, text)  => Abs!Put(name, text, FALSE)
             /\ cmd_append(name, text) => Abs!Put(name, text, TRUE)
<1>1. Sound(nodes, current) => Calls
  BY CallsImplement, Zenon
<1>2. Spec => []Sound(nodes, current)
  BY SoundAlways, PTL
<1> QED
  BY <1>1, <1>2, PTL DEF EveryCallAsPromised

(* Seen through its paths the node array of fish.c implements FishAbs, for *)
(* every number of nodes and every file size: each shell command does to   *)
(* the tree, the current path and the return code what fish.h promises,    *)
(* though slots are searched, freed, used again and keep their old data.   *)
THEOREM ImplementsAlways == Spec => ImplementsFishAbs
<1>1. Sound(nodes, current) /\ [Next]_fishvars => [Abs!Next]_(Abs!absvars)
  BY NextImplements
<1>2. Spec => []Sound(nodes, current)
  BY SoundAlways, PTL
<1> QED
  BY <1>1, <1>2, InitImplements, PTL DEF Spec, ImplementsFishAbs, Abs!Spec

-----------------------------------------------------------------------------
(* pwd and back *)

(* The last of the indices up to m + 1, when m + 1 is one of them. *)
LEMMA MaxOfNext ==
  ASSUME NEW m \in Nat, NEW s \in SUBSET (1 .. m + 1), m + 1 \in s
  PROVE  Max(s) = m + 1
<1>1. \A y \in s : m + 1 >= y
  OBVIOUS
<1>2. Max(s) \in s /\ Max(s) >= m + 1
  BY <1>1 DEF Max
<1>3. Max(s) \in 1 .. m + 1
  BY <1>2
<1> QED
  BY <1>2, <1>3

(* The directory reached from the root by "cd" into the names of p. *)
WalkTo(n, p) ==
  FoldLeft(LAMBDA d, name : fish_chdir(n, d, name).current, 0, p)

(* The fold as a recursive function of the set of names used so far. *)
WalkedUpTo(f, n, p, I) ==
  IF I = {} THEN 0 ELSE fish_chdir(n, f[I \ {Max(I)}], p[Max(I)]).current

Walk(n, p) ==
  CHOOSE f : f = [I \in SUBSET DOMAIN p |->
                    IF I = {} THEN 0
                    ELSE fish_chdir(n, f[I \ {Max(I)}], p[Max(I)]).current]

(* The recursive function exists, for every path. *)
LEMMA WalkExists ==
  ASSUME NEW n, NEW p, NEW l \in Nat, DOMAIN p = 1 .. l
  PROVE  \A I \in SUBSET (1 .. l) :
           Walk(n, p)[I] = WalkedUpTo(Walk(n, p), n, p, I)
<1> DEFINE D(m) == SUBSET (1 .. m)
           Is(f, m) == f = [I \in D(m) |-> WalkedUpTo(f, n, p, I)]
           P == {m \in Nat : \E f : Is(f, m)}
<1>1. 0 \in P
  <2> DEFINE f == [I \in D(0) |-> 0]
  <2>1. D(0) = {{}}
    BY SMT
  <2>2. Is(f, 0)
    BY <2>1 DEF WalkedUpTo
  <2> QED
    BY <2>2
<1>2. ASSUME NEW m \in Nat, m \in P PROVE m + 1 \in P
  <2>1. PICK g : Is(g, m)
    BY <1>2
  <2> DEFINE f == [I \in D(m + 1) |->
                     IF m + 1 \in I
                       THEN fish_chdir(n, g[I \ {m + 1}], p[m + 1]).current
                       ELSE g[I]]
  <2>2. \A I \in D(m + 1) : I \ {m + 1} \in D(m)
    OBVIOUS
  <2>3. ASSUME NEW I \in D(m + 1)
        PROVE  f[I] = WalkedUpTo(f, n, p, I)
    <3>1. CASE m + 1 \in I
      <4>1. Max(I) = m + 1
        BY <3>1, MaxOfNext
      <4>2. I \ {m + 1} \in D(m + 1) /\ m + 1 \notin I \ {m + 1}
        BY <2>2
      <4>3. f[I \ {m + 1}] = g[I \ {m + 1}]
        BY <4>2
      <4>4. f[I] = fish_chdir(n, g[I \ {m + 1}], p[m + 1]).current
        BY <3>1
      <4> HIDE DEF f
      <4> QED
        BY <3>1, <4>1, <4>3, <4>4 DEF WalkedUpTo
    <3>2. CASE m + 1 \notin I
      <4>1. I \in D(m) /\ I \in SUBSET (1 .. m)
        BY <3>2
      <4>2. g[I] = WalkedUpTo(g, n, p, I)
        BY <2>1, <4>1
      <4>3. f[I] = g[I]
        BY <3>2
      <4>4. I # {} => f[I \ {Max(I)}] = g[I \ {Max(I)}]
        <5>1. I \ {Max(I)} \in D(m + 1) /\ m + 1 \notin I \ {Max(I)}
          BY <3>2
        <5> QED
          BY <5>1
      <4> HIDE DEF f
      <4> QED
        BY <4>2, <4>3, <4>4 DEF WalkedUpTo
    <3> QED
      BY <3>1, <3>2
  <2>4. f = [I \in D(m + 1) |-> f[I]]
    OBVIOUS
  <2> HIDE DEF f
  <2>5. Is(f, m + 1)
    BY <2>3, <2>4
  <2> QED
    BY <2>5
<1>3. l \in P
  <2> HIDE DEF P
  <2> QED
    BY <1>1, <1>2, SetInduction
<1>4. PICK f : Is(f, l)
  BY <1>3
<1>5. f = [I \in SUBSET DOMAIN p |->
             IF I = {} THEN 0
             ELSE fish_chdir(n, f[I \ {Max(I)}], p[Max(I)]).current]
  BY <1>4 DEF WalkedUpTo
<1> DEFINE w == Walk(n, p)
<1>6. w = [I \in SUBSET DOMAIN p |->
             IF I = {} THEN 0
             ELSE fish_chdir(n, w[I \ {Max(I)}], p[Max(I)]).current]
  BY <1>5 DEF Walk
<1> HIDE DEF w
<1>7. \A I \in SUBSET (1 .. l) : w[I] = WalkedUpTo(w, n, p, I)
  BY <1>6 DEF WalkedUpTo
<1> QED
  BY <1>7 DEF w

(* One "cd" at a time. *)
LEMMA WalkByStep ==
  ASSUME NEW n, NEW p \in Seq(AnyName)
  PROVE  /\ Walk(n, p)[1 .. 0] = 0
         /\ \A k \in Nat : k < Len(p) =>
              Walk(n, p)[1 .. k + 1]
                = fish_chdir(n, Walk(n, p)[1 .. k], p[k + 1]).current
         /\ WalkTo(n, p) = Walk(n, p)[1 .. Len(p)]
<1> DEFINE w == Walk(n, p)
           l == Len(p)
<1>1. DOMAIN p = 1 .. l /\ l \in Nat
  OBVIOUS
<1>2. \A I \in SUBSET (1 .. l) : w[I] = WalkedUpTo(w, n, p, I)
  BY <1>1, WalkExists
<1>3. WalkTo(n, p) = w[DOMAIN p]
  BY DEF WalkTo, FoldLeft, MapThenFoldSet, Walk
<1> HIDE DEF w, l
<1>4. w[1 .. 0] = 0
  <2>1. 1 .. 0 = {} /\ {} \in SUBSET (1 .. l)
    OBVIOUS
  <2> QED
    BY <1>2, <2>1 DEF WalkedUpTo
<1>5. ASSUME NEW k \in Nat, k < l
      PROVE  w[1 .. k + 1] = fish_chdir(n, w[1 .. k], p[k + 1]).current
  <2> DEFINE I == 1 .. k + 1
  <2>1. k + 1 \in I /\ I # {} /\ I \ {k + 1} = 1 .. k
    <3>1. \A x : x \in I \ {k + 1} <=> x \in 1 .. k
      OBVIOUS
    <3>2. k + 1 \in I
      OBVIOUS
    <3> HIDE DEF I
    <3> QED
      BY <3>1, <3>2
  <2>2. I \in SUBSET (1 .. l)
    BY <1>1, <1>5
  <2>3. Max(I) = k + 1
    BY <2>1, MaxOfNext
  <2> HIDE DEF I
  <2>4. w[I] = fish_chdir(n, w[I \ {Max(I)}], p[Max(I)]).current
    BY <1>2, <2>1, <2>2 DEF WalkedUpTo
  <2> QED
    BY <2>1, <2>3, <2>4 DEF I
<1> QED
  BY <1>1, <1>3, <1>4, <1>5 DEF w, l

(* The last "cd" of a longer walk. *)
LEMMA WalkOn ==
  ASSUME NEW n, NEW s \in Seq(AnyName), NEW a \in AnyName
  PROVE  WalkTo(n, Append(s, a)) = fish_chdir(n, WalkTo(n, s), a).current
<1> DEFINE p == Append(s, a)
           l == Len(s)
           v == Walk(n, s)
           w == Walk(n, p)
<1>1. /\ p \in Seq(AnyName) /\ Len(p) = l + 1 /\ l \in Nat
      /\ p[l + 1] = a /\ \A k \in 1 .. l : p[k] = s[k]
  OBVIOUS
<1>2. /\ v[1 .. 0] = 0
      /\ \A k \in Nat : k < l =>
           v[1 .. k + 1] = fish_chdir(n, v[1 .. k], s[k + 1]).current
      /\ WalkTo(n, s) = v[1 .. l]
  BY WalkByStep
<1>3. /\ w[1 .. 0] = 0
      /\ \A k \in Nat : k < Len(p) =>
           w[1 .. k + 1] = fish_chdir(n, w[1 .. k], p[k + 1]).current
      /\ WalkTo(n, p) = w[1 .. Len(p)]
  <2> HIDE DEF p
  <2> QED
    BY <1>1, WalkByStep
<1> DEFINE P == {k \in Nat : k <= l => w[1 .. k] = v[1 .. k]}
<1> HIDE DEF p, l, v, w
<1>4. 0 \in P
  BY <1>2, <1>3
<1>5. ASSUME NEW k \in Nat, k \in P PROVE k + 1 \in P
  <2> SUFFICES ASSUME k + 1 <= l PROVE w[1 .. k + 1] = v[1 .. k + 1]
    OBVIOUS
  <2>1. k < l /\ k < Len(p) /\ k + 1 \in 1 .. l /\ w[1 .. k] = v[1 .. k]
    BY <1>1, <1>5
  <2>2. v[1 .. k + 1] = fish_chdir(n, v[1 .. k], s[k + 1]).current
    BY <1>2, <2>1
  <2>3. w[1 .. k + 1] = fish_chdir(n, w[1 .. k], p[k + 1]).current
    BY <1>3, <2>1
  <2>4. p[k + 1] = s[k + 1]
    BY <1>1, <2>1
  <2> QED
    BY <2>1, <2>2, <2>3, <2>4
<1>6. w[1 .. l] = v[1 .. l]
  <2>1. l \in P
    <3> HIDE DEF P
    <3> QED
      BY <1>1, <1>4, <1>5, SetInduction
  <2> QED
    BY <1>1, <2>1
<1>7. w[1 .. l + 1] = fish_chdir(n, w[1 .. l], a).current
  <2>1. l < Len(p)
    BY <1>1
  <2> QED
    BY <1>1, <1>3, <2>1
<1>8. WalkTo(n, p) = fish_chdir(n, WalkTo(n, s), a).current
  BY <1>1, <1>2, <1>3, <1>6, <1>7
<1> QED
  BY <1>8 DEF p

(* Below the root, slots in use have a name that make_node accepted. *)
NamesValid(n) == \A i \in Used(n) \ {0} : n[i].name \in ValidNames

(* "cd" into the name of a directory enters it. *)
LEMMA ChdirEnters ==
  ASSUME NEW n, IsTree(n), NamesValid(n), NEW i \in Dirs(n) \ {0}
  PROVE  fish_chdir(n, n[i].parent, n[i].name).current = i
<1> DEFINE name == n[i].name
           c    == n[i].parent
           f    == find_child(n, c, name)
<1>1. i \in Used(n) /\ n[i].is_dir = 1 /\ i \in Node
  BY DEF Dirs, Used
<1>2. name # "" /\ name # "/" /\ name # "." /\ name # ".."
  <2>1. name \in ValidNames
    BY <1>1 DEF NamesValid
  <2> QED
    BY <2>1, NamesAssumption
<1>3. i \in Children(n, c) /\ n[i].name = name
  BY <1>1 DEF Children
<1>4. f \in Children(n, c) /\ n[f].name = name
  <2>1. \/ f = -1 /\ \A j \in Children(n, c) : n[j].name # name
        \/ f \in Children(n, c) /\ n[f].name = name
    BY FindChild
  <2> HIDE DEF f, name
  <2> QED
    BY <1>3, <2>1
<1>5. f = i
  BY <1>1, <1>4 DEF IsTree, SiblingsDistinct, Children
<1>6. ~(f < 0) /\ n[f].is_dir # 0
  BY <1>1, <1>5, SizesAssumption DEF Node
<1>7. fish_chdir(n, c, name) = Outcome(n, f, FISH_OK)
  <2>1. ~(find_child(n, c, name) < 0)
    BY <1>6
  <2>2. n[find_child(n, c, name)].is_dir # 0
    BY <1>6
  <2> HIDE DEF name, c
  <2> QED
    BY <1>2, <2>1, <2>2 DEF fish_chdir, f
<1> QED
  BY <1>5, <1>7 DEF Outcome

(* Walking down the path of a directory leads to it. *)
LEMMA PathLeadsTo ==
  ASSUME NEW n, IsTree(n), NamesValid(n), NEW d \in Dirs(n)
  PROVE  WalkTo(n, PathOf(n, d)) = d
<1> DEFINE D == {i \in Dirs(n) : WalkTo(n, PathOf(n, i)) # i}
<1>1. WalkTo(n, PathOf(n, 0)) = 0
  <2>1. PathOf(n, 0) = <<>>
    BY PathByStep
  <2>2. <<>> \in Seq(AnyName) /\ Len(<<>>) = 0
    OBVIOUS
  <2>3. PathOf(n, 0) \in Seq(AnyName) /\ Len(PathOf(n, 0)) = 0
    BY <2>1, <2>2, Zenon
  <2> QED
    BY <2>3, WalkByStep
<1>2. D = {}
  <2> SUFFICES ASSUME D # {} PROVE FALSE
    OBVIOUS
  <2>1. D \in SUBSET (Used(n) \ {0})
    BY <1>1 DEF Dirs
  <2>2. PICK i \in D : n[i].parent \notin D
    BY <2>1 DEF IsTree, Acyclic
  <2>3. i \in Used(n) \ {0} /\ i \in Dirs(n) \ {0}
    BY <2>1, <2>2
  <2> DEFINE s == PathOf(n, n[i].parent)
             a == n[i].name
  <2>4. /\ n[i].parent \in Dirs(n) /\ n[i].parent \in Used(n)
        /\ a \in AnyName
    BY <2>3, TreeIndices
  <2>5. WalkTo(n, s) = n[i].parent
    BY <2>2, <2>4
  <2>6. s \in Seq(AnyName) /\ PathOf(n, i) = Append(s, a)
    BY <2>3, <2>4, PathByStep
  <2>7. WalkTo(n, Append(s, a)) = fish_chdir(n, WalkTo(n, s), a).current
    <3> HIDE DEF s, a
    <3> QED
      BY <2>4, <2>6, WalkOn
  <2>8. WalkTo(n, PathOf(n, i)) = i
    BY <2>3, <2>5, <2>6, <2>7, ChdirEnters
  <2> QED
    BY <2>2, <2>8
<1> QED
  BY <1>2

(* After fish_init only the root is in use. *)
LEMMA NamesInit == Init => NamesValid(nodes)
<1> SUFFICES ASSUME Init PROVE NamesValid(nodes)
  OBVIOUS
<1>1. nodes = InitNodes
  BY DEF Init, fish_init, Outcome
<1>2. \A i \in Node \ {0} : nodes[i].used = 0
  BY <1>1 DEF InitNodes, ZeroNode
<1> QED
  BY <1>2 DEF NamesValid, Used

(* Only make_node gives a name, and only one it found valid. *)
LEMMA NamesNext ==
  ASSUME Sound(nodes, current), NamesValid(nodes), [Next]_fishvars
  PROVE  NamesValid(nodes)'
<1>0. nodes \in [Node -> NodeRecord]
  BY DEF Sound
<1>1. ASSUME NEW name \in AnyName, NEW is_dir,
             Return(make_node(nodes, current, name, is_dir))
      PROVE  NamesValid(nodes)'
  <2> DEFINE index == allocate(nodes)
  <2>1. CASE nodes' = nodes
    BY <2>1 DEF NamesValid
  <2>2. CASE nodes' # nodes
    <3>1. /\ name \in ValidNames /\ ~(index < 0)
          /\ nodes' = [nodes EXCEPT ![index] =
                         [name |-> name, used |-> 1, is_dir |-> is_dir,
                          parent |-> current, size |-> 0,
                          data |-> nodes[index].data]]
      BY <1>1, <2>2 DEF Return, make_node, valid_name, Outcome
    <3>2. index \in Node
      BY <3>1, Allocate
    <3> HIDE DEF index
    <3>3. /\ nodes'[index].name = name
          /\ \A i \in Node \ {index} : nodes'[i] = nodes[i]
      BY <1>0, <3>1, <3>2
    <3> QED
      BY <3>1, <3>3 DEF NamesValid, Used
  <2> QED
    BY <2>1, <2>2
<1>2. ASSUME \A i \in Node : /\ nodes'[i].used = 1 => nodes[i].used = 1
                             /\ nodes'[i].name = nodes[i].name
      PROVE  NamesValid(nodes)'
  BY <1>2 DEF NamesValid, Used
<1>3. ASSUME NEW name \in AnyName, Return(fish_remove(nodes, current, name))
      PROVE  NamesValid(nodes)'
  <2> DEFINE f == find_child(nodes, current, name)
  <2>1. \/ nodes' = nodes
        \/ ~(f < 0) /\ nodes' = [nodes EXCEPT ![f].used = 0]
    BY <1>3 DEF Return, fish_remove, Outcome
  <2>2. ~(f < 0) => f \in Node
    BY FindChild DEF Children, Used
  <2> HIDE DEF f
  <2>3. \A i \in Node : /\ nodes'[i].used = 1 => nodes[i].used = 1
                        /\ nodes'[i].name = nodes[i].name
    <3>1. CASE nodes' = nodes
      BY <3>1
    <3>2. CASE nodes' # nodes
      <4>1. f \in Node /\ nodes[f] \in NodeRecord
        BY <1>0, <2>1, <2>2, <3>2
      <4>2. \A i \in Node \ {f} : nodes'[i] = nodes[i]
        BY <1>0, <2>1, <3>2, <4>1
      <4>3. nodes'[f].used = 0 /\ nodes'[f].name = nodes[f].name
        <5>1. nodes'[f] = [nodes[f] EXCEPT !.used = 0]
          BY <1>0, <2>1, <3>2, <4>1
        <5> QED
          BY <4>1, <5>1 DEF NodeRecord
      <4> QED
        BY <4>2, <4>3
    <3> QED
      BY <3>1, <3>2
  <2> QED
    BY <1>2, <2>3
<1>4. ASSUME NEW name \in AnyName, NEW text, NEW appending \in BOOLEAN,
             Return(PutText(nodes, current, name, text, appending))
      PROVE  NamesValid(nodes)'
  <2> DEFINE f  == find_child(nodes, current, name)
             at == IF appending THEN nodes[f].size ELSE 0
  <2>1. \/ nodes' = nodes
        \/ /\ ~(f < 0)
           /\ nodes' = [nodes EXCEPT ![f].data = Store(@, at, text),
                                     ![f].size = at + Len(text)]
    BY <1>4 DEF Return, PutText, Outcome
  <2>2. ~(f < 0) => f \in Node
    BY FindChild DEF Children, Used
  <2> HIDE DEF f, at
  <2>3. \A i \in Node : /\ nodes'[i].used = 1 => nodes[i].used = 1
                        /\ nodes'[i].name = nodes[i].name
    <3>1. CASE nodes' = nodes
      BY <3>1
    <3>2. CASE nodes' # nodes
      <4>1. f \in Node /\ nodes[f] \in NodeRecord
        BY <1>0, <2>1, <2>2, <3>2
      <4>2. \A i \in Node \ {f} : nodes'[i] = nodes[i]
        BY <1>0, <2>1, <3>2, <4>1
      <4>3. nodes'[f].used = nodes[f].used
            /\ nodes'[f].name = nodes[f].name
        <5>1. nodes'[f] = [nodes[f] EXCEPT !.data = Store(@, at, text),
                                           !.size = at + Len(text)]
          BY <1>0, <2>1, <3>2, <4>1
        <5> QED
          BY <4>1, <5>1 DEF NodeRecord
      <4> QED
        BY <4>2, <4>3
    <3> QED
      BY <3>1, <3>2
  <2> QED
    BY <1>2, <2>3
<1>5. ASSUME NEW name, Return(fish_chdir(nodes, current, name))
      PROVE  NamesValid(nodes)'
  <2>1. nodes' = nodes
    BY <1>5 DEF Return, fish_chdir, Outcome
  <2> QED
    BY <2>1 DEF NamesValid
<1>6. CASE UNCHANGED fishvars
  BY <1>6 DEF fishvars, NamesValid
<1>7. ASSUME NEW name \in AnyName, cmd_mkdir(name) \/ cmd_touch(name)
      PROVE  NamesValid(nodes)'
  BY <1>1, <1>7 DEF cmd_mkdir, cmd_touch, fish_mkdir, fish_create
<1>8. ASSUME NEW name \in AnyName, NEW text,
             cmd_write(name, text) \/ cmd_append(name, text)
      PROVE  NamesValid(nodes)'
  BY <1>4, <1>8, Zenon DEF cmd_write, cmd_append, fish_write, fish_append
<1>9. ASSUME NEW name \in AnyName, cmd_rm(name) PROVE NamesValid(nodes)'
  BY <1>3, <1>9 DEF cmd_rm
<1>10. ASSUME NEW name \in AnyName, cmd_cd(name) PROVE NamesValid(nodes)'
  BY <1>5, <1>10, Zenon DEF cmd_cd
<1> QED
  BY <1>6, <1>7, <1>8, <1>9, <1>10, Zenon DEF Next

-----------------------------------------------------------------------------
(* The text of a path *)

(* The characters of a path. *)
Char == Letter \cup {Slash}

(* The recursive function that FlattenSeq defines. *)
FlatUpTo(f, q) ==
  [i \in 1 .. Len(q) |-> IF i = 1 THEN q[i] ELSE f[i - 1] \o q[i]]

Flat(q) == CHOOSE f : f = [i \in 1 .. Len(q) |->
                             IF i = 1 THEN q[i] ELSE f[i - 1] \o q[i]]

(* It exists, for every sequence of sequences. *)
LEMMA FlatExists ==
  ASSUME NEW T, NEW q \in Seq(Seq(T))
  PROVE  /\ Flat(q) = FlatUpTo(Flat(q), q)
         /\ Flat(q) \in [1 .. Len(q) -> Seq(T)]
<1> DEFINE l == Len(q)
           Is(f, m) == /\ f \in [1 .. m -> Seq(T)]
                       /\ \A i \in 1 .. m :
                            f[i] = IF i = 1 THEN q[i] ELSE f[i - 1] \o q[i]
           P == {m \in Nat : m <= l => \E f : Is(f, m)}
<1>1. l \in Nat /\ \A i \in 1 .. l : q[i] \in Seq(T)
  OBVIOUS
<1>2. 0 \in P
  <2> DEFINE f == [i \in 1 .. 0 |-> <<>>]
  <2>1. Is(f, 0)
    OBVIOUS
  <2> QED
    BY <2>1
<1>3. ASSUME NEW m \in Nat, m \in P PROVE m + 1 \in P
  <2> HIDE DEF l, Is
  <2> SUFFICES ASSUME m + 1 <= l PROVE \E f : Is(f, m + 1)
    OBVIOUS
  <2>0. m <= l
    BY <1>1
  <2>1. PICK f : Is(f, m)
    BY <1>3, <2>0
  <2> USE DEF Is
  <2> DEFINE new == IF m = 0 THEN q[1] ELSE f[m] \o q[m + 1]
             h   == [i \in 1 .. m + 1 |-> IF i = m + 1 THEN new ELSE f[i]]
  <2>2. new \in Seq(T)
    <3>1. CASE m = 0
      <4>1. 1 \in 1 .. l
        BY <1>1, <3>1
      <4> QED
        BY <1>1, <3>1, <4>1
    <3>2. CASE m # 0
      <4>1. m \in 1 .. m /\ m + 1 \in 1 .. l
        BY <1>1, <3>2
      <4>2. f[m] \in Seq(T) /\ q[m + 1] \in Seq(T)
        BY <1>1, <2>1, <4>1
      <4>3. f[m] \o q[m + 1] \in Seq(T)
        BY <4>2, ConcatProperties
      <4> QED
        BY <3>2, <4>3
    <3> QED
      BY <3>1, <3>2
  <2>3. \A i \in 1 .. m + 1 : i # m + 1 => i \in 1 .. m
    OBVIOUS
  <2>4. h \in [1 .. m + 1 -> Seq(T)]
    <3>1. \A i \in 1 .. m : f[i] \in Seq(T)
      BY <2>1
    <3> HIDE DEF new
    <3> QED
      BY <2>2, <2>3, <3>1
  <2>5. ASSUME NEW i \in 1 .. m + 1
        PROVE  h[i] = IF i = 1 THEN q[i] ELSE h[i - 1] \o q[i]
    <3>1. CASE i = m + 1
      <4>1. h[i] = new
        BY <3>1
      <4>2. CASE m = 0
        BY <3>1, <4>1, <4>2
      <4>3. CASE m # 0
        <5>1. m \in 1 .. m + 1 /\ m # m + 1 /\ i - 1 = m /\ i # 1
          BY <3>1, <4>3
        <5>2. h[i - 1] = f[m]
          BY <5>1
        <5> QED
          BY <3>1, <4>1, <4>3, <5>1, <5>2
      <4> QED
        BY <4>2, <4>3
    <3>2. CASE i # m + 1
      <4>1. i \in 1 .. m /\ h[i] = f[i]
        BY <2>3, <3>2
      <4>2. f[i] = IF i = 1 THEN q[i] ELSE f[i - 1] \o q[i]
        BY <2>1, <4>1
      <4>3. i # 1 => h[i - 1] = f[i - 1]
        <5> SUFFICES ASSUME i # 1 PROVE h[i - 1] = f[i - 1]
          OBVIOUS
        <5>1. i - 1 \in 1 .. m + 1 /\ i - 1 # m + 1
          OBVIOUS
        <5> QED
          BY <5>1
      <4> HIDE DEF h
      <4> QED
        BY <4>1, <4>2, <4>3
    <3> QED
      BY <3>1, <3>2
  <2> HIDE DEF h
  <2> QED
    BY <2>4, <2>5
<1>4. \E f : Is(f, l)
  <2> HIDE DEF P
  <2>1. l \in P
    BY <1>1, <1>2, <1>3, SetInduction
  <2> QED
    BY <1>1, <2>1 DEF P
<1>5. PICK f : Is(f, l)
  BY <1>4
<1>6. f = FlatUpTo(f, q)
  BY <1>5 DEF FlatUpTo
<1> DEFINE g == Flat(q)
<1>7. g = FlatUpTo(g, q)
  BY <1>6 DEF Flat, FlatUpTo
<1> HIDE DEF g
<1>8. \A i \in 1 .. l : g[i] = IF i = 1 THEN q[i] ELSE g[i - 1] \o q[i]
  BY <1>7 DEF FlatUpTo
<1> DEFINE R == {m \in Nat : m \in 1 .. l => g[m] \in Seq(T)}
<1>9. 0 \in R
  OBVIOUS
<1>10. ASSUME NEW m \in Nat, m \in R PROVE m + 1 \in R
  <2> SUFFICES ASSUME m + 1 \in 1 .. l PROVE g[m + 1] \in Seq(T)
    OBVIOUS
  <2>1. q[m + 1] \in Seq(T)
    BY <1>1
  <2>2. CASE m = 0
    BY <1>8, <2>1, <2>2
  <2>3. CASE m # 0
    <3>1. m \in 1 .. l /\ m + 1 # 1 /\ (m + 1) - 1 = m
      BY <1>1, <2>3
    <3>2. g[m] \in Seq(T) /\ g[m + 1] = g[m] \o q[m + 1]
      BY <1>8, <1>10, <3>1
    <3> QED
      BY <2>1, <3>2, ConcatProperties
  <2> QED
    BY <2>2, <2>3
<1>11. \A m \in 1 .. l : g[m] \in Seq(T)
  <2> SUFFICES ASSUME NEW m \in 1 .. l PROVE g[m] \in Seq(T)
    OBVIOUS
  <2> HIDE DEF R, l
  <2>1. m \in Nat
    BY <1>1
  <2>2. Nat \subseteq R
    BY <1>9, <1>10, SetInduction
  <2>3. m \in R
    BY <2>1, <2>2
  <2> QED
    BY <2>3 DEF R
<1>12. g \in [1 .. l -> Seq(T)]
  BY <1>7, <1>11 DEF FlatUpTo
<1> QED
  BY <1>7, <1>12 DEF g

(* Flattening a sequence with one element more. *)
LEMMA FlattenOn ==
  ASSUME NEW T, NEW q \in Seq(Seq(T)), NEW a \in Seq(T)
  PROVE  /\ q # <<>> => FlattenSeq(q) \in Seq(T)
         /\ q # <<>> => FlattenSeq(Append(q, a)) = FlattenSeq(q) \o a
         /\ q = <<>> => FlattenSeq(Append(q, a)) = a
<1> DEFINE l == Len(q)
           r == Append(q, a)
           f == Flat(q)
           g == Flat(r)
<1>1. /\ l \in Nat /\ Len(r) = l + 1 /\ r \in Seq(Seq(T))
      /\ r[l + 1] = a /\ \A i \in 1 .. l : r[i] = q[i]
      /\ q = <<>> <=> l = 0
  OBVIOUS
<1>2. /\ f \in [1 .. l -> Seq(T)]
      /\ \A i \in 1 .. l : f[i] = IF i = 1 THEN q[i] ELSE f[i - 1] \o q[i]
  <2>1. f = FlatUpTo(f, q) /\ f \in [1 .. l -> Seq(T)]
    BY FlatExists
  <2> HIDE DEF f
  <2> QED
    BY <2>1 DEF FlatUpTo
<1>3. \A i \in 1 .. l + 1 : g[i] = IF i = 1 THEN r[i] ELSE g[i - 1] \o r[i]
  <2> HIDE DEF r
  <2>1. g = FlatUpTo(g, r)
    BY <1>1, FlatExists
  <2> HIDE DEF g
  <2> QED
    BY <1>1, <2>1 DEF FlatUpTo
<1>4. FlattenSeq(r) = g[l + 1]
  <2> HIDE DEF r
  <2> QED
    BY <1>1 DEF FlattenSeq, Flat
<1>5. l # 0 => FlattenSeq(q) = f[l]
  BY <1>1 DEF FlattenSeq, Flat
<1> HIDE DEF l, r, f, g
<1> DEFINE P == {m \in Nat : m \in 1 .. l => g[m] = f[m]}
<1>6. 0 \in P
  OBVIOUS
<1>7. ASSUME NEW m \in Nat, m \in P PROVE m + 1 \in P
  <2> SUFFICES ASSUME m + 1 \in 1 .. l PROVE g[m + 1] = f[m + 1]
    OBVIOUS
  <2>1. /\ m + 1 \in 1 .. l + 1 /\ (m + 1) - 1 = m
        /\ m # 0 => m \in 1 .. l
        /\ m + 1 = 1 <=> m = 0
    BY <1>1
  <2>2. r[m + 1] = q[m + 1]
    BY <1>1
  <2>3. f[m + 1] = IF m = 0 THEN q[m + 1] ELSE f[m] \o q[m + 1]
    BY <1>2, <2>1
  <2>4. g[m + 1] = IF m = 0 THEN r[m + 1] ELSE g[m] \o r[m + 1]
    BY <1>3, <2>1
  <2> QED
    BY <1>7, <2>1, <2>2, <2>3, <2>4
<1>8. l # 0 => g[l] = f[l]
  <2> HIDE DEF P
  <2>1. l \in P
    BY <1>1, <1>6, <1>7, SetInduction
  <2> QED
    BY <1>1, <2>1 DEF P
<1>9. l # 0 => FlattenSeq(q) \in Seq(T)
  <2> SUFFICES ASSUME l # 0 PROVE FlattenSeq(q) \in Seq(T)
    OBVIOUS
  <2>1. l \in 1 .. l
    BY <1>1
  <2> QED
    BY <1>2, <1>5, <2>1
<1>10. l # 0 => FlattenSeq(r) = FlattenSeq(q) \o a
  <2> SUFFICES ASSUME l # 0 PROVE FlattenSeq(r) = FlattenSeq(q) \o a
    OBVIOUS
  <2>1. l + 1 \in 1 .. l + 1 /\ l + 1 # 1 /\ (l + 1) - 1 = l
    BY <1>1
  <2>2. g[l + 1] = g[l] \o r[l + 1]
    BY <1>3, <2>1
  <2> QED
    BY <1>1, <1>4, <1>5, <1>8, <2>2
<1>11. l = 0 => FlattenSeq(r) = a
  <2> SUFFICES ASSUME l = 0 PROVE FlattenSeq(r) = a
    OBVIOUS
  <2>1. 1 \in 1 .. l + 1 /\ l + 1 = 1
    BY <1>1
  <2> QED
    BY <1>1, <1>3, <1>4, <2>1
<1> QED
  BY <1>1, <1>9, <1>10, <1>11 DEF r

(* A path that is not the root's has a last name. *)
LEMMA LastName ==
  ASSUME NEW S, NEW s \in Seq(S), s # <<>>
  PROVE  \E t \in Seq(S), a \in S : s = Append(t, a) /\ Len(t) = Len(s) - 1
<1> DEFINE l == Len(s)
           t == SubSeq(s, 1, l - 1)
           a == s[l]
<1>1. l \in Nat /\ l # 0 /\ l \in 1 .. l /\ \A i \in 1 .. l : s[i] \in S
  BY EmptySeq
<1>2. l - 1 \in Nat /\ \A i \in 1 .. l - 1 : i \in 1 .. l
  BY <1>1
<1>3. t \in Seq(S) /\ Len(t) = l - 1 /\ \A i \in 1 .. l - 1 : t[i] = s[i]
  <2>1. \A i \in 1 .. l - 1 : s[i] \in S
    BY <1>1, <1>2
  <2> HIDE DEF l
  <2>2. /\ t \in Seq(S) /\ Len(t) = IF 1 <= l - 1 THEN (l - 1) - 1 + 1 ELSE 0
        /\ \A i \in 1 .. (l - 1) - 1 + 1 : t[i] = s[1 + i - 1]
    BY <1>2, <2>1, SubSeqProperties
  <2> QED
    BY <1>1, <1>2, <2>2
<1>4. a \in S
  BY <1>1
<1> HIDE DEF t, a
<1>5. /\ Append(t, a) \in Seq(S) /\ Len(Append(t, a)) = l
      /\ \A i \in 1 .. l - 1 : Append(t, a)[i] = t[i]
      /\ Append(t, a)[l] = a
  BY <1>1, <1>3, <1>4
<1>6. \A i \in 1 .. l : s[i] = Append(t, a)[i]
  <2> SUFFICES ASSUME NEW i \in 1 .. l PROVE s[i] = Append(t, a)[i]
    OBVIOUS
  <2>1. i = l \/ i \in 1 .. l - 1
    BY <1>1
  <2>2. s[l] = a
    BY DEF a
  <2> QED
    BY <1>3, <1>5, <2>1, <2>2
<1>7. s = Append(t, a)
  BY <1>5, <1>6, SeqEqual
<1> QED
  BY <1>3, <1>4, <1>7

(* The pieces of a path's text: a slash and the letters of a name. *)
Piece(name) == <<Slash>> \o Spelling[name]

Pieces(names) == [k \in DOMAIN names |-> Piece(names[k])]

(* What comes before the last name's piece. *)
Stem(names) == IF names = <<>> THEN <<>> ELSE Spell(names)

LEMMA PieceType ==
  ASSUME NEW a \in ValidNames
  PROVE  /\ Spelling[a] \in Seq(Char) /\ Spelling[a] \in Seq(Letter)
         /\ Len(Spelling[a]) \in Nat \ {0}
         /\ <<Slash>> \in Seq(Char) /\ Len(<<Slash>>) = 1
         /\ Piece(a) \in Seq(Char)
         /\ Len(Piece(a)) = Len(Spelling[a]) + 1
         /\ Len(Piece(a)) \in Nat /\ Len(Piece(a)) >= 2
         /\ Piece(a)[1] = Slash
         /\ \A i \in 2 .. Len(Piece(a)) : Piece(a)[i] = Spelling[a][i - 1]
         /\ \A i \in 2 .. Len(Piece(a)) : Piece(a)[i] # Slash
<1> DEFINE s == Spelling[a]
           p == Piece(a)
<1>1. s \in Seq(Letter) /\ s # <<>>
  BY SpellingAssumption
<1> HIDE DEF s
<1>2. s \in Seq(Char) /\ Len(s) \in Nat \ {0}
  BY <1>1, EmptySeq, SeqMonotonic DEF Char
<1>3. /\ <<Slash>> \in Seq(Char) /\ Len(<<Slash>>) = 1
      /\ <<Slash>>[1] = Slash
  BY DEF Char
<1>4. p = <<Slash>> \o s
  BY DEF Piece, s
<1> HIDE DEF p
<1>5. /\ p \in Seq(Char) /\ Len(p) = 1 + Len(s)
      /\ \A i \in 1 .. 1 + Len(s) :
           p[i] = IF i <= 1 THEN <<Slash>>[i] ELSE s[i - 1]
  BY <1>2, <1>3, <1>4, ConcatProperties
<1>6. p[1] = Slash
  BY <1>2, <1>3, <1>5
<1>7. ASSUME NEW i \in 2 .. Len(p) PROVE p[i] = s[i - 1] /\ p[i] # Slash
  <2>1. i \in 1 .. 1 + Len(s) /\ ~(i <= 1) /\ i - 1 \in 1 .. Len(s)
    BY <1>2, <1>5
  <2>2. p[i] = s[i - 1]
    BY <1>5, <2>1
  <2>3. s[i - 1] \in Letter
    BY <1>1, <2>1
  <2> QED
    BY <2>2, <2>3, SpellingAssumption
<1>8. Len(p) = Len(s) + 1 /\ Len(p) \in Nat /\ Len(p) >= 2
  BY <1>2, <1>5
<1> QED
  BY <1>1, <1>2, <1>3, <1>5, <1>6, <1>7, <1>8 DEF s, p

(* One name more adds its piece to the text. *)
LEMMA SpellOn ==
  ASSUME NEW s \in Seq(ValidNames), NEW a \in ValidNames
  PROVE  /\ Stem(s) \in Seq(Char) /\ Spell(s) \in Seq(Char)
         /\ Spell(Append(s, a)) = Stem(s) \o Piece(a)
<1> DEFINE t == Append(s, a)
           q == Pieces(s)
           r == Pieces(t)
<1>1. /\ Len(s) \in Nat /\ DOMAIN s = 1 .. Len(s)
      /\ \A k \in 1 .. Len(s) : s[k] \in ValidNames
      /\ t # <<>> /\ DOMAIN t = 1 .. Len(s) + 1
      /\ \A k \in 1 .. Len(s) : t[k] = s[k]
      /\ t[Len(s) + 1] = a
      /\ s = <<>> <=> Len(s) = 0
  OBVIOUS
<1>2. \A b \in ValidNames : Piece(b) \in Seq(Char)
  BY PieceType
<1> HIDE DEF t
<1>3. /\ q \in Seq(Seq(Char)) /\ Len(q) = Len(s)
      /\ \A k \in 1 .. Len(s) : q[k] = Piece(s[k])
      /\ q = <<>> <=> Len(s) = 0
  <2>1. q = [k \in 1 .. Len(s) |-> Piece(s[k])]
    BY <1>1 DEF Pieces
  <2>2. \A k \in 1 .. Len(s) : Piece(s[k]) \in Seq(Char)
    BY <1>1, <1>2
  <2> HIDE DEF q
  <2> QED
    BY <1>1, <2>1, <2>2
<1>4. /\ r = [k \in 1 .. Len(s) + 1 |-> Piece(t[k])]
      /\ \A k \in 1 .. Len(s) + 1 : Piece(t[k]) \in Seq(Char)
  <2>1. r = [k \in 1 .. Len(s) + 1 |-> Piece(t[k])]
    BY <1>1 DEF Pieces
  <2>2. \A k \in 1 .. Len(s) + 1 : t[k] \in ValidNames
    BY <1>1
  <2> QED
    BY <1>2, <2>1, <2>2
<1> HIDE DEF q, r
<1>5. r = Append(q, Piece(a))
  <2>1. r \in Seq(Seq(Char)) /\ Len(r) = Len(s) + 1
    BY <1>1, <1>4
  <2> DEFINE u == Append(q, Piece(a))
  <2>2. /\ u \in Seq(Seq(Char)) /\ Len(u) = Len(s) + 1
        /\ u[Len(s) + 1] = Piece(a)
        /\ \A k \in 1 .. Len(s) : u[k] = q[k]
    BY <1>1, <1>2, <1>3
  <2> HIDE DEF u
  <2>3. \A k \in 1 .. Len(r) : r[k] = u[k]
    <3> SUFFICES ASSUME NEW k \in 1 .. Len(r) PROVE r[k] = u[k]
      OBVIOUS
    <3>1. k \in 1 .. Len(s) + 1 /\ (k = Len(s) + 1 \/ k \in 1 .. Len(s))
      BY <1>1, <2>1
    <3>2. r[k] = Piece(t[k])
      BY <1>4, <3>1
    <3> QED
      BY <1>1, <1>3, <2>2, <3>1, <3>2
  <2>4. r = u
    BY <2>1, <2>2, <2>3, SeqEqual
  <2> QED
    BY <2>4 DEF u
<1>6. /\ s # <<>> => Spell(s) = FlattenSeq(q)
      /\ s = <<>> => Spell(s) = <<Slash>>
      /\ Spell(t) = FlattenSeq(r)
  BY <1>1 DEF Spell, Pieces, Piece, q, r
<1>7. /\ q # <<>> => FlattenSeq(q) \in Seq(Char)
      /\ q # <<>> => FlattenSeq(r) = FlattenSeq(q) \o Piece(a)
      /\ q = <<>> => FlattenSeq(r) = Piece(a)
  BY <1>2, <1>3, <1>5, FlattenOn
<1>8. Spell(s) \in Seq(Char) /\ Stem(s) \in Seq(Char)
  <2>1. <<Slash>> \in Seq(Char) /\ <<>> \in Seq(Char)
    BY DEF Char
  <2> QED
    BY <1>1, <1>3, <1>6, <1>7, <2>1 DEF Stem
<1>9. Spell(t) = Stem(s) \o Piece(a)
  <2>1. CASE s = <<>>
    <3>1. Stem(s) = <<>> /\ Spell(t) = Piece(a)
      BY <1>1, <1>3, <1>6, <1>7, <2>1 DEF Stem
    <3> QED
      BY <1>2, <3>1, ConcatEmptySeq
  <2>2. CASE s # <<>>
    BY <1>1, <1>3, <1>6, <1>7, <2>2 DEF Stem
  <2> QED
    BY <2>1, <2>2
<1> QED
  BY <1>8, <1>9 DEF t

(* Every path has a text, whatever its last name. *)
LEMMA SpellType ==
  ASSUME NEW s \in Seq(ValidNames)
  PROVE  Spell(s) \in Seq(Char)
<1>1. CASE s = <<>>
  <2>1. Spell(s) = <<Slash>> /\ <<Slash>> \in Seq(Char)
    BY <1>1 DEF Spell, Char
  <2> QED
    BY <2>1
<1>2. CASE s # <<>>
  <2>1. PICK t \in Seq(ValidNames), a \in ValidNames : s = Append(t, a)
    BY <1>2, LastName
  <2> QED
    BY <2>1, SpellOn
<1> QED
  BY <1>1, <1>2

(* A text and the piece of one name more. *)
Longer(text, name) == text \o Piece(name)

(* The last slash of a text tells where the last piece begins. *)
LEMMA LastPiece ==
  ASSUME NEW u \in Seq(Char), NEW v \in Seq(Char),
         NEW a \in ValidNames, NEW b \in ValidNames,
         Longer(u, a) = Longer(v, b)
  PROVE  u = v /\ a = b
<1> DEFINE p == Piece(a)
           q == Piece(b)
           x == u \o p
<1>1. /\ p \in Seq(Char) /\ Len(p) \in Nat /\ Len(p) >= 2 /\ p[1] = Slash
      /\ Len(p) = Len(Spelling[a]) + 1
      /\ \A i \in 2 .. Len(p) : p[i] # Slash /\ p[i] = Spelling[a][i - 1]
  BY PieceType
<1>2. /\ q \in Seq(Char) /\ Len(q) \in Nat /\ Len(q) >= 2 /\ q[1] = Slash
      /\ Len(q) = Len(Spelling[b]) + 1
      /\ \A i \in 2 .. Len(q) : q[i] # Slash /\ q[i] = Spelling[b][i - 1]
  BY PieceType
<1>3. x = v \o q
  BY DEF Longer
<1> HIDE DEF p, q
<1>3a. p \in Seq(Char)
  BY <1>1
<1>3b. q \in Seq(Char)
  BY <1>2
<1>4. /\ Len(x) = Len(u) + Len(p)
      /\ \A i \in 1 .. Len(u) + Len(p) :
           x[i] = IF i <= Len(u) THEN u[i] ELSE p[i - Len(u)]
  BY <1>3a, ConcatProperties
<1> HIDE DEF x
<1>5. /\ Len(x) = Len(v) + Len(q)
      /\ \A i \in 1 .. Len(v) + Len(q) :
           x[i] = IF i <= Len(v) THEN v[i] ELSE q[i - Len(v)]
  <2>1. /\ Len(v \o q) = Len(v) + Len(q)
        /\ \A i \in 1 .. Len(v) + Len(q) :
             (v \o q)[i] = IF i <= Len(v) THEN v[i] ELSE q[i - Len(v)]
    BY <1>3b, ConcatProperties
  <2> QED
    BY <1>3, <2>1, Zenon
<1>6. Len(u) \in Nat /\ Len(v) \in Nat
  OBVIOUS
<1>7. /\ x[Len(u) + 1] = Slash
      /\ \A i \in Len(u) + 2 .. Len(x) : x[i] # Slash
  <2>1. /\ Len(u) + 1 \in 1 .. Len(u) + Len(p) /\ ~(Len(u) + 1 <= Len(u))
        /\ (Len(u) + 1) - Len(u) = 1
    BY <1>1, <1>6
  <2>2. ASSUME NEW i \in Len(u) + 2 .. Len(x) PROVE x[i] # Slash
    <3>1. /\ i \in 1 .. Len(u) + Len(p) /\ ~(i <= Len(u))
          /\ i - Len(u) \in 2 .. Len(p)
      BY <1>1, <1>4, <1>6
    <3> QED
      BY <1>1, <1>4, <3>1
  <2> QED
    BY <1>1, <1>4, <2>1, <2>2
<1>8. /\ x[Len(v) + 1] = Slash
      /\ \A i \in Len(v) + 2 .. Len(x) : x[i] # Slash
  <2>1. /\ Len(v) + 1 \in 1 .. Len(v) + Len(q) /\ ~(Len(v) + 1 <= Len(v))
        /\ (Len(v) + 1) - Len(v) = 1
    BY <1>2, <1>6
  <2>2. ASSUME NEW i \in Len(v) + 2 .. Len(x) PROVE x[i] # Slash
    <3>1. /\ i \in 1 .. Len(v) + Len(q) /\ ~(i <= Len(v))
          /\ i - Len(v) \in 2 .. Len(q)
      BY <1>2, <1>5, <1>6
    <3> QED
      BY <1>2, <1>5, <3>1
  <2> QED
    BY <1>2, <1>5, <2>1, <2>2
<1>9. Len(u) = Len(v) /\ Len(p) = Len(q)
  <2>1. Len(u) + 1 <= Len(x) /\ Len(v) + 1 <= Len(x)
    BY <1>1, <1>2, <1>4, <1>5, <1>6
  <2>2. ~(Len(u) < Len(v))
    <3> SUFFICES ASSUME Len(u) < Len(v) PROVE FALSE
      OBVIOUS
    <3>1. Len(v) + 1 \in Len(u) + 2 .. Len(x)
      BY <1>1, <1>4, <1>6, <2>1
    <3> QED
      BY <1>7, <1>8, <3>1
  <2>3. ~(Len(v) < Len(u))
    <3> SUFFICES ASSUME Len(v) < Len(u) PROVE FALSE
      OBVIOUS
    <3>1. Len(u) + 1 \in Len(v) + 2 .. Len(x)
      BY <1>1, <1>4, <1>6, <2>1
    <3> QED
      BY <1>7, <1>8, <3>1
  <2> QED
    BY <1>1, <1>2, <1>4, <1>5, <1>6, <2>2, <2>3
<1>10. u = v
  <2>1. ASSUME NEW i \in 1 .. Len(u) PROVE u[i] = v[i]
    <3>1. /\ i \in 1 .. Len(u) + Len(p) /\ i <= Len(u)
          /\ i \in 1 .. Len(v) + Len(q) /\ i <= Len(v)
      BY <1>1, <1>2, <1>6, <1>9
    <3> QED
      BY <1>4, <1>5, <3>1
  <2> QED
    BY <1>9, <2>1, SeqEqual
<1>11. Spelling[a] = Spelling[b]
  <2> DEFINE y == Spelling[a]
             z == Spelling[b]
  <2>1. y \in Seq(Letter) /\ z \in Seq(Letter)
    BY SpellingAssumption
  <2> HIDE DEF y, z
  <2>2. Len(y) = Len(z) /\ Len(y) \in Nat /\ Len(p) = Len(y) + 1
    BY <1>1, <1>2, <1>9, <2>1 DEF y, z
  <2>3. ASSUME NEW i \in 1 .. Len(y) PROVE y[i] = z[i]
    <3> DEFINE k == Len(u) + (i + 1)
    <3>0. /\ i \in Nat /\ i >= 1 /\ i + 1 <= Len(p) /\ Len(p) \in Nat
          /\ Len(q) = Len(p) /\ Len(v) = Len(u) /\ Len(u) \in Nat
      BY <1>1, <1>6, <1>9, <2>2
    <3>1. /\ k \in 1 .. Len(u) + Len(p) /\ ~(k <= Len(u))
          /\ k - Len(u) = i + 1 /\ k - Len(v) = i + 1
          /\ k \in 1 .. Len(v) + Len(q) /\ ~(k <= Len(v))
          /\ i + 1 \in 2 .. Len(p) /\ i + 1 \in 2 .. Len(q)
          /\ (i + 1) - 1 = i
      BY <3>0
    <3> HIDE DEF k
    <3>2. x[k] = p[i + 1] /\ x[k] = q[i + 1]
      BY <1>4, <1>5, <3>1
    <3>3. p[i + 1] = y[i] /\ q[i + 1] = z[i]
      BY <1>1, <1>2, <3>1 DEF y, z
    <3> QED
      BY <3>2, <3>3
  <2>4. y = z
    BY <2>1, <2>2, <2>3, SeqEqual
  <2> QED
    BY <2>4 DEF y, z
<1>12. a = b
  BY <1>11, SpellingAssumption DEF IsInjective
<1> QED
  BY <1>10, <1>12

(* The same, for the texts of two paths. *)
LEMMA SameText ==
  ASSUME NEW v \in Seq(ValidNames), NEW w \in Seq(ValidNames),
         NEW a \in ValidNames, NEW b \in ValidNames,
         Spell(Append(v, a)) = Spell(Append(w, b))
  PROVE  Stem(v) = Stem(w) /\ a = b
<1>1. /\ Stem(v) \in Seq(Char) /\ Stem(w) \in Seq(Char)
      /\ Longer(Stem(v), a) = Longer(Stem(w), b)
  BY SpellOn DEF Longer
<1> QED
  BY <1>1, LastPiece

(* A text spells one path only. *)
LEMMA SpellInjective ==
  ASSUME NEW s \in Seq(ValidNames), NEW t \in Seq(ValidNames),
         Spell(s) = Spell(t)
  PROVE  s = t
<1> DEFINE N == Seq(ValidNames)
           P == {l \in Nat : \A y, z \in N :
                   Len(y) = l /\ Spell(y) = Spell(z) => y = z}
<1>1. ASSUME NEW y \in N, NEW a \in ValidNames
      PROVE  /\ Spell(Append(y, a)) # Spell(<<>>)
             /\ Spell(Append(y, a)) # <<>>
  <2> HIDE DEF P
  <2>1. /\ Stem(y) \in Seq(Char)
        /\ Spell(Append(y, a)) = Stem(y) \o Piece(a)
    BY SpellOn
  <2>2. Piece(a) \in Seq(Char) /\ Len(Piece(a)) \in Nat /\ Len(Piece(a)) >= 2
    BY PieceType
  <2>3. Len(Stem(y) \o Piece(a)) = Len(Stem(y)) + Len(Piece(a))
        /\ Len(Stem(y)) \in Nat
    BY <2>1, <2>2, ConcatProperties
  <2>4. Len(Spell(Append(y, a))) \in Nat /\ Len(Spell(Append(y, a))) >= 2
    BY <2>1, <2>2, <2>3
  <2>5. Spell(<<>>) = <<Slash>> /\ Len(<<Slash>>) = 1 /\ Len(<<>>) = 0
    BY DEF Spell
  <2>6. Len(Spell(<<>>)) = 1
    BY <2>5
  <2> DEFINE x == Spell(Append(y, a))
             z == Spell(<<>>)
  <2>7. Len(x) \in Nat /\ Len(x) >= 2 /\ Len(z) = 1
    BY <2>4, <2>6
  <2> HIDE DEF x, z
  <2>8. x # z
    <3>1. ~(1 >= 2)
      OBVIOUS
    <3> QED
      BY <2>7, <3>1, Zenon
  <2>9. x # <<>>
    <3>1. x = <<>> => Len(x) = 0
      OBVIOUS
    <3> QED
      BY <2>7, <3>1
  <2> QED
    BY <2>8, <2>9 DEF x, z
<1>2. 0 \in P
  <2> SUFFICES ASSUME NEW y \in N, NEW z \in N, Len(y) = 0,
                      Spell(y) = Spell(z)
               PROVE  y = z
    OBVIOUS
  <2>1. y = <<>>
    BY EmptySeq
  <2>2. ASSUME z # <<>> PROVE FALSE
    <3>1. PICK x \in N, a \in ValidNames : z = Append(x, a)
      BY <2>2, LastName
    <3> QED
      BY <1>1, <2>1, <3>1
  <2> QED
    BY <2>1, <2>2
<1>3. ASSUME NEW l \in Nat, l \in P PROVE l + 1 \in P
  <2> SUFFICES ASSUME NEW y \in N, NEW z \in N, Len(y) = l + 1,
                      Spell(y) = Spell(z)
               PROVE  y = z
    OBVIOUS
  <2>1. y # <<>>
    OBVIOUS
  <2>2. PICK v \in N, a \in ValidNames :
          y = Append(v, a) /\ Len(v) = Len(y) - 1
    BY <2>1, LastName
  <2>3. z # <<>>
    BY <1>1, <2>2
  <2>4. PICK w \in N, b \in ValidNames :
          z = Append(w, b) /\ Len(w) = Len(z) - 1
    BY <2>3, LastName
  <2>6. Stem(v) = Stem(w) /\ a = b
    BY <2>2, <2>4, SameText
  <2>7. \A x \in N : x # <<>> => Spell(x) # <<>>
    <3> SUFFICES ASSUME NEW x \in N, x # <<>> PROVE Spell(x) # <<>>
      OBVIOUS
    <3>1. PICK c \in N, d \in ValidNames : x = Append(c, d)
      BY LastName
    <3> QED
      BY <1>1, <3>1
  <2>8. v = w
    <3>1. CASE v = <<>> \/ w = <<>>
      BY <2>6, <2>7, <3>1 DEF Stem
    <3>2. CASE v # <<>> /\ w # <<>>
      <4>1. Spell(v) = Spell(w)
        BY <2>6, <3>2 DEF Stem
      <4>2. Len(v) = l
        BY <2>2
      <4> QED
        BY <1>3, <4>1, <4>2
    <3> QED
      BY <3>1, <3>2
  <2> QED
    BY <2>2, <2>4, <2>6, <2>8
<1>4. Len(s) \in P
  <2> HIDE DEF P
  <2>1. Nat \subseteq P
    BY <1>2, <1>3, SetInduction
  <2>2. Len(s) \in Nat
    OBVIOUS
  <2> QED
    BY <2>1, <2>2
<1> QED
  BY <1>4

(* The names on the way to a node were accepted by make_node. *)
LEMMA PathValid ==
  ASSUME NEW n, IsTree(n), NamesValid(n), NEW d \in Used(n)
  PROVE  PathOf(n, d) \in Seq(ValidNames)
<1> DEFINE D == {i \in Used(n) : PathOf(n, i) \notin Seq(ValidNames)}
<1>1. PathOf(n, 0) \in Seq(ValidNames)
  <2>1. PathOf(n, 0) = <<>>
    BY PathByStep
  <2>2. <<>> \in Seq(ValidNames)
    OBVIOUS
  <2> QED
    BY <2>1, <2>2, Zenon
<1>2. D = {}
  <2> SUFFICES ASSUME D # {} PROVE FALSE
    OBVIOUS
  <2>1. D \in SUBSET (Used(n) \ {0})
    BY <1>1
  <2>2. PICK i \in D : n[i].parent \notin D
    BY <2>1 DEF IsTree, Acyclic
  <2>3. i \in Used(n) \ {0}
    BY <2>1, <2>2
  <2> DEFINE s == PathOf(n, n[i].parent)
             a == n[i].name
  <2>4. n[i].parent \in Used(n)
    BY <2>3, TreeIndices
  <2>5. s \in Seq(ValidNames)
    BY <2>2, <2>4
  <2>6. a \in ValidNames
    BY <2>3 DEF NamesValid
  <2>7. PathOf(n, i) = Append(s, a)
    BY <2>3, PathByStep
  <2> HIDE DEF s, a
  <2>8. Append(s, a) \in Seq(ValidNames)
    BY <2>5, <2>6
  <2>9. PathOf(n, i) \in Seq(ValidNames)
    BY <2>7, <2>8, Zenon
  <2> QED
    BY <2>2, <2>9
<1> QED
  BY <1>2

(* The text of every path is printed from its start, and whole if it fits. *)
LEMMA PrintedText ==
  ASSUME NEW w \in Seq(Char),
         NEW text, text = SubSeq(w, 1, Min({Len(w), PATH_MAX - 1}))
  PROVE  /\ Len(text) < PATH_MAX
         /\ IsPrefix(text, w)
         /\ Len(w) < PATH_MAX => text = w
<1> DEFINE l == Len(w)
           m == Min({l, PATH_MAX - 1})
<1>1. l \in Nat /\ PATH_MAX \in Nat /\ PATH_MAX - 1 \in Nat
  BY PathMaxAssumption
<1>2. SubSeq(w, 1, l) = w
  BY SubSeqFull
<1>3. \A i \in 1 .. l : w[i] \in Char
  OBVIOUS
<1>4. text = SubSeq(w, 1, m)
  OBVIOUS
<1> HIDE DEF l
<1>5. m \in {l, PATH_MAX - 1} /\ m <= l /\ m <= PATH_MAX - 1
  <2>1. {l, PATH_MAX - 1} \in SUBSET Nat /\ {l, PATH_MAX - 1} # {}
    BY <1>1
  <2>2. /\ m \in {l, PATH_MAX - 1}
        /\ \A y \in {l, PATH_MAX - 1} : m <= y
    BY <2>1, MinOfNats
  <2> QED
    BY <2>2
<1> HIDE DEF m
<1>6. m \in Nat /\ m < PATH_MAX
  BY <1>1, <1>5
<1>7. text \in Seq(Char) /\ Len(text) = m
  <2>1. \A i \in 1 .. m : w[i] \in Char
    BY <1>1, <1>3, <1>5, <1>6
  <2>2. /\ SubSeq(w, 1, m) \in Seq(Char)
        /\ Len(SubSeq(w, 1, m)) = IF 1 <= m THEN m - 1 + 1 ELSE 0
    BY <1>6, <2>1, SubSeqProperties
  <2>3. (IF 1 <= m THEN m - 1 + 1 ELSE 0) = m
    BY <1>6
  <2> QED
    BY <1>4, <2>2, <2>3, Zenon
<1>8. IsPrefix(text, w)
  <2>1. SubSeq(text, 1, Len(text)) = text
    BY <1>7, SubSeqFull
  <2>2. SubSeq(text, 1, Len(text)) = SubSeq(w, 1, Len(text))
    BY <1>4, <1>7, <2>1, Zenon
  <2>3. Len(text) <= Len(w)
    BY <1>5, <1>7 DEF l
  <2> QED
    BY <2>2, <2>3, Zenon DEF IsPrefix
<1>9. l < PATH_MAX => text = w
  <2>1. l < PATH_MAX => m = l
    BY <1>1, <1>5
  <2> QED
    BY <1>2, <1>4, <2>1, Zenon
<1>10. Len(text) < PATH_MAX
  BY <1>6, <1>7
<1> QED
  BY <1>8, <1>9, <1>10 DEF l

(* pwd prints the path of the current directory, cut at the end of its     *)
(* buffer and never past it; and a path that fits the buffer can be read   *)
(* in one way only, and "cd /" and then "cd" into each of its names leads  *)
(* back, however deep the directory is and whatever calls led there: the   *)
(* limit of MAX_NODES steps in fish_path never cuts the chain short.       *)
THEOREM PathAlways == Spec => []PathLeadsBack
<1>1. Sound(nodes, current) /\ NamesValid(nodes) => PathLeadsBack
  <2> SUFFICES ASSUME Sound(nodes, current), NamesValid(nodes)
               PROVE  PathLeadsBack
    OBVIOUS
  <2> DEFINE path  == PathOf(nodes, current)
             whole == Spell(path)
  <2>1. IsTree(nodes) /\ current \in Dirs(nodes) /\ current \in Used(nodes)
    BY SoundIsTree DEF Dirs
  <2>2. WalkTo(nodes, path) = current
    BY <2>1, PathLeadsTo
  <2>3. path \in Seq(ValidNames)
    BY <2>1, PathValid
  <2>4. cmd_pwd = SubSeq(whole, 1, Min({Len(whole), PATH_MAX - 1}))
    BY DEF cmd_pwd, fish_path
  <2> HIDE DEF path
  <2>5. whole \in Seq(Char)
    BY <2>3, SpellType
  <2>6. ASSUME NEW names \in BoundedSeq(ValidNames, Len(whole)),
               Spell(names) = whole
        PROVE  CdInto(names) = current
    <3>1. names \in Seq(ValidNames)
      BY DEF BoundedSeq, SeqOf
    <3>2. names = path
      BY <2>3, <2>6, <3>1, SpellInjective
    <3> QED
      BY <2>2, <3>2, Zenon DEF WalkTo, CdInto
  <2> HIDE DEF whole
  <2>7. /\ Len(cmd_pwd) < PATH_MAX
        /\ IsPrefix(cmd_pwd, whole)
        /\ Len(whole) < PATH_MAX => cmd_pwd = whole
    BY <2>4, <2>5, PrintedText
  <2>8. whole = Spell(PathOf(nodes, current))
    BY DEF whole, path
  <2> QED
    BY <2>6, <2>7, <2>8, Zenon DEF PathLeadsBack
<1>2. Sound(nodes, current) /\ NamesValid(nodes) /\ [Next]_fishvars
        => NamesValid(nodes)'
  BY NamesNext
<1>3. Spec => []Sound(nodes, current)
  BY SoundAlways, PTL
<1> QED
  BY <1>1, <1>2, <1>3, NamesInit, PTL DEF Spec

-----------------------------------------------------------------------------
(* The cursor of ls *)

(* fish_next returns the next child as "slot + 1", or 0 after the last. *)
LEMMA FishNext ==
  ASSUME NEW n, NEW c, NEW h \in 0 .. MAX_NODES
  PROVE  LET x == fish_next(n, c, h) IN
         /\ x \in 0 .. MAX_NODES
         /\ x = 0 => \A i \in Children(n, c) : i < h
         /\ x # 0 => /\ x - 1 \in Children(n, c) /\ x > h
                     /\ \A i \in Children(n, c) : i >= h => i >= x - 1
<1> DEFINE R == {i \in Children(n, c) : i >= h}
           x == fish_next(n, c, h)
<1>1. /\ MAX_NODES \in Nat /\ h \in Nat
      /\ \A i \in Children(n, c) : i \in Nat /\ i <= MAX_NODES - 1
  BY SizesAssumption DEF Children, Used, Node
<1>2. x = IF R = {} THEN 0 ELSE Min(R) + 1
  BY DEF fish_next
<1>3. CASE R = {}
  <2>1. x = 0
    BY <1>2, <1>3
  <2> HIDE DEF x
  <2> QED
    BY <1>1, <1>3, <2>1 DEF x
<1>4. CASE R # {}
  <2>1. R \in SUBSET Nat
    BY <1>1
  <2>2. Min(R) \in R /\ \A y \in R : Min(R) <= y
    BY <1>4, <2>1, MinOfNats
  <2> DEFINE u == Min(R)
  <2>3. x = u + 1 /\ u \in Nat /\ u <= MAX_NODES - 1 /\ u >= h
        /\ u \in Children(n, c)
    BY <1>1, <1>2, <1>4, <2>2
  <2>4. \A i \in Children(n, c) : i >= h => i >= u
    BY <1>1, <2>2, <2>3
  <2> HIDE DEF u, x
  <2>5. x \in 0 .. MAX_NODES /\ x # 0 /\ x - 1 = u /\ x > h
    BY <1>1, <2>3
  <2> QED
    BY <2>3, <2>4, <2>5 DEF x
<1> QED
  BY <1>3, <1>4

(* The cursor, one turn of the loop of cmd_ls at a time. *)
LEMMA HandleByStep ==
  ASSUME NEW n, NEW c
  PROVE  LET h == Handles(n, c) IN
         /\ h[0] = 0
         /\ \A k \in 0 .. MAX_NODES + 1 : h[k] \in 0 .. MAX_NODES
         /\ \A k \in 1 .. MAX_NODES + 1 : h[k] = fish_next(n, c, h[k - 1])
<1> DEFINE M == MAX_NODES
           S == 0 .. M
           g == [x \in S |-> fish_next(n, c, x)]
           h == Handles(n, c)
<1>1. M \in Nat /\ M + 1 \in Nat /\ 0 \in S
  BY SizesAssumption
<1>2. g \in [S -> S]
  BY FishNext
<1>3. PICK f : IsLoop(f, S, 0, g, M + 1)
  <2> HIDE DEF S, g, M
  <2> QED
    BY <1>1, <1>2, Recursion
<1>4. f \in [0 .. M + 1 -> S] /\ f[0] = 0
      /\ \A k \in 1 .. M + 1 : f[k] = g[f[k - 1]]
  BY <1>3 DEF IsLoop
<1>5. f = [k \in 0 .. M + 1 |->
             IF k = 0 THEN fish_first ELSE fish_next(n, c, f[k - 1])]
  <2> HIDE DEF M
  <2>1. ASSUME NEW k \in 0 .. M + 1, k # 0
        PROVE  f[k] = fish_next(n, c, f[k - 1])
    <3>1. k \in 1 .. M + 1 /\ k - 1 \in 0 .. M + 1
      BY <1>1, <2>1
    <3>2. f[k - 1] \in S
      BY <1>4, <3>1
    <3> QED
      BY <1>4, <3>1, <3>2
  <2> QED
    BY <1>4, <2>1 DEF fish_first
<1>6. h = [k \in 0 .. M + 1 |->
             IF k = 0 THEN fish_first ELSE fish_next(n, c, h[k - 1])]
  BY <1>5 DEF Handles
<1> HIDE DEF h, M
<1>7. h[0] = 0
  BY <1>1, <1>6 DEF fish_first
<1>8. ASSUME NEW k \in 1 .. M + 1 PROVE h[k] = fish_next(n, c, h[k - 1])
  <2>1. k \in 0 .. M + 1 /\ k # 0
    BY <1>1
  <2> QED
    BY <1>6, <2>1
<1>9. ASSUME NEW k \in 0 .. M + 1 PROVE h[k] \in 0 .. M
  <2> DEFINE P == {j \in Nat : j <= M + 1 => h[j] \in 0 .. M}
  <2>1. 0 \in P
    BY <1>1, <1>7
  <2>2. ASSUME NEW j \in Nat, j \in P PROVE j + 1 \in P
    <3> SUFFICES ASSUME j + 1 <= M + 1 PROVE h[j + 1] \in 0 .. M
      OBVIOUS
    <3>1. h[j] \in 0 .. M /\ j + 1 \in 1 .. M + 1 /\ (j + 1) - 1 = j
      BY <1>1, <2>2
    <3>2. h[j + 1] = fish_next(n, c, h[j])
      BY <1>8, <3>1
    <3> QED
      BY <3>1, <3>2, FishNext DEF M
  <2> HIDE DEF P
  <2>3. k \in P
    BY <2>1, <2>2, SetInduction
  <2> QED
    BY <2>3 DEF P
<1> QED
  BY <1>7, <1>8, <1>9 DEF h, M

(* Until it is 0 again the cursor grows with every turn, so it is 0 again  *)
(* after at most MAX_NODES + 1 turns; and it passes over no child.         *)
LEMMA LsListsChildren ==
  ASSUME NEW n, NEW c
  PROVE  LET listing == cmd_ls(n, c)
         IN  ToSet(listing) = Children(n, c) /\ IsInjective(listing)
<1> DEFINE M == MAX_NODES
           h == Handles(n, c)
           Z == {k \in 1 .. M + 1 : h[k] = 0}
           C == Children(n, c)
<1>1. /\ M \in Nat /\ h[0] = 0
      /\ \A k \in 0 .. M + 1 : h[k] \in 0 .. M
  BY SizesAssumption, HandleByStep
<1>2. ASSUME NEW k \in 1 .. M + 1
      PROVE  /\ k - 1 \in 0 .. M + 1
             /\ h[k] = 0 => \A i \in C : i < h[k - 1]
             /\ h[k] # 0 => /\ h[k] - 1 \in C /\ h[k] > h[k - 1]
                            /\ \A i \in C : i >= h[k - 1] => i >= h[k] - 1
  <2>1. h[k] = fish_next(n, c, h[k - 1])
    BY HandleByStep
  <2>2. k - 1 \in 0 .. M + 1
    BY <1>1
  <2>3. h[k - 1] \in 0 .. M
    BY <1>1, <2>2
  <2> HIDE DEF h, C
  <2> QED
    BY <2>1, <2>2, <2>3, FishNext DEF M, C
<1>3. C \subseteq Nat
  BY SizesAssumption DEF Children, Used, Node
<1>4. cmd_ls(n, c) = [k \in 1 .. Min(Z) - 1 |-> h[k] - 1]
  BY DEF cmd_ls
<1> HIDE DEF M, h, C
<1>5. ASSUME NEW q \in 0 .. M + 1, \A k \in 1 .. q : h[k] # 0,
             NEW i \in Nat, NEW d \in Nat, i + d <= q
      PROVE  h[i + d] >= h[i] + d
  <2> DEFINE P == {j \in Nat : i + j <= q => h[i + j] >= h[i] + j}
  <2>0. i \in 0 .. M + 1 /\ h[i] \in Nat
    <3>1. i \in 0 .. M + 1
      BY <1>1, <1>5
    <3> QED
      BY <1>1, <3>1
  <2>1. 0 \in P
    BY <2>0
  <2>2. ASSUME NEW j \in Nat, j \in P PROVE j + 1 \in P
    <3> SUFFICES ASSUME i + (j + 1) <= q PROVE h[i + (j + 1)] >= h[i] + (j + 1)
      OBVIOUS
    <3> DEFINE k == i + (j + 1)
    <3>1. /\ k \in 1 .. M + 1 /\ k \in 1 .. q /\ k - 1 = i + j /\ i + j <= q
          /\ k \in 0 .. M + 1 /\ k - 1 \in 0 .. M + 1
      BY <1>1, <1>5
    <3>2. h[k] > h[k - 1]
      BY <1>2, <1>5, <3>1
    <3>3. h[i + j] >= h[i] + j
      BY <1>5, <2>2, <3>1
    <3>4. h[k] \in Nat /\ h[k - 1] \in Nat
      BY <1>1, <3>1
    <3> HIDE DEF k
    <3>5. h[k] >= h[i] + (j + 1)
      BY <2>0, <3>1, <3>2, <3>3, <3>4
    <3> QED
      BY <3>5 DEF k
  <2> HIDE DEF P
  <2>3. d \in P
    BY <2>1, <2>2, SetInduction
  <2> QED
    BY <1>5, <2>3 DEF P
<1>6. Z # {}
  <2> SUFFICES ASSUME Z = {} PROVE FALSE
    OBVIOUS
  <2>1. \A k \in 1 .. M + 1 : h[k] # 0
    OBVIOUS
  <2>2. M + 1 \in 0 .. M + 1 /\ M + 1 \in Nat /\ 0 + (M + 1) = M + 1
    BY <1>1
  <2>3. h[0 + (M + 1)] >= h[0] + (M + 1)
    BY <1>5, <2>1, <2>2
  <2> QED
    BY <1>1, <2>2, <2>3
<1> DEFINE e == Min(Z)
<1>7. e \in Z /\ \A k \in Z : e <= k
  <2>1. Z \in SUBSET Nat
    BY <1>1
  <2> HIDE DEF Z
  <2> QED
    BY <1>6, <2>1, MinOfNats
<1> HIDE DEF e
<1>8. /\ e \in 1 .. M + 1 /\ h[e] = 0 /\ e - 1 \in 0 .. M + 1
      /\ e - 1 \in Nat /\ e \in Nat
  BY <1>1, <1>7
<1>9. ASSUME NEW k \in 1 .. e - 1
      PROVE  k \in 1 .. M + 1 /\ k \in 0 .. M + 1 /\ h[k] # 0 /\ k \in Nat
             /\ h[k] \in Nat
  <2>1. k \in 1 .. M + 1 /\ k \in 0 .. M + 1 /\ ~(e <= k) /\ k \in Nat
    BY <1>1, <1>8
  <2>2. h[k] # 0
    BY <1>7, <2>1
  <2>3. h[k] \in Nat
    BY <1>1, <2>1
  <2> QED
    BY <2>1, <2>2, <2>3
<1> DEFINE l == [k \in 1 .. e - 1 |-> h[k] - 1]
<1>10. ASSUME NEW i \in 1 .. e - 1, NEW j \in 1 .. e - 1, i < j
       PROVE  h[i] < h[j]
  <2> DEFINE d == j - i
  <2>1. d \in Nat /\ i + d = j /\ i + d <= e - 1 /\ i \in Nat /\ d >= 1
    BY <1>8, <1>9, <1>10
  <2>2. h[i + d] >= h[i] + d
    <3> HIDE DEF d
    <3> QED
      BY <1>5, <1>8, <1>9, <2>1
  <2>3. h[i] \in Nat /\ h[j] \in Nat
    BY <1>9
  <2> HIDE DEF d
  <2> QED
    BY <2>1, <2>2, <2>3
<1>11. IsInjective(l)
  <2> SUFFICES ASSUME NEW i \in 1 .. e - 1, NEW j \in 1 .. e - 1, l[i] = l[j]
               PROVE  i = j
    BY DEF IsInjective
  <2>1. h[i] \in Nat /\ h[j] \in Nat /\ i \in Nat /\ j \in Nat
    BY <1>9
  <2>2. h[i] - 1 = h[j] - 1
    OBVIOUS
  <2>3. h[i] = h[j]
    BY <2>1, <2>2
  <2>4. ~(i < j) /\ ~(j < i)
    BY <1>10, <2>1, <2>3
  <2> QED
    BY <2>1, <2>4
<1>12. ToSet(l) = {h[k] - 1 : k \in 1 .. e - 1}
  BY DEF ToSet
<1>13. {h[k] - 1 : k \in 1 .. e - 1} \subseteq C
  BY <1>2, <1>9
<1>14. ASSUME NEW x \in C PROVE x \in {h[k] - 1 : k \in 1 .. e - 1}
  <2> DEFINE P == {j \in Nat : j <= e - 1 /\ x < h[j] =>
                     \E k \in 1 .. j : x = h[k] - 1}
  <2>0. x \in Nat
    BY <1>3
  <2>1. 0 \in P
    BY <1>1, <2>0
  <2>2. ASSUME NEW j \in Nat, j \in P PROVE j + 1 \in P
    <3> SUFFICES ASSUME j + 1 <= e - 1, x < h[j + 1]
                 PROVE  \E k \in 1 .. j + 1 : x = h[k] - 1
      OBVIOUS
    <3>1. j + 1 \in 1 .. e - 1 /\ (j + 1) - 1 = j /\ j <= e - 1
          /\ j \in 0 .. M + 1
      BY <1>1, <1>8
    <3>2. h[j + 1] \in Nat /\ h[j + 1] # 0 /\ j + 1 \in 1 .. M + 1
          /\ h[j] \in Nat
      BY <1>1, <1>9, <3>1
    <3>3. CASE x < h[j]
      <4>1. \E k \in 1 .. j : x = h[k] - 1
        BY <2>2, <3>1, <3>3
      <4>2. \A k \in 1 .. j : k \in 1 .. j + 1
        OBVIOUS
      <4> QED
        BY <4>1, <4>2
    <3>4. CASE ~(x < h[j])
      <4>1. x >= h[j]
        BY <2>0, <3>2, <3>4
      <4>2. x >= h[j + 1] - 1
        BY <1>2, <3>1, <3>2, <4>1
      <4>3. x = h[j + 1] - 1
        BY <2>0, <3>2, <4>2
      <4>4. j + 1 \in 1 .. j + 1
        OBVIOUS
      <4> QED
        BY <4>3, <4>4
    <3> QED
      BY <3>3, <3>4
  <2>3. e - 1 \in P
    <3> HIDE DEF P
    <3> QED
      BY <1>8, <2>1, <2>2, SetInduction
  <2>4. x < h[e - 1]
    BY <1>2, <1>8
  <2>5. \E k \in 1 .. e - 1 : x = h[k] - 1
    BY <1>8, <2>3, <2>4
  <2> QED
    BY <2>5
<1>15. ToSet(l) = C
  <2> HIDE DEF l
  <2> QED
    BY <1>12, <1>13, <1>14
<1>16. cmd_ls(n, c) = l
  BY <1>4 DEF e
<1> HIDE DEF l
<1> QED
  BY <1>11, <1>15, <1>16 DEF C

(* The loop of cmd_ls over fish_first and fish_next, in which 0 is both    *)
(* the start and the end mark, prints each child of the current directory  *)
(* exactly once and ends, for every number of nodes.                       *)
THEOREM LsAlways == Spec => []LsListsEachChildOnce
<1>1. LsListsEachChildOnce
  BY LsListsChildren DEF LsListsEachChildOnce
<1> QED
  BY <1>1, PTL
=============================================================================
