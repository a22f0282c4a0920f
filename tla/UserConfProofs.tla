-------------------------- MODULE UserConfProofs ---------------------------
(***************************************************************************)
(* Proofs about module UserConf, for every buffer size, node count, file   *)
(* size and alphabet: the prompt stays readable, user_save disturbs        *)
(* nothing but ys.conf, and what it wrote comes back at the next boot.     *)
(*                                                                         *)
(* user_save and user_load are compositions of Fish's API, so the lemmas   *)
(* of FishProofs carry the tree through them.                              *)
(***************************************************************************)
EXTENDS UserConf, FishProofs

-----------------------------------------------------------------------------
(* The bytes of a name *)

(* The copy loop of set_field stops at the end of the buffer. *)
LEMMA CutLength ==
  ASSUME NEW B, NEW s \in Seq(B)
  PROVE  /\ Cut(s) \in Seq(B)
         /\ Len(Cut(s)) <= USER_NAME_MAX - 1
         /\ s # <<>> => Len(Cut(s)) >= 1
         /\ \A k \in 1 .. Len(Cut(s)) : k \in 1 .. Len(s) /\ Cut(s)[k] = s[k]
<1> DEFINE S == {Len(s), USER_NAME_MAX - 1}
           m == Min(S)
<1>1. S \in SUBSET Nat /\ S # {}
  BY ConfAssumption
<1>2. m \in S /\ \A y \in S : m <= y
  BY <1>1, MinOfNats
<1>3. m \in Nat /\ m <= Len(s) /\ m <= USER_NAME_MAX - 1
  BY <1>1, <1>2
<1>4. s # <<>> => m >= 1
  BY <1>2, ConfAssumption
<1>5. Cut(s) = SubSeq(s, 1, m)
  BY DEF Cut
<1> HIDE DEF m
<1>6. SubSeq(s, 1, m) \in Seq(B) /\ Len(SubSeq(s, 1, m)) = m
  BY <1>3
<1>7. \A k \in 1 .. m : SubSeq(s, 1, m)[k] = s[k]
  BY <1>3
<1> QED
  BY <1>3, <1>4, <1>5, <1>6, <1>7

(* A sequence of bytes none of which is blank is printable. *)
LEMMA NotBlank ==
  ASSUME NEW s \in Seq(Byte), \A k \in 1 .. Len(s) : s[k] \notin Blank
  PROVE  s \in Seq(Printable)
BY DEF Printable

(* set_field accepts nothing that would spoil the prompt. *)
LEMMA SetFieldGood ==
  ASSUME NEW field, GoodName(field), NEW value \in Seq(Byte)
  PROVE  GoodName(set_field(field, value))
<1>1. CASE ~Accepts(value)
  BY <1>1 DEF set_field
<1>2. CASE Accepts(value)
  <2>1. value # <<>> /\ \A k \in 1 .. Len(value) : value[k] \notin Blank
    BY <1>2 DEF Accepts
  <2>2. /\ Cut(value) \in Seq(Byte)
        /\ Len(Cut(value)) <= USER_NAME_MAX - 1
        /\ Len(Cut(value)) >= 1
        /\ \A k \in 1 .. Len(Cut(value)) :
             k \in 1 .. Len(value) /\ Cut(value)[k] = value[k]
    BY <2>1, CutLength
  <2>3. Cut(value) \in Seq(Printable)
    BY <2>1, <2>2, NotBlank
  <2>4. Len(Cut(value)) \in 1 .. USER_NAME_MAX - 1
    BY <2>2, ConfAssumption
  <2> QED
    BY <1>2, <2>3, <2>4 DEF set_field, GoodName
<1> QED
  BY <1>1, <1>2

(* Two texts of bytes in a row are one. *)
LEMMA Joined ==
  ASSUME NEW s \in Seq(Byte), NEW t \in Seq(Byte)
  PROVE  s \o t \in Seq(Byte) /\ Len(s \o t) = Len(s) + Len(t)
OBVIOUS

(* The text user_save composes is a text of bytes that fits a file. *)
LEMMA ConfText ==
  ASSUME NEW name, NEW host, GoodName(name), GoodName(host)
  PROVE  /\ name \o <<NEWLINE>> \o host \o <<NEWLINE>> \in Seq(Byte)
         /\ Len(name \o <<NEWLINE>> \o host \o <<NEWLINE>>) <= FILE_MAX
<1>1. name \in Seq(Byte) /\ host \in Seq(Byte)
  BY DEF GoodName, Printable
<1>2. <<NEWLINE>> \in Seq(Byte) /\ Len(<<NEWLINE>>) = 1
  BY ConfAssumption
<1>3. Len(name) <= USER_NAME_MAX - 1 /\ Len(host) <= USER_NAME_MAX - 1
  BY ConfAssumption DEF GoodName
<1> DEFINE nl == <<NEWLINE>>
<1> HIDE DEF nl
<1>4. nl \in Seq(Byte) /\ Len(nl) = 1
  BY <1>2 DEF nl
<1>5. /\ name \o nl \in Seq(Byte)
      /\ Len(name \o nl) = Len(name) + Len(nl)
  BY <1>1, <1>4, Joined, Zenon
<1>6. /\ name \o nl \o host \in Seq(Byte)
      /\ Len(name \o nl \o host) = Len(name \o nl) + Len(host)
  BY <1>1, <1>5, Joined, Zenon
<1>7. /\ name \o nl \o host \o nl \in Seq(Byte)
      /\ Len(name \o nl \o host \o nl) = Len(name \o nl \o host) + Len(nl)
  BY <1>4, <1>6, Joined, Zenon
<1>8. Len(name) \in Nat /\ Len(host) \in Nat
  BY <1>1
<1> DEFINE total == Len(name \o nl \o host \o nl)
<1>9. total = Len(name) + 1 + Len(host) + 1
  BY <1>4, <1>5, <1>6, <1>7, Zenon
<1> HIDE DEF total
<1>10. total <= FILE_MAX
  BY <1>3, <1>8, <1>9, ConfAssumption, SizesAssumption
<1> QED
  BY <1>7, <1>10 DEF nl, total

(* A line of a text is a text. *)
LEMMA Lines ==
  ASSUME NEW text \in Seq(Byte)
  PROVE  FirstLine(text) \in Seq(Byte) /\ AfterFirstLine(text) \in Seq(Byte)
<1> DEFINE S == {k \in 1 .. Len(text) : text[k] = NEWLINE} \cup {Len(text) + 1}
<1>1. S \in SUBSET Nat /\ S # {} /\ Len(text) + 1 \in S
  OBVIOUS
<1>2. Min(S) \in S /\ Min(S) <= Len(text) + 1
  BY <1>1, MinOfNats
<1>3. LineEnd(text) \in 1 .. Len(text) + 1
  BY <1>2 DEF LineEnd
<1> HIDE DEF S
<1>4. SubSeq(text, 1, LineEnd(text) - 1) \in Seq(Byte)
  BY <1>3
<1>5. SubSeq(text, LineEnd(text) + 1, Len(text)) \in Seq(Byte)
  BY <1>3
<1> QED
  BY <1>4, <1>5 DEF FirstLine, AfterFirstLine

-----------------------------------------------------------------------------
(* The tree through user_save and user_load *)

(* A handle taken in a sound tree leads back to the same directory as long *)
(* as that directory is still there.                                       *)
LEMMA RestoreCwd ==
  ASSUME NEW n, NEW c
  PROVE  /\ c \in Dirs(n) => fish_restore_cwd(n, fish_save_cwd(c)) = c
         /\ Sound(n, c) => c \in Dirs(n)
BY DEF fish_restore_cwd, fish_save_cwd, Sound, TreeOK

(* Going to the root of a sound tree. *)
LEMMA GoToRoot ==
  ASSUME NEW n, NEW c, Sound(n, c)
  PROVE  /\ fish_chdir(n, c, "/").current = 0
         /\ Sound(n, 0)
<1>1. fish_chdir(n, c, "/") = Outcome(n, 0, FISH_OK)
  BY DEF fish_chdir
<1>2. SoundOutcome(fish_chdir(n, c, "/"))
  BY ChdirSound
<1> QED
  BY <1>1, <1>2 DEF SoundOutcome, Outcome

(* fish_create leaves the directories alone and changes only a node of     *)
(* that name in the current directory.                                     *)
LEMMA CreateFrame ==
  ASSUME NEW n, NEW c, Sound(n, c), NEW name
  PROVE  LET m == fish_create(n, c, name).nodes IN
         /\ Sound(m, c)
         /\ Dirs(n) \subseteq Dirs(m)
         /\ \A i \in Node : n[i] # m[i] => m[i].parent = c /\ m[i].name = name
<1> DEFINE index == allocate(n)
           new   == [name |-> name, used |-> 1, is_dir |-> 0,
                     parent |-> c, size |-> 0, data |-> n[index].data]
           m     == fish_create(n, c, name).nodes
<1>1. SoundOutcome(fish_create(n, c, name))
  BY MakeNodeSound DEF fish_create
<1>2. fish_create(n, c, name).current = c
  BY DEF fish_create, make_node, Outcome
<1>3. Sound(m, c)
  BY <1>1, <1>2 DEF SoundOutcome
<1>4. \/ m = n
      \/ m = [n EXCEPT ![index] = new] /\ ~(index < 0)
  BY DEF fish_create, make_node, Outcome
<1>5. CASE m = n
  BY <1>3, <1>5
<1>6. CASE m = [n EXCEPT ![index] = new] /\ ~(index < 0)
  <2>1. index \in Node \ {0} /\ n[index].used = 0
    BY <1>6, Allocate
  <2>2. n \in [Node -> NodeRecord]
    BY DEF Sound
  <2>3. \A i \in Node : IF i = index THEN m[i] = new ELSE m[i] = n[i]
    BY <1>6, <2>1, <2>2
  <2> HIDE DEF m, index
  <2>4. Dirs(n) \subseteq Dirs(m)
    BY <2>1, <2>3 DEF Dirs, Used
  <2>5. \A i \in Node : n[i] # m[i] => m[i].parent = c /\ m[i].name = name
    BY <2>3
  <2> QED
    BY <1>3, <2>4, <2>5 DEF m
<1> QED
  BY <1>4, <1>5, <1>6

(* fish_write changes only size and data of the file of that name.         *)
LEMMA WriteFrame ==
  ASSUME NEW n, NEW c, Sound(n, c), NEW name, NEW text \in Seq(Byte)
  PROVE  LET m == fish_write(n, c, name, text).nodes IN
         /\ Sound(m, c)
         /\ Dirs(m) = Dirs(n)
         /\ \A i \in Node : n[i] # m[i] => n[i].parent = c /\ n[i].name = name
         /\ \A i \in Node : m[i].parent = n[i].parent /\ m[i].name = n[i].name
<1> DEFINE index == find_child(n, c, name)
           w     == fish_write(n, c, name, text)
           m     == [n EXCEPT ![index].data = Store(@, 0, text),
                              ![index].size = 0 + Len(text)]
<1>1. SoundOutcome(w)
  BY PutTextSound DEF fish_write
<1>2. w.current = c
  BY DEF fish_write, PutText, Outcome
<1>3. Sound(w.nodes, c)
  BY <1>1, <1>2 DEF SoundOutcome
<1>4. w.nodes = n \/ (w.nodes = m /\ ~(index < 0))
  BY DEF fish_write, PutText, Outcome
<1>5. CASE w.nodes = n
  BY <1>3, <1>5
<1>6. CASE w.nodes = m /\ ~(index < 0)
  <2>1. index \in Children(n, c) /\ n[index].name = name
    BY <1>6, FindChild
  <2>2. index \in Node /\ n[index].parent = c
    BY <2>1 DEF Children, Used
  <2>3. n \in [Node -> NodeRecord]
    BY DEF Sound
  <2> HIDE DEF index
  <2>4. \A i \in Node : /\ m[i].parent = n[i].parent
                        /\ m[i].name = n[i].name
                        /\ m[i].used = n[i].used
                        /\ m[i].is_dir = n[i].is_dir
    <3>1. m[index] = [n[index] EXCEPT !.data = Store(@, 0, text),
                                      !.size = 0 + Len(text)]
      BY <2>2, <2>3
    <3>2. n[index] \in NodeRecord
      BY <2>2, <2>3
    <3>3. \A i \in Node \ {index} : m[i] = n[i]
      BY <2>2, <2>3
    <3> HIDE DEF m
    <3>4. /\ m[index].parent = n[index].parent
          /\ m[index].name = n[index].name
          /\ m[index].used = n[index].used
          /\ m[index].is_dir = n[index].is_dir
      BY <3>1, <3>2 DEF NodeRecord
    <3> QED
      BY <3>3, <3>4
  <2>5. \A i \in Node \ {index} : m[i] = n[i]
    BY <2>2, <2>3
  <2> HIDE DEF m
  <2>6. Dirs(m) = Dirs(n)
    BY <2>4 DEF Dirs, Used
  <2>7. \A i \in Node : n[i] # m[i] => n[i].parent = c /\ n[i].name = name
    BY <2>1, <2>2, <2>5
  <2> HIDE DEF w
  <2>8. w.nodes = m
    BY <1>6
  <2> QED
    BY <1>3, <2>4, <2>6, <2>7, <2>8 DEF w
<1> QED
  BY <1>4, <1>5, <1>6

(* user_save comes back to where it was called from with a sound tree in   *)
(* which nothing but ys.conf at the root is different.                     *)
LEMMA UserSaveFrame ==
  ASSUME NEW n, NEW c, Sound(n, c), NEW name, NEW host,
         GoodName(name), GoodName(host)
  PROVE  LET s == user_save(n, c, name, host) IN
         /\ s.current = c
         /\ Sound(s.nodes, c)
         /\ \A i \in Node : n[i] # s.nodes[i] =>
              s.nodes[i].parent = 0 /\ s.nodes[i].name = CONFIG_FILE
<1> DEFINE text == name \o <<NEWLINE>> \o host \o <<NEWLINE>>
           m    == fish_create(n, 0, CONFIG_FILE).nodes
           w    == fish_write(m, 0, CONFIG_FILE, text)
           s    == user_save(n, c, name, host)
<1>1. text \in Seq(Byte)
  BY ConfText
<1>2. fish_chdir(n, c, "/").current = 0 /\ Sound(n, 0)
  BY GoToRoot
<1> HIDE DEF text
<1>3. /\ Sound(m, 0)
      /\ Dirs(n) \subseteq Dirs(m)
      /\ \A i \in Node : n[i] # m[i] =>
           m[i].parent = 0 /\ m[i].name = CONFIG_FILE
  BY <1>2, CreateFrame
<1> HIDE DEF m
<1>4. /\ Sound(w.nodes, 0)
      /\ Dirs(w.nodes) = Dirs(m)
      /\ \A i \in Node : m[i] # w.nodes[i] =>
           m[i].parent = 0 /\ m[i].name = CONFIG_FILE
      /\ \A i \in Node : /\ w.nodes[i].parent = m[i].parent
                         /\ w.nodes[i].name = m[i].name
  BY <1>1, <1>3, WriteFrame
<1>5. s = [nodes   |-> w.nodes,
           current |-> fish_restore_cwd(w.nodes, fish_save_cwd(c)),
           ok      |-> w.ret = FISH_OK]
  BY <1>2 DEF user_save, text, m
<1> HIDE DEF w, s
<1>6. c \in Dirs(w.nodes)
  BY <1>3, <1>4, RestoreCwd
<1>7. s.nodes = w.nodes /\ s.current = c
  BY <1>5, <1>6, RestoreCwd
<1>8. Sound(w.nodes, c)
  BY <1>4, <1>6 DEF Sound, TreeOK, Dirs, Used
<1>9. \A i \in Node : n[i] # w.nodes[i] =>
        w.nodes[i].parent = 0 /\ w.nodes[i].name = CONFIG_FILE
  BY <1>3, <1>4
<1> QED
  BY <1>7, <1>8, <1>9 DEF s

(* What fish_read hands to user_load is a text of bytes. *)
LEMMA ReadType ==
  ASSUME NEW n, NEW c, Sound(n, c), NEW name
  PROVE  fish_read(n, c, name).text \in Seq(Byte)
<1> DEFINE index == find_child(n, c, name)
<1>1. fish_read(n, c, name).text = <<>>
      \/ (~(index < 0) /\ fish_read(n, c, name).text = Contents(n[index]))
  BY DEF fish_read
<1>2. ASSUME ~(index < 0) PROVE Contents(n[index]) \in Seq(Byte)
  <2>1. index \in Node
    BY <1>2, FindChild DEF Children, Used
  <2>2. n[index] \in NodeRecord
    BY <2>1 DEF Sound
  <2>3. /\ n[index].size \in 0 .. FILE_MAX
        /\ n[index].data \in [1 .. FILE_MAX -> Byte]
    BY <2>2 DEF NodeRecord
  <2> HIDE DEF index
  <2>4. /\ Contents(n[index]) \in [1 .. n[index].size -> Byte]
        /\ n[index].size \in Nat
    BY <2>3, SizesAssumption DEF Contents
  <2> QED
    BY <2>4
<1>3. <<>> \in Seq(Byte)
  OBVIOUS
<1> HIDE DEF index
<1> QED
  BY <1>1, <1>2, <1>3

(* Whatever ys.conf holds, user_load leaves good names. *)
LEMMA UserLoadGood ==
  ASSUME NEW n, NEW c, Sound(n, c), NEW name, NEW host,
         GoodName(name), GoodName(host)
  PROVE  LET l == user_load(n, c, name, host) IN
         GoodName(l.uname) /\ GoodName(l.uhost) /\ l.current = c
<1> DEFINE file == fish_read(n, 0, CONFIG_FILE)
           rest == AfterFirstLine(file.text)
           l    == user_load(n, c, name, host)
<1>1. fish_chdir(n, c, "/").current = 0 /\ Sound(n, 0)
  BY GoToRoot
<1>2. file.text \in Seq(Byte)
  BY <1>1, ReadType
<1>3. FirstLine(file.text) \in Seq(Byte) /\ rest \in Seq(Byte)
  BY <1>2, Lines
<1>4. FirstLine(rest) \in Seq(Byte)
  BY <1>3, Lines
<1>5. /\ GoodName(set_field(name, Cut(FirstLine(file.text))))
      /\ GoodName(set_field(host, Cut(FirstLine(rest))))
  BY <1>3, <1>4, CutLength, SetFieldGood
<1>6. /\ l.uname \in {name, set_field(name, Cut(FirstLine(file.text)))}
      /\ l.uhost \in {host, set_field(host, Cut(FirstLine(rest)))}
      /\ l.current = fish_restore_cwd(n, fish_save_cwd(c))
  BY <1>1 DEF user_load
<1> QED
  BY <1>5, <1>6, RestoreCwd

-----------------------------------------------------------------------------
(* The theorems *)

Codes == FISH_ERR_FORMAT .. FISH_OK

USE DEF FISH_OK, FISH_ERR_NODISK, FISH_ERR_FORMAT

(* What is in memory: a sound tree and names the prompt can show. *)
MemoryInv ==
  /\ Sound(nodes, current)
  /\ ret \in Codes
  /\ GoodName(uname) /\ GoodName(uhost)

(* What is on the disk: a tree that was sound when it was saved. *)
ImageInv ==
  /\ image \in [saved : {0, 1}, nodes : [Node -> NodeRecord], current : Node]
  /\ Sound(image.nodes, image.current)

(* The drive, the bound and the auxiliary variables. *)
RestInv ==
  /\ present \in {0, 1}
  /\ edits \in 0 .. MaxEdits
  /\ atSave \in Seq(Byte) \X Seq(Byte)
  /\ confOK \in BOOLEAN

(* A name is a sequence of bytes. *)
LEMMA GoodNameBytes ==
  ASSUME NEW s, GoodName(s)
  PROVE  s \in Seq(Byte)
BY DEF GoodName, Printable

(* Saving the names keeps memory in order. *)
LEMMA SaveNamesSound ==
  ASSUME Sound(nodes, current), NEW name, NEW host,
         GoodName(name), GoodName(host),
         SaveNames(nodes, current, name, host)
  PROVE  Sound(nodes, current)' /\ GoodName(uname)' /\ GoodName(uhost)'
<1> DEFINE s == user_save(nodes, current, name, host)
<1>1. s.current = current /\ Sound(s.nodes, current)
  BY UserSaveFrame
<1>2. /\ uname' = name /\ uhost' = host
      /\ nodes' = s.nodes /\ current' = s.current
  BY DEF SaveNames
<1> HIDE DEF s
<1>3. Sound(nodes', current')
  BY <1>1, <1>2
<1> QED
  BY <1>2, <1>3

(* fish_init, as kernel_main and format use it. *)
LEMMA FreshTree ==
  /\ Sound(fish_init.nodes, fish_init.current)
  /\ fish_init.current = 0
  /\ Sound(fish_init.nodes, 0)
<1>1. fish_init.current = 0
  BY DEF fish_init, Outcome
<1> QED
  BY <1>1, FishInitSound DEF SoundOutcome

(* Writing the image of a sound tree leaves a sound image. *)
LEMMA WriteImageSound ==
  ASSUME ImageInv, NEW n, NEW c, Sound(n, c), WriteImage(n, c)
  PROVE  ImageInv' /\ ret' \in Codes
<1>1. ret' \in Codes
  BY DEF WriteImage, Codes
<1>2. CASE present = 1
  <2>1. image' = [saved |-> 1, nodes |-> n, current |-> c]
    BY <1>2 DEF WriteImage
  <2>2. n \in [Node -> NodeRecord] /\ c \in Node
    BY DEF Sound
  <2>3. image'.nodes = n /\ image'.current = c
    BY <2>1
  <2> QED
    BY <1>1, <2>1, <2>2, <2>3 DEF ImageInv
<1>3. CASE present # 1
  BY <1>1, <1>3 DEF WriteImage, ImageInv
<1> QED
  BY <1>2, <1>3

(* One case per command: the inductive step. *)
LEMMA ConfStep ==
  ASSUME MemoryInv, ImageInv, RestInv, [ConfNext]_vars
  PROVE  MemoryInv' /\ ImageInv' /\ RestInv'
<1> USE DEF MemoryInv, RestInv
<1>0. /\ edits' = edits => edits' \in 0 .. MaxEdits
      /\ Edit => edits' \in 0 .. MaxEdits
  BY MaxEditsAssumption DEF Edit
<1>1. ASSUME NEW arg \in Typed, cmd_user(arg) \/ cmd_hostname(arg)
      PROVE  MemoryInv' /\ ImageInv' /\ RestInv'
  <2>1. arg \in Seq(Byte)
    BY TypedAssumption
  <2>2. GoodName(set_field(uname, arg)) /\ GoodName(set_field(uhost, arg))
    BY <2>1, SetFieldGood
  <2>3. Sound(nodes, current)' /\ GoodName(uname)' /\ GoodName(uhost)'
    BY <1>1, <2>2, SaveNamesSound DEF cmd_user, cmd_hostname
  <2> QED
    BY <1>0, <1>1, <2>3 DEF cmd_user, cmd_hostname, ImageInv
<1>2. CASE cmd_save
  <2>1. SaveNames(nodes, current, uname, uhost) /\ WriteImage(nodes', current')
    BY <1>2 DEF cmd_save
  <2>2. Sound(nodes, current)' /\ GoodName(uname)' /\ GoodName(uhost)'
    BY <2>1, SaveNamesSound
  <2>3. ImageInv' /\ ret' \in Codes
    BY <2>1, <2>2, WriteImageSound
  <2>4. uname \in Seq(Byte) /\ uhost \in Seq(Byte)
    BY GoodNameBytes
  <2>5. user_save(nodes, current, uname, uhost).ok \in BOOLEAN
    BY DEF user_save
  <2> QED
    BY <1>0, <1>2, <2>2, <2>3, <2>4, <2>5 DEF cmd_save
<1>3. CASE cmd_format
  <2>1. Sound(nodes', current') /\ WriteImage(nodes', current')
    BY <1>3, FreshTree DEF cmd_format
  <2>2. ImageInv' /\ ret' \in Codes
    BY <2>1, WriteImageSound
  <2>3. DefaultName \in Seq(Byte) /\ DefaultHost \in Seq(Byte)
    BY DefaultsAssumption, GoodNameBytes
  <2> QED
    BY <1>0, <1>3, <2>1, <2>2, <2>3 DEF cmd_format
<1>4. CASE cmd_load
  <2>1. fish_restore_cwd(image.nodes, image.current) = image.current
    BY RestoreCwd DEF ImageInv, fish_save_cwd
  <2>2. Sound(nodes', current')
    BY <1>4, <2>1 DEF cmd_load, ImageInv
  <2>3. ret' \in Codes
    BY <1>4 DEF cmd_load, Codes
  <2> QED
    BY <1>0, <1>4, <2>2, <2>3 DEF cmd_load, confvars, ImageInv
<1>5. CASE Command
  <2>1. Sound(nodes, current)' /\ ret' \in Codes
    BY <1>5, NextSound DEF Command, Codes
  <2> QED
    BY <1>0, <1>5, <2>1 DEF Command, confvars, ImageInv
<1>6. CASE Boot
  <2> DEFINE c == fish_restore_cwd(image.nodes, image.current)
             l == user_load(image.nodes, c, DefaultName, DefaultHost)
  <2>1. c = image.current
    BY RestoreCwd DEF ImageInv, fish_save_cwd
  <2>2. GoodName(l.uname) /\ GoodName(l.uhost) /\ l.current = image.current
    BY <2>1, UserLoadGood, DefaultsAssumption DEF ImageInv
  <2> HIDE DEF l, c
  <2>3. \/ /\ nodes' = image.nodes /\ current' = l.current
           /\ uname' = l.uname /\ uhost' = l.uhost
        \/ /\ nodes' = fish_init.nodes /\ current' = fish_init.current
           /\ uname' = DefaultName /\ uhost' = DefaultHost
    BY <1>6 DEF Boot, l, c
  <2>4. Sound(nodes', current') /\ GoodName(uname') /\ GoodName(uhost')
    BY <2>2, <2>3, FreshTree, DefaultsAssumption DEF ImageInv
  <2>5. /\ ret' = FISH_OK /\ present' \in {0, 1}
        /\ UNCHANGED <<image, edits, atSave, confOK>>
    BY <1>6 DEF Boot
  <2> QED
    BY <1>0, <2>4, <2>5 DEF ImageInv, Codes
<1>7. CASE UNCHANGED vars
  BY <1>7 DEF vars, ImageInv
<1> QED
  BY <1>1, <1>2, <1>3, <1>4, <1>5, <1>6, <1>7 DEF ConfNext

(* The inductive invariant of UserConf. *)
LEMMA ConfAlways == ConfSpec => [](MemoryInv /\ ImageInv /\ RestInv)
<1>1. ConfInit => MemoryInv /\ ImageInv /\ RestInv
  <2> SUFFICES ASSUME ConfInit PROVE MemoryInv /\ ImageInv /\ RestInv
    OBVIOUS
  <2>1. Sound(nodes, current) /\ ret \in Codes
    BY FreshTree DEF ConfInit, Init, Codes
  <2>2. GoodName(uname) /\ GoodName(uhost)
    BY DefaultsAssumption DEF ConfInit
  <2>3. image = [saved |-> 0, nodes |-> fish_init.nodes, current |-> 0]
    BY DEF ConfInit
  <2>4. ImageInv
    BY <2>3, FreshTree DEF ImageInv, Sound
  <2>5. DefaultName \in Seq(Byte) /\ DefaultHost \in Seq(Byte)
    BY DefaultsAssumption, GoodNameBytes
  <2>6. RestInv
    BY <2>5, MaxEditsAssumption DEF ConfInit, RestInv
  <2> QED
    BY <2>1, <2>2, <2>4, <2>6 DEF MemoryInv
<1>2. MemoryInv /\ ImageInv /\ RestInv /\ [ConfNext]_vars
        => (MemoryInv /\ ImageInv /\ RestInv)'
  BY ConfStep
<1> QED
  BY <1>1, <1>2, PTL DEF ConfSpec

(* For every size of buffers, files and node array: memory, image and the  *)
(* names keep their types through every series of commands and reboots.    *)
THEOREM ConfTypeAlways == ConfSpec => []ConfTypeOK
<1>1. MemoryInv /\ ImageInv /\ RestInv => ConfTypeOK
  <2> SUFFICES ASSUME MemoryInv, ImageInv, RestInv PROVE ConfTypeOK
    OBVIOUS
  <2>1. TypeOK
    BY DEF MemoryInv, Sound, TypeOK, Codes
  <2>2. uname \in Seq(Byte) /\ uhost \in Seq(Byte)
    BY GoodNameBytes DEF MemoryInv
  <2> QED
    BY <2>1, <2>2 DEF ConfTypeOK, ImageInv, RestInv
<1> QED
  BY <1>1, ConfAlways, PTL

(* For every size of buffers, files and node array, whatever is typed and  *)
(* whatever ys.conf holds at boot, both names can be shown in the prompt:  *)
(* set_field never stores an empty, blank or overlong name.                *)
THEOREM NamesAlways == ConfSpec => []NamesReadable
<1>1. MemoryInv => NamesReadable
  BY DEF MemoryInv, NamesReadable
<1> QED
  BY <1>1, ConfAlways, PTL

(* In every reachable state a call of user_save would leave the user in    *)
(* his directory, keep the tree a tree, and change no node but ys.conf at  *)
(* the root.                                                               *)
THEOREM UserSaveAlways == ConfSpec => []UserSaveTouchesOnlyConf
<1>1. MemoryInv => UserSaveTouchesOnlyConf
  <2> SUFFICES ASSUME MemoryInv PROVE UserSaveTouchesOnlyConf
    OBVIOUS
  <2> DEFINE s == user_save(nodes, current, uname, uhost)
  <2>1. /\ s.current = current
        /\ Sound(s.nodes, current)
        /\ \A i \in Node : nodes[i] # s.nodes[i] =>
             s.nodes[i].parent = 0 /\ s.nodes[i].name = CONFIG_FILE
    BY UserSaveFrame DEF MemoryInv
  <2> HIDE DEF s
  <2>2. TreeOK(s.nodes, s.current)
    BY <2>1 DEF Sound
  <2> QED
    BY <2>1, <2>2 DEF UserSaveTouchesOnlyConf, s
<1> QED
  BY <1>1, ConfAlways, PTL

-----------------------------------------------------------------------------
(* The names that a boot finds on the disk *)

(* A line that holds no newline is read back as it was written. *)
LEMMA LineBreak ==
  ASSUME NEW s \in Seq(Byte), \A k \in 1 .. Len(s) : s[k] # NEWLINE,
         NEW t \in Seq(Byte)
  PROVE  /\ FirstLine(s \o <<NEWLINE>> \o t) = s
         /\ AfterFirstLine(s \o <<NEWLINE>> \o t) = t
<1> DEFINE nl == <<NEWLINE>>
           text == s \o nl \o t
           l == Len(s)
           S == {k \in 1 .. Len(text) : text[k] = NEWLINE}
                  \cup {Len(text) + 1}
<1>1. nl \in Seq(Byte) /\ Len(nl) = 1 /\ nl[1] = NEWLINE
  BY ConfAssumption
<1>2. /\ l \in Nat /\ Len(t) \in Nat /\ text \in Seq(Byte)
      /\ Len(text) = l + 1 + Len(t)
      /\ \A k \in 1 .. l : text[k] = s[k]
      /\ text[l + 1] = NEWLINE
      /\ \A k \in 1 .. Len(t) : text[l + 1 + k] = t[k]
  <2> HIDE DEF nl
  <2> DEFINE u == s \o nl
  <2>1. u \in Seq(Byte) /\ Len(u) = l + 1 /\ l \in Nat /\ Len(t) \in Nat
    <3>1. l \in Nat /\ Len(t) \in Nat
      OBVIOUS
    <3>2. u \in Seq(Byte) /\ Len(u) = Len(s) + Len(nl)
      BY <1>1, Joined
    <3> QED
      BY <1>1, <3>1, <3>2
  <2>2. (\A k \in 1 .. l : u[k] = s[k]) /\ u[l + 1] = NEWLINE
    <3>1. \A k \in 1 .. Len(s) : u[k] = s[k]
      BY <1>1, ConcatProperties
    <3>2. u[Len(s) + 1] = nl[(Len(s) + 1) - Len(s)]
      <4>1. Len(s) + 1 \in 1 .. Len(s) + Len(nl) /\ ~(Len(s) + 1 <= Len(s))
        BY <1>1
      <4> QED
        BY <1>1, <4>1, ConcatProperties
    <3>3. (Len(s) + 1) - Len(s) = 1
      OBVIOUS
    <3> QED
      BY <1>1, <3>1, <3>2, <3>3
  <2> HIDE DEF u, l
  <2>3. /\ u \o t \in Seq(Byte) /\ Len(u \o t) = l + 1 + Len(t)
        /\ \A k \in 1 .. l + 1 : (u \o t)[k] = u[k]
        /\ \A k \in 1 .. Len(t) : (u \o t)[l + 1 + k] = t[k]
    <3>1. u \o t \in Seq(Byte) /\ Len(u \o t) = Len(u) + Len(t)
      BY <2>1, Joined
    <3>2. \A k \in 1 .. Len(u) + Len(t) :
            (u \o t)[k] = IF k <= Len(u) THEN u[k] ELSE t[k - Len(u)]
      BY <2>1, ConcatProperties
    <3>3. /\ \A k \in 1 .. l + 1 : k \in 1 .. Len(u) + Len(t) /\ k <= Len(u)
          /\ \A k \in 1 .. Len(t) :
               /\ l + 1 + k \in 1 .. Len(u) + Len(t)
               /\ ~(l + 1 + k <= Len(u)) /\ (l + 1 + k) - Len(u) = k
      BY <2>1
    <3> QED
      BY <2>1, <3>1, <3>2, <3>3
  <2>4. /\ \A k \in 1 .. l : k \in 1 .. l + 1
        /\ l + 1 \in 1 .. l + 1
    BY <2>1
  <2> DEFINE y == u \o t
  <2>5. text = y
    BY DEF u
  <2> HIDE DEF y, text
  <2> QED
    BY <2>1, <2>2, <2>3, <2>4, <2>5 DEF y
<1>3. \A k \in 1 .. l : s[k] # NEWLINE
  OBVIOUS
<1> HIDE DEF text, l, nl
<1>4. LineEnd(text) = l + 1
  <2>1. S \in SUBSET Nat /\ l + 1 \in S
    BY <1>2
  <2>2. \A k \in S : k >= l + 1
    <3> SUFFICES ASSUME NEW k \in S, ~(k >= l + 1) PROVE FALSE
      OBVIOUS
    <3>1. k \in 1 .. l /\ text[k] = NEWLINE
      BY <1>2
    <3> QED
      BY <1>2, <1>3, <3>1
  <2>3. LineEnd(text) = Min(S)
    BY DEF LineEnd
  <2> HIDE DEF S
  <2>4. Min(S) \in S /\ \A k \in S : Min(S) <= k
    BY <2>1, MinOfNats
  <2>5. Min(S) \in Nat /\ Min(S) <= l + 1 /\ Min(S) >= l + 1
    BY <2>1, <2>2, <2>4
  <2> QED
    BY <1>2, <2>3, <2>5
<1>5. FirstLine(text) = s
  <2> DEFINE y == SubSeq(text, 1, l)
  <2>1. y \in Seq(Byte) /\ Len(y) = l /\ \A k \in 1 .. l : y[k] = text[k]
    BY <1>2
  <2>2. FirstLine(text) = y
    BY <1>2, <1>4 DEF FirstLine
  <2> HIDE DEF y
  <2>3. Len(y) = Len(s) /\ \A k \in 1 .. Len(s) : y[k] = s[k]
    BY <1>2, <2>1 DEF l
  <2>4. y = s
    BY <2>1, <2>3, SeqEqual
  <2> QED
    BY <2>2, <2>4
<1>6. AfterFirstLine(text) = t
  <2> DEFINE y == SubSeq(text, l + 2, Len(text))
  <2>1. /\ y \in Seq(Byte) /\ Len(y) = Len(t)
        /\ \A k \in 1 .. Len(t) : y[k] = text[(l + 2) + k - 1]
    BY <1>2
  <2>2. AfterFirstLine(text) = y
    BY <1>2, <1>4 DEF AfterFirstLine
  <2>3. \A k \in 1 .. Len(t) : (l + 2) + k - 1 = l + 1 + k
    BY <1>2
  <2> HIDE DEF y
  <2>4. \A k \in 1 .. Len(t) : y[k] = t[k]
    BY <1>2, <2>1, <2>3
  <2>5. y = t
    BY <2>1, <2>4, SeqEqual
  <2> QED
    BY <2>2, <2>5
<1> QED
  BY <1>5, <1>6 DEF text, nl

(* Both lines of ys.conf are the names that user_save put there. *)
LEMMA ConfLines ==
  ASSUME NEW name, NEW host, GoodName(name), GoodName(host)
  PROVE  LET text == name \o <<NEWLINE>> \o host \o <<NEWLINE>>
         IN  /\ FirstLine(text) = name
             /\ FirstLine(AfterFirstLine(text)) = host
<1> DEFINE nl == <<NEWLINE>>
           text == name \o nl \o host \o nl
<1>1. /\ name \in Seq(Byte) /\ host \in Seq(Byte)
      /\ \A k \in 1 .. Len(name) : name[k] # NEWLINE
      /\ \A k \in 1 .. Len(host) : host[k] # NEWLINE
  BY ConfAssumption DEF GoodName, Printable
<1>2. nl \in Seq(Byte) /\ <<>> \in Seq(Byte)
  BY ConfAssumption
<1>3. host \o nl \in Seq(Byte)
  <2> HIDE DEF nl
  <2> QED
    BY <1>1, <1>2
<1>4. text = name \o nl \o (host \o nl)
  <2> HIDE DEF nl
  <2>1. name \o nl \in Seq(Byte)
    BY <1>1, <1>2
  <2> QED
    BY <1>1, <1>2, <2>1, ConcatAssociative
<1>5. FirstLine(text) = name /\ AfterFirstLine(text) = host \o nl
  BY <1>1, <1>3, <1>4, LineBreak
<1>6. host \o nl \o <<>> = host \o nl
  <2> DEFINE y == host \o nl
  <2>1. y \in Seq(Byte)
    BY <1>3
  <2> HIDE DEF y
  <2>2. y \o <<>> = y
    BY <2>1, ConcatEmptySeq
  <2> QED
    BY <2>2 DEF y
<1>7. FirstLine(host \o nl \o <<>>) = host
  BY <1>1, <1>2, LineBreak
<1> QED
  BY <1>5, <1>6, <1>7

(* set_field takes a good name as it is. *)
LEMMA GoodNameKept ==
  ASSUME NEW field, NEW name, GoodName(name)
  PROVE  set_field(field, Cut(name)) = name
<1> DEFINE S == {Len(name), USER_NAME_MAX - 1}
<1>1. /\ name \in Seq(Byte) /\ Len(name) \in Nat /\ Len(name) >= 1
      /\ Len(name) <= USER_NAME_MAX - 1
      /\ \A k \in 1 .. Len(name) : name[k] \notin Blank
  BY ConfAssumption DEF GoodName, Printable
<1>2. Min(S) = Len(name)
  <2>1. S \in SUBSET Nat /\ S # {} /\ Len(name) \in S
        /\ \A y \in S : Len(name) <= y
    BY <1>1, ConfAssumption
  <2> HIDE DEF S
  <2>2. Min(S) \in S /\ \A y \in S : Min(S) <= y
    BY <2>1, MinOfNats
  <2>3. Min(S) \in Nat /\ Min(S) <= Len(name) /\ Len(name) <= Min(S)
    BY <2>1, <2>2
  <2> QED
    BY <1>1, <2>3
<1>3. Cut(name) = name
  <2>1. Cut(name) = SubSeq(name, 1, Len(name))
    BY <1>2 DEF Cut
  <2> DEFINE y == SubSeq(name, 1, Len(name))
  <2>2. y \in Seq(Byte) /\ Len(y) = Len(name)
        /\ \A k \in 1 .. Len(name) : y[k] = name[k]
    BY <1>1
  <2> HIDE DEF y
  <2>3. y = name
    BY <1>1, <2>2, SeqEqual
  <2> QED
    BY <2>1, <2>3 DEF y
<1>4. Accepts(name)
  BY <1>1 DEF Accepts
<1> QED
  BY <1>3, <1>4 DEF set_field

(* What fish_write stored is what fish_read returns. *)
LEMMA ReadBack ==
  ASSUME NEW n, NEW c, Sound(n, c), NEW name, NEW text \in Seq(Byte),
         fish_write(n, c, name, text).ret = FISH_OK
  PROVE  LET m == fish_write(n, c, name, text).nodes
         IN  /\ fish_read(m, c, name).found
             /\ fish_read(m, c, name).text = text
<1> DEFINE f == find_child(n, c, name)
           w == fish_write(n, c, name, text)
           m == w.nodes
<1>1. /\ ~(f < 0) /\ n[f].is_dir # 1 /\ ~(0 + Len(text) > FILE_MAX)
      /\ m = [n EXCEPT ![f].data = Store(@, 0, text),
                       ![f].size = 0 + Len(text)]
  BY DEF fish_write, PutText, Outcome, FISH_ERR_NOENT, FISH_ERR_ISDIR,
         FISH_ERR_SPACE
<1>2. f \in Children(n, c) /\ f \in Node
  BY <1>1, FindChild DEF Children, Used
<1>3. n \in [Node -> NodeRecord] /\ n[f] \in NodeRecord
  BY <1>2 DEF Sound
<1> HIDE DEF w, f
<1>4. m[f] = [n[f] EXCEPT !.data = Store(@, 0, text), !.size = 0 + Len(text)]
      /\ \A i \in Node \ {f} : m[i] = n[i]
  BY <1>1, <1>2, <1>3
<1> HIDE DEF m
<1>5. /\ m[f].data = Store(n[f].data, 0, text) /\ m[f].size = 0 + Len(text)
      /\ m[f].parent = n[f].parent /\ m[f].name = n[f].name
      /\ m[f].used = n[f].used /\ m[f].is_dir = n[f].is_dir
  BY <1>3, <1>4 DEF NodeRecord
<1>6. Used(m) = Used(n)
  BY <1>2, <1>4, <1>5 DEF Used
<1>7. {i \in Children(m, c) : m[i].name = name}
        = {i \in Children(n, c) : n[i].name = name}
  <2>1. \A i \in Used(n) : m[i].parent = n[i].parent /\ m[i].name = n[i].name
    BY <1>4, <1>5 DEF Used
  <2> QED
    BY <1>6, <2>1 DEF Children
<1>8. find_child(m, c, name) = f
  BY <1>7 DEF find_child, f
<1>9. Contents(m[f]) = text
  <2>1. n[f].data \in [1 .. FILE_MAX -> Byte] /\ 0 \in Nat
        /\ 0 + Len(text) <= FILE_MAX
    <3>1. n[f].data \in [1 .. FILE_MAX -> Byte]
      BY <1>3 DEF NodeRecord
    <3>2. Len(text) \in Nat /\ FILE_MAX \in Nat
      BY SizesAssumption
    <3>3. ~(0 + Len(text) > FILE_MAX)
      BY <1>1
    <3> QED
      BY <3>1, <3>2, <3>3
  <2>2. [k \in 1 .. 0 + Len(text) |-> Store(n[f].data, 0, text)[k]]
          = [k \in 1 .. 0 |-> n[f].data[k]] \o text
    BY <2>1, StoredText
  <2>3. Contents(m[f])
          = [k \in 1 .. 0 + Len(text) |-> Store(n[f].data, 0, text)[k]]
    BY <1>5 DEF Contents
  <2>4. [k \in 1 .. 0 |-> n[f].data[k]] = <<>>
    OBVIOUS
  <2>5. <<>> \o text = text
    OBVIOUS
  <2> QED
    BY <2>2, <2>3, <2>4, <2>5
<1>10. fish_read(m, c, name) = [found |-> TRUE, text |-> text]
  BY <1>1, <1>5, <1>8, <1>9 DEF fish_read
<1> QED
  BY <1>10 DEF m, w

(* user_load after a user_save that could write the file. *)
LEMMA SavedComesBack ==
  ASSUME NEW n, NEW c, Sound(n, c), NEW name, NEW host,
         GoodName(name), GoodName(host),
         user_save(n, c, name, host).ok,
         NEW d, NEW name0, NEW host0
  PROVE  LET m == user_save(n, c, name, host).nodes
             l == user_load(m, d, name0, host0)
         IN  l.uname = name /\ l.uhost = host
<1> DEFINE text == name \o <<NEWLINE>> \o host \o <<NEWLINE>>
           k == fish_create(n, 0, CONFIG_FILE).nodes
           w == fish_write(k, 0, CONFIG_FILE, text)
           s == user_save(n, c, name, host)
           m == s.nodes
           l == user_load(m, d, name0, host0)
<1>1. fish_chdir(n, c, "/").current = 0 /\ Sound(n, 0)
  BY GoToRoot
<1>2. s = [nodes   |-> w.nodes,
           current |-> fish_restore_cwd(w.nodes, fish_save_cwd(c)),
           ok      |-> w.ret = FISH_OK]
  BY <1>1 DEF user_save
<1>3. s.ok
  OBVIOUS
<1> HIDE DEF s, w
<1>4. w.ret = FISH_OK /\ m = w.nodes
  BY <1>2, <1>3
<1>5. Sound(k, 0)
  BY <1>1, CreateFrame
<1>6. text \in Seq(Byte)
  BY ConfText
<1> HIDE DEF text, k
<1>7. fish_read(m, 0, CONFIG_FILE).found
      /\ fish_read(m, 0, CONFIG_FILE).text = text
  BY <1>4, <1>5, <1>6, ReadBack DEF w
<1>8. FirstLine(text) = name /\ FirstLine(AfterFirstLine(text)) = host
  BY ConfLines DEF text
<1>9. fish_chdir(m, d, "/").current = 0
  BY DEF fish_chdir, Outcome
<1> HIDE DEF m
<1>10. l.uname = set_field(name0, Cut(name))
       /\ l.uhost = set_field(host0, Cut(host))
  BY <1>7, <1>8, <1>9 DEF user_load
<1> HIDE DEF l
<1>11. l.uname = name /\ l.uhost = host
  BY <1>10, GoodNameKept
<1> QED
  BY <1>11 DEF l, m, s

(* On a fresh tree there is no ys.conf, so the names stay. *)
LEMMA FreshHasNoConf ==
  ASSUME NEW d, NEW name, NEW host
  PROVE  LET l == user_load(fish_init.nodes, d, name, host)
         IN  l.uname = name /\ l.uhost = host
<1> DEFINE n == fish_init.nodes
           f == find_child(n, 0, CONFIG_FILE)
<1>1. n = InitNodes /\ 0 \in Node
  BY SizesAssumption DEF fish_init, Outcome, Node
<1> HIDE DEF n
<1>2. Children(n, 0) = {}
  <2>1. \A i \in Node \ {0} : n[i].used = 0
    BY <1>1 DEF InitNodes, ZeroNode
  <2>2. n[0].parent = -1
    BY <1>1 DEF InitNodes, RootNode
  <2> QED
    BY <2>1, <2>2 DEF Children, Used
<1>3. f = -1
  BY <1>2, FindChild
<1>4. ~fish_read(n, 0, CONFIG_FILE).found
  BY <1>3 DEF fish_read
<1>5. fish_chdir(n, d, "/").current = 0
  BY DEF fish_chdir, Outcome
<1> QED
  BY <1>4, <1>5 DEF user_load, n

(* The names a boot would find on the disk. *)
NamesOnDisk ==
  LET l == user_load(image.nodes,
                     fish_restore_cwd(image.nodes, image.current),
                     DefaultName, DefaultHost)
  IN  <<l.uname, l.uhost>>

(* They are the names of the last save that wrote ys.conf; without an      *)
(* image, the defaults.                                                    *)
DiskInv ==
  /\ image.saved = 1 /\ confOK => NamesOnDisk = atSave
  /\ image.saved # 1 => atSave = <<DefaultName, DefaultHost>>

LEMMA DiskStep ==
  ASSUME MemoryInv, ImageInv, RestInv, DiskInv, [ConfNext]_vars
  PROVE  DiskInv'
<1>1. CASE UNCHANGED <<image, atSave, confOK>>
  BY <1>1 DEF DiskInv, NamesOnDisk
<1>2. CASE cmd_save /\ present = 1
  <2> DEFINE s == user_save(nodes, current, uname, uhost)
  <2>1. /\ Sound(nodes, current) /\ GoodName(uname) /\ GoodName(uhost)
    BY DEF MemoryInv
  <2>2. /\ image' = [saved |-> 1, nodes |-> s.nodes, current |-> current']
        /\ atSave' = <<uname, uhost>> /\ confOK' = s.ok
    BY <1>2 DEF cmd_save, SaveNames, WriteImage
  <2>3. image'.saved = 1 /\ image'.nodes = s.nodes
    BY <2>2
  <2>4. ASSUME s.ok PROVE NamesOnDisk' = <<uname, uhost>>
    <3> DEFINE c == fish_restore_cwd(s.nodes, image'.current)
               l == user_load(s.nodes, c, DefaultName, DefaultHost)
    <3> HIDE DEF c
    <3>1. l.uname = uname /\ l.uhost = uhost
      BY <2>1, <2>4, SavedComesBack
    <3>2. NamesOnDisk' = <<l.uname, l.uhost>>
      BY <2>3 DEF NamesOnDisk, c
    <3> HIDE DEF l
    <3> QED
      BY <3>1, <3>2
  <2> QED
    BY <2>2, <2>3, <2>4 DEF DiskInv
<1>3. CASE cmd_format /\ present = 1
  <2>1. /\ image' = [saved |-> 1, nodes |-> fish_init.nodes,
                     current |-> current']
        /\ atSave' = <<DefaultName, DefaultHost>>
    BY <1>3 DEF cmd_format, WriteImage
  <2>2. image'.saved = 1 /\ image'.nodes = fish_init.nodes
    BY <2>1
  <2> DEFINE c == fish_restore_cwd(fish_init.nodes, image'.current)
             l == user_load(fish_init.nodes, c, DefaultName, DefaultHost)
  <2>3. l.uname = DefaultName /\ l.uhost = DefaultHost
    BY FreshHasNoConf
  <2>4. NamesOnDisk' = <<l.uname, l.uhost>>
    BY <2>2 DEF NamesOnDisk
  <2> HIDE DEF l
  <2> QED
    BY <2>1, <2>2, <2>3, <2>4 DEF DiskInv
<1>4. CASE (cmd_save \/ cmd_format) /\ present # 1
  <2>1. UNCHANGED <<image, atSave, confOK>>
    BY <1>4 DEF cmd_save, cmd_format, WriteImage
  <2> QED
    BY <1>1, <2>1
<1>5. ASSUME NEW arg \in Typed, cmd_user(arg) \/ cmd_hostname(arg)
      PROVE  DiskInv'
  BY <1>1, <1>5 DEF cmd_user, cmd_hostname
<1>6. CASE cmd_load \/ Command
  BY <1>1, <1>6 DEF cmd_load, Command, confvars
<1>7. CASE Boot
  BY <1>1, <1>7 DEF Boot
<1>8. CASE UNCHANGED vars
  BY <1>1, <1>8 DEF vars
<1> QED
  BY <1>2, <1>3, <1>4, <1>5, <1>6, <1>7, <1>8 DEF ConfNext

(* For every size of buffers, files and node array: the names of the last  *)
(* save that could write ys.conf are the names after the next boot from    *)
(* the disk, whatever was done to the tree or to ys.conf in memory in      *)
(* between; after a format they are the defaults.                          *)
THEOREM WrittenNamesAlways == ConfSpec => WrittenNamesComeBack
<1> DEFINE IInv == MemoryInv /\ ImageInv /\ RestInv /\ DiskInv
           Kept == Boot /\ present' = 1 /\ confOK
                     => <<uname', uhost'>> = atSave
<1>1. ConfInit => DiskInv
  BY DEF ConfInit, DiskInv
<1>2. MemoryInv /\ ImageInv /\ RestInv /\ DiskInv /\ [ConfNext]_vars
        => DiskInv'
  BY DiskStep
<1>3. DiskInv => [Kept]_vars
  <2> SUFFICES ASSUME DiskInv, Boot, present' = 1, confOK
               PROVE  <<uname', uhost'>> = atSave
    OBVIOUS
  <2>1. CASE image.saved = 1
    <3>1. <<uname', uhost'>> = NamesOnDisk
      BY <2>1 DEF Boot, NamesOnDisk
    <3> QED
      BY <2>1, <3>1 DEF DiskInv
  <2>2. CASE image.saved # 1
    <3>1. uname' = DefaultName /\ uhost' = DefaultHost
      BY <2>2 DEF Boot
    <3> QED
      BY <2>2, <3>1 DEF DiskInv
  <2> QED
    BY <2>1, <2>2
<1> HIDE DEF Kept
<1>4. ConfSpec => [][Kept]_vars
  BY <1>1, <1>2, <1>3, ConfAlways, PTL DEF ConfSpec
<1> QED
  BY <1>4 DEF WrittenNamesComeBack, Kept
=============================================================================
