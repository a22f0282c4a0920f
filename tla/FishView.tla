----------------------------- MODULE FishView ------------------------------
(***************************************************************************)
(* What a user sees of Fish: the path printed by pwd, the listing printed  *)
(* by ls, and the tree of paths that the node array stands for.  The last  *)
(* one is the refinement mapping to FishAbs.                               *)
(***************************************************************************)
EXTENDS Fish, SequencesExt

CONSTANTS
  PATH_MAX,    \* FISH_PATH_MAX, the size of cmd_pwd's buffer
  Letter,      \* the characters of names
  Slash,       \* '/'
  Spelling     \* Spelling[name]: the characters of a valid name

(* valid_name() accepts no empty name and no slash, and names that strcmp  *)
(* tells apart are spelled differently.                                    *)
ASSUME PathMaxAssumption == PATH_MAX \in Nat \ {0}
ASSUME SpellingAssumption ==
  /\ Slash \notin Letter
  /\ Spelling \in [ValidNames -> Seq(Letter) \ {<<>>}]
  /\ IsInjective(Spelling)

(* The loop of fish_path that climbs from the current directory to the     *)
(* root, in at most MAX_NODES steps.                                       *)
(* Climb(n)[k][i]: the names on the way from i, when k steps are left.     *)
Climb(n) ==
  LET names[k \in 0 .. MAX_NODES] ==
        [i \in -1 .. MAX_NODES - 1 |->
           IF i > 0 /\ k > 0 THEN Append(names[k - 1][n[i].parent], n[i].name)
                            ELSE <<>>]
  IN  names

(* Mutant: the chain is left in the order it was collected. *)
PathOf_InsideOut(n, i) == Reverse(Climb(n)[MAX_NODES][i])

(* The names on the way to node i, outermost first. *)
PathOf(n, i) == Climb(n)[MAX_NODES][i]

(* A path in full: a slash before every name, and one for the root. *)
Spell(names) ==
  IF names = <<>> THEN <<Slash>>
  ELSE FlattenSeq([k \in DOMAIN names |-> <<Slash>> \o Spelling[names[k]]])

(* Mutant: the buffer is filled to the end, with no room for its           *)
(* terminator.                                                             *)
fish_path_NoRoom(n, c, size) ==
  LET text == Spell(PathOf(n, c)) IN SubSeq(text, 1, Min({Len(text), size}))

(* fish_path: print into a buffer of size > 0 bytes as much of the path as *)
(* leaves room for the terminator.                                         *)
fish_path(n, c, size) ==
  LET text == Spell(PathOf(n, c))
  IN  SubSeq(text, 1, Min({Len(text), size - 1}))

cmd_pwd == fish_path(nodes, current, PATH_MAX)

(* Mutant: the slot at the cursor is passed over. *)
fish_next_Skips(n, c, handle) ==
  LET rest == {i \in Children(n, c) : i > handle}
  IN  IF rest = {} THEN 0 ELSE Min(rest) + 1

(* fish_next: the entry at or after the cursor, as "slot + 1"; 0 ends. *)
fish_next(n, c, handle) ==
  LET rest == {i \in Children(n, c) : i >= handle}
  IN  IF rest = {} THEN 0 ELSE Min(rest) + 1

fish_first == 0

(* The values of handle in cmd_ls: before the loop, and at each test. *)
Handles(n, c) ==
  LET handle[k \in 0 .. MAX_NODES + 1] ==
        IF k = 0 THEN fish_first ELSE fish_next(n, c, handle[k - 1])
  IN  handle

(* The slots that cmd_ls prints, in order, until handle is 0 again. *)
cmd_ls(n, c) ==
  LET handle == Handles(n, c)
      end    == Min({k \in 1 .. MAX_NODES + 1 : handle[k] = 0})
  IN  [k \in 1 .. end - 1 |-> handle[k] - 1]

-----------------------------------------------------------------------------
(* The directory in which "cd /" and then "cd" into each name ends. *)
CdInto(names) ==
  FoldLeft(LAMBDA d, name : fish_chdir(nodes, d, name).current, 0, names)

(* pwd tells the truth, as far as its buffer goes: what it prints and the  *)
(* terminator fit the buffer, and it is the beginning of the path.  When   *)
(* the whole path fits, the text can be read in one way only: whatever     *)
(* names it may be taken for, "cd" into each of them leads back to the     *)
(* current directory, however the tree came about.                         *)
PathLeadsBack ==
  LET whole == Spell(PathOf(nodes, current)) IN
  /\ Len(cmd_pwd) < PATH_MAX
  /\ IsPrefix(cmd_pwd, whole)
  /\ Len(whole) < PATH_MAX =>
       /\ cmd_pwd = whole
       /\ \A names \in BoundedSeq(ValidNames, Len(whole)) :
            Spell(names) = cmd_pwd => CdInto(names) = current

(* The integer cursor of fish_first/fish_next, in which 0 is both the      *)
(* start and the end mark, lists every child of the current directory      *)
(* exactly once.                                                           *)
LsListsEachChildOnce ==
  LET listing == cmd_ls(nodes, current)
  IN  ToSet(listing) = Children(nodes, current) /\ IsInjective(listing)

-----------------------------------------------------------------------------
(* Refinement: slot i is the file or directory at its path. *)

TreeOfPaths(n) ==
  LET path == [i \in Used(n) |-> PathOf(n, i)]
      At(p) == n[CHOOSE i \in Used(n) : path[i] = p]
  IN  [p \in Range(path) |->
         [is_dir |-> At(p).is_dir,
          text   |-> IF At(p).is_dir = 1 THEN <<>> ELSE Contents(At(p))]]

Abs == INSTANCE FishAbs WITH Capacity <- MAX_NODES, FileLimit <- FILE_MAX,
                             tree <- TreeOfPaths(nodes),
                             cwd <- PathOf(nodes, current)

(* The node array implements the promise of fish.h: seen through its       *)
(* paths, every call does to the tree, the current directory and the       *)
(* return code what FishAbs says; in particular a slot is reusable exactly *)
(* when its file is gone, and old data never shows up in a new file.       *)
ImplementsFishAbs == Abs!Spec

(* Each command does what FishAbs says of the call with that name and that *)
(* text, and returns its code: in particular mkdir is refused for lack of  *)
(* room exactly when the slots are used up, and write and append exactly   *)
(* when the text they would leave is longer than FILE_MAX.  (In            *)
(* ImplementsFishAbs a step may be any call that explains it.)             *)
EveryCallAsPromised ==
  [][\A name \in AnyName :
       /\ cmd_mkdir(name) => Abs!Make(name, 1)
       /\ cmd_touch(name) => Abs!Make(name, 0)
       /\ cmd_rm(name)    => Abs!Remove(name)
       /\ cmd_cd(name)    => Abs!Chdir(IF name = "" THEN "/" ELSE name)
       /\ \A text \in Texts :
            /\ cmd_write(name, text)  => Abs!Put(name, text, FALSE)
            /\ cmd_append(name, text) => Abs!Put(name, text, TRUE)]_fishvars
=============================================================================
