------------------------------ MODULE FishAbs ------------------------------
(***************************************************************************)
(* What Fish promises its callers (include/fish.h), with no slots, indices *)
(* or search order: a set of paths, each a directory or a file with a      *)
(* text; a current path; and a return code for every call.                 *)
(***************************************************************************)
EXTENDS FishCodes, Sequences, FiniteSets

CONSTANTS
  Capacity,    \* how many directories and files fit, the root included
  FileLimit,   \* the longest text of a file
  ValidNames, BadNames, Texts

VARIABLES
  tree,        \* tree[path] = [is_dir, text], for the paths that exist
  cwd,         \* the current path
  ret          \* return code of the last call

absvars == <<tree, cwd, ret>>

(* The path one level up; the root's parent is the root itself. *)
Parent(path) == IF path = <<>> THEN <<>> ELSE SubSeq(path, 1, Len(path) - 1)

(* A call that fails changes nothing but the return code. *)
Fail(code) == ret' = code /\ UNCHANGED <<tree, cwd>>

Done == ret' = FISH_OK

Make(name, is_dir) ==
  LET entry == Append(cwd, name) IN
  \/ Fail(FISH_ERR_NAME)   /\ name \notin ValidNames
  \/ Fail(FISH_ERR_EXISTS) /\ name \in ValidNames /\ entry \in DOMAIN tree
  \/ /\ Fail(FISH_ERR_FULL)
     /\ name \in ValidNames /\ entry \notin DOMAIN tree
     /\ Cardinality(DOMAIN tree) = Capacity
  \/ /\ Done
     /\ name \in ValidNames /\ entry \notin DOMAIN tree
     /\ Cardinality(DOMAIN tree) < Capacity
     /\ tree' = [p \in DOMAIN tree \cup {entry} |->
                   IF p = entry THEN [is_dir |-> is_dir, text |-> <<>>]
                                ELSE tree[p]]
     /\ UNCHANGED cwd

Chdir(name) ==
  LET entry == Append(cwd, name) IN
  \/ /\ Fail(FISH_ERR_NOENT)
     /\ name \notin {"/", ".", ".."} /\ entry \notin DOMAIN tree
  \/ /\ Fail(FISH_ERR_NOTDIR)
     /\ entry \in DOMAIN tree /\ tree[entry].is_dir = 0
  \/ /\ Done
     /\ \/ name = "/"  /\ cwd' = <<>>
        \/ name = "."  /\ cwd' = cwd
        \/ name = ".." /\ cwd' = Parent(cwd)
        \/ entry \in DOMAIN tree /\ tree[entry].is_dir = 1 /\ cwd' = entry
     /\ UNCHANGED tree

Remove(name) ==
  LET entry == Append(cwd, name)
      below == {p \in DOMAIN tree \ {<<>>} : Parent(p) = entry}
  IN
  \/ Fail(FISH_ERR_NOENT)    /\ entry \notin DOMAIN tree
  \/ Fail(FISH_ERR_NOTEMPTY) /\ entry \in DOMAIN tree /\ below # {}
  \/ /\ Done
     /\ entry \in DOMAIN tree /\ below = {}
     /\ tree' = [p \in DOMAIN tree \ {entry} |-> tree[p]]
     /\ UNCHANGED cwd

(* Replace the text of a file, or extend the one it holds. *)
Put(name, text, appending) ==
  LET entry  == Append(cwd, name)
      isfile == entry \in DOMAIN tree /\ tree[entry].is_dir = 0
      new    == (IF appending THEN tree[entry].text ELSE <<>>) \o text
  IN
  \/ Fail(FISH_ERR_NOENT) /\ entry \notin DOMAIN tree
  \/ Fail(FISH_ERR_ISDIR) /\ entry \in DOMAIN tree /\ ~isfile
  \/ Fail(FISH_ERR_SPACE) /\ isfile /\ Len(new) > FileLimit
  \/ /\ Done
     /\ isfile /\ Len(new) <= FileLimit
     /\ tree' = [tree EXCEPT ![entry].text = new]
     /\ UNCHANGED cwd

Init ==
  /\ tree = [p \in {<<>>} |-> [is_dir |-> 1, text |-> <<>>]]
  /\ cwd  = <<>>
  /\ ret  = FISH_OK

Next ==
  \E name \in ValidNames \cup BadNames \cup {"", ".", "..", "/"} :
    \/ \E is_dir \in {0, 1} : Make(name, is_dir)
    \/ Chdir(name)
    \/ Remove(name)
    \/ \E text \in Texts, appending \in BOOLEAN : Put(name, text, appending)

Spec == Init /\ [][Next]_absvars
=============================================================================
