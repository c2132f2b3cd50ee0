------------------------------ MODULE FileTree ------------------------------
(***************************************************************************)
(* What the file commands of the shell promise, with no table, chain or    *)
(* pool: a tree of names in which every command has the effect of at most  *)
(* one operation on at most one path (Move: two), and everything else      *)
(* stays as it was.                                                        *)
(*                                                                         *)
(* tree maps each path (a sequence of names; the root is <<>>) to a        *)
(* directory or to a file and its bytes.  cwd is the path of the current   *)
(* directory.                                                              *)
(***************************************************************************)
EXTENDS Sequences, SequencesExt

CONSTANTS Texts      \* what a user writes into a file

VARIABLES tree, cwd

Dir == [kind |-> "dir", data |-> <<>>]
File(c) == [kind |-> "file", data |-> c]

Children(p) == {q \in DOMAIN tree : q # <<>> /\ Front(q) = p}

With(f, p, v) == [q \in DOMAIN f \cup {p} |-> IF q = p THEN v ELSE f[q]]
Without(f, p) == [q \in DOMAIN f \ {p} |-> f[q]]

(* A name that is free, in a directory that exists. *)
Vacant(p) ==
  /\ p # <<>>
  /\ p \notin DOMAIN tree
  /\ Front(p) \in DOMAIN tree
  /\ tree[Front(p)] = Dir

IsFileAt(p) == p \in DOMAIN tree /\ tree[p].kind = "file"

MakeDir(p) == Vacant(p) /\ tree' = With(tree, p, Dir) /\ UNCHANGED cwd

MakeFile(p) == Vacant(p) /\ tree' = With(tree, p, File(<<>>)) /\ UNCHANGED cwd

(* A text, or the bytes of a file, put into a file that may be new. *)
Save(p) ==
  /\ Vacant(p) \/ IsFileAt(p)
  /\ \/ \E c \in Texts : tree' = With(tree, p, File(c))
     \/ \E s \in DOMAIN tree : IsFileAt(s) /\ tree' = With(tree, p, tree[s])
  /\ UNCHANGED cwd

(* wget, given a path that is not a plain name: an empty file that has the *)
(* path as its name appears in the current directory, beside the text in   *)
(* the file the path leads to.                                             *)
SaveBeside(q, p) ==
  /\ Vacant(q) /\ Front(q) = cwd
  /\ IsFileAt(p)
  /\ \E c \in Texts : tree' = With(With(tree, q, File(<<>>)), p, File(c))
  /\ UNCHANGED cwd

(* The file at s is afterwards at p, with its bytes. *)
Move(s, p) ==
  /\ IsFileAt(s)
  /\ p # s
  /\ Vacant(p) \/ IsFileAt(p)
  /\ tree' = Without(With(tree, p, tree[s]), s)
  /\ UNCHANGED cwd

(* A file or an empty directory, never the root or the current directory. *)
RemovePath(p) ==
  /\ p \notin {<<>>, cwd}
  /\ Children(p) = {}
  /\ tree' = Without(tree, p)
  /\ UNCHANGED cwd

ChangeDir(p) == tree[p] = Dir /\ cwd' = p /\ UNCHANGED tree

Init ==
  /\ <<>> \in DOMAIN tree
  /\ \A p \in DOMAIN tree : tree[p] = Dir /\ (p # <<>> => Front(p) \in DOMAIN tree)
  /\ cwd = <<>>

(* The paths at which two trees differ. *)
Touched(t, u) ==
  {p \in DOMAIN t \cup DOMAIN u :
     p \in DOMAIN t /\ p \in DOMAIN u => t[p] # u[p]}

Next ==
  \/ \E p \in Touched(tree, tree') :
       \/ MakeDir(p)
       \/ MakeFile(p)
       \/ Save(p)
       \/ RemovePath(p)
       \/ \E q \in Touched(tree, tree') : Move(q, p) \/ SaveBeside(q, p)
  \/ \E p \in DOMAIN tree : ChangeDir(p)

Spec == Init /\ [][Next]_<<tree, cwd>>
=============================================================================
