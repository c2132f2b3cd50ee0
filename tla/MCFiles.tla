------------------------------ MODULE MCFiles ------------------------------
(***************************************************************************)
(* FileCommands on a table of four nodes and a pool of three bytes, with   *)
(* one directory in the root: chains of up to three entries in the root    *)
(* and two below, a table and a pool that fill up, a name that is used on  *)
(* two levels, paths through "..", a path into the directory, and          *)
(* arguments that are not names.  home has eleven characters, as many as a *)
(* name can have: the text of "home/" is cut, as a name, to home.          *)
(***************************************************************************)
EXTENDS FileCommands

CONSTANTS home, note

MCNames == {home, note}
MCSeeds == <<home>>
MCRawNames == {"..", "/home/note"}
MCNameLength ==
  [name \in MCNames \cup MCRawNames |-> IF name = note THEN 4 ELSE IF name = ".." THEN 2 ELSE 11]

Path(abs, toks, slash, text) == [abs |-> abs, toks |-> toks, slash |-> slash, text |-> text]

MCPaths ==
  {Path(FALSE, <<home>>, TRUE, home), Path(FALSE, <<note>>, FALSE, note),
   Path(FALSE, <<"..">>, FALSE, ".."), Path(TRUE, <<home, note>>, FALSE, "/home/note")}

MCTexts == {<<1>>, <<2, 3>>}

(* What the operations can tell apart: the fields of a free entry and the  *)
(* bytes of no file are overwritten before they are read, as long as       *)
(* nothing in the root is deleted.                                         *)
MCView ==
  <<[n \in Live(disk) |-> disk.node[n]],
    [n \in {m \in Live(disk) : IsFile(disk, m)} |-> fs_read(disk, n, DATA_CAP)],
    Len(disk.pool), fs_cwd>>
=============================================================================
