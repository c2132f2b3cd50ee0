---------------------------- MODULE FileCommands ----------------------------
(***************************************************************************)
(* The shell's file commands (src/commands) and the editor's save          *)
(* (src/apps/mamu.c), on the ramdisk.  The shell runs one command at a     *)
(* time, so a command is one step; within it the ramdisk's operations are  *)
(* called in the order of the code, and a command that fails half way      *)
(* keeps what it has done.                                                 *)
(*                                                                         *)
(* A path argument is [abs, toks, slash, text]: see Ramdisk for the first  *)
(* two; slash says that it ends with '/', text is what is left of it as a  *)
(* name.  The ones that cp, mv and echo write to hold no blanks.  Paths    *)
(* are the arguments that are tried, Texts the contents.                   *)
(***************************************************************************)
EXTENDS Ramdisk, SequencesExt

CONSTANTS
  Paths,
  Texts,
  PATH_CAP,        \* the buffer that pwd and find give fs_build_path
  DELETE_AT_ROOT   \* whether children of the root are among what is deleted

ASSUME CommandAssumption ==
  /\ DELETE_AT_ROOT \in BOOLEAN
  /\ PATH_CAP \in Nat /\ PATH_CAP > 1
  /\ \A p \in Paths :
       /\ p \in [abs : BOOLEAN, toks : Seq(Names \cup {".", ".."}), slash : BOOLEAN,
                 text : Names \cup RawNames]
       /\ p.abs \/ p.toks # <<>>
       /\ ~p.abs /\ ~p.slash /\ Len(p.toks) = 1 /\ p.toks[1] \in Names => p.text = p.toks[1]
  /\ \A text \in Texts : text \in Seq(Byte)

VARIABLES disk, fs_cwd

vars == <<disk, fs_cwd>>

Init == disk = ramdisk_init /\ fs_cwd = Root

Resolve(d, p) == fs_resolve_checked(d, fs_cwd, p)

(* mkdir, touch, wget and mamu use the text of the argument as a name.     *)
RawName(p) == p.text

(* The nodes that this instance deletes. *)
InScope(n) == DELETE_AT_ROOT \/ disk.node[n].parent # Root

-----------------------------------------------------------------------------
cmd_mkdir(p) ==
  /\ disk' = fs_mkdir_child(disk, fs_cwd, RawName(p))
  /\ UNCHANGED fs_cwd

cmd_touch(p) ==
  /\ disk' = fs_create_file(disk, fs_cwd, RawName(p))
  /\ UNCHANGED fs_cwd

cmd_cd(p) ==
  LET target == Resolve(disk, p)
  IN  /\ target # FAIL
      /\ IsDir(disk, target)
      /\ fs_cwd' = target
      /\ UNCHANGED disk

cmd_cd_home == fs_cwd' = Root /\ UNCHANGED disk

(* Mutant: the current directory may be removed. *)
RmAnywhere(p) ==
  LET target == Resolve(disk, p)
  IN  /\ target \notin {FAIL, Root}
      /\ InScope(target)
      /\ disk' = fs_delete(disk, target)
      /\ UNCHANGED fs_cwd

cmd_rm(p) ==
  LET target == Resolve(disk, p)
  IN  /\ target \notin {FAIL, Root, fs_cwd}
      /\ InScope(target)
      /\ disk' = fs_delete(disk, target)
      /\ UNCHANGED fs_cwd

cmd_rmdir(p) ==
  LET target == Resolve(disk, p)
  IN  /\ target \notin {FAIL, Root, fs_cwd}
      /\ IsDir(disk, target)
      /\ disk.node[target].first_child = 0     \* fs_list_begin finds nothing
      /\ InScope(target)
      /\ disk' = fs_delete(disk, target)
      /\ UNCHANGED fs_cwd

-----------------------------------------------------------------------------
(* A disk, and the file that the path leads to on it, FAIL if to none.     *)
LeadsTo(d, n) == [made |-> d, target |-> IF n # FAIL /\ IsFile(d, n) THEN n ELSE FAIL]
FileAt(d, p) == LeadsTo(d, Resolve(d, p))

(* Mutant: the new file is made in the current directory. *)
DestinationHere(d, p) ==
  IF Resolve(d, p) # FAIL THEN FileAt(d, p)
  ELSE IF p.slash \/ ~CanAdd(d, fs_cwd, Last(p.toks))
  THEN [made |-> d, target |-> FAIL]
  ELSE FileAt(fs_create_file(d, fs_cwd, Last(p.toks)), p)

(* echo and cp write to a path: an existing file, or a new one in an       *)
(* existing directory, unless the path ends with '/'.                      *)
Destination(d, p) ==
  LET parent == Resolve(d, [p EXCEPT !.toks = Front(@)])
  IN  IF Resolve(d, p) # FAIL THEN FileAt(d, p)
      ELSE IF p.slash \/ parent = FAIL \/ ~CanAdd(d, parent, Last(p.toks))
      THEN [made |-> d, target |-> FAIL]
      ELSE FileAt(fs_create_file(d, parent, Last(p.toks)), p)

(* Mutant: the write is taken to have worked. *)
WriteUnchecked(to, data) ==
  IF to.target = FAIL THEN [disk |-> to.made, ok |-> FALSE]
  ELSE [disk |-> fs_write(to.made, to.target, data), ok |-> TRUE]

(* The disk after data went to a destination, and whether all of it did.   *)
WriteTo(to, data) ==
  IF to.target = FAIL THEN [disk |-> to.made, ok |-> FALSE]
  ELSE [disk |-> fs_write(to.made, to.target, data),
        ok |-> CanWrite(to.made, to.target, data)]

Put(d, p, data) == WriteTo(Destination(d, p), data)

(* resolve_or_create_file, then fs_write. *)
cmd_echo(text, p) ==
  /\ disk' = Put(disk, p, text).disk
  /\ UNCHANGED fs_cwd

(* cmd_copy_file_path. *)
CopyFile(s, p) ==
  LET src == Resolve(disk, s)
  IN  Put(disk, p, fs_read(disk, src, DATA_CAP))

IsSource(s) == LET src == Resolve(disk, s) IN src # FAIL /\ IsFile(disk, src)

cmd_cp(s, p) ==
  /\ IsSource(s)
  /\ disk' = CopyFile(s, p).disk
  /\ UNCHANGED fs_cwd

(* A copy, and when it worked the deletion of the source. *)
Moved(copy, src) == IF copy.ok THEN fs_delete(copy.disk, src) ELSE copy.disk

cmd_mv(s, p) ==
  LET src == Resolve(disk, s)
  IN  /\ IsSource(s)
      /\ src # Resolve(disk, p)
      /\ InScope(src)
      /\ disk' = Moved(CopyFile(s, p), src)
      /\ UNCHANGED fs_cwd

(* The file is made in the current directory under the argument's own      *)
(* text, and then looked up as a path.                                     *)
cmd_wget(text, p) ==
  LET made == fs_create_file(disk, fs_cwd, RawName(p))
      out == Resolve(made, p)
  IN  /\ disk' = IF out # FAIL /\ IsFile(made, out)
                 THEN fs_write(made, out, text) ELSE made
      /\ UNCHANGED fs_cwd

(* save_file.  fs_resolve answers 0 for the root as well as for "not       *)
(* found", and then the file is made in the current directory.             *)
mamu_save(text, p) ==
  LET made == IF fs_resolve(disk, fs_cwd, p) = Root
              THEN fs_create_file(disk, fs_cwd, RawName(p)) ELSE disk
      node == fs_resolve(made, fs_cwd, p)
  IN  /\ disk' = IF node # Root /\ IsFile(made, node)
                 THEN fs_write(made, node, text) ELSE made
      /\ UNCHANGED fs_cwd

Next ==
  \/ cmd_cd_home
  \/ \E p \in Paths :
       \/ cmd_mkdir(p)
       \/ cmd_touch(p)
       \/ cmd_cd(p)
       \/ cmd_rm(p)
       \/ cmd_rmdir(p)
       \/ \E text \in Texts : cmd_echo(text, p) \/ cmd_wget(text, p) \/ mamu_save(text, p)
       \/ \E s \in Paths : cmd_cp(s, p) \/ cmd_mv(s, p)

Spec == Init /\ [][Next]_vars

-----------------------------------------------------------------------------
(* The table keeps its shape, every index in it is one of the table's, and *)
(* no write runs past the end of the pool.                                 *)
TypeOK ==
  /\ DOMAIN disk.node = Node
  /\ \A n \in Node :
       /\ disk.node[n].type \in {"free", "dir", "file"}
       /\ disk.node[n].parent \in Node
       /\ disk.node[n].first_child \in Node
       /\ disk.node[n].next_sibling \in Node
       /\ disk.node[n].size \in 0 .. DATA_CAP
       /\ disk.node[n].data_off \in 0 .. DATA_CAP
  /\ disk.pool \in Seq(Byte)
  /\ Len(disk.pool) <= DATA_CAP
  /\ fs_cwd \in Node

(* Every directory's chain ends and holds the live nodes whose parent the  *)
(* directory is, each once, and nothing else, and every node but the root  *)
(* has a directory for a parent: no walk of fs_find_child, ls or tree      *)
(* loops, misses an entry, or shows one that was deleted.                  *)
ListsIntact ==
  /\ \A n \in Live(disk) : IsDir(disk, disk.node[n].parent)
  /\ \A dir \in Live(disk) :
       /\ Chain(disk, dir)[MAX_NODES] = 0
       /\ OnChain(disk, dir) = {n \in Live(disk) \ {Root} : disk.node[n].parent = dir}

(* What rm and rmdir announce: the entry is removed, so that a listing of  *)
(* the directory (ls walks the chain and prints what is on it) no longer   *)
(* shows it.  fs_delete does not unlink the children of the root.          *)
RemovedIsGone == \A dir \in Live(disk) : OnChain(disk, dir) \subseteq Live(disk)

(* The path that fs_build_path prints for a node (pwd, find) leads back to *)
(* that node, if the buffer holds its text and no name on it came from an  *)
(* argument no token can spell.                                            *)
PathsResolve ==
  \A n \in Live(disk) :
    LET path == PathTo(disk, n)
    IN  /\ \A i \in DOMAIN path : path[i] \in Names
        /\ TextEnd(path)[Len(path)] < PATH_CAP
        => fs_resolve_checked(disk, Root,
             [abs |-> TRUE, toks |-> fs_build_path(disk, n, PATH_CAP)]) = n

(* The bytes of each file lie in the used part of the pool, and no two     *)
(* files share one: no write reaches another file's contents.              *)
PoolDisjoint ==
  LET Files == {n \in Live(disk) : IsFile(disk, n) /\ disk.node[n].size > 0}
      Bytes(n) == disk.node[n].data_off .. (disk.node[n].data_off + disk.node[n].size - 1)
  IN  /\ \A n \in Files : Bytes(n) \subseteq 0 .. (Len(disk.pool) - 1)
      /\ \A n, m \in Files : n # m => Bytes(n) \cap Bytes(m) = {}

(* The current directory is a directory that exists and is listed in its   *)
(* parent, whatever rm, rmdir and mv removed: relative paths and "cd .."   *)
(* always mean something.                                                  *)
CwdLive ==
  /\ IsDir(disk, fs_cwd)
  /\ fs_cwd # Root =>
       LET parent == disk.node[fs_cwd].parent
       IN  IsDir(disk, parent) /\ fs_cwd \in OnChain(disk, parent)

(* mv never loses the bytes it moves: whether the table or the pool is     *)
(* full, the destination exists, or is the source under another spelling,  *)
(* they are afterwards in the file that the destination's path leads to    *)
(* once the copy is made, or still in the source.                          *)
MvKeepsBytes ==
  [][ disk' # disk => \A s, p \in Paths : cmd_mv(s, p) =>
        \E n \in {Resolve(disk, s), Resolve(CopyFile(s, p).disk, p)} :
          /\ n # FAIL
          /\ IsFile(disk', n)
          /\ fs_read(disk', n, DATA_CAP) = fs_read(disk, Resolve(disk, s), DATA_CAP) ]_vars

-----------------------------------------------------------------------------
(* What the node table means as a tree of names. *)
TreeOf(d) ==
  LET contents == [n \in Live(d) |->
        IF IsDir(d, n) THEN [kind |-> "dir", data |-> <<>>]
        ELSE [kind |-> "file", data |-> fs_read(d, n, DATA_CAP)]]
  IN  [p \in {PathTo(d, n) : n \in Live(d)} |->
         contents[CHOOSE n \in Live(d) : PathTo(d, n) = p]]

Tree == INSTANCE FileTree WITH
          tree <- TreeOf(disk), cwd <- PathTo(disk, fs_cwd)

(* Every command acts on the tree of names as one operation of FileTree    *)
(* does: whatever the table, the chains and the pool do underneath.        *)
CommandsKeepTree == Tree!Spec

(* The path that an argument leads to, if it leads anywhere. *)
LedTo(d, p) == {PathTo(d, n) : n \in {Resolve(d, p)} \ {FAIL}}

(* The tree changes nowhere but where the command's arguments say: what rm *)
(* is given, the file that a destination leads to once it is there, the    *)
(* source of mv, and for the commands that take their argument as a name,  *)
(* the entry of that name in the current directory.                        *)
TouchesItsArguments ==
  [][ LET touched == Tree!Touched(TreeOf(disk), TreeOf(disk'))
          Beside(p) == Append(PathTo(disk, fs_cwd), RawName(p))
      IN  disk' # disk => \A p \in Paths :
            /\ cmd_rm(p) \/ cmd_rmdir(p) => touched \subseteq LedTo(disk, p)
            /\ cmd_mkdir(p) \/ cmd_touch(p) => touched \subseteq {Beside(p)}
            /\ \A text \in Texts :
                 /\ cmd_echo(text, p) => touched \subseteq LedTo(disk', p)
                 /\ cmd_wget(text, p) \/ mamu_save(text, p) =>
                      touched \subseteq LedTo(disk', p) \cup {Beside(p)}
            /\ \A s \in Paths :
                 /\ cmd_cp(s, p) => touched \subseteq LedTo(disk', p)
                 /\ cmd_mv(s, p) =>
                      touched \subseteq LedTo(disk, s) \cup LedTo(CopyFile(s, p).disk, p)
    ]_vars
=============================================================================
