------------------------------ MODULE Ramdisk ------------------------------
(***************************************************************************)
(* The in-memory file system of src/lib/ramdisk.c: a table of nodes, each  *)
(* directory's children chained through next_sibling, and a data pool that *)
(* is only ever appended to.                                               *)
(*                                                                         *)
(* The state is one record, threaded through the operations, because the   *)
(* shell's commands make several of these calls in a row:                  *)
(*   node       the table: type, parent, first_child, next_sibling, name,  *)
(*              size and data_off of each of MAX_NODES entries             *)
(*   pool       the bytes of the pool that were ever written; fs_data_free *)
(*              is their number                                            *)
(*                                                                         *)
(* A name is what fs_copy_name12_lower leaves of a text, at most eleven    *)
(* characters: an element of Names, or of RawNames when it holds a         *)
(* separator or is "." or "..", which no path token can match.             *)
(***************************************************************************)
EXTENDS Integers, Sequences, FiniteSets, FiniteSetsExt

CONSTANTS
  MAX_NODES,     \* RAMDISK_MAX_NODES
  DATA_CAP,      \* RAMDISK_DATA_CAP
  Names,         \* names that a path token can spell
  RawNames,      \* names that none can
  NameLength,    \* how many characters each has
  Seeds          \* the directories ramdisk_init makes in the root, in order

ASSUME RamdiskAssumption ==
  /\ MAX_NODES \in Nat \ {0}
  /\ DATA_CAP \in Nat
  /\ "." \notin Names /\ ".." \notin Names
  /\ Names \cap RawNames = {}
  /\ NameLength \in [Names \cup RawNames -> Nat \ {0}]
  /\ Seeds \in Seq(Names)
  /\ Len(Seeds) < MAX_NODES

Root == 0
Node == 0 .. (MAX_NODES - 1)
FAIL == -1                       \* fs_resolve_checked returns false
Byte == 0 .. 255

IsDir(d, n) == d.node[n].type = "dir"      \* fs_is_dir
IsFile(d, n) == d.node[n].type = "file"    \* fs_is_file
Live(d) == {n \in Node : d.node[n].type # "free"}

-----------------------------------------------------------------------------
(* Looking things up *)

(* The k-th node of dir's chain, 0 once the chain has ended. *)
Chain(d, dir) ==
  LET at[k \in 1 .. MAX_NODES] ==
        IF k = 1 THEN d.node[dir].first_child
        ELSE LET n == at[k - 1] IN IF n = 0 THEN 0 ELSE d.node[n].next_sibling
  IN  at

OnChain(d, dir) == {Chain(d, dir)[k] : k \in 1 .. MAX_NODES} \ {0}

(* Free entries that are still on the chain are passed over. *)
fs_find_child(d, dir, token) ==
  LET at == Chain(d, dir)
      hits == {k \in 1 .. MAX_NODES :
                 /\ at[k] # 0
                 /\ d.node[at[k]].type # "free"
                 /\ d.node[at[k]].name = token}
  IN  IF hits = {} THEN 0 ELSE at[Min(hits)]

(* One token of a path. *)
Step(d, cur, token) ==
  CASE cur = FAIL -> FAIL
    [] cur # FAIL /\ token = "." -> cur
    [] cur # FAIL /\ token = ".." -> IF cur = Root THEN cur ELSE d.node[cur].parent
    [] OTHER -> LET child == fs_find_child(d, cur, token)
                IN  IF child = 0 THEN FAIL ELSE child

(* The node after each number of tokens, from the node start. *)
Walk(d, start, toks) ==
  LET at[k \in 0 .. Len(toks)] ==
        IF k = 0 THEN start ELSE Step(d, at[k - 1], toks[k])
  IN  at

(* A path is [abs, toks]: whether it starts with '/' and its tokens. *)
fs_resolve_checked(d, cwd, path) ==
  Walk(d, IF path.abs THEN Root ELSE cwd, path.toks)[Len(path.toks)]

(* 0 stands for the root and for "not found". *)
fs_resolve(d, cwd, path) ==
  LET n == fs_resolve_checked(d, cwd, path) IN IF n = FAIL THEN Root ELSE n

-----------------------------------------------------------------------------
(* Adding a node *)

FreeNodes(d) == {i \in Node \ {Root} : d.node[i].type = "free"}

(* Mutant: the name of an existing entry is not looked for. *)
CanAddUnchecked(d, parent, name) ==
  /\ IsDir(d, parent)
  /\ FreeNodes(d) # {}

CanAdd(d, parent, name) ==
  /\ IsDir(d, parent)
  /\ fs_find_child(d, parent, name) = 0
  /\ FreeNodes(d) # {}

(* fs_alloc_node's entry, filled in and put at the head of parent's chain. *)
Link(d, parent, name, type) ==
  LET n == Min(FreeNodes(d))
  IN  [d EXCEPT !.node =
         [@ EXCEPT ![n] = [type |-> type, parent |-> parent, first_child |-> 0,
                           next_sibling |-> d.node[parent].first_child,
                           name |-> name, size |-> 0, data_off |-> 0],
                   ![parent].first_child = n]]

fs_mkdir_child(d, parent, name) ==
  IF CanAdd(d, parent, name) THEN Link(d, parent, name, "dir") ELSE d

fs_create_file(d, parent, name) ==
  IF CanAdd(d, parent, name) THEN Link(d, parent, name, "file") ELSE d

-----------------------------------------------------------------------------
(* Deleting a node *)

CanDelete(d, n) ==
  /\ n # Root
  /\ d.node[n].type # "free"
  /\ ~(IsDir(d, n) /\ d.node[n].first_child # 0)

(* Mutant: only the head of a chain is ever taken off. *)
UnlinkHead(d, n) ==
  LET parent == d.node[n].parent
      next == d.node[n].next_sibling
  IN  IF parent # Root /\ d.node[parent].first_child = n
      THEN [d.node EXCEPT ![parent].first_child = next]
      ELSE d.node

(* The table with n taken off its parent's chain.  The children of the     *)
(* root are left on theirs.                                                *)
UnlinkNode(d, n) ==
  LET parent == d.node[n].parent
      next == d.node[n].next_sibling
      before == {c \in OnChain(d, parent) : d.node[c].next_sibling = n}
  IN  IF parent = Root THEN d.node
      ELSE IF d.node[parent].first_child = n
      THEN [d.node EXCEPT ![parent].first_child = next]
      ELSE IF before = {} THEN d.node
      ELSE [d.node EXCEPT ![CHOOSE c \in before : TRUE].next_sibling = next]

fs_delete(d, n) ==
  IF CanDelete(d, n)
  THEN [d EXCEPT !.node = [UnlinkNode(d, n) EXCEPT ![n].type = "free"]]
  ELSE d

-----------------------------------------------------------------------------
(* Data *)

(* Up to cap bytes: the size of the caller's buffer. *)
fs_read(d, n, cap) ==
  LET len == IF cap < d.node[n].size THEN cap ELSE d.node[n].size
  IN  [i \in 1 .. len |-> d.pool[d.node[n].data_off + i]]

(* Mutant: one byte more than the pool holds is accepted. *)
CanWriteOver(d, n, data) == IsFile(d, n) /\ Len(d.pool) + Len(data) <= DATA_CAP + 1

CanWrite(d, n, data) == IsFile(d, n) /\ Len(d.pool) + Len(data) <= DATA_CAP

(* Mutant: the new bytes go where the old ones were. *)
WriteInPlace(d, n, data) ==
  LET off == d.node[n].data_off
  IN  IF ~CanWrite(d, n, data) THEN d
      ELSE [node |-> [d.node EXCEPT ![n].size = Len(data)],
            pool |-> SubSeq(d.pool, 1, off) \o data
                       \o SubSeq(d.pool, off + Len(data) + 1, Len(d.pool))]

(* Every write takes fresh space at the end of the pool. *)
fs_write(d, n, data) ==
  IF ~CanWrite(d, n, data) THEN d
  ELSE [node |-> [d.node EXCEPT ![n].data_off = Len(d.pool), ![n].size = Len(data)],
        pool |-> d.pool \o data]

-----------------------------------------------------------------------------
(* ramdisk_init: cleared tables, the root, and the directories in it. *)
Blank == [type |-> "free", parent |-> 0, first_child |-> 0, next_sibling |-> 0,
          name |-> "", size |-> 0, data_off |-> 0]

EmptyDisk ==
  [node |-> [n \in Node |-> IF n = Root THEN [Blank EXCEPT !.type = "dir"] ELSE Blank],
   pool |-> <<>>]

ramdisk_init ==
  LET made[k \in 0 .. Len(Seeds)] ==
        IF k = 0 THEN EmptyDisk ELSE fs_mkdir_child(made[k - 1], Root, Seeds[k])
  IN  made[Len(Seeds)]

-----------------------------------------------------------------------------
(* The names from the root to n, by the parent fields.  (Parents are live  *)
(* directories and never form a cycle, so the climb's bound of MAX_NODES   *)
(* nodes is not met.)                                                      *)
PathTo(d, n) ==
  LET path[m \in Live(d)] ==
        IF m = Root THEN <<>> ELSE Append(path[d.node[m].parent], d.node[m].name)
  IN  path[n]

(* How long the text of the first names is, each after a '/'. *)
TextEnd(path) ==
  LET end[i \in 0 .. Len(path)] ==
        IF i = 0 THEN 0 ELSE end[i - 1] + 1 + NameLength[path[i]]
  IN  end

(* What a buffer of cap bytes, one for the end of the string, holds of the *)
(* path's text: the names that it holds whole and, of the next one, as     *)
(* many characters as there is room for.                                   *)
fs_build_path(d, n, cap) ==
  LET path == PathTo(d, n)
      whole == Max({i \in 0 .. Len(path) : TextEnd(path)[i] < cap})
      room == cap - 2 - TextEnd(path)[whole]
  IN  IF whole = Len(path) \/ room <= 0 THEN SubSeq(path, 1, whole)
      ELSE Append(SubSeq(path, 1, whole), [of |-> path[whole + 1], chars |-> room])
=============================================================================
