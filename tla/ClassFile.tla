----------------------------- MODULE ClassFile -----------------------------
(***************************************************************************)
(* jvm_parse_class of src/commands/java.c: constant pool, interfaces,      *)
(* fields, methods and attributes of a class file, read at a moving offset *)
(* that is tested against the size before every read.                      *)
(*                                                                         *)
(* A class file is [pool, interfaces, fields, methods, attrs, size].  The  *)
(* pool is the sequence of its constants [tag, len], as a compiler wrote   *)
(* them (len is the length of a utf8's text); a field or a method is the   *)
(* sequence of its attributes [len, data, code_len]: their length as the   *)
(* file gives it and as it is, and the length of the code as given, -1 if  *)
(* the attribute is not Code.  The counts in the file are the right ones;  *)
(* the file may be cut at any byte.                                        *)
(***************************************************************************)
EXTENDS Lengths, FiniteSetsExt

CONSTANTS JVM_CP_MAX, JVM_METHOD_MAX

(* The kinds of constants. *)
Tags == {"utf8", "int", "long", "double", "class", "string", "field", "method",
         "nametype", "handle", "dynamic"}

Constant == [tag : Tags, len : Nat]

(* Bytes after the tag; 0 for a tag that is not supported (17, dynamic).   *)
(* "int" stands for tags 3 and 4, "class" and "string" for 7, 8 and 16,    *)
(* "nametype" for 12 and 18.                                               *)
Width(c) ==
  CASE c.tag = "utf8" -> 2 + c.len
    [] c.tag = "int" -> 4
    [] c.tag \in {"long", "double"} -> 8
    [] c.tag \in {"class", "string"} -> 2
    [] c.tag \in {"field", "method", "nametype"} -> 4
    [] c.tag = "handle" -> 3
    [] OTHER -> 0

Fail == -1
Read(f, off, n) ==
  IF off \in {Fail, Astray} THEN off ELSE IF off + n > f.size THEN Fail ELSE off + n

(* The count in the file: a long or a double takes two indices. *)
Slots(tag) == IF tag \in {"long", "double"} THEN 2 ELSE 1
Indices(f) == Sums([k \in DOMAIN f.pool |-> Slots(f.pool[k].tag)])
cp_count(f) == 1 + Indices(f)[Len(f.pool)]

(* Mutant: a long takes one index. *)
NextIndexFlat(i, tag) == i + 1

(* The index after the constant at i. *)
NextIndex(i, tag) == IF tag \in {"long", "double"} THEN i + 2 ELSE i + 1

(* The loop over the constant pool, after each number of turns: the index, *)
(* the offset and the constants so far.  What follows the pool in the file *)
(* is no constant, and a turn more than there are constants ends the loop. *)
PoolTurn(f, k, s) ==
  IF s.i >= cp_count(f) \/ s.off = Fail THEN s
  ELSE IF k > Len(f.pool) \/ Width(f.pool[k]) = 0 THEN [s EXCEPT !.off = Fail]
  ELSE [i |-> NextIndex(s.i, f.pool[k].tag),
        off |-> Read(f, s.off, 1 + Width(f.pool[k])),
        cp |-> [j \in DOMAIN s.cp \cup {s.i} |-> IF j = s.i THEN f.pool[k] ELSE s.cp[j]]]

ParsePool(f) ==
  LET at[k \in 0 .. (Len(f.pool) + 1)] ==
        IF k = 0 THEN [i |-> 1, off |-> Read(f, 0, 10), cp |-> <<>>]
        ELSE PoolTurn(f, k, at[k - 1])
  IN  at[Len(f.pool) + 1]

(* An attribute: six bytes and the contents.  A length that is negative as *)
(* an int passes the test against the size; one that is not the length of  *)
(* the contents leads to where no attribute was written.                   *)
SkipContents(f, head, a) ==
  LET next == AsInt(head + AsInt(a.len))
  IN  IF head < 0 THEN head
      ELSE IF next > f.size THEN Fail
      ELSE IF next = head + a.data THEN next
      ELSE Astray

ReadAttr(f, off, a) == SkipContents(f, Read(f, off, 6), a)

AttrOffs(f, off, attrs) ==
  LET at[k \in 0 .. Len(attrs)] == IF k = 0 THEN off ELSE ReadAttr(f, at[k - 1], attrs[k])
  IN  at

ReadAttrs(f, off, attrs) == AttrOffs(f, off, attrs)[Len(attrs)]

(* Fields and methods: a count, and eight bytes and the attributes each. *)
parse_member_info_skip(f, off, attrs) == ReadAttrs(f, Read(f, off, 8), attrs)

MemberOffs(f, off, members) ==
  LET at[k \in 0 .. Len(members)] ==
        IF k = 0 THEN Read(f, off, 2) ELSE parse_member_info_skip(f, at[k - 1], members[k])
  IN  at

ReadMembers(f, off, members) == MemberOffs(f, off, members)[Len(members)]

(* A Code attribute counts if it can hold the code it announces; the last  *)
(* of several wins.                                                        *)
CodeOf(f, off, attrs) ==
  LET at == AttrOffs(f, off, attrs)
      code == {k \in DOMAIN attrs :
                 LET a == attrs[k]
                     info == at[k - 1] + 6
                 IN  /\ a.code_len >= 0
                     /\ a.len >= 8 /\ info + 8 <= f.size
                     /\ AsInt(info + 8 + AsInt(a.code_len)) <= AsInt(info + AsInt(a.len))}
  IN  IF code = {} THEN 0 ELSE attrs[Max(code)].code_len

(* The class as parsed, or each one that a parser gone astray may leave.   *)
jvm_parse_class(f) ==
  LET pool == ParsePool(f)
      head == Read(f, Read(f, pool.off, 8), 2 * f.interfaces)
      fields == ReadMembers(f, head, f.fields)
      methods == ReadMembers(f, fields, f.methods)
      end == ReadAttrs(f, Read(f, methods, 2), f.attrs)
      kept == {i \in DOMAIN f.methods : i <= JVM_METHOD_MAX}
      result(ok, code) ==
        [ok |-> ok /\ cp_count(f) <= JVM_CP_MAX, cp |-> pool.cp, code |-> code]
  IN  IF end = Astray
      THEN {result(ok, code) : ok \in BOOLEAN, code \in {<<>>, <<1>>}}
      ELSE {result(end # Fail,
                   [i \in kept |-> CodeOf(f, Read(f, MemberOffs(f, fields, f.methods)[i - 1], 8),
                                          f.methods[i])])}

-----------------------------------------------------------------------------
(* The reference: the index a compiler gives to the k-th constant, and the *)
(* length of the whole file.                                               *)
IndexOf(f, k) == 1 + Indices(f)[k - 1]

AttrBytes(attrs) == Sums([k \in DOMAIN attrs |-> 6 + attrs[k].data])[Len(attrs)]
MemberBytes(ms) == Sums([k \in DOMAIN ms |-> 8 + AttrBytes(ms[k])])[Len(ms)]
PoolBytes(f) == Sums([k \in DOMAIN f.pool |-> 1 + Width(f.pool[k])])[Len(f.pool)]
FileBytes(f) ==
  24 + PoolBytes(f) + 2 * f.interfaces + MemberBytes(f.fields)
  + MemberBytes(f.methods) + AttrBytes(f.attrs)

(* Every attribute gives its length, which is so far below 2^31 that no    *)
(* offset in the file is carried past it.                                  *)
Honest(f, attrs) ==
  \A k \in DOMAIN attrs :
    attrs[k].len = attrs[k].data /\ f.size + attrs[k].len < INT_LIM
TrueLengths(f) ==
  /\ \A k \in DOMAIN f.fields : Honest(f, f.fields[k])
  /\ \A k \in DOMAIN f.methods : Honest(f, f.methods[k])
  /\ Honest(f, f.attrs)

Written(f) ==
  [ok |-> /\ f.size >= FileBytes(f)
          /\ \A k \in DOMAIN f.pool : Width(f.pool[k]) # 0
          /\ cp_count(f) <= JVM_CP_MAX,
   cp |-> [i \in {IndexOf(f, k) : k \in DOMAIN f.pool} |->
             f.pool[CHOOSE k \in DOMAIN f.pool : IndexOf(f, k) = i]]]
=============================================================================
