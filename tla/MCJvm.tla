------------------------------- MODULE MCJvm -------------------------------
(* Archives of up to three entries, each cut at the end of an entry or in  *)
(* its middle, some with a header that gives another length than the data  *)
(* has, 2^31 and more included, and one with a main class whose name is    *)
(* too long; class files with up to three constants, cut at every length,  *)
(* and some with a false length; an interpreter with two operands, one     *)
(* local and two nested calls.                                             *)
EXTENDS Jvm

CONSTANTS A, B, Long, Text

MCNameLen ==
  [n \in {A, B, Long, Text, Manifest} |-> IF n = Manifest THEN 2 ELSE IF n = Long THEN 3 ELSE 1]
MCCutName == [n \in {Long} |-> A]

Plain(name, extra, stored, descriptor) ==
  [name |-> name, extra |-> extra, comp |-> 1, data |-> 1, stored |-> stored,
   descriptor |-> descriptor, lines |-> <<>>]
Manifests ==
  {[Plain(Manifest, x, st, FALSE) EXCEPT !.lines = l] :
     x \in {0, 1}, st \in BOOLEAN, l \in {<<>>, <<A>>, <<B, A>>, <<None>>}}
Entries ==
  {Plain(n, x, st, FALSE) : n \in {A, B}, x \in {0, 1}, st \in BOOLEAN}
    \cup {Plain(Text, 1, TRUE, FALSE), Plain(A, 0, TRUE, TRUE)}
(* Lengths that lead back into the entry, to its own start, to the start of *)
(* an entry before it, out of the file, and past the largest int.          *)
FalseHeaders ==
  {[e EXCEPT !.comp = c] :
     e \in {Plain(B, 0, TRUE, FALSE), [Plain(Manifest, 0, TRUE, FALSE) EXCEPT !.lines = <<B>>]},
     c \in {0, 2, WORD - 1, WORD - 4, WORD - 5, WORD - 9, WORD - 10, WORD - 15,
            INT_LIM, INT_LIM - 1}}
Archives ==
  {<<m, e>> : m \in Manifests, e \in Entries} \cup {<<e, d>> : e \in Entries, d \in Entries}
    \cup {<<e, m, d>> : m \in Manifests, e \in Entries, d \in Entries}
    \cup {<<e, h, Plain(B, 0, TRUE, FALSE)>> :
             e \in {Plain(A, 1, TRUE, FALSE), Plain(Text, 1, TRUE, FALSE)}, h \in FalseHeaders}
    \cup {<<[Plain(Manifest, 0, TRUE, FALSE) EXCEPT !.lines = <<Long>>],
            Plain(A, 0, TRUE, FALSE), Plain(Long, 0, TRUE, FALSE)>>}
MCJars ==
  {[entries |-> es, size |-> FullSize(es) - cut] : es \in Archives, cut \in {0, 1, 4, 6}}

Attr(len, code_len) == [len |-> len, data |-> len, code_len |-> code_len]
False(a, len) == [a EXCEPT !.len = len]
Consts == {[tag |-> "utf8", len |-> 0], [tag |-> "utf8", len |-> 2],
           [tag |-> "long", len |-> 0], [tag |-> "class", len |-> 0],
           [tag |-> "dynamic", len |-> 0]}
Pools(S, n) == UNION {[1 .. k -> S] : k \in 0 .. n}

ClassOf(pool, fields, methods, attrs) ==
  [pool |-> pool, interfaces |-> 1, fields |-> fields, methods |-> methods,
   attrs |-> attrs, size |-> 0]
CutAt(f, sizes) == {[f EXCEPT !.size = n] : n \in sizes}

MCClassFiles ==
  LET code == <<Attr(9, 1)>>
      short == <<Attr(8, 1)>>
      wide == <<Attr(8, WORD - 1)>>
      end == <<Attr(1, -1)>>
      members == {ClassOf(p, fs, ms, end) :
                    p \in Pools(Consts, 1), fs \in {<<>>, <<code>>},
                    ms \in {<<code>>, <<short>>, <<wide>>, <<short, code>>}}
      pools == {ClassOf(p, <<>>, <<code>>, end) : p \in Pools(Consts, 2) \cup Pools({c \in Consts : c.len > 0 \/ c.tag = "long"}, 3)}
      lens == {0, WORD - 1, WORD - 10, INT_LIM, INT_LIM - 1}
      false == UNION {{ClassOf(<<>>, <<<<False(Attr(1, -1), n)>>>>, <<code>>, end),
                       ClassOf(<<>>, <<>>, <<<<False(Attr(9, 1), n)>>>>, end),
                       ClassOf(<<>>, <<>>, <<code>>, <<False(Attr(1, -1), n)>>)} : n \in lens}
  IN  UNION {CutAt(f, 0 .. FileBytes(f)) : f \in members \cup pools \cup false}
=============================================================================
