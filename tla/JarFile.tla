------------------------------ MODULE JarFile ------------------------------
(***************************************************************************)
(* How src/commands/java.c reads a JAR: it walks the local file headers    *)
(* from the start of the file, finds the manifest, and from it the class   *)
(* to run.  The central directory is never looked at.                      *)
(*                                                                         *)
(* A jar is [entries, size]: what was put into the archive, and how many   *)
(* bytes of it are in the file (a file may be cut).  An entry is           *)
(* [name, extra, comp, data, stored, descriptor, lines]: the length of its *)
(* extra field, the length of its data as the header gives it and as it    *)
(* is, whether the data is uncompressed, whether flag bit 3 is set, and    *)
(* the classes on the Main-Class lines of a manifest.  No data holds the   *)
(* signature of a header.                                                  *)
(***************************************************************************)
EXTENDS Lengths, SequencesExt

CONSTANTS
  HEADER,              \* length of a local file header, 30
  NameLen,             \* length of a name
  CLASS_PATH,          \* length of class_path, 128
  CutName,             \* what class_path holds of a name that is too long
  Manifest,            \* the name META-INF/MANIFEST.MF
  ClassNames           \* the names that end in .class

ASSUME JarAssumption == HEADER \in Nat \ {0}

None == "none"
Endless == -1          \* a walk that goes round for ever
FirstOf(S) == IF S = {} THEN 0 ELSE CHOOSE k \in S : \A j \in S : k <= j

(* How the archive was laid out: where each entry begins, and its data.    *)
EntryLen(e) == HEADER + NameLen[e.name] + e.extra + e.data
Bytes(entries) == Sums([k \in DOMAIN entries |-> EntryLen(entries[k])])
Start(jar, k) == Bytes(jar.entries)[k - 1]
FullSize(entries) == Bytes(entries)[Len(entries)]

(* The local header whose signature is at byte off: 0 if there is none.    *)
HeaderAt(jar, off) ==
  LET at == {k \in DOMAIN jar.entries : Start(jar, k) = off}
  IN  IF at = {} THEN 0 ELSE CHOOSE k \in at : TRUE

(* Mutant: the extra field is not stepped over. *)
NextEntryNoExtra(jar, off) ==
  LET k == HeaderAt(jar, off)
      e == jar.entries[k]
      name_off == off + HEADER
      data_off == name_off + NameLen[e.name]
      next == AsInt(data_off + AsInt(e.comp))
  IN  IF off + HEADER > jar.size \/ k = 0 \/ next > jar.size \/ e.descriptor
      THEN [k |-> 0, next |-> off]
      ELSE [k |-> k, next |-> next]

(* The k-th entry, found at off, and the offset after it, which lies       *)
(* before the entry if the length is negative as an int; k = 0 ends the    *)
(* walk.                                                                   *)
EntryAt(jar, off, k) ==
  LET e == jar.entries[k]
      name_off == off + HEADER
      data_off == name_off + NameLen[e.name] + e.extra
      next == AsInt(data_off + AsInt(e.comp))
  IN  IF \/ off + HEADER > jar.size \/ k = 0
         \/ name_off + NameLen[e.name] > jar.size \/ data_off > jar.size
         \/ next > jar.size
         \/ e.descriptor
      THEN [k |-> 0, next |-> off]
      ELSE [k |-> k, next |-> next]

java_zip_next_entry(jar, off) == EntryAt(jar, off, HeaderAt(jar, off))

(* What each call of java_zip_next_entry in a loop from the start of the   *)
(* file gives: an entry's number and the offset after it, or 0 once it has *)
(* returned false.  One call more than there are entries comes to an entry *)
(* for the second time, or to none.                                        *)
Visits(jar) ==
  LET at[n \in 0 .. (Len(jar.entries) + 1)] ==
        IF n = 0 THEN [k |-> 0, next |-> 0] ELSE java_zip_next_entry(jar, at[n - 1].next)
  IN  at

(* The loop ends with the first call that finds a wanted name, or nothing; *)
(* it goes round for ever if no call does.                                 *)
Ends(jar, call, wanted) == call.k = 0 \/ jar.entries[call.k].name \in wanted

LastCall(jar, wanted) ==
  LET at == Visits(jar)
  IN  FirstOf({n \in 1 .. (Len(jar.entries) + 1) : Ends(jar, at[n], wanted)})

(* The entry found, 0 for none.  Before the start of the file the loop     *)
(* reads what happens to be there: what it finds is open.                  *)
Found(n, call) ==
  IF n = 0 THEN Endless ELSE IF call.k = 0 /\ call.next < 0 THEN Astray ELSE call.k

Walk(jar, wanted) == LET n == LastCall(jar, wanted) IN Found(n, Visits(jar)[n])

java_zip_find_entry(jar, target) == Walk(jar, {target})
java_zip_find_first_class(jar) == Walk(jar, ClassNames)
java_zip_list_entries(jar) == [n \in 1 .. (LastCall(jar, {}) - 1) |-> Visits(jar)[n].k]

(* The first Main-Class line decides, even if it names nothing.            *)
java_manifest_main_class(e) ==
  IF e.comp >= INT_LIM \/ e.lines = <<>> \/ e.lines[1] = None THEN None
  ELSE IF NameLen[e.lines[1]] < CLASS_PATH THEN e.lines[1]
  ELSE CutName[e.lines[1]]

(* java_run_jar up to the class it runs, with the manifest at entry m: the *)
(* class's entry, or 0 on any failure.                                     *)
MainClass(jar, m) ==
  IF m > 0 /\ jar.entries[m].stored THEN java_manifest_main_class(jar.entries[m]) ELSE None

ClassEntry(jar, main) ==
  IF main # None THEN java_zip_find_entry(jar, main) ELSE java_zip_find_first_class(jar)

Runnable(jar, m, k) ==
  IF m < 0 THEN m ELSE IF k < 0 \/ (k > 0 /\ jar.entries[k].stored) THEN k ELSE 0

java_run_jar(jar) ==
  LET m == java_zip_find_entry(jar, Manifest)
  IN  Runnable(jar, m, ClassEntry(jar, MainClass(jar, m)))

(* The classes an invokestatic may still reach in the jar. *)
jvm_load_class_from_jar(jar) ==
  {c \in ClassNames : LET k == java_zip_find_entry(jar, c)
                      IN  k = Astray \/ (k > 0 /\ jar.entries[k].stored)}

-----------------------------------------------------------------------------
(* Headers that tell the length of the data, lengths so far below 2^31     *)
(* that no offset in the file is carried past it, and main classes whose   *)
(* names fit into class_path.                                              *)
WellMade(jar) ==
  \A k \in DOMAIN jar.entries :
    LET e == jar.entries[k]
    IN  /\ e.comp = e.data
        /\ jar.size + e.comp < INT_LIM
        /\ \A i \in DOMAIN e.lines : e.lines[i] # None => NameLen[e.lines[i]] < CLASS_PATH

(* The reference: the entries that are whole and have no data descriptor,  *)
(* up to the first that is not.                                            *)
Readable(jar) ==
  {k \in DOMAIN jar.entries :
     \A j \in 1 .. k : /\ Bytes(jar.entries)[j] <= jar.size
                       /\ ~jar.entries[j].descriptor}

MainEntry(jar) ==
  LET named(S) == FirstOf({k \in Readable(jar) : jar.entries[k].name \in S})
      m == named({Manifest})
      says == m # 0 /\ jar.entries[m].stored /\ jar.entries[m].lines # <<>>
              /\ Head(jar.entries[m].lines) # None
      k == IF says THEN named({Head(jar.entries[m].lines)}) ELSE named(ClassNames)
  IN  IF k # 0 /\ jar.entries[k].stored THEN k ELSE 0
=============================================================================
