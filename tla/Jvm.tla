-------------------------------- MODULE Jvm --------------------------------
(***************************************************************************)
(* The java command of src/commands/java.c: find the file, tell its format *)
(* and run it, as a JAR, a class file or a HeatOS HJAR.                    *)
(*                                                                         *)
(* Of a running program only what the interpreter's bounds depend on is    *)
(* kept: the call frames with their operand stacks and locals.  A value is *)
(* its kind (all integers, null included, are one), and a string carries   *)
(* the class whose constant pool its index is of.  Which instruction comes *)
(* next is left open, so every program is covered; a branch, an iinc or a  *)
(* nop then changes nothing but pc.                                        *)
(***************************************************************************)
EXTENDS JarFile, ClassFile

CONSTANTS
  Jars, ClassFiles,    \* the files there may be
  JVM_STACK_MAX, JVM_LOCALS_MAX, JVM_CALL_DEPTH_MAX,
  ARGV_MAX,            \* length of argv, 8
  HJAR_STACK_MAX,      \* 64
  HjarSize             \* longest HJAR

ASSUME JvmAssumption ==
  {JVM_STACK_MAX, JVM_LOCALS_MAX, JVM_CALL_DEPTH_MAX, ARGV_MAX, HJAR_STACK_MAX, HjarSize}
    \subseteq Nat

(* What the fields of a file can hold. *)
Word == 0 .. (WORD - 1)
Entry == [name : DOMAIN NameLen, extra : Nat, comp : Word, data : Nat, stored : BOOLEAN,
          descriptor : BOOLEAN, lines : Seq(DOMAIN NameLen \cup {None})]
Attribute == [len : Word, data : Nat, code_len : Word \cup {-1}]
Member == Seq(Attribute)

ASSUME FilesAssumption ==
  /\ NameLen \in [DOMAIN NameLen -> Nat]
  /\ \A j \in Jars : j \in [entries : Seq(Entry), size : Nat]
  /\ \A f \in ClassFiles :
       f \in [pool : Seq(Constant), interfaces : Nat, fields : Seq(Member),
              methods : Seq(Member), attrs : Seq(Attribute), size : Nat]

VARIABLES
  phase,               \* what the command is doing; "shell" when it is not running
  jar, chosen, listed, \* the archive, the entry to run, the entries jarinfo shows
  file, parsed,        \* the class file and what the parser made of it
  loadable,            \* classes that invokestatic finds in the jar
  frames,              \* innermost last: [cls, stack, locals, ret, below]
  pc, sp, size         \* of an HJAR

fileVars == <<jar, chosen, listed, file, parsed, loadable>>
hjarVars == <<pc, sp, size>>
vars == <<phase, fileVars, frames, hjarVars>>

NoFile == [entries |-> <<>>, size |-> 0]
NoClass == [pool |-> <<>>, interfaces |-> 0, fields |-> <<>>, methods |-> <<>>,
            attrs |-> <<>>, size |-> 0]

FilesInit ==
  /\ jar = NoFile /\ chosen = 0 /\ listed = <<>>
  /\ file = NoClass /\ parsed = Written(NoClass) /\ loadable = {}

Init == phase = "shell" /\ FilesInit /\ frames = <<>> /\ pc = 0 /\ sp = 0 /\ size = 0

(* The command returns: every buffer was on its stack. *)
End ==
  /\ phase' = "shell"
  /\ jar' = NoFile /\ chosen' = 0 /\ listed' = <<>>
  /\ file' = NoClass /\ parsed' = Written(NoClass) /\ loadable' = {}
  /\ frames' = <<>> /\ pc' = 0 /\ sp' = 0 /\ size' = 0

-----------------------------------------------------------------------------
(* java_resolve_path finds one of the places it looks in to be a file, and *)
(* java_load_file tells the format from the bytes.  Without a file, or if  *)
(* the format is unknown, the commands return.                             *)
java_load_file(formats) == phase' \in formats /\ UNCHANGED <<fileVars, frames, hjarVars>>

cmd_java == phase = "shell" /\ java_load_file({"jar", "class", "hjar"})

(* Of an HJAR or a class file jarinfo prints a few bytes. *)
cmd_jarinfo == phase = "shell" /\ java_load_file({"jarinfo"})

RunJar ==
  /\ phase = "jar" /\ jar = NoFile
  /\ \E j \in Jars :
       /\ jar' = j
       /\ chosen' = java_run_jar(j)
       /\ loadable' = jvm_load_class_from_jar(j)
  /\ UNCHANGED <<phase, listed, file, parsed, frames, hjarVars>>

ListJar ==
  /\ phase = "jarinfo" /\ jar = NoFile
  /\ \E j \in Jars :
       jar' = j /\ listed' = java_zip_list_entries(j) /\ chosen' = Walk(j, {})
  /\ UNCHANGED <<phase, file, parsed, loadable, frames, hjarVars>>

(* A walk that goes round goes on, and one that has gone astray may. *)
SearchOn == chosen \in {Endless, Astray} /\ UNCHANGED vars

ShowJar == phase = "jarinfo" /\ jar # NoFile /\ chosen # Endless /\ End

(* A jar without a class to run, or on to the class. *)
HaveJar ==
  \/ phase = "jar" /\ jar # NoFile /\ chosen \in {0, Astray} /\ End
  \/ /\ phase = "jar" /\ chosen \notin {0, Endless}
     /\ phase' = "class" /\ jar' = NoFile /\ chosen' = 0
     /\ UNCHANGED <<listed, file, parsed, loadable, frames, hjarVars>>

ParseClass ==
  /\ phase = "class"
  /\ \E f \in ClassFiles :
       /\ file' = f /\ parsed' \in jvm_parse_class(f)
  /\ phase' = "parsed"
  /\ UNCHANGED <<jar, chosen, listed, loadable, frames, hjarVars>>

Frame(c, args, ret, below) ==
  [cls |-> c, stack |-> <<>>,
   locals |-> [i \in 1 .. JVM_LOCALS_MAX |-> IF i <= Len(args) THEN args[i] ELSE <<"int">>],
   ret |-> ret, below |-> below]

(* jvm_execute_class_with_rt: a class that was parsed and has a main with  *)
(* code starts; its argument, if it takes one, is null.                    *)
StartMain ==
  \/ /\ phase = "parsed" /\ parsed.ok
     /\ \E i \in DOMAIN parsed.code : parsed.code[i] > 0
     /\ \E c \in ClassNames : frames' = <<Frame(c, <<>>, "V", 0)>>
     /\ phase' = "jvm"
     /\ file' = NoClass /\ parsed' = Written(NoClass)
     /\ UNCHANGED <<jar, chosen, listed, loadable, hjarVars>>
  \/ phase = "parsed" /\ End

-----------------------------------------------------------------------------
(* jvm_exec_method.  Any failure of an instruction makes every call on the *)
(* way out return false: the program ends.                                 *)
Top == frames[Len(frames)]
Depth == Len(Top.stack)
Put(f) == frames' = [frames EXCEPT ![Len(frames)] = f]
Executing == phase = "jvm" /\ UNCHANGED <<phase, fileVars, hjarVars>>

(* Constants, loads, ldc, getstatic and new. *)
Push ==
  /\ Depth < JVM_STACK_MAX
  /\ \E v \in {<<"int">>, <<"string", Top.cls>>, <<"stream">>, <<"object">>}
               \cup {Top.locals[i] : i \in 1 .. JVM_LOCALS_MAX} :
       Put([Top EXCEPT !.stack = Append(@, v)])

Store ==
  /\ Depth >= 1
  /\ \E i \in 1 .. JVM_LOCALS_MAX :
       Put([Top EXCEPT !.locals[i] = Last(Top.stack), !.stack = Front(@)])

(* pop, the branches that take one operand, and those that take two. *)
PopOne == Depth >= 1 /\ Put([Top EXCEPT !.stack = Front(@)])
PopTwo == Depth >= 2 /\ Put([Top EXCEPT !.stack = Front(Front(@))])

(* Mutant: dup looks for an operand and not for room. *)
DupNoRoom == Depth >= 1 /\ Put([Top EXCEPT !.stack = Append(@, Last(@))])

Dup == Depth >= 1 /\ Depth < JVM_STACK_MAX /\ Put([Top EXCEPT !.stack = Append(@, Last(@))])

DupX1 ==
  /\ Depth >= 2 /\ Depth < JVM_STACK_MAX
  /\ Put([Top EXCEPT !.stack = Front(Front(@)) \o <<Last(@), @[Depth - 1], Last(@)>>])

Swap ==
  /\ Depth >= 2
  /\ Put([Top EXCEPT !.stack = Front(Front(@)) \o <<Last(@), @[Depth - 1]>>])

Arithmetic ==
  \/ Depth >= 2 /\ Put([Top EXCEPT !.stack = Append(Front(Front(@)), <<"int">>)])
  \/ Depth >= 1 /\ Put([Top EXCEPT !.stack = Append(Front(@), <<"int">>)])

(* print or println of System.out: the arguments and the stream go. *)
InvokeVirtual ==
  \E argc \in 0 .. 1 :
    /\ Depth >= argc + 1
    /\ Top.stack[Depth - argc] = <<"stream">>
    /\ Put([Top EXCEPT !.stack = SubSeq(@, 1, Depth - argc - 1)])

(* A constructor: nothing but the operands is taken.  The stream's number  *)
(* has the object bit too, and an integer may have it.                     *)
InvokeSpecial ==
  \E argc \in 0 .. ARGV_MAX :
    /\ Depth >= argc + 1
    /\ Top.stack[Depth - argc][1] # "string"
    /\ Put([Top EXCEPT !.stack = SubSeq(@, 1, Depth - argc - 1)])

(* A static method of this class or of one in the jar. *)
InvokeStatic ==
  \E argc \in 0 .. ARGV_MAX, ret \in {"V", "I"}, c \in {Top.cls} \cup loadable :
    LET below == Depth - argc
    IN  /\ argc <= Depth
        /\ Len(frames) <= JVM_CALL_DEPTH_MAX
        /\ frames' = [frames EXCEPT ![Len(frames)].stack = SubSeq(@, 1, below)]
                       \o <<Frame(c, SubSeq(Top.stack, below + 1, Depth), ret, below)>>

(* Mutant: the caller gets a value whenever the method returned one. *)
GiveBackAny(has_ret, v) ==
  LET caller == frames[Len(frames) - 1]
  IN  /\ has_ret => Len(caller.stack) < JVM_STACK_MAX
      /\ frames' = [Front(frames) EXCEPT ![Len(frames) - 1].stack =
                      IF has_ret THEN Append(@, v) ELSE @]

(* The value goes to the caller if its descriptor says that there is one.  *)
GiveBack(has_ret, v) ==
  LET caller == frames[Len(frames) - 1]
  IN  /\ Top.ret # "V" => has_ret /\ Len(caller.stack) < JVM_STACK_MAX
      /\ frames' = [Front(frames) EXCEPT ![Len(frames) - 1].stack =
                      IF Top.ret # "V" THEN Append(@, v) ELSE @]

Return ==
  /\ Len(frames) > 1
  /\ \/ Depth >= 1 /\ GiveBack(TRUE, Last(Top.stack))
     \/ GiveBack(FALSE, <<"int">>)

Instruction ==
  /\ Executing
  /\ \/ Push \/ Store \/ PopOne \/ PopTwo \/ Dup \/ DupX1 \/ Swap \/ Arithmetic
     \/ InvokeVirtual \/ InvokeSpecial \/ InvokeStatic \/ Return

(* main returns, or an instruction fails: a missing operand, a full stack, *)
(* a bad index, an unknown opcode, a method not found, calls too deep.     *)
ProgramEnds == phase = "jvm" /\ End

-----------------------------------------------------------------------------
(* java_hjar_exec. *)
StartHjar ==
  /\ phase = "hjar" /\ size = 0
  /\ size' \in 5 .. HjarSize /\ pc' = 5 /\ sp' = 0
  /\ UNCHANGED <<phase, fileVars, frames>>

HjarLiteral ==
  /\ pc + 1 < size
  /\ \E n \in 0 .. (size - pc - 2) : pc' = pc + 2 + n
  /\ UNCHANGED <<sp, size>>

HjarStep ==
  /\ phase = "hjar" /\ pc < size
  /\ \/ pc + 1 < size /\ sp < HJAR_STACK_MAX /\ pc' = pc + 2 /\ sp' = sp + 1 /\ UNCHANGED size
     \/ sp >= 2 /\ pc' = pc + 1 /\ sp' = sp - 1 /\ UNCHANGED size
     \/ sp >= 1 /\ pc' = pc + 1 /\ sp' = sp - 1 /\ UNCHANGED size
     \/ HjarLiteral
  /\ UNCHANGED <<phase, fileVars, frames>>

(* A return, the end of the file, or any failure. *)
HjarEnds == phase = "hjar" /\ size # 0 /\ End

Next ==
  \/ cmd_java \/ cmd_jarinfo \/ RunJar \/ ListJar \/ SearchOn \/ ShowJar \/ HaveJar
  \/ ParseClass \/ StartMain
  \/ Instruction \/ ProgramEnds \/ StartHjar \/ HjarStep \/ HjarEnds

Spec == Init /\ [][Next]_vars

-----------------------------------------------------------------------------
(* The walk over local headers comes to the right entries: java runs the   *)
(* class the manifest names, or without one the first class, of what can   *)
(* be read of the jar, and jarinfo lists exactly that, for archives with   *)
(* extra fields, compressed entries, data descriptors and missing ends, as *)
(* long as the headers are well made.  With others the walk may go back,   *)
(* round for ever, or out of the file.                                     *)
ReadsJar ==
  WellMade(jar) =>
    /\ phase = "jar" /\ jar # NoFile => chosen = MainEntry(jar)
    /\ phase = "jarinfo" => ToSet(listed) = Readable(jar) /\ chosen = 0

(* A class file whose attributes give their lengths is accepted exactly if *)
(* nothing of it is missing, and in every file that is accepted each       *)
(* constant is at the index the compiler gave it, after any longs and      *)
(* doubles.                                                                *)
ParsesAsWritten ==
  phase = "parsed" =>
    /\ TrueLengths(file) => parsed.ok = Written(file).ok
    /\ parsed.ok => parsed.cp = Written(file).cp

(* No operand stack or HJAR stack is left, and calls never nest deeper     *)
(* than the kernel's own stack was meant to hold.                          *)
ArraysInBounds ==
  /\ \A i \in DOMAIN frames : Len(frames[i].stack) <= JVM_STACK_MAX
  /\ Len(frames) <= JVM_CALL_DEPTH_MAX + 1
  /\ sp \in 0 .. HJAR_STACK_MAX /\ pc <= size

(* A call takes its arguments and leaves what its descriptor promises,     *)
(* whichever return instruction the method used.                           *)
CallsBalance ==
  [][\A n \in DOMAIN frames :
       (Len(frames) = n /\ Len(frames') = n - 1 /\ n > 1) =>
         Len(frames'[n - 1].stack) = Top.below + (IF Top.ret = "V" THEN 0 ELSE 1)]_frames
=============================================================================
