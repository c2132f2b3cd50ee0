----------------------------- MODULE JvmProofs -----------------------------
(***************************************************************************)
(* The java command, for every file and every program: the walk over a JAR *)
(* comes to the entries it should (JarsRead), a class file is parsed as it *)
(* was written (ClassesParsed), no instruction leaves an array             *)
(* (StacksBounded), and a call leaves on its caller's stack what its       *)
(* descriptor says (CallsBalanced).                                        *)
(***************************************************************************)
EXTENDS Jvm, WellFoundedInduction, TLAPS

(* A non-empty set of natural numbers has a least element. *)
LEMMA LeastOfNats ==
  ASSUME NEW S \in SUBSET Nat, S # {}
  PROVE  \E x \in S : \A y \in S : x <= y
<1>. DEFINE R == OpToRel(<, Nat)
<1>1. IsWellFoundedOn(R, Nat)
  BY NatLessThanWellFounded
<1>2. \A a, b \in Nat : a < b => <<a, b>> \in R
  BY DEF OpToRel
<1>. HIDE DEF R
<1>3. PICK x \in S : \A y \in S : ~ (<<y, x>> \in R)
  BY <1>1, WFMin
<1>4. \A y \in S : ~(y < x) /\ y \in Nat /\ x \in Nat
  BY <1>2, <1>3
<1>. QED
  BY <1>3, <1>4

(* Induction on a bounded number. *)
LEMMA Climb ==
  ASSUME NEW n \in Nat, NEW S, 0 \in S,
         \A k \in 0 .. (n - 1) : k \in S => k + 1 \in S
  PROVE  \A k \in 0 .. n : k \in S
<1>. DEFINE T == {k \in 0 .. n : k \notin S}
<1>. SUFFICES ASSUME T # {} PROVE FALSE
  OBVIOUS
<1>1. T \in SUBSET Nat
  OBVIOUS
<1>2. PICK m \in T : \A y \in T : m <= y
  <2>. HIDE DEF T
  <2>. QED
    BY <1>1, LeastOfNats
<1>3. m \in 1 .. n
  BY <1>2
<1>4. m - 1 \in 0 .. (n - 1) /\ m - 1 \in 0 .. n /\ (m - 1) + 1 = m /\ ~(m <= m - 1)
  BY <1>3
<1>5. m - 1 \notin T
  BY <1>2, <1>4
<1>6. m - 1 \in S
  BY <1>4, <1>5
<1>. QED
  BY <1>2, <1>4, <1>6

(* A loop of n turns, the k-th of which takes x to turn[k][x], has a       *)
(* sequence of states.                                                     *)
LoopBodies(n, X) == [1 .. n -> [X -> X]]
LoopStates(r, n, X, x0, turn) ==
  /\ r \in [0 .. n -> X] /\ r[0] = x0
  /\ \A k \in 1 .. n : r[k] = turn[k][r[k - 1]]

LEMMA Turns ==
  ASSUME NEW n \in Nat, NEW X, NEW x0, x0 \in X, NEW turn, turn \in LoopBodies(n, X)
  PROVE  \E r : LoopStates(r, n, X, x0, turn)
<1>. USE DEF LoopBodies
<1>. DEFINE Run(r, m) == /\ r \in [0 .. m -> X] /\ r[0] = x0
                         /\ \A k \in 1 .. m : r[k] = turn[k][r[k - 1]]
            S == {m \in 0 .. n : \E r : Run(r, m)}
<1>1. 0 \in S
  <2>. DEFINE r == [k \in 0 .. 0 |-> x0]
  <2>1. Run(r, 0)
    OBVIOUS
  <2>. HIDE DEF Run
  <2>. QED
    BY <2>1
<1>2. ASSUME NEW m \in 0 .. (n - 1), m \in S
      PROVE  m + 1 \in S
  <2>1. PICK r : Run(r, m)
    BY <1>2
  <2>. DEFINE y == turn[m + 1][r[m]]
              q == [k \in 0 .. (m + 1) |-> IF k = m + 1 THEN y ELSE r[k]]
  <2>2. m + 1 \in 1 .. n /\ m \in 0 .. m /\ r[m] \in X
    BY <2>1
  <2>3. y \in X
    BY <2>2
  <2>. HIDE DEF y
  <2>4. q \in [0 .. (m + 1) -> X] /\ q[0] = x0
    BY <2>1, <2>3
  <2>5. ASSUME NEW k \in 1 .. (m + 1) PROVE q[k] = turn[k][q[k - 1]]
    <3>1. CASE k = m + 1
      <4>1. k - 1 = m /\ q[k] = y /\ q[m] = r[m]
        BY <3>1
      <4>. QED
        BY <3>1, <4>1 DEF y
    <3>2. CASE k # m + 1
      <4>1. k \in 1 .. m /\ q[k] = r[k] /\ q[k - 1] = r[k - 1]
        BY <3>2
      <4>. QED
        BY <2>1, <4>1
    <3>. QED
      BY <3>1, <3>2
  <2>. HIDE DEF q
  <2>6. Run(q, m + 1)
    BY <2>4, <2>5
  <2>. HIDE DEF Run
  <2>. QED
    BY <2>2, <2>6
<1>3. n \in S
  <2>. HIDE DEF S
  <2>1. \A k \in 0 .. n : k \in S
    BY <1>1, <1>2, Climb
  <2>. QED
    BY <2>1
<1>. QED
  BY <1>3 DEF LoopStates

-----------------------------------------------------------------------------
(* Sums. *)

LEMMA SumsFacts ==
  ASSUME NEW w \in Seq(Nat)
  PROVE  /\ Sums(w) \in [0 .. Len(w) -> Nat] /\ Sums(w)[0] = 0
         /\ \A k \in 1 .. Len(w) : Sums(w)[k] = Sums(w)[k - 1] + w[k]
<1>. DEFINE n == Len(w)
            Rec(s) == s = [k \in 0 .. n |-> IF k = 0 THEN 0 ELSE s[k - 1] + w[k]]
            turn == [k \in 1 .. n |-> [x \in Nat |-> x + w[k]]]
<1>1. n \in Nat /\ 0 \in Nat
  OBVIOUS
<1>2. \A k \in 1 .. n : w[k] \in Nat
  OBVIOUS
<1>3. turn \in [1 .. n -> [Nat -> Nat]]
  BY <1>2
<1>4. \A k \in 1 .. n, x \in Nat : turn[k][x] = x + w[k]
  OBVIOUS
<1>5. PICK r \in [0 .. n -> Nat] : r[0] = 0 /\ \A k \in 1 .. n : r[k] = turn[k][r[k - 1]]
  <2>1. turn \in LoopBodies(n, Nat)
    BY <1>3 DEF LoopBodies
  <2>2. \E r : LoopStates(r, n, Nat, 0, turn)
    <3>. HIDE DEF n, turn
    <3>. QED
      BY <1>1, <2>1, Turns
  <2>. QED
    BY <2>2 DEF LoopStates
<1>. HIDE DEF turn, n
<1>6. Rec(r)
  <2>1. ASSUME NEW k \in 0 .. n PROVE r[k] = IF k = 0 THEN 0 ELSE r[k - 1] + w[k]
    <3>1. CASE k # 0
      <4>1. k \in 1 .. n /\ k - 1 \in 0 .. n
        BY <1>1, <3>1
      <4>. QED
        BY <1>4, <1>5, <3>1, <4>1
    <3>. QED
      BY <1>5, <3>1
  <2>2. r = [k \in 0 .. n |-> r[k]]
    BY <1>5
  <2>. QED
    BY <2>1, <2>2
<1>7. Sums(w) = CHOOSE s : Rec(s)
  BY DEF Sums, n
<1>8. Rec(Sums(w))
  <2>. HIDE DEF Rec
  <2>. QED
    BY <1>6, <1>7
<1>. DEFINE s == Sums(w)
<1>9. s = [k \in 0 .. n |-> IF k = 0 THEN 0 ELSE s[k - 1] + w[k]]
  BY <1>8
<1>. HIDE DEF s, Rec
<1>10. s[0] = 0 /\ \A k \in 1 .. n : s[k] = s[k - 1] + w[k]
  <2>1. 0 \in 0 .. n /\ \A k \in 1 .. n : k \in 0 .. n /\ k # 0
    BY <1>1
  <2>. QED
    BY <1>9, <2>1
<1>11. \A k \in 0 .. n : k \in {j \in 0 .. n : s[j] \in Nat}
  <2>. DEFINE S == {j \in 0 .. n : s[j] \in Nat}
  <2>1. 0 \in S
    BY <1>1, <1>10
  <2>2. ASSUME NEW k \in 0 .. (n - 1), k \in S PROVE k + 1 \in S
    <3>1. k + 1 \in 1 .. n /\ (k + 1) - 1 = k /\ s[k] \in Nat
      BY <1>1, <2>2
    <3>2. s[k + 1] = s[k] + w[k + 1]
      BY <1>10, <3>1
    <3>. QED
      BY <1>2, <3>1, <3>2
  <2>. HIDE DEF S
  <2>. QED
    BY <1>1, <2>1, <2>2, Climb DEF S
<1>. QED
  BY <1>9, <1>10, <1>11 DEF s, n

-----------------------------------------------------------------------------
(* The interpreter. *)

Val == {<<"int">>, <<"stream">>, <<"object">>} \cup {<<"string", c>> : c \in ClassNames}
FrameSet == [cls : ClassNames, stack : Seq(Val), locals : [1 .. JVM_LOCALS_MAX -> Val],
             ret : {"V", "I"}, below : Nat]

(* Each frame's stack is in bounds, and a caller's stack has kept the      *)
(* height at which the call left it.                                       *)
FramesOk(fr) ==
  /\ fr \in Seq(FrameSet) /\ Len(fr) \in 1 .. (JVM_CALL_DEPTH_MAX + 1)
  /\ \A i \in 1 .. Len(fr) : Len(fr[i].stack) <= JVM_STACK_MAX
  /\ \A i \in 1 .. (Len(fr) - 1) : Len(fr[i].stack) = fr[i + 1].below

JvmInv ==
  /\ loadable \subseteq ClassNames
  /\ IF phase = "jvm" THEN FramesOk(frames) ELSE frames = <<>>
  /\ pc \in Nat /\ size \in Nat /\ pc <= size /\ sp \in 0 .. HJAR_STACK_MAX

LEMMA Bounds ==
  /\ JVM_STACK_MAX \in Nat /\ JVM_LOCALS_MAX \in Nat /\ JVM_CALL_DEPTH_MAX \in Nat
  /\ ARGV_MAX \in Nat /\ HJAR_STACK_MAX \in Nat /\ HjarSize \in Nat
BY JvmAssumption

LEMMA SubSeqFacts ==
  ASSUME NEW X, NEW s \in Seq(X), NEW a \in 1 .. (Len(s) + 1), NEW b \in 0 .. Len(s), a <= b + 1
  PROVE  SubSeq(s, a, b) \in Seq(X) /\ Len(SubSeq(s, a, b)) = b - a + 1
<1>1. \A i \in a .. b : s[i] \in X
  OBVIOUS
<1>. QED
  BY <1>1

LEMMA FrontFacts ==
  ASSUME NEW X, NEW s \in Seq(X), Len(s) >= 1
  PROVE  /\ Front(s) \in Seq(X) /\ Len(Front(s)) = Len(s) - 1 /\ Last(s) \in X
         /\ \A i \in 1 .. (Len(s) - 1) : Front(s)[i] = s[i]
<1>1. Len(s) \in Nat /\ 1 \in 1 .. (Len(s) + 1) /\ Len(s) - 1 \in 0 .. Len(s) /\ Len(s) \in 1 .. Len(s)
  OBVIOUS
<1>2. SubSeq(s, 1, Len(s) - 1) \in Seq(X) /\ Len(SubSeq(s, 1, Len(s) - 1)) = Len(s) - 1
  <2>. DEFINE b == Len(s) - 1
  <2>1. b \in 0 .. Len(s) /\ 1 <= b + 1 /\ b - 1 + 1 = b
    BY <1>1
  <2>. HIDE DEF b
  <2>2. SubSeq(s, 1, b) \in Seq(X) /\ Len(SubSeq(s, 1, b)) = b - 1 + 1
    BY <1>1, <2>1, SubSeqFacts
  <2>. QED
    BY <2>1, <2>2 DEF b
<1>3. \A i \in 1 .. (Len(s) - 1) : SubSeq(s, 1, Len(s) - 1)[i] = s[i]
  BY <1>1
<1>. QED
  BY <1>1, <1>2, <1>3 DEF Front, Last

LEMMA PutFacts ==
  ASSUME NEW X, NEW s \in Seq(X), NEW i \in 1 .. Len(s), NEW x \in X
  PROVE  LET r == [s EXCEPT ![i] = x]
         IN  /\ r \in Seq(X) /\ Len(r) = Len(s) /\ r[i] = x
             /\ \A j \in 1 .. Len(s) : j # i => r[j] = s[j]
OBVIOUS

LEMMA AndOneFacts ==
  ASSUME NEW X, NEW s \in Seq(X), NEW x \in X
  PROVE  LET r == s \o <<x>>
         IN  /\ r \in Seq(X) /\ Len(r) = Len(s) + 1 /\ r[Len(s) + 1] = x
             /\ \A j \in 1 .. Len(s) : r[j] = s[j]
<1>1. <<x>> \in Seq(X) /\ Len(<<x>>) = 1 /\ <<x>>[1] = x
  OBVIOUS
<1>. QED
  BY <1>1

LEMMA FrontTwice ==
  ASSUME NEW X, NEW s \in Seq(X), Len(s) >= 2
  PROVE  Front(Front(s)) \in Seq(X) /\ Len(Front(Front(s))) = Len(s) - 2
<1>1. Front(s) \in Seq(X) /\ Len(Front(s)) = Len(s) - 1 /\ Len(s) \in Nat
  BY FrontFacts
<1>2. Len(Front(s)) >= 1
  BY <1>1
<1>3. Front(Front(s)) \in Seq(X) /\ Len(Front(Front(s))) = Len(Front(s)) - 1
  BY <1>1, <1>2, FrontFacts
<1>. QED
  BY <1>1, <1>3

LEMMA FrameParts ==
  ASSUME NEW f \in FrameSet
  PROVE  /\ f.cls \in ClassNames /\ f.stack \in Seq(Val) /\ f.locals \in [1 .. JVM_LOCALS_MAX -> Val]
         /\ f.ret \in {"V", "I"} /\ f.below \in Nat /\ Len(f.stack) \in Nat
BY DEF FrameSet

LEMMA TopFacts ==
  ASSUME FramesOk(frames)
  PROVE  /\ Len(frames) \in Nat /\ Len(frames) \in 1 .. Len(frames) /\ Len(frames) >= 1
         /\ Top \in FrameSet /\ Depth \in Nat /\ Depth <= JVM_STACK_MAX
         /\ Top.stack \in Seq(Val) /\ Depth = Len(Top.stack)
<1>1. /\ Len(frames) \in Nat /\ Len(frames) \in 1 .. Len(frames) /\ Len(frames) >= 1
      /\ frames[Len(frames)] \in FrameSet
  BY Bounds DEF FramesOk
<1>2. Len(Top.stack) <= JVM_STACK_MAX
  BY <1>1 DEF FramesOk, Top
<1>. QED
  BY <1>1, <1>2, FrameParts DEF Top, Depth

(* An instruction that changes its own frame. *)
LEMMA PutKeeps ==
  ASSUME FramesOk(frames), NEW s \in Seq(Val), Len(s) <= JVM_STACK_MAX,
         NEW l \in [1 .. JVM_LOCALS_MAX -> Val],
         Put([Top EXCEPT !.locals = l, !.stack = s])
  PROVE  FramesOk(frames') /\ Len(frames') = Len(frames)
<1>. DEFINE n == Len(frames)
            f == [Top EXCEPT !.locals = l, !.stack = s]
<1>1. n \in Nat /\ n >= 1 /\ Top \in FrameSet /\ Top = frames[n] /\ n \in 1 .. n
  BY TopFacts DEF Top
<1>2. f \in FrameSet /\ f.stack = s /\ f.below = Top.below
  BY <1>1 DEF FrameSet
<1>3. frames' = [frames EXCEPT ![n] = f]
  BY DEF Put
<1>4. frames \in Seq(FrameSet)
  BY DEF FramesOk
<1>. HIDE DEF f
<1>5. /\ frames' \in Seq(FrameSet) /\ Len(frames') = n /\ frames'[n] = f
      /\ \A i \in 1 .. n : i # n => frames'[i] = frames[i]
  BY <1>1, <1>2, <1>3, <1>4
<1>6. \A i \in 1 .. n : Len(frames'[i].stack) <= JVM_STACK_MAX
  BY <1>2, <1>5 DEF FramesOk
<1>7. ASSUME NEW i \in 1 .. (n - 1)
      PROVE  Len(frames'[i].stack) = frames'[i + 1].below
  <2>1. i \in 1 .. n /\ i # n /\ i + 1 \in 1 .. n
    BY <1>1
  <2>2. frames'[i] = frames[i] /\ Len(frames[i].stack) = frames[i + 1].below
    BY <1>5, <2>1 DEF FramesOk
  <2>3. frames'[i + 1].below = frames[i + 1].below
    BY <1>1, <1>2, <1>5, <2>1
  <2>. QED
    BY <2>2, <2>3
<1>. QED
  BY <1>5, <1>6, <1>7 DEF FramesOk

LEMMA PutStackKeeps ==
  ASSUME FramesOk(frames), NEW s \in Seq(Val), Len(s) <= JVM_STACK_MAX,
         Put([Top EXCEPT !.stack = s])
  PROVE  FramesOk(frames') /\ Len(frames') = Len(frames)
<1>1. Top \in FrameSet
  BY TopFacts
<1>2. Top.locals \in [1 .. JVM_LOCALS_MAX -> Val]
  BY <1>1, FrameParts
<1>3. [Top EXCEPT !.stack = s] = [Top EXCEPT !.locals = Top.locals, !.stack = s]
  BY <1>1 DEF FrameSet
<1>4. Put([Top EXCEPT !.locals = Top.locals, !.stack = s])
  BY <1>3 DEF Put
<1>. QED
  BY <1>2, <1>4, PutKeeps

LEMMA ValueFacts ==
  ASSUME FramesOk(frames)
  PROVE  /\ <<"int">> \in Val /\ <<"string", Top.cls>> \in Val /\ <<"stream">> \in Val
         /\ <<"object">> \in Val /\ \A i \in 1 .. JVM_LOCALS_MAX : Top.locals[i] \in Val
<1>1. Top.cls \in ClassNames /\ Top.locals \in [1 .. JVM_LOCALS_MAX -> Val]
  BY TopFacts, FrameParts
<1>. QED
  BY <1>1 DEF Val

LEMMA PushKeeps ==
  ASSUME FramesOk(frames), Push
  PROVE  FramesOk(frames') /\ Len(frames') = Len(frames)
<1>1. PICK v \in Val : Put([Top EXCEPT !.stack = Append(@, v)])
  BY ValueFacts DEF Push
<1>. DEFINE s == Append(Top.stack, v)
<1>2. s \in Seq(Val) /\ Len(s) = Depth + 1 /\ Depth < JVM_STACK_MAX
  BY TopFacts DEF Push
<1>3. Len(s) <= JVM_STACK_MAX
  BY <1>2, TopFacts, Bounds
<1>4. Put([Top EXCEPT !.stack = s])
  BY <1>1
<1>. HIDE DEF s
<1>. QED
  BY <1>2, <1>3, <1>4, PutStackKeeps

LEMMA StoreKeeps ==
  ASSUME FramesOk(frames), Store
  PROVE  FramesOk(frames') /\ Len(frames') = Len(frames)
<1>1. PICK i \in 1 .. JVM_LOCALS_MAX :
        Put([Top EXCEPT !.locals[i] = Last(Top.stack), !.stack = Front(@)])
  BY DEF Store
<1>. DEFINE s == Front(Top.stack)
            l == [Top.locals EXCEPT ![i] = Last(Top.stack)]
<1>2. Len(Top.stack) >= 1 /\ Top.stack \in Seq(Val) /\ Top \in FrameSet
  BY TopFacts DEF Store
<1>3. s \in Seq(Val) /\ Len(s) = Depth - 1 /\ Last(Top.stack) \in Val
  BY <1>2, FrontFacts, TopFacts
<1>4. l \in [1 .. JVM_LOCALS_MAX -> Val]
  BY <1>2, <1>3, FrameParts
<1>5. Len(s) <= JVM_STACK_MAX
  BY <1>3, TopFacts, Bounds
<1>6. [Top EXCEPT !.locals[i] = Last(Top.stack), !.stack = Front(@)]
        = [Top EXCEPT !.locals = l, !.stack = s]
  BY <1>2 DEF FrameSet
<1>7. Put([Top EXCEPT !.locals = l, !.stack = s])
  BY <1>1, <1>6
<1>. HIDE DEF s, l
<1>. QED
  BY <1>3, <1>4, <1>5, <1>7, PutKeeps

LEMMA PopKeeps ==
  ASSUME FramesOk(frames), PopOne \/ PopTwo
  PROVE  FramesOk(frames') /\ Len(frames') = Len(frames)
<1>1. Top.stack \in Seq(Val) /\ Depth = Len(Top.stack) /\ Depth \in Nat /\ Depth <= JVM_STACK_MAX
  BY TopFacts
<1>2. CASE PopOne
  <2>. DEFINE s == Front(Top.stack)
  <2>1. Put([Top EXCEPT !.stack = s]) /\ Depth >= 1
    BY <1>2 DEF PopOne
  <2>2. s \in Seq(Val) /\ Len(s) = Depth - 1
    BY <1>1, <2>1, FrontFacts
  <2>3. Len(s) <= JVM_STACK_MAX
    BY <1>1, <2>2, Bounds
  <2>. HIDE DEF s
  <2>. QED
    BY <2>1, <2>2, <2>3, PutStackKeeps
<1>3. CASE PopTwo
  <2>. DEFINE s == Front(Front(Top.stack))
  <2>1. Put([Top EXCEPT !.stack = s]) /\ Depth >= 2
    BY <1>3 DEF PopTwo
  <2>2. s \in Seq(Val) /\ Len(s) = Depth - 2
    BY <1>1, <2>1, FrontTwice
  <2>3. Len(s) <= JVM_STACK_MAX
    BY <1>1, <2>2, Bounds
  <2>. HIDE DEF s
  <2>. QED
    BY <2>1, <2>2, <2>3, PutStackKeeps
<1>. QED
  BY <1>2, <1>3

LEMMA ConcatFacts ==
  ASSUME NEW X, NEW s \in Seq(X), NEW r \in Seq(X)
  PROVE  s \o r \in Seq(X) /\ Len(s \o r) = Len(s) + Len(r)
OBVIOUS

LEMMA DupKeeps ==
  ASSUME FramesOk(frames), Dup \/ DupX1 \/ Swap
  PROVE  FramesOk(frames') /\ Len(frames') = Len(frames)
<1>. DEFINE t == Top.stack
<1>1. t \in Seq(Val) /\ Depth = Len(t) /\ Depth \in Nat /\ Depth <= JVM_STACK_MAX /\ Depth >= 1
  BY TopFacts DEF Dup, DupX1, Swap
<1>2. Last(t) \in Val
  BY <1>1, FrontFacts
<1>3. CASE Dup
  <2>. DEFINE s == Append(t, Last(t))
  <2>1. Put([Top EXCEPT !.stack = s]) /\ Depth < JVM_STACK_MAX
    BY <1>3 DEF Dup
  <2>2. s \in Seq(Val) /\ Len(s) = Depth + 1
    BY <1>1, <1>2
  <2>3. Len(s) <= JVM_STACK_MAX
    BY <1>1, <2>1, <2>2, Bounds
  <2>. HIDE DEF s
  <2>. QED
    BY <2>1, <2>2, <2>3, PutStackKeeps
<1>4. CASE DupX1
  <2>. DEFINE r == <<Last(t), t[Depth - 1], Last(t)>>
              s == Front(Front(t)) \o r
  <2>1. Put([Top EXCEPT !.stack = s]) /\ Depth < JVM_STACK_MAX /\ Depth >= 2
    BY <1>4 DEF DupX1
  <2>2. t[Depth - 1] \in Val
    BY <1>1, <2>1
  <2>3. r \in Seq(Val) /\ Len(r) = 3
    BY <1>2, <2>2
  <2>4. Front(Front(t)) \in Seq(Val) /\ Len(Front(Front(t))) = Depth - 2
    BY <1>1, <2>1, FrontTwice
  <2>. HIDE DEF r
  <2>5. s \in Seq(Val) /\ Len(s) = (Depth - 2) + 3
    BY <2>3, <2>4, ConcatFacts
  <2>6. Len(s) <= JVM_STACK_MAX
    BY <1>1, <2>1, <2>5, Bounds
  <2>. HIDE DEF s
  <2>. QED
    BY <2>1, <2>5, <2>6, PutStackKeeps
<1>5. CASE Swap
  <2>. DEFINE r == <<Last(t), t[Depth - 1]>>
              s == Front(Front(t)) \o r
  <2>1. Put([Top EXCEPT !.stack = s]) /\ Depth >= 2
    BY <1>5 DEF Swap
  <2>2. t[Depth - 1] \in Val
    BY <1>1, <2>1
  <2>3. r \in Seq(Val) /\ Len(r) = 2
    BY <1>2, <2>2
  <2>4. Front(Front(t)) \in Seq(Val) /\ Len(Front(Front(t))) = Depth - 2
    BY <1>1, <2>1, FrontTwice
  <2>. HIDE DEF r
  <2>5. s \in Seq(Val) /\ Len(s) = (Depth - 2) + 2
    BY <2>3, <2>4, ConcatFacts
  <2>6. Len(s) <= JVM_STACK_MAX
    BY <1>1, <2>1, <2>5, Bounds
  <2>. HIDE DEF s
  <2>. QED
    BY <2>1, <2>5, <2>6, PutStackKeeps
<1>. QED
  BY <1>3, <1>4, <1>5

LEMMA ArithmeticKeeps ==
  ASSUME FramesOk(frames), Arithmetic
  PROVE  FramesOk(frames') /\ Len(frames') = Len(frames)
<1>. DEFINE t == Top.stack
            i == <<"int">>
<1>1. t \in Seq(Val) /\ Depth = Len(t) /\ Depth \in Nat /\ Depth <= JVM_STACK_MAX
  BY TopFacts
<1>2. i \in Val
  BY ValueFacts
<1>3. CASE Depth >= 2 /\ Put([Top EXCEPT !.stack = Append(Front(Front(@)), <<"int">>)])
  <2>. DEFINE s == Append(Front(Front(t)), i)
  <2>1. Put([Top EXCEPT !.stack = s])
    BY <1>3
  <2>2. Front(Front(t)) \in Seq(Val) /\ Len(Front(Front(t))) = Depth - 2
    BY <1>1, <1>3, FrontTwice
  <2>3. s \in Seq(Val) /\ Len(s) = (Depth - 2) + 1
    BY <1>2, <2>2
  <2>4. Len(s) <= JVM_STACK_MAX
    BY <1>1, <2>3, Bounds
  <2>. HIDE DEF s
  <2>. QED
    BY <2>1, <2>3, <2>4, PutStackKeeps
<1>4. CASE Depth >= 1 /\ Put([Top EXCEPT !.stack = Append(Front(@), <<"int">>)])
  <2>. DEFINE s == Append(Front(t), i)
  <2>1. Put([Top EXCEPT !.stack = s])
    BY <1>4
  <2>2. Front(t) \in Seq(Val) /\ Len(Front(t)) = Depth - 1
    BY <1>1, <1>4, FrontFacts
  <2>3. s \in Seq(Val) /\ Len(s) = (Depth - 1) + 1
    BY <1>2, <2>2
  <2>4. Len(s) <= JVM_STACK_MAX
    BY <1>1, <2>3, Bounds
  <2>. HIDE DEF s
  <2>. QED
    BY <2>1, <2>3, <2>4, PutStackKeeps
<1>. QED
  BY <1>3, <1>4 DEF Arithmetic

LEMMA InvokeKeeps ==
  ASSUME FramesOk(frames), InvokeVirtual \/ InvokeSpecial
  PROVE  FramesOk(frames') /\ Len(frames') = Len(frames)
<1>1. Top.stack \in Seq(Val) /\ Depth = Len(Top.stack) /\ Depth \in Nat /\ Depth <= JVM_STACK_MAX
  BY TopFacts
<1>2. PICK argc \in Nat : /\ Depth >= argc + 1
                          /\ Put([Top EXCEPT !.stack = SubSeq(@, 1, Depth - argc - 1)])
  <2>1. \A a \in 0 .. ARGV_MAX : a \in Nat
    BY Bounds
  <2>2. \A a \in 0 .. 1 : a \in Nat
    OBVIOUS
  <2>3. CASE InvokeVirtual
    BY <2>2, <2>3 DEF InvokeVirtual
  <2>4. CASE InvokeSpecial
    BY <2>1, <2>4 DEF InvokeSpecial
  <2>. QED
    BY <2>3, <2>4
<1>. DEFINE b == Depth - argc - 1
            s == SubSeq(Top.stack, 1, b)
<1>3. b \in 0 .. Len(Top.stack) /\ 1 \in 1 .. (Len(Top.stack) + 1) /\ 1 <= b + 1 /\ b <= Depth
  BY <1>1, <1>2
<1>4. Put([Top EXCEPT !.stack = s])
  BY <1>2
<1>. HIDE DEF b
<1>5. s \in Seq(Val) /\ Len(s) = b - 1 + 1
  BY <1>1, <1>3, SubSeqFacts
<1>6. Len(s) <= JVM_STACK_MAX
  BY <1>1, <1>3, <1>5, Bounds
<1>. HIDE DEF s
<1>. QED
  BY <1>4, <1>5, <1>6, PutStackKeeps

(* A call: the caller keeps what lies below the arguments. *)
LEMMA CallKeeps ==
  ASSUME FramesOk(frames), loadable \subseteq ClassNames, InvokeStatic
  PROVE  FramesOk(frames') /\ Len(frames') = Len(frames) + 1
<1>. DEFINE n == Len(frames)
            t == Top.stack
<1>1. PICK argc \in 0 .. ARGV_MAX, ret \in {"V", "I"}, c \in {Top.cls} \cup loadable :
        /\ argc <= Depth /\ n <= JVM_CALL_DEPTH_MAX
        /\ frames' = [frames EXCEPT ![n].stack = SubSeq(@, 1, Depth - argc)]
                       \o <<Frame(c, SubSeq(t, (Depth - argc) + 1, Depth), ret, Depth - argc)>>
  BY DEF InvokeStatic
<1>. DEFINE b == Depth - argc
            s == SubSeq(t, 1, b)
            args == SubSeq(t, b + 1, Depth)
            g == Frame(c, args, ret, b)
            f == [Top EXCEPT !.stack = s]
            fr == [frames EXCEPT ![n] = f]
<1>2. /\ n \in Nat /\ n >= 1 /\ n \in 1 .. n /\ Top \in FrameSet /\ Top = frames[n]
      /\ t \in Seq(Val) /\ Depth = Len(t) /\ Depth \in Nat /\ Depth <= JVM_STACK_MAX
      /\ frames \in Seq(FrameSet)
  BY TopFacts DEF Top, FramesOk
<1>3. /\ b \in 0 .. Len(t) /\ b + 1 \in 1 .. (Len(t) + 1) /\ 1 <= b + 1 /\ b <= Depth /\ b \in Nat
      /\ 1 \in 1 .. (Len(t) + 1) /\ b + 1 <= Depth + 1 /\ Depth \in 0 .. Len(t) /\ b - 1 + 1 = b
  BY <1>1, <1>2, Bounds
<1>4. frames' = fr \o <<g>>
  <2>1. [frames EXCEPT ![n].stack = SubSeq(@, 1, Depth - argc)] = fr
    BY <1>2 DEF Top
  <2>. QED
    BY <1>1, <2>1
<1>. HIDE DEF b
<1>5. s \in Seq(Val) /\ Len(s) = b
  BY <1>2, <1>3, SubSeqFacts
<1>6. args \in Seq(Val)
  <2>. DEFINE a == b + 1
              d == Depth
  <2>1. a \in 1 .. (Len(t) + 1) /\ d \in 0 .. Len(t) /\ a <= d + 1
    BY <1>3
  <2>. HIDE DEF a, d, t
  <2>2. SubSeq(t, a, d) \in Seq(Val)
    BY <1>2, <2>1, SubSeqFacts
  <2>. QED
    BY <2>2 DEF a, d
<1>7. f \in FrameSet /\ f.stack = s /\ f.below = Top.below
  BY <1>2, <1>5 DEF FrameSet
<1>8. c \in ClassNames
  BY <1>1, <1>2, FrameParts
<1>. HIDE DEF args
<1>9. g \in FrameSet /\ g.stack = <<>> /\ g.below = b
  <2>. DEFINE l == [i \in 1 .. JVM_LOCALS_MAX |-> IF i <= Len(args) THEN args[i] ELSE <<"int">>]
  <2>1. l \in [1 .. JVM_LOCALS_MAX -> Val]
    <3>1. ASSUME NEW i \in 1 .. JVM_LOCALS_MAX, i <= Len(args) PROVE args[i] \in Val
      BY <1>6, <3>1, Bounds
    <3>2. <<"int">> \in Val
      BY ValueFacts
    <3>. QED
      BY <3>1, <3>2
  <2>2. <<>> \in Seq(Val)
    OBVIOUS
  <2>. HIDE DEF l
  <2>3. [cls |-> c, stack |-> <<>>, locals |-> l, ret |-> ret, below |-> b] \in FrameSet
    BY <1>1, <1>3, <1>8, <2>1, <2>2 DEF FrameSet
  <2>. QED
    BY <2>3 DEF Frame, l
<1>. HIDE DEF g, f, s
<1>10. /\ fr \in Seq(FrameSet) /\ Len(fr) = n /\ fr[n] = f
       /\ \A i \in 1 .. n : i # n => fr[i] = frames[i]
  BY <1>2, <1>7
<1>. HIDE DEF fr
<1>11. frames' \in Seq(FrameSet) /\ Len(frames') = n + 1 /\ frames'[n + 1] = g
       /\ \A i \in 1 .. n : frames'[i] = fr[i]
  BY <1>4, <1>9, <1>10, AndOneFacts
<1>12. ASSUME NEW i \in 1 .. (n + 1)
       PROVE  Len(frames'[i].stack) <= JVM_STACK_MAX
  <2>1. CASE i = n + 1
    BY <1>9, <1>11, <2>1, Bounds
  <2>2. CASE i = n
    BY <1>2, <1>3, <1>5, <1>7, <1>10, <1>11, <2>2, Bounds
  <2>3. CASE i # n /\ i # n + 1
    <3>1. i \in 1 .. n
      BY <1>2, <2>3
    <3>. QED
      BY <1>10, <1>11, <2>3, <3>1 DEF FramesOk
  <2>. QED
    BY <2>1, <2>2, <2>3
<1>13. ASSUME NEW i \in 1 .. n
       PROVE  Len(frames'[i].stack) = frames'[i + 1].below
  <2>1. CASE i = n
    BY <1>2, <1>5, <1>7, <1>9, <1>10, <1>11, <2>1
  <2>2. CASE i # n
    <3>1. i \in 1 .. (n - 1) /\ i + 1 \in 1 .. n
      BY <1>2, <2>2
    <3>2. frames'[i] = frames[i] /\ Len(frames[i].stack) = frames[i + 1].below
      BY <1>10, <1>11, <2>2, <3>1 DEF FramesOk
    <3>3. frames'[i + 1].below = frames[i + 1].below
      BY <1>2, <1>7, <1>10, <1>11, <3>1
    <3>. QED
      BY <3>2, <3>3
  <2>. QED
    BY <2>1, <2>2
<1>14. Len(frames') \in 1 .. (JVM_CALL_DEPTH_MAX + 1) /\ Len(frames') - 1 = n
  BY <1>1, <1>2, <1>11, Bounds
<1>. QED
  BY <1>11, <1>12, <1>13, <1>14 DEF FramesOk

(* A return: the caller's stack has the height of the call, and the value. *)
LEMMA ReturnKeeps ==
  ASSUME FramesOk(frames), Return
  PROVE  /\ FramesOk(frames') /\ Len(frames') = Len(frames) - 1
         /\ Len(frames'[Len(frames) - 1].stack) = Top.below + (IF Top.ret = "V" THEN 0 ELSE 1)
<1>0. PICK m \in Nat : m = Len(frames) - 1 /\ m >= 1
  BY TopFacts DEF Return
<1>. DEFINE caller == frames[m]
            t == caller.stack
<1>1. /\ Len(frames) = m + 1 /\ m \in 1 .. Len(frames) /\ m \in 1 .. m /\ Len(frames) >= 1
      /\ m <= JVM_CALL_DEPTH_MAX /\ Top \in FrameSet /\ Top = frames[m + 1]
      /\ frames \in Seq(FrameSet) /\ m \in 1 .. (Len(frames) - 1)
  BY <1>0, TopFacts, Bounds DEF Top, FramesOk
<1>2. caller \in FrameSet /\ t \in Seq(Val) /\ Len(t) \in Nat /\ Len(t) = Top.below /\ Len(t) <= JVM_STACK_MAX
  <2>1. caller \in FrameSet
    BY <1>1
  <2>2. t \in Seq(Val) /\ Len(t) \in Nat
    BY <2>1, FrameParts
  <2>3. Len(t) = frames[m + 1].below /\ Len(t) <= JVM_STACK_MAX
    BY <1>1 DEF FramesOk
  <2>. QED
    BY <1>1, <2>1, <2>2, <2>3
<1>3. PICK v \in Val :
        /\ Top.ret # "V" => Len(t) < JVM_STACK_MAX
        /\ frames' = [Front(frames) EXCEPT ![m].stack = IF Top.ret # "V" THEN Append(@, v) ELSE @]
  <2>1. CASE Depth >= 1 /\ GiveBack(TRUE, Last(Top.stack))
    <3>1. Last(Top.stack) \in Val
      BY <2>1, TopFacts, FrontFacts
    <3>. QED
      BY <1>0, <2>1, <3>1 DEF GiveBack
  <2>2. CASE GiveBack(FALSE, <<"int">>)
    <3>1. <<"int">> \in Val
      BY ValueFacts
    <3>. QED
      BY <1>0, <2>2, <3>1 DEF GiveBack
  <2>. QED
    BY <2>1, <2>2 DEF Return
<1>. DEFINE s == IF Top.ret # "V" THEN Append(t, v) ELSE t
            f == [caller EXCEPT !.stack = s]
            fr == Front(frames)
<1>4. /\ s \in Seq(Val) /\ Len(s) <= JVM_STACK_MAX
      /\ Len(s) = Top.below + (IF Top.ret = "V" THEN 0 ELSE 1)
  <2>1. CASE Top.ret = "V"
    BY <1>2, <2>1
  <2>2. CASE Top.ret # "V"
    <3>1. s = Append(t, v)
      BY <2>2
    <3>2. Append(t, v) \in Seq(Val) /\ Len(Append(t, v)) = Len(t) + 1
      BY <1>2
    <3>. QED
      BY <1>2, <1>3, <2>2, <3>1, <3>2, Bounds
  <2>. QED
    BY <2>1, <2>2
<1>5. fr \in Seq(FrameSet) /\ Len(fr) = m /\ \A i \in 1 .. m : fr[i] = frames[i]
  BY <1>0, <1>1, FrontFacts
<1>6. frames' = [fr EXCEPT ![m] = f]
  <2>1. fr[m] = caller
    BY <1>1, <1>5
  <2>. QED
    BY <1>3, <2>1
<1>. HIDE DEF s, fr
<1>7. f \in FrameSet /\ f.stack = s /\ f.below = caller.below
  BY <1>2, <1>4 DEF FrameSet
<1>. HIDE DEF f
<1>8. /\ frames' \in Seq(FrameSet) /\ Len(frames') = m /\ frames'[m] = f
      /\ \A i \in 1 .. m : i # m => frames'[i] = frames[i]
  BY <1>1, <1>5, <1>6, <1>7, PutFacts
<1>9. ASSUME NEW i \in 1 .. m PROVE Len(frames'[i].stack) <= JVM_STACK_MAX
  <2>1. i \in 1 .. Len(frames)
    BY <1>1
  <2>. QED
    BY <1>4, <1>7, <1>8, <2>1 DEF FramesOk
<1>10. ASSUME NEW i \in 1 .. (m - 1)
       PROVE  Len(frames'[i].stack) = frames'[i + 1].below
  <2>1. i \in 1 .. m /\ i # m /\ i + 1 \in 1 .. m /\ i \in 1 .. (Len(frames) - 1)
    BY <1>1
  <2>2. frames'[i] = frames[i] /\ Len(frames[i].stack) = frames[i + 1].below
    BY <1>8, <2>1 DEF FramesOk
  <2>3. frames'[i + 1].below = frames[i + 1].below
    BY <1>7, <1>8, <2>1
  <2>. QED
    BY <2>2, <2>3
<1>11. m \in 1 .. (JVM_CALL_DEPTH_MAX + 1)
  BY <1>1, Bounds
<1>12. FramesOk(frames')
  BY <1>8, <1>9, <1>10, <1>11 DEF FramesOk
<1>13. Len(frames'[m].stack) = Top.below + (IF Top.ret = "V" THEN 0 ELSE 1)
  BY <1>4, <1>7, <1>8
<1>. QED
  BY <1>0, <1>8, <1>12, <1>13

LEMMA InstructionKeeps ==
  ASSUME FramesOk(frames), loadable \subseteq ClassNames, Instruction
  PROVE  /\ FramesOk(frames')
         /\ Len(frames') = Len(frames) - 1 => Return
<1>1. TRUE /\ Len(frames) \in Nat
  BY TopFacts
<1>2. CASE Push \/ Store \/ PopOne \/ PopTwo \/ Dup \/ DupX1 \/ Swap
  <2>1. FramesOk(frames') /\ Len(frames') = Len(frames)
    BY <1>2, PushKeeps, StoreKeeps, PopKeeps, DupKeeps
  <2>. QED
    BY <1>1, <2>1
<1>3. CASE Arithmetic \/ InvokeVirtual \/ InvokeSpecial
  <2>1. FramesOk(frames') /\ Len(frames') = Len(frames)
    BY <1>3, ArithmeticKeeps, InvokeKeeps
  <2>. QED
    BY <1>1, <2>1
<1>4. CASE InvokeStatic
  <2>1. FramesOk(frames') /\ Len(frames') = Len(frames) + 1
    BY <1>4, CallKeeps
  <2>. QED
    BY <1>1, <2>1
<1>5. CASE Return
  BY <1>5, ReturnKeeps
<1>. QED
  BY <1>2, <1>3, <1>4, <1>5 DEF Instruction

LEMMA MainStarts ==
  ASSUME NEW c \in ClassNames
  PROVE  FramesOk(<<Frame(c, <<>>, "V", 0)>>)
<1>. DEFINE l == [i \in 1 .. JVM_LOCALS_MAX |-> IF i <= Len(<<>>) THEN <<>>[i] ELSE <<"int">>]
            g == [cls |-> c, stack |-> <<>>, locals |-> l, ret |-> "V", below |-> 0]
<1>1. <<"int">> \in Val /\ Len(<<>>) = 0
  BY DEF Val
<1>2. \A i \in 1 .. JVM_LOCALS_MAX : ~(i <= 0)
  BY Bounds
<1>3. l \in [1 .. JVM_LOCALS_MAX -> Val]
  BY <1>1, <1>2
<1>. HIDE DEF l
<1>4. <<>> \in Seq(Val)
  OBVIOUS
<1>5. g \in FrameSet
  BY <1>3, <1>4 DEF FrameSet
<1>6. g.stack = <<>>
  OBVIOUS
<1>. HIDE DEF g
<1>7. <<g>> \in Seq(FrameSet) /\ Len(<<g>>) = 1 /\ <<g>>[1] = g
  BY <1>5
<1>8. FramesOk(<<g>>)
  BY <1>1, <1>6, <1>7, Bounds DEF FramesOk
<1>. QED
  BY <1>8 DEF g, l, Frame

LEMMA JvmInvInit == Init => JvmInv
BY Bounds DEF Init, FilesInit, JvmInv

LEMMA EndKeeps == End => JvmInv'
BY Bounds DEF End, JvmInv

LEMMA JvmInvNext == JvmInv /\ [Next]_vars => JvmInv'
<1>. SUFFICES ASSUME JvmInv, [Next]_vars
              PROVE  JvmInv'
  OBVIOUS
<1>1. CASE cmd_java \/ cmd_jarinfo
  BY <1>1 DEF JvmInv, cmd_java, cmd_jarinfo, java_load_file, fileVars, hjarVars
<1>2. CASE RunJar
  BY <1>2 DEF JvmInv, RunJar, hjarVars, jvm_load_class_from_jar
<1>3. CASE ListJar
  BY <1>3 DEF JvmInv, ListJar, hjarVars
<1>4. CASE HaveJar
  BY <1>4, EndKeeps DEF JvmInv, HaveJar, hjarVars
<1>5. CASE ParseClass
  BY <1>5 DEF JvmInv, ParseClass, hjarVars
<1>6. CASE StartMain
  <2>1. CASE End
    BY <2>1, EndKeeps
  <2>2. CASE ~End
    <3>1. /\ \E c \in ClassNames : frames' = <<Frame(c, <<>>, "V", 0)>>
          /\ phase' = "jvm" /\ UNCHANGED <<loadable, hjarVars>>
      BY <1>6, <2>2 DEF StartMain
    <3>2. FramesOk(frames')
      BY <3>1, MainStarts
    <3>. QED
      BY <3>1, <3>2 DEF JvmInv, hjarVars
  <2>. QED
    BY <2>1, <2>2
<1>7. CASE Instruction
  <2>1. phase = "jvm" /\ FramesOk(frames) /\ loadable \subseteq ClassNames
    BY <1>7 DEF Instruction, Executing, JvmInv
  <2>2. FramesOk(frames')
    BY <1>7, <2>1, InstructionKeeps
  <2>3. UNCHANGED <<phase, loadable, pc, sp, size>>
    BY <1>7 DEF Instruction, Executing, fileVars, hjarVars
  <2>. QED
    BY <2>1, <2>2, <2>3 DEF JvmInv
<1>8. CASE StartHjar
  BY <1>8, Bounds DEF JvmInv, StartHjar, fileVars
<1>9. CASE HjarStep
  <2>1. pc \in Nat /\ size \in Nat /\ sp \in 0 .. HJAR_STACK_MAX /\ pc < size
    BY <1>9 DEF JvmInv, HjarStep
  <2>2. UNCHANGED <<phase, loadable, frames>>
    BY <1>9 DEF HjarStep, fileVars
  <2>3. pc' \in Nat /\ size' = size /\ pc' <= size /\ sp' \in 0 .. HJAR_STACK_MAX
    BY <1>9, <2>1, Bounds DEF HjarStep, HjarLiteral
  <2>. QED
    BY <2>1, <2>2, <2>3 DEF JvmInv
<1>10. CASE ShowJar \/ ProgramEnds \/ HjarEnds
  BY <1>10, EndKeeps DEF ShowJar, ProgramEnds, HjarEnds
<1>11. CASE SearchOn \/ UNCHANGED vars
  BY <1>11 DEF JvmInv, SearchOn, vars, fileVars, hjarVars
<1>. QED
  BY <1>1, <1>2, <1>3, <1>4, <1>5, <1>6, <1>7, <1>8, <1>9, <1>10, <1>11 DEF Next

LEMMA JvmInvHolds == Spec => []JvmInv
BY JvmInvInit, JvmInvNext, PTL DEF Spec

(* Whatever instructions a program is made of, jvm_exec_method never       *)
(* writes outside an operand stack and never nests calls deeper than       *)
(* JVM_CALL_DEPTH_MAX, and java_hjar_exec leaves neither its stack nor the *)
(* file.                                                                   *)
THEOREM StacksBounded == Spec => []ArraysInBounds
<1>1. JvmInv => ArraysInBounds
  <2>1. ASSUME FramesOk(frames)
        PROVE  /\ \A i \in DOMAIN frames : Len(frames[i].stack) <= JVM_STACK_MAX
               /\ Len(frames) <= JVM_CALL_DEPTH_MAX + 1
    <3>1. DOMAIN frames = 1 .. Len(frames)
      BY <2>1 DEF FramesOk
    <3>. QED
      BY <2>1, <3>1, Bounds DEF FramesOk
  <2>2. frames = <<>> => DOMAIN frames = {} /\ Len(frames) = 0
    OBVIOUS
  <2>. QED
    BY <2>1, <2>2, Bounds DEF JvmInv, ArraysInBounds
<1>. QED
  BY <1>1, JvmInvHolds, PTL

(* invokestatic takes the arguments off the caller's stack, and when the   *)
(* method returns, by whichever instruction, the stack has what lay below  *)
(* them and one value more exactly if the descriptor names one.            *)
THEOREM CallsBalanced == Spec => CallsBalance
<1>. DEFINE A == \A n \in DOMAIN frames :
       (Len(frames) = n /\ Len(frames') = n - 1 /\ n > 1) =>
         Len(frames'[n - 1].stack) = Top.below + (IF Top.ret = "V" THEN 0 ELSE 1)
<1>1. JvmInv /\ [Next]_vars => [A]_frames
  <2>. SUFFICES ASSUME JvmInv, [Next]_vars, frames' # frames,
                       NEW n \in DOMAIN frames, Len(frames) = n, Len(frames') = n - 1, n > 1
                PROVE  Len(frames'[n - 1].stack) = Top.below + (IF Top.ret = "V" THEN 0 ELSE 1)
    OBVIOUS
  <2>1. phase = "jvm" /\ FramesOk(frames) /\ loadable \subseteq ClassNames
    <3>1. frames # <<>>
      OBVIOUS
    <3>. QED
      BY <3>1 DEF JvmInv
  <2>2. n \in Nat
    BY <2>1, TopFacts
  <2>3. ~End
    <3>1. End => Len(frames') = 0
      BY DEF End
    <3>. QED
      BY <2>2, <3>1
  <2>4. Instruction
    BY <2>1, <2>3 DEF Next, vars, cmd_java, cmd_jarinfo, java_load_file, RunJar, ListJar,
       SearchOn, ShowJar, HaveJar, ParseClass, StartMain, ProgramEnds, StartHjar, HjarStep, HjarEnds
  <2>5. Return
    BY <2>1, <2>4, InstructionKeeps
  <2>. QED
    BY <2>1, <2>5, ReturnKeeps
<1>. QED
  BY <1>1, JvmInvHolds, PTL DEF Spec, CallsBalance

-----------------------------------------------------------------------------
(* The walk over an archive. *)

LEMMA FirstOfFacts ==
  ASSUME NEW S \in SUBSET Nat, S # {}
  PROVE  FirstOf(S) \in S /\ \A y \in S : FirstOf(S) <= y
<1>1. \E x \in S : \A y \in S : x <= y
  BY LeastOfNats
<1>. QED
  BY <1>1 DEF FirstOf

LEMMA FirstOfIs ==
  ASSUME NEW S \in SUBSET Nat, NEW x \in S, \A y \in S : x <= y
  PROVE  FirstOf(S) = x
<1>. DEFINE z == FirstOf(S)
<1>1. z \in S /\ z <= x
  BY FirstOfFacts
<1>2. x <= z /\ x \in Nat /\ z \in Nat
  BY <1>1
<1>. HIDE DEF z
<1>3. z = x
  BY <1>1, <1>2
<1>. QED
  BY <1>3 DEF z

(* Partial sums of positive numbers grow. *)
LEMMA SumsGrow ==
  ASSUME NEW w \in Seq(Nat), \A k \in 1 .. Len(w) : w[k] > 0,
         NEW i \in 0 .. Len(w), NEW k \in 0 .. Len(w), i < k
  PROVE  Sums(w)[i] < Sums(w)[k]
<1>. DEFINE n == Len(w)
            s == Sums(w)
            S == {d \in 0 .. n : d <= i \/ s[i] < s[d]}
<1>1. /\ n \in Nat /\ s \in [0 .. n -> Nat]
      /\ \A d \in 1 .. n : s[d] = s[d - 1] + w[d]
      /\ \A d \in 1 .. n : w[d] \in Nat /\ w[d] > 0
  BY SumsFacts
<1>. HIDE DEF n, s
<1>2. i \in 0 .. n /\ k \in 0 .. n
  BY DEF n
<1>3. 0 \in S
  BY <1>1, <1>2
<1>4. ASSUME NEW d \in 0 .. (n - 1), d \in S PROVE d + 1 \in S
  <2>1. d + 1 \in 1 .. n /\ d + 1 \in 0 .. n /\ (d + 1) - 1 = d /\ d \in 0 .. n
    BY <1>1
  <2>2. s[d + 1] = s[d] + w[d + 1] /\ w[d + 1] \in Nat /\ w[d + 1] > 0 /\ s[d] \in Nat /\ s[i] \in Nat
    BY <1>1, <1>2, <2>1
  <2>3. s[d] < s[d + 1]
    BY <2>2
  <2>4. s[d + 1] \in Nat
    BY <2>2
  <2>5. CASE d + 1 <= i
    BY <2>1, <2>5
  <2>6. CASE d = i
    BY <2>1, <2>3, <2>6
  <2>7. CASE i < d
    <3>1. s[i] < s[d]
      BY <1>2, <1>4, <2>1, <2>7
    <3>2. s[i] < s[d + 1]
      BY <2>2, <2>3, <2>4, <3>1
    <3>. QED
      BY <2>1, <3>2
  <2>. QED
    BY <1>2, <2>5, <2>6, <2>7
<1>5. k \in S
  <2>. HIDE DEF S
  <2>1. \A d \in 0 .. n : d \in S
    BY <1>1, <1>3, <1>4, Climb
  <2>. QED
    BY <1>2, <2>1
<1>. QED
  BY <1>2, <1>5 DEF s

JarSet == [entries : Seq(Entry), size : Nat]

LEMMA EntryFacts ==
  ASSUME NEW e \in Entry
  PROVE  /\ HEADER \in Nat /\ NameLen[e.name] \in Nat /\ e.extra \in Nat /\ e.data \in Nat
         /\ EntryLen(e) \in Nat /\ EntryLen(e) > 0
         /\ EntryLen(e) = HEADER + NameLen[e.name] + e.extra + e.data
<1>1. e.name \in DOMAIN NameLen /\ e.extra \in Nat /\ e.data \in Nat
  BY DEF Entry
<1>2. NameLen[e.name] \in Nat
  BY <1>1, FilesAssumption
<1>3. HEADER \in Nat /\ HEADER > 0
  BY JarAssumption
<1>. DEFINE l == NameLen[e.name]
            x == e.extra
            c == e.data
<1>4. HEADER + l + x + c \in Nat /\ HEADER + l + x + c > 0
  <2>1. l \in Nat /\ x \in Nat /\ c \in Nat
    BY <1>1, <1>2
  <2>. HIDE DEF l, x, c
  <2>. QED
    BY <1>3, <2>1
<1>. QED
  BY <1>1, <1>2, <1>3, <1>4 DEF EntryLen

LEMMA BytesFacts ==
  ASSUME NEW es \in Seq(Entry)
  PROVE  /\ Bytes(es) \in [0 .. Len(es) -> Nat] /\ Bytes(es)[0] = 0
         /\ \A k \in 1 .. Len(es) : Bytes(es)[k] = Bytes(es)[k - 1] + EntryLen(es[k])
         /\ \A i, k \in 0 .. Len(es) : i < k => Bytes(es)[i] < Bytes(es)[k]
<1>. DEFINE w == [k \in DOMAIN es |-> EntryLen(es[k])]
<1>1. DOMAIN es = 1 .. Len(es) /\ Len(es) \in Nat /\ \A k \in 1 .. Len(es) : es[k] \in Entry
  OBVIOUS
<1>2. \A k \in 1 .. Len(es) : EntryLen(es[k]) \in Nat /\ EntryLen(es[k]) > 0
  BY <1>1, EntryFacts
<1>3. w \in Seq(Nat) /\ Len(w) = Len(es)
  BY <1>1, <1>2
<1>4. \A k \in 1 .. Len(es) : w[k] = EntryLen(es[k])
  BY <1>1
<1>5. Bytes(es) = Sums(w)
  BY DEF Bytes
<1>. HIDE DEF w
<1>6. \A k \in 1 .. Len(w) : w[k] > 0
  BY <1>2, <1>3, <1>4
<1>7. \A i, k \in 0 .. Len(w) : i < k => Sums(w)[i] < Sums(w)[k]
  BY <1>3, <1>6, SumsGrow
<1>8. /\ Sums(w) \in [0 .. Len(w) -> Nat] /\ Sums(w)[0] = 0
      /\ \A k \in 1 .. Len(w) : Sums(w)[k] = Sums(w)[k - 1] + w[k]
  BY <1>3, SumsFacts
<1>. QED
  BY <1>3, <1>4, <1>5, <1>7, <1>8

(* At an entry's first byte the walk finds that entry, and at the end of   *)
(* the archive nothing.                                                    *)
LEMMA HeaderFacts ==
  ASSUME NEW j \in JarSet
  PROVE  /\ \A k \in 1 .. Len(j.entries) : HeaderAt(j, Bytes(j.entries)[k - 1]) = k
         /\ HeaderAt(j, Bytes(j.entries)[Len(j.entries)]) = 0
<1>. DEFINE es == j.entries
            n == Len(es)
            B == Bytes(es)
            at(off) == {i \in 1 .. n : B[i - 1] = off}
<1>1. es \in Seq(Entry) /\ DOMAIN es = 1 .. n /\ n \in Nat
  BY DEF JarSet
<1>2. /\ B \in [0 .. n -> Nat]
      /\ \A i, k \in 0 .. n : i < k => B[i] < B[k]
  BY <1>1, BytesFacts
<1>3. \A off : HeaderAt(j, off) = IF at(off) = {} THEN 0 ELSE CHOOSE i \in at(off) : TRUE
  BY <1>1 DEF HeaderAt, Start
<1>. HIDE DEF B
<1>4. ASSUME NEW k \in 1 .. n
      PROVE  HeaderAt(j, B[k - 1]) = k
  <2>1. ASSUME NEW i \in 1 .. n, B[i - 1] = B[k - 1]
        PROVE  i = k
    <3>1. i - 1 \in 0 .. n /\ k - 1 \in 0 .. n
      BY <1>1
    <3>2. ~(B[i - 1] < B[k - 1]) /\ ~(B[k - 1] < B[i - 1])
      BY <1>2, <2>1, <3>1
    <3>3. ~(i - 1 < k - 1) /\ ~(k - 1 < i - 1)
      BY <1>2, <3>1, <3>2
    <3>. QED
      BY <1>1, <3>3
  <2>2. at(B[k - 1]) = {k}
    BY <2>1
  <2>. QED
    BY <1>3, <2>2
<1>5. at(B[n]) = {}
  <2>1. ASSUME NEW i \in 1 .. n PROVE B[i - 1] # B[n]
    <3>1. i - 1 \in 0 .. n /\ n \in 0 .. n /\ i - 1 < n
      BY <1>1
    <3>2. B[i - 1] < B[n] /\ B[i - 1] \in Nat /\ B[n] \in Nat
      BY <1>2, <3>1
    <3>. QED
      BY <3>2
  <2>. QED
    BY <2>1
<1>6. HeaderAt(j, B[n]) = 0
  BY <1>3, <1>5
<1>. QED
  BY <1>4, <1>6 DEF B

(* An entry that can be read: whole, and its length known. *)
Good(j, i) == Bytes(j.entries)[i] <= j.size /\ ~j.entries[i].descriptor

(* The entries that can be read are the first r. *)
ReadableTo(j, r) ==
  /\ r \in 0 .. Len(j.entries) /\ Readable(j) = 1 .. r
  /\ \A i \in 1 .. r : Good(j, i)
  /\ r < Len(j.entries) => ~Good(j, r + 1)

LEMMA ReadablePrefix ==
  ASSUME NEW j \in JarSet
  PROVE  \E r : ReadableTo(j, r)
<1>. DEFINE n == Len(j.entries)
            bad == {i \in 1 .. n : ~Good(j, i)}
<1>1. n \in Nat /\ DOMAIN j.entries = 1 .. n
  BY DEF JarSet
<1>2. Readable(j) = {k \in 1 .. n : \A i \in 1 .. k : Good(j, i)}
  BY <1>1 DEF Readable, Good
<1>3. PICK r \in 0 .. n : /\ \A i \in 1 .. r : Good(j, i)
                          /\ r < n => ~Good(j, r + 1)
  <2>1. CASE bad = {}
    <3>1. n \in 0 .. n /\ \A i \in 1 .. n : Good(j, i)
      BY <1>1, <2>1
    <3>. QED
      BY <1>1, <3>1
  <2>2. CASE bad # {}
    <3>1. bad \in SUBSET Nat
      BY <1>1
    <3>2. PICK m \in bad : \A y \in bad : m <= y
      <4>. HIDE DEF bad
      <4>. QED
        BY <2>2, <3>1, LeastOfNats
    <3>3. m \in 1 .. n /\ m - 1 \in 0 .. n /\ ~Good(j, m) /\ (m - 1) + 1 = m
      BY <1>1, <3>2
    <3>4. ASSUME NEW i \in 1 .. (m - 1) PROVE Good(j, i)
      <4>1. i \in 1 .. n /\ ~(m <= i)
        BY <1>1, <3>3
      <4>. QED
        BY <3>2, <4>1
    <3>. QED
      BY <3>3, <3>4
  <2>. QED
    BY <2>1, <2>2
<1>4. Readable(j) = 1 .. r
  <2>1. ASSUME NEW k \in 1 .. n
        PROVE  (\A i \in 1 .. k : Good(j, i)) <=> k \in 1 .. r
    <3>1. CASE k <= r
      <4>1. \A i \in 1 .. k : i \in 1 .. r
        BY <1>1, <3>1
      <4>2. k \in 1 .. r
        BY <1>1, <3>1
      <4>. QED
        BY <1>3, <4>1, <4>2
    <3>2. CASE r < k
      <4>1. r < n /\ r + 1 \in 1 .. k /\ k \notin 1 .. r
        BY <1>1, <3>2
      <4>. QED
        BY <1>3, <4>1
    <3>. QED
      BY <1>1, <3>1, <3>2
  <2>2. \A k \in 1 .. r : k \in 1 .. n
    BY <1>1
  <2>. QED
    BY <1>2, <2>1, <2>2
<1>. QED
  BY <1>3, <1>4 DEF ReadableTo

(* What the n-th call gives: the n-th entry while entries can be read. *)
Visit(j, r, n) == IF n <= r THEN [k |-> n, next |-> Bytes(j.entries)[n]]
                  ELSE [k |-> 0, next |-> Bytes(j.entries)[r]]

LEMMA VisitNumber ==
  ASSUME NEW j, NEW r, NEW n
  PROVE  (n <= r => Visit(j, r, n).k = n) /\ (~(n <= r) => Visit(j, r, n).k = 0)
<1>1. CASE n <= r
  <2>1. Visit(j, r, n) = [k |-> n, next |-> Bytes(j.entries)[n]]
    BY <1>1 DEF Visit
  <2>. QED
    BY <1>1, <2>1
<1>2. CASE ~(n <= r)
  <2>1. Visit(j, r, n) = [k |-> 0, next |-> Bytes(j.entries)[r]]
    BY <1>2 DEF Visit
  <2>. QED
    BY <1>2, <2>1
<1>. QED
  BY <1>1, <1>2

(* A length so small that the offset after it is below 2^31 is added as it *)
(* is.                                                                     *)
LEMMA AddAsInt ==
  ASSUME NEW off \in Nat, NEW n \in Nat, NEW top \in Nat, off <= top, top + n < INT_LIM
  PROVE  AsInt(off + AsInt(n)) = off + n
<1>1. INT_LIM \in Nat /\ n < INT_LIM /\ off + n < INT_LIM
  BY IntAssumption
<1>. QED
  BY <1>1 DEF AsInt

LEMMA NextEntry ==
  ASSUME NEW j \in JarSet, WellMade(j), NEW r, ReadableTo(j, r)
  PROVE  /\ \A n \in 1 .. r : java_zip_next_entry(j, Bytes(j.entries)[n - 1])
                                = [k |-> n, next |-> Bytes(j.entries)[n]]
         /\ java_zip_next_entry(j, Bytes(j.entries)[r])
              = [k |-> 0, next |-> Bytes(j.entries)[r]]
<1>. DEFINE es == j.entries
            N == Len(es)
            B == Bytes(es)
<1>1. es \in Seq(Entry) /\ N \in Nat /\ r \in 0 .. N /\ j.size \in Nat
  BY DEF JarSet, ReadableTo
<1>2. /\ B \in [0 .. N -> Nat]
      /\ \A k \in 1 .. N : B[k] = B[k - 1] + EntryLen(es[k])
  BY <1>1, BytesFacts
<1>3. /\ \A k \in 1 .. N : HeaderAt(j, B[k - 1]) = k
      /\ HeaderAt(j, B[N]) = 0
  BY HeaderFacts
<1>. HIDE DEF B
<1>4. ASSUME NEW k \in 1 .. N
      PROVE  java_zip_next_entry(j, B[k - 1])
               = IF Good(j, k) THEN [k |-> k, next |-> B[k]] ELSE [k |-> 0, next |-> B[k - 1]]
  <2>. DEFINE e == es[k]
              off == B[k - 1]
              here == B[k]
              h == HEADER
              l == NameLen[e.name]
              x == e.extra
              c == e.data
  <2>1. e \in Entry /\ off \in Nat /\ here \in Nat
    <3>1. k - 1 \in 0 .. N /\ k \in 0 .. N
      BY <1>1
    <3>2. e \in Entry
      BY <1>1
    <3>3. off \in Nat
      BY <1>2, <3>1
    <3>4. here \in Nat
      BY <1>2, <3>1
    <3>. QED
      BY <3>2, <3>3, <3>4
  <2>2. /\ h \in Nat /\ l \in Nat /\ x \in Nat /\ c \in Nat
        /\ EntryLen(e) = h + l + x + c
    <3>. HIDE DEF e
    <3>. QED
      BY <2>1, EntryFacts
  <2>3. here = off + EntryLen(e)
    BY <1>2, <2>1
  <2>4. k # 0
    BY <1>1
  <2>5. HeaderAt(j, off) = k
    BY <1>3
  <2>. DEFINE next == AsInt(off + h + l + x + AsInt(e.comp))
              over == \/ off + h > j.size \/ off + h + l > j.size
                      \/ off + h + l + x > j.size \/ next > j.size
  <2>6. java_zip_next_entry(j, off)
          = IF over \/ e.descriptor THEN [k |-> 0, next |-> off]
            ELSE [k |-> k, next |-> next]
    <3>. HIDE DEF off, here
    <3>. QED
      BY <2>4, <2>5 DEF java_zip_next_entry, EntryAt
  <2>11. e.comp = c /\ j.size + c < INT_LIM
    <3>1. k \in DOMAIN j.entries
      BY <1>1
    <3>. QED
      BY <3>1 DEF WellMade
  <2>. HIDE DEF off, here, h, l, x, c, e
  <2>7. here = off + h + l + x + c
    BY <2>1, <2>2, <2>3
  <2>12. off + h + l + x <= j.size => next = here
    <3>. SUFFICES ASSUME off + h + l + x <= j.size PROVE next = here
      OBVIOUS
    <3>. DEFINE d == off + h + l + x
    <3>1. d \in Nat /\ here = d + c
      BY <2>1, <2>2, <2>7
    <3>2. next = AsInt(d + AsInt(c))
      BY <2>11
    <3>. HIDE DEF d, next
    <3>3. d <= j.size
      BY DEF d
    <3>4. AsInt(d + AsInt(c)) = d + c
      BY <1>1, <2>2, <2>11, <3>1, <3>3, AddAsInt
    <3>. QED
      BY <3>1, <3>2, <3>4
  <2>. HIDE DEF next
  <2>8. over <=> here > j.size
    BY <1>1, <2>1, <2>2, <2>7, <2>12
  <2>13. ~over => next = here
    BY <1>1, <2>1, <2>2, <2>12
  <2>. HIDE DEF over
  <2>9. Good(j, k) <=> ~(over \/ e.descriptor)
    BY <1>1, <2>1, <2>8 DEF Good, B, e, here
  <2>10. java_zip_next_entry(j, off)
           = IF Good(j, k) THEN [k |-> k, next |-> here] ELSE [k |-> 0, next |-> off]
    BY <2>6, <2>9, <2>13
  <2>. QED
    BY <2>10 DEF off, here
<1>5. \A n \in 1 .. r : java_zip_next_entry(j, B[n - 1]) = [k |-> n, next |-> B[n]]
  <2>. TAKE n \in 1 .. r
  <2>1. n \in 1 .. N /\ Good(j, n)
    BY <1>1 DEF ReadableTo
  <2>. QED
    BY <1>4, <2>1
<1>6. java_zip_next_entry(j, B[r]) = [k |-> 0, next |-> B[r]]
  <2>1. CASE r = N
    BY <1>3, <2>1 DEF java_zip_next_entry, EntryAt
  <2>2. CASE r < N
    <3>1. r + 1 \in 1 .. N /\ (r + 1) - 1 = r /\ ~Good(j, r + 1)
      BY <1>1, <2>2 DEF ReadableTo
    <3>. QED
      BY <1>4, <3>1
  <2>. QED
    BY <1>1, <2>1, <2>2
<1>. QED
  BY <1>5, <1>6 DEF B

LEMMA VisitsAre ==
  ASSUME NEW j \in JarSet, WellMade(j), NEW r, ReadableTo(j, r)
  PROVE  \A n \in 1 .. (Len(j.entries) + 1) : Visits(j)[n] = Visit(j, r, n)
<1>. DEFINE N == Len(j.entries)
            B == Bytes(j.entries)
            V == [n \in 0 .. (N + 1) |-> IF n = 0 THEN [k |-> 0, next |-> 0] ELSE Visit(j, r, n)]
            Rec(s) == s = [n \in 0 .. (N + 1) |->
                             IF n = 0 THEN [k |-> 0, next |-> 0]
                             ELSE java_zip_next_entry(j, s[n - 1].next)]
<1>1. N \in Nat /\ r \in 0 .. N /\ j.entries \in Seq(Entry) /\ 0 \in 0 .. (N + 1)
  BY DEF JarSet, ReadableTo
<1>2. ASSUME NEW n \in 1 .. (N + 1)
      PROVE  Visit(j, r, n) = java_zip_next_entry(j, V[n - 1].next)
  <2>1. n - 1 \in 0 .. (N + 1) /\ B[0] = 0
    BY <1>1, BytesFacts
  <2>2. CASE n <= r
    <3>1. n \in 1 .. r
      BY <1>1, <2>2
    <3>2. V[n - 1].next = B[n - 1]
      <4>1. CASE n = 1
        BY <2>1, <4>1
      <4>2. CASE n # 1
        <5>1. n - 1 # 0 /\ n - 1 <= r
          BY <1>1, <2>2, <4>2
        <5>. QED
          BY <2>1, <5>1 DEF Visit
      <4>. QED
        BY <4>1, <4>2
    <3>3. java_zip_next_entry(j, B[n - 1]) = [k |-> n, next |-> B[n]]
      BY <3>1, NextEntry
    <3>. QED
      BY <2>2, <3>2, <3>3 DEF Visit
  <2>3. CASE ~(n <= r)
    <3>2. V[n - 1].next = B[r]
      <4>1. CASE n = 1
        <5>1. r = 0
          BY <1>1, <2>3, <4>1
        <5>. QED
          BY <2>1, <4>1, <5>1
      <4>2. CASE n # 1 /\ n - 1 <= r
        <5>1. n - 1 # 0 /\ n - 1 = r
          BY <1>1, <2>3, <4>2
        <5>. QED
          BY <2>1, <4>2, <5>1 DEF Visit
      <4>3. CASE n # 1 /\ ~(n - 1 <= r)
        <5>1. n - 1 # 0
          BY <1>1, <4>3
        <5>. QED
          BY <2>1, <4>3, <5>1 DEF Visit
      <4>. QED
        BY <4>1, <4>2, <4>3
    <3>3. java_zip_next_entry(j, B[r]) = [k |-> 0, next |-> B[r]]
      BY NextEntry
    <3>. QED
      BY <2>3, <3>2, <3>3 DEF Visit
  <2>. QED
    BY <2>2, <2>3
<1>3. Rec(V)
  <2>1. ASSUME NEW n \in 0 .. (N + 1)
        PROVE  V[n] = IF n = 0 THEN [k |-> 0, next |-> 0]
                      ELSE java_zip_next_entry(j, V[n - 1].next)
    <3>1. CASE n = 0
      BY <3>1
    <3>2. CASE n # 0
      <4>1. n \in 1 .. (N + 1) /\ V[n] = Visit(j, r, n)
        BY <1>1, <3>2
      <4>2. Visit(j, r, n) = java_zip_next_entry(j, V[n - 1].next)
        BY <1>2, <4>1
      <4>. QED
        BY <3>2, <4>1, <4>2
    <3>. QED
      BY <3>1, <3>2
  <2>2. V = [n \in 0 .. (N + 1) |-> V[n]]
    OBVIOUS
  <2>. HIDE DEF V
  <2>. QED
    BY <2>1, <2>2
<1>. DEFINE s == Visits(j)
<1>4. s = CHOOSE q : Rec(q)
  BY DEF Visits
<1>5. Rec(s)
  <2>. HIDE DEF Rec, V
  <2>. QED
    BY <1>3, <1>4
<1>. HIDE DEF s
<1>6. s[0] = [k |-> 0, next |-> 0]
      /\ \A n \in 1 .. (N + 1) : s[n] = java_zip_next_entry(j, s[n - 1].next)
  <2>1. s = [n \in 0 .. (N + 1) |-> IF n = 0 THEN [k |-> 0, next |-> 0]
                                    ELSE java_zip_next_entry(j, s[n - 1].next)]
    BY <1>5
  <2>2. \A n \in 1 .. (N + 1) : n \in 0 .. (N + 1) /\ n # 0
    BY <1>1
  <2>. HIDE DEF N
  <2>. QED
    BY <1>1, <2>1, <2>2
<1>7. \A n \in 1 .. (N + 1) : V[n] = Visit(j, r, n)
  BY <1>1
<1>8. V[0] = [k |-> 0, next |-> 0]
  BY <1>1
<1>. HIDE DEF V, Rec
<1>9. \A n \in 0 .. (N + 1) : s[n] = V[n]
  <2>. DEFINE S == {n \in 0 .. (N + 1) : s[n] = V[n]}
              M == N + 1
  <2>1. 0 \in S
    BY <1>1, <1>6, <1>8
  <2>2. ASSUME NEW n \in 0 .. (M - 1), n \in S PROVE n + 1 \in S
    <3>1. n + 1 \in 1 .. (N + 1) /\ (n + 1) - 1 = n /\ n + 1 \in 0 .. (N + 1)
      BY <1>1
    <3>2. s[n + 1] = java_zip_next_entry(j, s[n].next) /\ s[n] = V[n]
      BY <1>6, <2>2, <3>1
    <3>3. V[n + 1] = java_zip_next_entry(j, V[n].next)
      BY <1>2, <1>7, <3>1
    <3>. QED
      BY <3>1, <3>2, <3>3
  <2>3. M \in Nat
    BY <1>1
  <2>. HIDE DEF S, M
  <2>4. \A n \in 0 .. M : n \in S
    BY <2>1, <2>2, <2>3, Climb
  <2>. QED
    BY <2>4 DEF S, M
<1>10. \A n \in 1 .. (N + 1) : n \in 0 .. (N + 1)
  BY <1>1
<1>. QED
  BY <1>7, <1>9, <1>10 DEF s

Named(j, wanted) == {k \in Readable(j) : j.entries[k].name \in wanted}

(* A loop over the entries stops at the first readable one of a wanted     *)
(* name, and at none if there is none.                                     *)
LEMMA WalkFinds ==
  ASSUME NEW j \in JarSet, WellMade(j), NEW r, ReadableTo(j, r), NEW wanted
  PROVE  /\ Walk(j, wanted) = FirstOf(Named(j, wanted))
         /\ wanted = {} => LastCall(j, wanted) = r + 1
<1>. DEFINE N == Len(j.entries)
            at == Visits(j)
            ends == {n \in 1 .. (N + 1) : at[n].k = 0 \/ j.entries[at[n].k].name \in wanted}
            L == LastCall(j, wanted)
<1>1. N \in Nat /\ r \in 0 .. N /\ Readable(j) = 1 .. r
  BY DEF JarSet, ReadableTo
<1>2. \A n \in 1 .. (N + 1) : at[n] = Visit(j, r, n)
  BY VisitsAre
<1>3. L = FirstOf(ends)
  BY DEF LastCall, Ends
<1>. HIDE DEF at, L
<1>4. ASSUME NEW n \in 1 .. r
      PROVE  at[n].k = n /\ (n \in ends <=> j.entries[n].name \in wanted)
  <2>1. n \in 1 .. (N + 1) /\ n <= r /\ n # 0
    BY <1>1
  <2>2. at[n].k = n
    BY <1>2, <2>1, VisitNumber
  <2>. QED
    BY <2>1, <2>2
<1>5. r + 1 \in ends /\ at[r + 1].k = 0
  <2>1. r + 1 \in 1 .. (N + 1) /\ ~(r + 1 <= r)
    BY <1>1
  <2>2. at[r + 1].k = 0
    BY <1>2, <2>1, VisitNumber
  <2>. QED
    BY <2>1, <2>2
<1>6. ends \in SUBSET Nat /\ ends # {}
  BY <1>1, <1>5
<1>7. ends \subseteq 1 .. (N + 1)
  OBVIOUS
<1>. HIDE DEF ends
<1>8. L \in ends /\ \A y \in ends : L <= y
  BY <1>3, <1>6, FirstOfFacts
<1>9. L \in 1 .. (r + 1)
  BY <1>1, <1>5, <1>7, <1>8
<1>14. at[L].next \in Nat
  <2>1. L \in 1 .. (N + 1) /\ L \in Nat
    BY <1>1, <1>9
  <2>2. Bytes(j.entries) \in [0 .. N -> Nat]
    BY BytesFacts DEF JarSet
  <2>3. CASE L <= r
    <3>1. L \in 0 .. N /\ Visit(j, r, L) = [k |-> L, next |-> Bytes(j.entries)[L]]
      BY <1>1, <2>1, <2>3 DEF Visit
    <3>. QED
      BY <1>2, <2>1, <2>2, <3>1
  <2>4. CASE ~(L <= r)
    <3>1. Visit(j, r, L) = [k |-> 0, next |-> Bytes(j.entries)[r]]
      BY <2>4 DEF Visit
    <3>. QED
      BY <1>1, <1>2, <2>1, <2>2, <3>1
  <2>. QED
    BY <2>3, <2>4
<1>10. Walk(j, wanted) = at[L].k
  <2>1. L # 0 /\ ~(at[L].next < 0)
    BY <1>1, <1>9, <1>14
  <2>2. Walk(j, wanted) = IF L = 0 THEN Endless
                          ELSE IF at[L].k = 0 /\ at[L].next < 0 THEN Astray ELSE at[L].k
    BY DEF Walk, Found, at, L
  <2>. QED
    BY <2>1, <2>2
<1>11. CASE L \in 1 .. r
  <2>1. at[L].k = L /\ j.entries[L].name \in wanted
    BY <1>4, <1>8, <1>11
  <2>2. L \in Named(j, wanted)
    BY <1>1, <1>11, <2>1 DEF Named
  <2>3. ASSUME NEW y \in Named(j, wanted) PROVE L <= y
    BY <1>1, <1>4, <1>8 DEF Named
  <2>4. Named(j, wanted) \in SUBSET Nat
    BY <1>1 DEF Named
  <2>5. FirstOf(Named(j, wanted)) = L
    BY <2>2, <2>3, <2>4, FirstOfIs
  <2>. QED
    BY <1>10, <2>1, <2>5
<1>12. CASE L = r + 1
  <2>1. ASSUME NEW y \in Named(j, wanted) PROVE FALSE
    <3>1. y \in 1 .. r /\ y \in ends
      BY <1>1, <1>4 DEF Named
    <3>2. r + 1 <= y
      BY <1>8, <1>12, <3>1
    <3>. QED
      BY <1>1, <3>1, <3>2
  <2>2. FirstOf(Named(j, wanted)) = 0
    BY <2>1 DEF FirstOf
  <2>. QED
    BY <1>5, <1>10, <1>12, <2>2 DEF L
<1>13. L \in 1 .. r \/ L = r + 1
  BY <1>1, <1>9
<1>. QED
  BY <1>11, <1>12, <1>13 DEF L

LEMMA RunJarFinds ==
  ASSUME NEW j \in JarSet, WellMade(j)
  PROVE  java_run_jar(j) = MainEntry(j)
<1>. DEFINE named(S) == FirstOf(Named(j, S))
            m == named({Manifest})
            lines == j.entries[m].lines
            says == m # 0 /\ j.entries[m].stored /\ lines # <<>> /\ Head(lines) # None
            k == IF says THEN named({Head(lines)}) ELSE named(ClassNames)
<1>1. \A S : Walk(j, S) = named(S)
  <2>1. PICK r : ReadableTo(j, r)
    BY ReadablePrefix
  <2>. QED
    BY <2>1, WalkFinds
<1>2. \A S : named(S) = FirstOf({i \in Readable(j) : j.entries[i].name \in S})
  BY DEF Named
<1>8. \A S : named(S) \in Nat /\ (named(S) # 0 => named(S) \in DOMAIN j.entries)
  <2>. TAKE S
  <2>1. Named(j, S) \in SUBSET Nat /\ Named(j, S) \subseteq DOMAIN j.entries
    BY DEF Named, Readable, JarSet
  <2>2. CASE Named(j, S) = {}
    BY <2>2 DEF FirstOf
  <2>3. CASE Named(j, S) # {}
    BY <2>1, <2>3, FirstOfFacts
  <2>. QED
    BY <2>2, <2>3
<1>. HIDE DEF named
<1>3. MainEntry(j) = IF k # 0 /\ j.entries[k].stored THEN k ELSE 0
  BY <1>2, Zenon DEF MainEntry
<1>. DEFINE main == IF m # 0 /\ j.entries[m].stored
                    THEN java_manifest_main_class(j.entries[m]) ELSE None
            c == IF main # None THEN named({main}) ELSE named(ClassNames)
<1>4. java_run_jar(j) = IF c # 0 /\ j.entries[c].stored THEN c ELSE 0
  <2>. DEFINE m1 == Walk(j, {Manifest})
              main1 == IF m1 > 0 /\ j.entries[m1].stored
                       THEN java_manifest_main_class(j.entries[m1]) ELSE None
              c1 == IF main1 # None THEN Walk(j, {main1}) ELSE Walk(j, ClassNames)
  <2>1. java_run_jar(j) = IF m1 < 0 THEN m1
                          ELSE IF c1 < 0 \/ (c1 > 0 /\ j.entries[c1].stored) THEN c1 ELSE 0
    BY DEF java_run_jar, Runnable, ClassEntry, MainClass, java_zip_find_entry, java_zip_find_first_class
  <2>2. m1 = m
    BY <1>1
  <2>5. m \in Nat /\ ~(m < 0) /\ (m > 0 <=> m # 0)
    <3>1. m \in Nat
      BY <1>8
    <3>. HIDE DEF m
    <3>. QED
      BY <3>1
  <2>. HIDE DEF m, m1
  <2>3. main1 = main
    BY <2>2, <2>5
  <2>. HIDE DEF main, main1
  <2>4. c1 = c
    BY <1>1, <2>3
  <2>6. c \in Nat
    BY <1>8
  <2>. HIDE DEF c, c1
  <2>7. ~(c < 0) /\ (c > 0 <=> c # 0)
    BY <2>6
  <2>. QED
    BY <2>1, <2>2, <2>4, <2>5, <2>7
<1>9. ASSUME m # 0
      PROVE  /\ j.entries[m].comp < INT_LIM
             /\ lines # <<>> /\ Head(lines) # None => NameLen[Head(lines)] < CLASS_PATH
  <2>. DEFINE e == j.entries[m]
              n == e.comp
  <2>1. m \in DOMAIN j.entries
    BY <1>8, <1>9
  <2>2. e \in Entry /\ j.size \in Nat
    BY <2>1 DEF JarSet
  <2>3. /\ j.size + e.comp < INT_LIM
        /\ \A i \in DOMAIN e.lines : e.lines[i] # None => NameLen[e.lines[i]] < CLASS_PATH
    BY <2>1 DEF WellMade
  <2>4. e.comp \in Word /\ e.lines \in Seq(DOMAIN NameLen \cup {None})
    BY <2>2 DEF Entry
  <2>. HIDE DEF e
  <2>5. e.comp < INT_LIM
    <3>1. n \in Nat /\ j.size + n < INT_LIM
      BY <2>3, <2>4, IntAssumption DEF Word, WORD
    <3>. HIDE DEF n
    <3>2. n < INT_LIM
      BY <2>2, <3>1, IntAssumption
    <3>. QED
      BY <3>2 DEF n
  <2>6. e.lines # <<>> => 1 \in DOMAIN e.lines /\ Head(e.lines) = e.lines[1]
    BY <2>4
  <2>. QED
    BY <2>3, <2>5, <2>6 DEF e
<1>11. m # 0 => j.entries[m].comp \in Nat /\ (lines # <<>> => Head(lines) = lines[1])
       /\ (lines # <<>> /\ Head(lines) # None => NameLen[Head(lines)] \in Nat)
  <2>1. m # 0 => j.entries[m] \in Entry
    BY <1>8 DEF JarSet
  <2>. DEFINE e == j.entries[m]
  <2>2. e \in Entry => e.comp \in Word /\ e.lines \in Seq(DOMAIN NameLen \cup {None})
    BY DEF Entry
  <2>. HIDE DEF e
  <2>3. e.comp \in Word => e.comp \in Nat
    BY IntAssumption DEF Word, WORD
  <2>. QED
    BY <2>1, <2>2, <2>3, FilesAssumption DEF e
<1>5. says => main = Head(lines) /\ main # None
  <2>. SUFFICES ASSUME says PROVE main = Head(lines) /\ main # None
    OBVIOUS
  <2>. DEFINE e == j.entries[m]
              l == NameLen[Head(lines)]
              n == e.comp
  <2>1. e.lines = lines /\ lines # <<>> /\ Head(lines) = lines[1] /\ lines[1] # None
    BY <1>11
  <2>2. n \in Nat /\ n < INT_LIM /\ l \in Nat /\ l < CLASS_PATH
    BY <1>9, <1>11
  <2>3. java_manifest_main_class(e) =
          IF n >= INT_LIM \/ e.lines = <<>> \/ e.lines[1] = None THEN None
          ELSE IF l < CLASS_PATH THEN Head(lines) ELSE CutName[e.lines[1]]
    BY <2>1 DEF java_manifest_main_class
  <2>4. main = java_manifest_main_class(e)
    OBVIOUS
  <2>. HIDE DEF e, l, n, main
  <2>5. ~(n >= INT_LIM)
    BY <2>2, IntAssumption
  <2>. QED
    BY <2>1, <2>2, <2>3, <2>4, <2>5
<1>6. ~says => main = None
  BY <1>11 DEF java_manifest_main_class
<1>7. c = k
  <2>. HIDE DEF main, says
  <2>. QED
    BY <1>5, <1>6
<1>. HIDE DEF c, k
<1>. QED
  BY <1>3, <1>4, <1>7

LEMMA ListFinds ==
  ASSUME NEW j \in JarSet, WellMade(j)
  PROVE  ToSet(java_zip_list_entries(j)) = Readable(j) /\ Walk(j, {}) = 0
<1>1. PICK r : ReadableTo(j, r)
  BY ReadablePrefix
<1>2. /\ Len(j.entries) \in Nat /\ r \in 0 .. Len(j.entries) /\ Readable(j) = 1 .. r
      /\ LastCall(j, {}) = r + 1 /\ (r + 1) - 1 = r
  BY <1>1, WalkFinds DEF JarSet, ReadableTo
<1>3. java_zip_list_entries(j) = [n \in 1 .. r |-> Visits(j)[n].k]
  BY <1>2 DEF java_zip_list_entries
<1>4. ASSUME NEW n \in 1 .. r PROVE Visits(j)[n].k = n
  <2>1. n \in 1 .. (Len(j.entries) + 1) /\ n <= r
    BY <1>2
  <2>. QED
    BY <1>1, <2>1, VisitsAre, VisitNumber
<1>5. Walk(j, {}) = 0
  <2>1. Named(j, {}) = {}
    BY DEF Named
  <2>. QED
    BY <1>1, <2>1, WalkFinds DEF FirstOf
<1>. QED
  BY <1>2, <1>3, <1>4, <1>5 DEF ToSet

(* ReadsJar, and what the command leaves behind: the shell starts the next *)
(* one without a jar.                                                      *)
JarInv == ReadsJar /\ (phase = "shell" => jar = NoFile /\ listed = <<>> /\ chosen = 0)

LEMMA NothingListed == ToSet(<<>>) = Readable(NoFile)
BY DEF ToSet, Readable, NoFile

LEMMA EndKeepsJar == End => JarInv'
BY DEF End, JarInv, ReadsJar

LEMMA JarInvNext == JarInv /\ [Next]_vars => JarInv'
<1>. SUFFICES ASSUME JarInv, [Next]_vars PROVE JarInv'
  OBVIOUS
<1>. USE DEF JarInv, ReadsJar
<1>1. CASE cmd_java \/ cmd_jarinfo
  BY <1>1, NothingListed DEF cmd_java, cmd_jarinfo, java_load_file, fileVars
<1>2. CASE RunJar
  <2>1. PICK j \in Jars : jar' = j /\ chosen' = java_run_jar(j)
    BY <1>2 DEF RunJar
  <2>2. j \in JarSet
    BY <2>1, FilesAssumption DEF JarSet
  <2>. QED
    BY <1>2, <2>1, <2>2, RunJarFinds DEF RunJar
<1>3. CASE ListJar
  <2>1. PICK j \in Jars : jar' = j /\ listed' = java_zip_list_entries(j) /\ chosen' = Walk(j, {})
    BY <1>3 DEF ListJar
  <2>2. j \in JarSet
    BY <2>1, FilesAssumption DEF JarSet
  <2>. QED
    BY <1>3, <2>1, <2>2, ListFinds DEF ListJar
<1>4. CASE ShowJar \/ ProgramEnds \/ HjarEnds
  BY <1>4, EndKeepsJar DEF ShowJar, ProgramEnds, HjarEnds
<1>5. CASE HaveJar
  BY <1>5, EndKeepsJar DEF HaveJar
<1>6. CASE ParseClass
  BY <1>6 DEF ParseClass
<1>7. CASE StartMain
  BY <1>7, EndKeepsJar DEF StartMain
<1>8. CASE Instruction
  BY <1>8 DEF Instruction, Executing, fileVars
<1>9. CASE StartHjar \/ HjarStep
  BY <1>9 DEF StartHjar, HjarStep, fileVars
<1>10. CASE SearchOn \/ UNCHANGED vars
  BY <1>10 DEF SearchOn, vars, fileVars
<1>. QED
  BY <1>1, <1>2, <1>3, <1>4, <1>5, <1>6, <1>7, <1>8, <1>9, <1>10 DEF Next

(* For every archive whose headers are well made, whatever its entries and *)
(* wherever it is cut, the entry that java runs and the entries that       *)
(* jarinfo lists are those of the reference.                               *)
THEOREM JarsRead == Spec => []ReadsJar
<1>1. Init => JarInv
  BY DEF Init, FilesInit, JarInv, ReadsJar
<1>2. JarInv => ReadsJar
  BY DEF JarInv
<1>. QED
  BY <1>1, <1>2, JarInvNext, PTL DEF Spec

-----------------------------------------------------------------------------
(* The parser of class files. *)

ClassSet == [pool : Seq(Constant), interfaces : Nat, fields : Seq(Member), methods : Seq(Member),
             attrs : Seq(Attribute), size : Nat]

(* An offset that the parser holds: inside the file, or failed. *)
Offsets(f) == {Fail} \cup 0 .. f.size

(* What Read does there. *)
LEMMA ReadIs ==
  ASSUME NEW f, f.size \in Nat, NEW off \in Offsets(f), NEW n
  PROVE  /\ off = Fail => Read(f, off, n) = Fail
         /\ off # Fail => off \in 0 .. f.size
         /\ off # Fail => Read(f, off, n) = IF off + n > f.size THEN Fail ELSE off + n
<1>1. off # Fail => off \in 0 .. f.size
  BY DEF Offsets
<1>2. off # Astray
  BY DEF Offsets, Fail, Astray
<1>. QED
  BY <1>1, <1>2 DEF Read

LEMMA ReadFacts ==
  ASSUME NEW f, f.size \in Nat, NEW off \in Offsets(f), NEW a \in Nat, NEW b \in Nat
  PROVE  /\ Read(f, off, a) \in Offsets(f) /\ Read(f, off, 0) = off
         /\ Read(f, Read(f, off, a), b) = Read(f, off, a + b)
<1>. DEFINE z == f.size
<1>1. z \in Nat /\ (off = Fail \/ off \in 0 .. z)
  BY DEF Offsets
<1>0. \A o \in Offsets(f), n \in Nat :
         /\ o = Fail => Read(f, o, n) = Fail
         /\ o # Fail => Read(f, o, n) = IF o + n > z THEN Fail ELSE o + n
  BY ReadIs
<1>7. Fail \in Offsets(f) /\ \A o \in 0 .. z : o \in Offsets(f) /\ o # Fail
  BY DEF Offsets, Fail
<1>8. a + b \in Nat /\ 0 \in Nat
  OBVIOUS
<1>2. CASE off = Fail
  BY <1>0, <1>2, <1>7, <1>8
<1>3. CASE off \in 0 .. z
  <2>. HIDE DEF z
  <2>1. off # Fail /\ off + 0 = off /\ ~(off > z) /\ (off + a) + b = off + (a + b)
    BY <1>1, <1>3, <1>7
  <2>4. Read(f, off, 0) = off /\ Read(f, off, a + b) = IF off + (a + b) > z THEN Fail ELSE off + (a + b)
    BY <1>0, <1>8, <2>1
  <2>2. CASE off + a > z
    <3>1. off + (a + b) > z
      BY <1>1, <1>3, <2>2
    <3>2. Read(f, off, a) = Fail
      BY <1>0, <2>1, <2>2
    <3>3. Read(f, Fail, b) = Fail
      BY <1>0, <1>7
    <3>. QED
      BY <1>7, <2>4, <3>1, <3>2, <3>3
  <2>3. CASE ~(off + a > z)
    <3>1. off + a \in 0 .. z
      BY <1>1, <1>3, <2>3
    <3>2. Read(f, off, a) = off + a
      BY <1>0, <2>1, <2>3
    <3>. DEFINE o == off + a
    <3>. HIDE DEF o
    <3>3. o \in Offsets(f) /\ o # Fail
      BY <1>7, <3>1 DEF o
    <3>4. Read(f, o, b) = IF o + b > z THEN Fail ELSE o + b
      BY <1>0, <3>3
    <3>5. o + b = off + (a + b)
      BY <2>1 DEF o
    <3>. QED
      BY <2>4, <3>2, <3>3, <3>4, <3>5 DEF o
  <2>. QED
    BY <2>2, <2>3
<1>. QED
  BY <1>1, <1>2, <1>3

LEMMA AttrFacts ==
  ASSUME NEW attrs \in Member
  PROVE  LET w == [k \in DOMAIN attrs |-> 6 + attrs[k].data]
         IN  /\ w \in Seq(Nat) /\ Len(w) = Len(attrs) /\ AttrBytes(attrs) = Sums(w)[Len(attrs)]
             /\ \A k \in 1 .. Len(attrs) : attrs[k].data \in Nat /\ w[k] = 6 + attrs[k].data
             /\ AttrBytes(attrs) \in Nat
<1>. DEFINE w == [k \in DOMAIN attrs |-> 6 + attrs[k].data]
<1>1. DOMAIN attrs = 1 .. Len(attrs) /\ Len(attrs) \in Nat /\ \A k \in 1 .. Len(attrs) : attrs[k].data \in Nat
  <2>1. attrs \in Seq(Attribute)
    BY DEF Member
  <2>2. \A k \in 1 .. Len(attrs) : attrs[k] \in Attribute
    BY <2>1
  <2>3. \A a \in Attribute : a.data \in Nat
    BY DEF Attribute
  <2>. QED
    BY <2>1, <2>2, <2>3
<1>2. \A k \in 1 .. Len(attrs) : 6 + attrs[k].data \in Nat
  BY <1>1
<1>3. w \in Seq(Nat) /\ Len(w) = Len(attrs)
  BY <1>1, <1>2
<1>4. Sums(w) \in [0 .. Len(w) -> Nat]
  <2>. HIDE DEF w
  <2>. QED
    BY <1>3, SumsFacts
<1>5. Sums(w)[Len(attrs)] \in Nat
  <2>. HIDE DEF w
  <2>. QED
    BY <1>1, <1>3, <1>4
<1>. QED
  BY <1>1, <1>3, <1>5 DEF AttrBytes

(* Reading an attribute that gives its length is reading its bytes. *)
LEMMA ReadAttrIs ==
  ASSUME NEW f, f.size \in Nat, NEW off \in Offsets(f), NEW a \in Attribute,
         off = Fail \/ (a.len = a.data /\ f.size + a.len < INT_LIM)
  PROVE  ReadAttr(f, off, a) = Read(f, Read(f, off, 6), a.data)
<1>. DEFINE head == Read(f, off, 6)
            l == a.data
            z == f.size
<1>1. head \in Offsets(f) /\ l \in Nat /\ z \in Nat
  BY ReadFacts DEF Attribute
<1>2. CASE head = Fail
  <2>1. Read(f, head, l) = Fail
    BY <1>1, <1>2, ReadIs
  <2>2. ReadAttr(f, off, a) = head
    <3>. HIDE DEF head
    <3>1. head < 0
      BY <1>2 DEF Fail
    <3>. QED
      BY <3>1 DEF ReadAttr, SkipContents, head
  <2>. QED
    BY <1>2, <2>1, <2>2
<1>3. CASE head # Fail
  <2>1. head \in 0 .. z /\ Read(f, head, l) = IF head + l > z THEN Fail ELSE head + l
    <3>. HIDE DEF head
    <3>. QED
      BY <1>1, <1>3, ReadIs
  <2>2. a.len = l /\ z + l < INT_LIM
    BY <1>3, ReadIs
  <2>. DEFINE next == AsInt(head + AsInt(a.len))
  <2>3. ReadAttr(f, off, a) = IF head < 0 THEN head ELSE IF next > z THEN Fail
                              ELSE IF next = head + l THEN next ELSE Astray
    BY DEF ReadAttr, SkipContents
  <2>. HIDE DEF head, l, z
  <2>4. next = head + l
    BY <1>1, <2>1, <2>2, AddAsInt
  <2>. HIDE DEF next
  <2>5. ~(head < 0)
    BY <1>1, <2>1
  <2>6. Read(f, Read(f, off, 6), a.data) = Read(f, head, l)
    BY DEF head, l
  <2>. QED
    BY <2>1, <2>3, <2>4, <2>5, <2>6
<1>. QED
  BY <1>2, <1>3

(* Reading attributes one by one is reading their bytes. *)
LEMMA ReadAttrsIs ==
  ASSUME NEW f, f.size \in Nat, NEW off \in Offsets(f), NEW attrs \in Member,
         Honest(f, attrs) \/ off = Fail
  PROVE  ReadAttrs(f, off, attrs) = Read(f, off, AttrBytes(attrs))
<1>. DEFINE n == Len(attrs)
            w == [k \in DOMAIN attrs |-> 6 + attrs[k].data]
            S == Sums(w)
            V == [k \in 0 .. n |-> Read(f, off, S[k])]
            Rec(s) == s = [k \in 0 .. n |-> IF k = 0 THEN off
                                            ELSE ReadAttr(f, s[k - 1], attrs[k])]
<1>1. /\ w \in Seq(Nat) /\ Len(w) = n /\ AttrBytes(attrs) = S[n] /\ n \in Nat
      /\ \A k \in 1 .. n : attrs[k].data \in Nat /\ w[k] = 6 + attrs[k].data
  <2>1. n \in Nat
    BY DEF Member
  <2>. QED
    BY <2>1, AttrFacts
<1>. HIDE DEF w
<1>2. /\ S \in [0 .. n -> Nat] /\ S[0] = 0 /\ \A k \in 1 .. n : S[k] = S[k - 1] + w[k]
  BY <1>1, SumsFacts
<1>. HIDE DEF S, n
<1>10. \A k \in 1 .. n : attrs[k] \in Attribute /\ k \in DOMAIN attrs
  BY DEF Member, n
<1>3. ASSUME NEW k \in 1 .. n
      PROVE  V[k] = ReadAttr(f, V[k - 1], attrs[k])
  <2>. DEFINE p == S[k - 1]
              l == attrs[k].data
              x == Read(f, off, p)
  <2>1. k - 1 \in 0 .. n /\ k \in 0 .. n
    BY <1>1
  <2>2. p \in Nat /\ l \in Nat /\ S[k] = p + w[k] /\ w[k] = 6 + l
    BY <1>1, <1>2, <2>1
  <2>3. V[k] = Read(f, off, S[k]) /\ V[k - 1] = x
    BY <2>1
  <2>. HIDE DEF p, l
  <2>4. x \in Offsets(f) /\ 6 + l \in Nat
    BY <2>2, ReadFacts
  <2>5. Read(f, Read(f, x, 6), l) = Read(f, x, 6 + l)
    <3>. HIDE DEF x
    <3>. QED
      BY <2>2, <2>4, ReadFacts
  <2>7. x = Fail \/ (attrs[k].len = attrs[k].data /\ f.size + attrs[k].len < INT_LIM)
    <3>1. CASE off = Fail
      BY <3>1, ReadIs
    <3>2. CASE Honest(f, attrs)
      BY <1>10, <3>2 DEF Honest
    <3>. QED
      BY <3>1, <3>2
  <2>8. ReadAttr(f, x, attrs[k]) = Read(f, Read(f, x, 6), attrs[k].data)
    <3>. HIDE DEF x
    <3>. QED
      BY <1>10, <2>4, <2>7, ReadAttrIs
  <2>6. Read(f, x, 6 + l) = Read(f, off, p + (6 + l))
    <3>. DEFINE y == 6 + l
    <3>0. y \in Nat
      BY <2>4
    <3>. HIDE DEF y
    <3>1. Read(f, Read(f, off, p), y) = Read(f, off, p + y)
      BY <2>2, <3>0, ReadFacts
    <3>. QED
      BY <3>1 DEF y
  <2>. HIDE DEF x, V
  <2>. QED
    BY <2>2, <2>3, <2>5, <2>6, <2>8 DEF l
<1>4. V[0] = off
  <2>1. 0 \in 0 .. n /\ Read(f, off, 0) = off
    BY <1>1, ReadFacts
  <2>. QED
    BY <1>2, <2>1
<1>5. Rec(V)
  <2>1. ASSUME NEW k \in 0 .. n
        PROVE  V[k] = IF k = 0 THEN off ELSE ReadAttr(f, V[k - 1], attrs[k])
    <3>1. k # 0 => k \in 1 .. n
      BY <1>1
    <3>. HIDE DEF V
    <3>. QED
      BY <1>3, <1>4, <3>1
  <2>2. V = [k \in 0 .. n |-> V[k]]
    OBVIOUS
  <2>. HIDE DEF V
  <2>. QED
    BY <2>1, <2>2
<1>. DEFINE s == CHOOSE q : Rec(q)
<1>6. ReadAttrs(f, off, attrs) = s[n]
  BY DEF ReadAttrs, AttrOffs, n
<1>7. Rec(s)
  <2>. HIDE DEF Rec, V
  <2>. QED
    BY <1>5
<1>. HIDE DEF s
<1>8. s[0] = off /\ \A k \in 1 .. n : s[k] = ReadAttr(f, s[k - 1], attrs[k])
  <2>1. s = [k \in 0 .. n |-> IF k = 0 THEN off
                              ELSE ReadAttr(f, s[k - 1], attrs[k])]
    BY <1>7
  <2>2. 0 \in 0 .. n /\ \A k \in 1 .. n : k \in 0 .. n /\ k # 0
    BY <1>1
  <2>. HIDE DEF Rec, V
  <2>. QED
    BY <2>1, <2>2
<1>9. n \in {k \in 0 .. n : s[k] = V[k]}
  <2>. DEFINE T == {k \in 0 .. n : s[k] = V[k]}
  <2>1. 0 \in T
    BY <1>1, <1>4, <1>8
  <2>2. ASSUME NEW k \in 0 .. (n - 1), k \in T PROVE k + 1 \in T
    <3>1. k + 1 \in 1 .. n /\ (k + 1) - 1 = k /\ k + 1 \in 0 .. n
      BY <1>1
    <3>2. s[k] = V[k]
      BY <2>2
    <3>. HIDE DEF V, Rec
    <3>3. s[k + 1] = V[k + 1]
      BY <1>3, <1>8, <3>1, <3>2
    <3>. QED
      BY <3>1, <3>3
  <2>. HIDE DEF T
  <2>3. \A k \in 0 .. n : k \in T
    BY <1>1, <2>1, <2>2, Climb
  <2>4. n \in T
    BY <1>1, <2>3
  <2>. QED
    BY <2>4 DEF T
<1>. QED
  BY <1>1, <1>6, <1>9

LEMMA AttrBytesNat ==
  ASSUME NEW attrs \in Member
  PROVE  AttrBytes(attrs) \in Nat
BY AttrFacts

LEMMA MemberFacts ==
  ASSUME NEW ms \in Seq(Member)
  PROVE  LET w == [k \in DOMAIN ms |-> 8 + AttrBytes(ms[k])]
         IN  /\ w \in Seq(Nat) /\ Len(w) = Len(ms) /\ MemberBytes(ms) = Sums(w)[Len(ms)]
             /\ \A k \in 1 .. Len(ms) : AttrBytes(ms[k]) \in Nat /\ w[k] = 8 + AttrBytes(ms[k])
             /\ MemberBytes(ms) \in Nat
<1>. DEFINE w == [k \in DOMAIN ms |-> 8 + AttrBytes(ms[k])]
<1>1. DOMAIN ms = 1 .. Len(ms) /\ Len(ms) \in Nat /\ \A k \in 1 .. Len(ms) : AttrBytes(ms[k]) \in Nat
  <2>1. \A k \in 1 .. Len(ms) : ms[k] \in Member
    OBVIOUS
  <2>. QED
    BY <2>1, AttrBytesNat
<1>2. \A k \in 1 .. Len(ms) : 8 + AttrBytes(ms[k]) \in Nat
  BY <1>1
<1>3. w \in Seq(Nat) /\ Len(w) = Len(ms)
  BY <1>1, <1>2
<1>4. Sums(w) \in [0 .. Len(w) -> Nat]
  <2>. HIDE DEF w
  <2>. QED
    BY <1>3, SumsFacts
<1>5. Sums(w)[Len(ms)] \in Nat
  <2>. HIDE DEF w
  <2>. QED
    BY <1>1, <1>3, <1>4
<1>. QED
  BY <1>1, <1>3, <1>5 DEF MemberBytes

LEMMA MemberInfoIs ==
  ASSUME NEW f, f.size \in Nat, NEW off \in Offsets(f), NEW attrs \in Member,
         Honest(f, attrs) \/ off = Fail
  PROVE  parse_member_info_skip(f, off, attrs) = Read(f, off, 8 + AttrBytes(attrs))
<1>. DEFINE x == Read(f, off, 8)
            l == AttrBytes(attrs)
<1>1. x \in Offsets(f) /\ l \in Nat
  BY ReadFacts, AttrFacts
<1>2. parse_member_info_skip(f, off, attrs) = ReadAttrs(f, x, attrs)
  BY DEF parse_member_info_skip
<1>3. ReadAttrs(f, x, attrs) = Read(f, x, l)
  <2>1. Honest(f, attrs) \/ x = Fail
    BY ReadIs
  <2>. HIDE DEF x
  <2>. QED
    BY <1>1, <2>1, ReadAttrsIs
<1>4. Read(f, x, l) = Read(f, off, 8 + l)
  <2>. HIDE DEF l
  <2>. QED
    BY <1>1, ReadFacts
<1>. QED
  BY <1>2, <1>3, <1>4

(* So is reading fields or methods, after their count. *)
LEMMA ReadMembersIs ==
  ASSUME NEW f, f.size \in Nat, NEW off \in Offsets(f), NEW ms \in Seq(Member),
         (\A k \in DOMAIN ms : Honest(f, ms[k])) \/ off = Fail
  PROVE  ReadMembers(f, off, ms) = Read(f, off, 2 + MemberBytes(ms))
<1>. DEFINE n == Len(ms)
            w == [k \in DOMAIN ms |-> 8 + AttrBytes(ms[k])]
            S == Sums(w)
            o == Read(f, off, 2)
            V == [k \in 0 .. n |-> Read(f, o, S[k])]
            Rec(s) == s = [k \in 0 .. n |-> IF k = 0 THEN Read(f, off, 2)
                                            ELSE parse_member_info_skip(f, s[k - 1], ms[k])]
<1>1. /\ w \in Seq(Nat) /\ Len(w) = n /\ MemberBytes(ms) = S[n] /\ n \in Nat
      /\ \A k \in 1 .. n : AttrBytes(ms[k]) \in Nat /\ w[k] = 8 + AttrBytes(ms[k])
  <2>1. n \in Nat
    OBVIOUS
  <2>. QED
    BY <2>1, MemberFacts
<1>0. /\ o \in Offsets(f) /\ \A k \in 1 .. n : ms[k] \in Member
      /\ o = Fail \/ \A k \in 1 .. n : Honest(f, ms[k])
  <2>1. \A k \in 1 .. n : ms[k] \in Member /\ k \in DOMAIN ms
    OBVIOUS
  <2>2. o \in Offsets(f)
    BY ReadFacts
  <2>3. off = Fail => o = Fail
    BY ReadIs
  <2>. QED
    BY <2>1, <2>2, <2>3
<1>. HIDE DEF w
<1>2. /\ S \in [0 .. n -> Nat] /\ S[0] = 0 /\ \A k \in 1 .. n : S[k] = S[k - 1] + w[k]
  BY <1>1, SumsFacts
<1>. HIDE DEF S, n, o
<1>3. ASSUME NEW k \in 1 .. n
      PROVE  V[k] = parse_member_info_skip(f, V[k - 1], ms[k])
  <2>. DEFINE p == S[k - 1]
              y == 8 + AttrBytes(ms[k])
              x == Read(f, o, p)
  <2>1. k - 1 \in 0 .. n /\ k \in 0 .. n
    BY <1>1
  <2>2. p \in Nat /\ y \in Nat /\ S[k] = p + y
    <3>1. p \in Nat
      BY <1>2, <2>1
    <3>2. AttrBytes(ms[k]) \in Nat /\ w[k] = y
      BY <1>1
    <3>3. S[k] = p + w[k]
      BY <1>2
    <3>. QED
      BY <3>1, <3>2, <3>3
  <2>3. V[k] = Read(f, o, S[k]) /\ V[k - 1] = x
    BY <2>1
  <2>. HIDE DEF p
  <2>4. x \in Offsets(f)
    BY <1>0, <2>2, ReadFacts
  <2>5. parse_member_info_skip(f, x, ms[k]) = Read(f, x, y)
    <3>1. x = Fail \/ Honest(f, ms[k])
      BY <1>0, ReadIs
    <3>. HIDE DEF x
    <3>. QED
      BY <1>0, <2>4, <3>1, MemberInfoIs
  <2>. HIDE DEF y
  <2>6. Read(f, x, y) = Read(f, o, p + y)
    BY <1>0, <2>2, ReadFacts
  <2>. HIDE DEF x, V
  <2>. QED
    BY <2>2, <2>3, <2>5, <2>6
<1>4. V[0] = o
  <2>1. 0 \in 0 .. n /\ Read(f, o, 0) = o
    BY <1>0, <1>1, ReadFacts
  <2>. QED
    BY <1>2, <2>1
<1>5. Rec(V)
  <2>1. ASSUME NEW k \in 0 .. n
        PROVE  V[k] = IF k = 0 THEN Read(f, off, 2)
                      ELSE parse_member_info_skip(f, V[k - 1], ms[k])
    <3>1. k # 0 => k \in 1 .. n
      BY <1>1
    <3>. HIDE DEF V
    <3>. QED
      BY <1>3, <1>4, <3>1 DEF o
  <2>2. V = [k \in 0 .. n |-> V[k]]
    OBVIOUS
  <2>. HIDE DEF V
  <2>. QED
    BY <2>1, <2>2
<1>. DEFINE s == CHOOSE q : Rec(q)
<1>6. ReadMembers(f, off, ms) = s[n]
  BY DEF ReadMembers, MemberOffs, n
<1>7. Rec(s)
  <2>. HIDE DEF Rec, V
  <2>. QED
    BY <1>5
<1>. HIDE DEF s
<1>8. s[0] = o /\ \A k \in 1 .. n : s[k] = parse_member_info_skip(f, s[k - 1], ms[k])
  <2>1. s = [k \in 0 .. n |-> IF k = 0 THEN Read(f, off, 2)
                              ELSE parse_member_info_skip(f, s[k - 1], ms[k])]
    BY <1>7
  <2>2. 0 \in 0 .. n /\ \A k \in 1 .. n : k \in 0 .. n /\ k # 0
    BY <1>1
  <2>. HIDE DEF Rec, V
  <2>. QED
    BY <2>1, <2>2 DEF o
<1>9. n \in {k \in 0 .. n : s[k] = V[k]}
  <2>. DEFINE T == {k \in 0 .. n : s[k] = V[k]}
  <2>1. 0 \in T
    BY <1>1, <1>4, <1>8
  <2>2. ASSUME NEW k \in 0 .. (n - 1), k \in T PROVE k + 1 \in T
    <3>1. k + 1 \in 1 .. n /\ (k + 1) - 1 = k /\ k + 1 \in 0 .. n
      BY <1>1
    <3>2. s[k] = V[k]
      BY <2>2
    <3>. HIDE DEF V, Rec
    <3>3. s[k + 1] = V[k + 1]
      BY <1>3, <1>8, <3>1, <3>2
    <3>. QED
      BY <3>1, <3>3
  <2>. HIDE DEF T
  <2>3. \A k \in 0 .. n : k \in T
    BY <1>1, <2>1, <2>2, Climb
  <2>4. n \in T
    BY <1>1, <2>3
  <2>. QED
    BY <2>4 DEF T
<1>10. ReadMembers(f, off, ms) = Read(f, o, MemberBytes(ms))
  BY <1>1, <1>6, <1>9
<1>11. Read(f, o, MemberBytes(ms)) = Read(f, off, 2 + MemberBytes(ms))
  <2>. DEFINE y == MemberBytes(ms)
  <2>1. y \in Nat
    BY MemberFacts
  <2>. HIDE DEF y
  <2>2. Read(f, o, y) = Read(f, off, 2 + y)
    BY <2>1, ReadFacts DEF o
  <2>. QED
    BY <2>2 DEF y
<1>. QED
  BY <1>10, <1>11

-----------------------------------------------------------------------------
(* The constant pool. *)

LEMMA PoolFacts ==
  ASSUME NEW f \in ClassSet
  PROVE  /\ Len(f.pool) \in Nat /\ DOMAIN f.pool = 1 .. Len(f.pool) /\ f.size \in Nat
         /\ Indices(f) \in [0 .. Len(f.pool) -> Nat] /\ Indices(f)[0] = 0
         /\ \A k \in 1 .. Len(f.pool) :
              /\ Slots(f.pool[k].tag) \in 1 .. 2 /\ Width(f.pool[k]) \in Nat
              /\ Indices(f)[k] = Indices(f)[k - 1] + Slots(f.pool[k].tag)
         /\ \A i, k \in 0 .. Len(f.pool) : i < k => Indices(f)[i] < Indices(f)[k]
<1>. DEFINE p == f.pool
            n == Len(p)
            w == [k \in DOMAIN p |-> Slots(p[k].tag)]
<1>1. p \in Seq(Constant) /\ n \in Nat /\ DOMAIN p = 1 .. n /\ f.size \in Nat
  BY DEF ClassSet
<1>2. \A t : Slots(t) \in 1 .. 2
  BY DEF Slots
<1>3. \A k \in 1 .. n : Width(p[k]) \in Nat
  <2>. TAKE k \in 1 .. n
  <2>. DEFINE c == p[k]
              t == c.tag
              l == c.len
  <2>1. l \in Nat
    <3>1. c \in Constant
      BY <1>1
    <3>. QED
      BY <3>1 DEF Constant
  <2>2. Width(c) = CASE t = "utf8" -> 2 + l
                     [] t = "int" -> 4
                     [] t \in {"long", "double"} -> 8
                     [] t \in {"class", "string"} -> 2
                     [] t \in {"field", "method", "nametype"} -> 4
                     [] t = "handle" -> 3
                     [] OTHER -> 0
    BY DEF Width
  <2>. HIDE DEF t, l
  <2>3. 2 + l \in Nat
    BY <2>1
  <2>4. \/ t = "utf8" \/ t = "int" \/ t \in {"long", "double"} \/ t \in {"class", "string"}
        \/ t \in {"field", "method", "nametype"} \/ t = "handle"
        \/ ~(\/ t = "utf8" \/ t = "int" \/ t \in {"long", "double"} \/ t \in {"class", "string"}
             \/ t \in {"field", "method", "nametype"} \/ t = "handle")
    OBVIOUS
  <2>5. Width(c) \in Nat
    <3>. HIDE DEF c
    <3>. QED
      BY <2>2, <2>3, <2>4
  <2>. QED
    BY <2>5
<1>4. w \in Seq(Nat) /\ Len(w) = n /\ \A k \in 1 .. n : w[k] = Slots(p[k].tag) /\ w[k] > 0
  BY <1>1, <1>2
<1>5. Indices(f) = Sums(w)
  BY DEF Indices
<1>. HIDE DEF w
<1>6. /\ Sums(w) \in [0 .. n -> Nat] /\ Sums(w)[0] = 0
      /\ \A k \in 1 .. n : Sums(w)[k] = Sums(w)[k - 1] + w[k]
  BY <1>4, SumsFacts
<1>7. \A i, k \in 0 .. n : i < k => Sums(w)[i] < Sums(w)[k]
  BY <1>4, SumsGrow
<1>. QED
  BY <1>1, <1>2, <1>3, <1>4, <1>5, <1>6, <1>7

(* The bytes of the first k constants. *)
PoolOffs(f) == Sums([k \in DOMAIN f.pool |-> 1 + Width(f.pool[k])])

LEMMA PoolOffsFacts ==
  ASSUME NEW f \in ClassSet
  PROVE  /\ PoolOffs(f) \in [0 .. Len(f.pool) -> Nat] /\ PoolOffs(f)[0] = 0
         /\ \A k \in 1 .. Len(f.pool) : PoolOffs(f)[k] = PoolOffs(f)[k - 1] + (1 + Width(f.pool[k]))
         /\ \A k \in 0 .. Len(f.pool) : PoolOffs(f)[k] <= PoolOffs(f)[Len(f.pool)]
         /\ PoolBytes(f) = PoolOffs(f)[Len(f.pool)] /\ PoolBytes(f) \in Nat
<1>. DEFINE p == f.pool
            n == Len(p)
            w == [k \in DOMAIN p |-> 1 + Width(p[k])]
<1>1. n \in Nat /\ DOMAIN p = 1 .. n /\ \A k \in 1 .. n : Width(p[k]) \in Nat
  BY PoolFacts
<1>2. \A k \in 1 .. n : 1 + Width(p[k]) \in Nat /\ 1 + Width(p[k]) > 0
  BY <1>1
<1>3. w \in Seq(Nat) /\ Len(w) = n /\ \A k \in 1 .. n : w[k] = 1 + Width(p[k])
  BY <1>1, <1>2
<1>4. PoolOffs(f) = Sums(w)
  BY DEF PoolOffs
<1>. HIDE DEF w
<1>5. /\ Sums(w) \in [0 .. n -> Nat] /\ Sums(w)[0] = 0
      /\ \A k \in 1 .. n : Sums(w)[k] = Sums(w)[k - 1] + w[k]
  BY <1>3, SumsFacts
<1>6. \A k \in 1 .. Len(w) : w[k] > 0
  BY <1>2, <1>3
<1>7. \A i, k \in 0 .. Len(w) : i < k => Sums(w)[i] < Sums(w)[k]
  BY <1>3, <1>6, SumsGrow
<1>8. ASSUME NEW k \in 0 .. n PROVE Sums(w)[k] <= Sums(w)[n]
  <2>1. n \in 0 .. n /\ (k = n \/ k < n)
    BY <1>1
  <2>2. Sums(w)[k] \in Nat /\ Sums(w)[n] \in Nat
    BY <1>5, <2>1
  <2>3. k < n => Sums(w)[k] < Sums(w)[n]
    BY <1>3, <1>7, <2>1
  <2>. QED
    BY <2>1, <2>2, <2>3
<1>9. PoolBytes(f) = Sums(w)[n] /\ n \in 0 .. n
  <2>1. PoolBytes(f) = PoolOffs(f)[n]
    BY DEF PoolBytes, PoolOffs
  <2>. QED
    BY <1>1, <1>4, <2>1
<1>. QED
  BY <1>3, <1>4, <1>5, <1>8, <1>9

PoolStart(f) == [i |-> 1, off |-> Read(f, 0, 10), cp |-> <<>>]

LEMMA PoolStates ==
  ASSUME NEW f, Len(f.pool) \in Nat
  PROVE  \E s : /\ s[0] = PoolStart(f) /\ ParsePool(f) = s[Len(f.pool) + 1]
                /\ \A k \in 1 .. (Len(f.pool) + 1) : s[k] = PoolTurn(f, k, s[k - 1])
<1>. DEFINE N == Len(f.pool) + 1
            Run(r, m) == r = [k \in 0 .. m |-> IF k = 0 THEN PoolStart(f)
                                               ELSE PoolTurn(f, k, r[k - 1])]
            S == {m \in 0 .. N : \E r : Run(r, m)}
<1>1. N \in Nat
  OBVIOUS
<1>. HIDE DEF N
<1>2. 0 \in S
  <2>. DEFINE r == [k \in 0 .. 0 |-> PoolStart(f)]
  <2>1. Run(r, 0)
    OBVIOUS
  <2>. HIDE DEF Run
  <2>. QED
    BY <1>1, <2>1
<1>3. ASSUME NEW m \in 0 .. (N - 1), m \in S
      PROVE  m + 1 \in S
  <2>1. PICK r : Run(r, m)
    BY <1>3
  <2>. DEFINE y == PoolTurn(f, m + 1, r[m])
              q == [k \in 0 .. (m + 1) |-> IF k = m + 1 THEN y ELSE r[k]]
  <2>. HIDE DEF y
  <2>2. m + 1 \in 0 .. N /\ m \in Nat
    BY <1>1
  <2>3. ASSUME NEW k \in 0 .. (m + 1)
        PROVE  q[k] = IF k = 0 THEN PoolStart(f) ELSE PoolTurn(f, k, q[k - 1])
    <3>1. CASE k = m + 1
      <4>1. k # 0 /\ k - 1 = m /\ m \in 0 .. (m + 1) /\ m # m + 1
        BY <2>2, <3>1
      <4>2. q[k] = y /\ q[k - 1] = r[m]
        BY <3>1, <4>1
      <4>. QED
        BY <3>1, <4>1, <4>2 DEF y
    <3>2. CASE k # m + 1
      <4>1. k \in 0 .. m
        BY <2>2, <3>2
      <4>2. r[k] = IF k = 0 THEN PoolStart(f) ELSE PoolTurn(f, k, r[k - 1])
        BY <2>1, <4>1
      <4>3. k # 0 => k - 1 \in 0 .. (m + 1) /\ k - 1 # m + 1
        BY <2>2, <4>1
      <4>4. q[k] = r[k] /\ (k # 0 => q[k - 1] = r[k - 1])
        BY <3>2, <4>3
      <4>. HIDE DEF q
      <4>. QED
        BY <4>2, <4>4
    <3>. QED
      BY <3>1, <3>2
  <2>4. q = [k \in 0 .. (m + 1) |-> q[k]]
    OBVIOUS
  <2>. HIDE DEF q
  <2>5. Run(q, m + 1)
    BY <2>3, <2>4
  <2>. HIDE DEF Run
  <2>. QED
    BY <2>2, <2>5
<1>4. N \in S
  <2>. HIDE DEF S
  <2>1. \A k \in 0 .. N : k \in S
    BY <1>1, <1>2, <1>3, Climb
  <2>. QED
    BY <1>1, <2>1
<1>5. \E r : Run(r, N)
  BY <1>4
<1>. DEFINE s == CHOOSE r : Run(r, N)
<1>6. Run(s, N)
  <2>. HIDE DEF Run
  <2>. QED
    BY <1>5
<1>7. ParsePool(f) = s[N]
  BY DEF ParsePool, N, PoolStart
<1>. HIDE DEF s, S
<1>8. s[0] = PoolStart(f) /\ \A k \in 1 .. N : s[k] = PoolTurn(f, k, s[k - 1])
  <2>1. s = [k \in 0 .. N |-> IF k = 0 THEN PoolStart(f) ELSE PoolTurn(f, k, s[k - 1])]
    BY <1>6
  <2>2. 0 \in 0 .. N /\ \A k \in 1 .. N : k \in 0 .. N /\ k # 0
    BY <1>1
  <2>. QED
    BY <2>1, <2>2
<1>. HIDE DEF Run
<1>. QED
  BY <1>7, <1>8 DEF N

(* The loop after k constants: it has failed, and there was reason to, or  *)
(* it is at the next constant and has put the ones before where they       *)
(* belong.                                                                 *)
Failed(f, s) ==
  /\ s.off = Fail
  /\ 10 + PoolBytes(f) > f.size \/ \E m \in 1 .. Len(f.pool) : Width(f.pool[m]) = 0

Filled(f, s, k) ==
  /\ s.off = 10 + PoolOffs(f)[k] /\ s.off \in 0 .. f.size
  /\ s.i = 1 + Indices(f)[k]
  /\ \A m \in 1 .. k : Width(f.pool[m]) # 0
  /\ DOMAIN s.cp = {IndexOf(f, m) : m \in 1 .. k}
  /\ s.cp = [j \in DOMAIN s.cp |-> s.cp[j]]
  /\ \A m \in 1 .. k : s.cp[IndexOf(f, m)] = f.pool[m]

PoolAt(f, s, k) == DOMAIN s = {"i", "off", "cp"} /\ (Failed(f, s) \/ Filled(f, s, k))

LEMMA IndexFacts ==
  ASSUME NEW f \in ClassSet
  PROVE  /\ \A k \in 1 .. Len(f.pool) : IndexOf(f, k) = 1 + Indices(f)[k - 1] /\ IndexOf(f, k) \in Nat
         /\ \A i, k \in 1 .. Len(f.pool) : i < k => IndexOf(f, i) < IndexOf(f, k)
         /\ \A i, k \in 1 .. Len(f.pool) : IndexOf(f, i) = IndexOf(f, k) => i = k
<1>. DEFINE n == Len(f.pool)
            I == Indices(f)
<1>1. n \in Nat /\ I \in [0 .. n -> Nat] /\ \A i, k \in 0 .. n : i < k => I[i] < I[k]
  BY PoolFacts
<1>2. \A k \in 1 .. n : IndexOf(f, k) = 1 + I[k - 1]
  BY DEF IndexOf
<1>. HIDE DEF I
<1>3. ASSUME NEW k \in 1 .. n PROVE IndexOf(f, k) \in Nat
  <2>1. k - 1 \in 0 .. n
    BY <1>1
  <2>2. I[k - 1] \in Nat
    BY <1>1, <2>1
  <2>. QED
    BY <1>2, <2>2
<1>4. ASSUME NEW i \in 1 .. n, NEW k \in 1 .. n, i < k
      PROVE  IndexOf(f, i) < IndexOf(f, k)
  <2>1. i - 1 \in 0 .. n /\ k - 1 \in 0 .. n /\ i - 1 < k - 1
    BY <1>1, <1>4
  <2>2. I[i - 1] \in Nat /\ I[k - 1] \in Nat /\ I[i - 1] < I[k - 1]
    BY <1>1, <2>1
  <2>. QED
    BY <1>2, <2>2
<1>5. ASSUME NEW i \in 1 .. n, NEW k \in 1 .. n, IndexOf(f, i) = IndexOf(f, k)
      PROVE  i = k
  <2>1. ~(IndexOf(f, i) < IndexOf(f, k)) /\ ~(IndexOf(f, k) < IndexOf(f, i))
    BY <1>3, <1>5
  <2>2. ~(i < k) /\ ~(k < i)
    BY <1>4, <2>1
  <2>. QED
    BY <1>1, <2>2
<1>. QED
  BY <1>2, <1>3, <1>4, <1>5 DEF I

LEMMA PoolStartAt ==
  ASSUME NEW f \in ClassSet
  PROVE  PoolAt(f, PoolStart(f), 0)
<1>. DEFINE s == PoolStart(f)
<1>1. DOMAIN s = {"i", "off", "cp"} /\ s.i = 1 /\ s.off = Read(f, 0, 10) /\ s.cp = <<>>
  BY DEF PoolStart
<1>. HIDE DEF s
<1>2. f.size \in Nat /\ Indices(f)[0] = 0 /\ PoolOffs(f)[0] = 0 /\ PoolBytes(f) \in Nat
  BY PoolFacts, PoolOffsFacts
<1>0. 0 + 10 = 10 /\ 0 \in Offsets(f) /\ 0 # Fail
  BY <1>2 DEF Offsets, Fail
<1>5. s.off = IF 10 > f.size THEN Fail ELSE 10
  BY <1>0, <1>1, <1>2, ReadIs
<1>3. CASE 10 > f.size
  <2>1. s.off = Fail
    BY <1>3, <1>5
  <2>2. 10 + PoolBytes(f) > f.size
    BY <1>2, <1>3
  <2>. QED
    BY <1>1, <2>1, <2>2 DEF PoolAt, Failed, s
<1>4. CASE ~(10 > f.size)
  <2>1. s.off = 10
    BY <1>4, <1>5
  <2>2. DOMAIN s.cp = {} /\ s.cp = [j \in DOMAIN s.cp |-> s.cp[j]]
    BY <1>1
  <2>3. s.off \in 0 .. f.size
    BY <1>2, <1>4, <2>1
  <2>4. {IndexOf(f, m) : m \in 1 .. 0} = {} /\ \A m \in 1 .. 0 : FALSE
    OBVIOUS
  <2>5. Filled(f, s, 0)
    BY <1>1, <1>2, <2>1, <2>2, <2>3, <2>4 DEF Filled
  <2>. QED
    BY <1>1, <2>5 DEF PoolAt, s
<1>. QED
  BY <1>3, <1>4

LEMMA PoolStep ==
  ASSUME NEW f \in ClassSet, NEW k \in 1 .. Len(f.pool), NEW s, PoolAt(f, s, k - 1)
  PROVE  PoolAt(f, PoolTurn(f, k, s), k)
<1>. DEFINE n == Len(f.pool)
            I == Indices(f)
            P == PoolOffs(f)
            W == Width(f.pool[k])
            t == PoolTurn(f, k, s)
<1>1. /\ n \in Nat /\ k \in Nat /\ k - 1 \in 0 .. n /\ n \in 0 .. n /\ k - 1 < n /\ ~(k > n) /\ f.size \in Nat
      /\ I[k - 1] \in Nat /\ I[n] \in Nat /\ I[k - 1] < I[n]
  <2>1. n \in Nat /\ f.size \in Nat /\ I \in [0 .. n -> Nat] /\ \A a, b \in 0 .. n : a < b => I[a] < I[b]
    BY PoolFacts
  <2>2. k \in Nat /\ k - 1 \in 0 .. n /\ n \in 0 .. n /\ k - 1 < n /\ ~(k > n)
    BY <2>1
  <2>. HIDE DEF I, n
  <2>. QED
    BY <2>1, <2>2
<1>2. /\ W \in Nat /\ I[k] = I[k - 1] + Slots(f.pool[k].tag) /\ P[k] = P[k - 1] + (1 + W)
      /\ P[k - 1] \in Nat /\ P[k] <= P[n] /\ P[k] \in Nat /\ PoolBytes(f) = P[n] /\ P[n] \in Nat
  <2>1. W \in Nat /\ I[k] = I[k - 1] + Slots(f.pool[k].tag)
    BY PoolFacts
  <2>2. P \in [0 .. n -> Nat] /\ P[k] = P[k - 1] + (1 + W) /\ PoolBytes(f) = P[n]
    BY PoolOffsFacts
  <2>3. k \in 0 .. n
    BY <1>1
  <2>4. P[k] <= P[n]
    BY <2>3, PoolOffsFacts
  <2>. HIDE DEF P, n, W, I
  <2>. QED
    BY <1>1, <2>1, <2>2, <2>3, <2>4
<1>3. cp_count(f) = 1 + I[n]
  BY DEF cp_count
<1>. HIDE DEF I, P, W, n
<1>4. CASE Failed(f, s)
  <2>1. t = s
    BY <1>4 DEF PoolTurn, Failed
  <2>. QED
    BY <1>4, <2>1 DEF PoolAt
<1>5. CASE Filled(f, s, k - 1)
  <2>1. /\ s.off = 10 + P[k - 1] /\ s.off \in 0 .. f.size /\ s.i = 1 + I[k - 1]
        /\ \A m \in 1 .. (k - 1) : Width(f.pool[m]) # 0
        /\ DOMAIN s.cp = {IndexOf(f, m) : m \in 1 .. (k - 1)}
        /\ \A m \in 1 .. (k - 1) : s.cp[IndexOf(f, m)] = f.pool[m]
        /\ DOMAIN s = {"i", "off", "cp"}
    BY <1>5 DEF Filled, P, I, PoolAt
  <2>2. ~(s.i >= cp_count(f)) /\ s.off # Fail
    BY <1>1, <1>3, <2>1 DEF Fail
  <2>3. CASE W = 0
    <3>1. t = [s EXCEPT !.off = Fail]
      BY <1>1, <2>2, <2>3 DEF PoolTurn, W, n
    <3>2. DOMAIN t = {"i", "off", "cp"} /\ t.off = Fail
      BY <2>1, <3>1
    <3>3. k \in 1 .. Len(f.pool) /\ Width(f.pool[k]) = 0
      BY <2>3 DEF W
    <3>. HIDE DEF t
    <3>4. Failed(f, t)
      BY <3>2, <3>3 DEF Failed
    <3>. QED
      BY <3>2, <3>4 DEF PoolAt, t
  <2>4. CASE W # 0
    <3>. DEFINE c == [j \in DOMAIN s.cp \cup {s.i} |-> IF j = s.i THEN f.pool[k] ELSE s.cp[j]]
                o == Read(f, s.off, 1 + W)
    <3>1. t = [i |-> NextIndex(s.i, f.pool[k].tag), off |-> o, cp |-> c]
      BY <1>1, <2>2, <2>4 DEF PoolTurn, W, n
    <3>2. DOMAIN t = {"i", "off", "cp"} /\ t.i = NextIndex(s.i, f.pool[k].tag) /\ t.off = o /\ t.cp = c
      BY <3>1
    <3>. HIDE DEF t
    <3>3. s.off + (1 + W) = 10 + P[k]
      BY <1>2, <2>1
    <3>6. o = IF s.off + (1 + W) > f.size THEN Fail ELSE s.off + (1 + W)
      <4>. DEFINE p == s.off
                  y == 1 + W
      <4>1. p \in Offsets(f) /\ p # Fail
        BY <2>1, <2>2 DEF Offsets
      <4>. HIDE DEF p, y
      <4>2. Read(f, p, y) = IF p + y > f.size THEN Fail ELSE p + y
        BY <1>1, <4>1, ReadIs
      <4>. QED
        BY <4>2 DEF p, y
    <3>. HIDE DEF o
    <3>4. CASE s.off + (1 + W) > f.size
      <4>1. o = Fail
        BY <3>4, <3>6
      <4>2. 10 + PoolBytes(f) > f.size
        BY <1>1, <1>2, <3>3, <3>4
      <4>. QED
        BY <3>2, <4>1, <4>2 DEF PoolAt, Failed, t
    <3>5. CASE ~(s.off + (1 + W) > f.size)
      <4>1. o = 10 + P[k] /\ o \in 0 .. f.size
        BY <1>1, <1>2, <3>3, <3>5, <3>6
      <4>2. t.i = 1 + I[k]
        BY <1>1, <1>2, <2>1, <3>2 DEF NextIndex, Slots
      <4>3. s.i = IndexOf(f, k)
        BY <2>1 DEF IndexOf, I
      <4>4. DOMAIN c = {IndexOf(f, m) : m \in 1 .. k}
        <5>1. \A m \in 1 .. k : m \in 1 .. (k - 1) \/ m = k
          BY <1>1
        <5>2. k \in 1 .. k /\ \A m \in 1 .. (k - 1) : m \in 1 .. k
          BY <1>1
        <5>. QED
          BY <2>1, <4>3, <5>1, <5>2
      <4>5. ASSUME NEW m \in 1 .. k
            PROVE  Width(f.pool[m]) # 0 /\ c[IndexOf(f, m)] = f.pool[m]
        <5>1. CASE m = k
          BY <2>4, <4>3, <5>1 DEF W
        <5>2. CASE m # k
          <6>1. m \in 1 .. (k - 1) /\ m \in 1 .. Len(f.pool)
            BY <1>1, <5>2 DEF n
          <6>2. IndexOf(f, m) # s.i
            BY <4>3, <5>2, <6>1, IndexFacts
          <6>3. IndexOf(f, m) \in DOMAIN s.cp
            BY <2>1, <6>1
          <6>. QED
            BY <2>1, <6>1, <6>2, <6>3
        <5>. QED
          BY <5>1, <5>2
      <4>6. c = [j \in DOMAIN c |-> c[j]]
        OBVIOUS
      <4>. HIDE DEF c, o
      <4>7. Filled(f, t, k)
        BY <3>2, <4>1, <4>2, <4>4, <4>5, <4>6 DEF Filled, P, I
      <4>. QED
        BY <3>2, <4>7 DEF PoolAt, t
    <3>. QED
      BY <3>4, <3>5
  <2>. QED
    BY <2>3, <2>4
<1>. QED
  BY <1>4, <1>5 DEF PoolAt

LEMMA PoolParsed ==
  ASSUME NEW f \in ClassSet
  PROVE  PoolAt(f, ParsePool(f), Len(f.pool))
<1>. DEFINE n == Len(f.pool)
<1>1. n \in Nat
  BY PoolFacts
<1>2. PICK s : /\ s[0] = PoolStart(f) /\ ParsePool(f) = s[n + 1]
               /\ \A k \in 1 .. (n + 1) : s[k] = PoolTurn(f, k, s[k - 1])
  BY <1>1, PoolStates
<1>3. n \in {k \in 0 .. n : PoolAt(f, s[k], k)}
  <2>. DEFINE S == {k \in 0 .. n : PoolAt(f, s[k], k)}
  <2>1. 0 \in S
    BY <1>1, <1>2, PoolStartAt
  <2>2. ASSUME NEW k \in 0 .. (n - 1), k \in S PROVE k + 1 \in S
    <3>. DEFINE j == k + 1
    <3>1. j \in 1 .. (n + 1) /\ j \in 1 .. n /\ j - 1 = k /\ j \in 0 .. n
      BY <1>1
    <3>. HIDE DEF j
    <3>2. s[j] = PoolTurn(f, j, s[k]) /\ PoolAt(f, s[k], j - 1)
      BY <1>2, <2>2, <3>1
    <3>3. PoolAt(f, s[j], j)
      BY <3>1, <3>2, PoolStep
    <3>4. j \in S
      BY <3>1, <3>3
    <3>. QED
      BY <3>4 DEF j
  <2>. HIDE DEF S, n
  <2>3. \A k \in 0 .. n : k \in S
    BY <1>1, <2>1, <2>2, Climb
  <2>4. n \in S
    BY <1>1, <2>3
  <2>. QED
    BY <2>4 DEF S
<1>4. s[n + 1] = s[n]
  <2>1. n + 1 \in 1 .. (n + 1) /\ (n + 1) - 1 = n
    BY <1>1
  <2>2. s[n + 1] = PoolTurn(f, n + 1, s[n])
    BY <1>2, <2>1
  <2>3. PoolAt(f, s[n], n)
    BY <1>3
  <2>4. s[n].off = Fail \/ s[n].i >= cp_count(f)
    <3>1. CASE Failed(f, s[n])
      BY <3>1 DEF Failed
    <3>2. CASE Filled(f, s[n], n)
      <4>1. s[n].i = cp_count(f)
        BY <3>2 DEF Filled, cp_count
      <4>2. cp_count(f) \in Int
        <5>1. Indices(f) \in [0 .. n -> Nat] /\ n \in 0 .. n
          BY <1>1, PoolFacts
        <5>2. Indices(f)[n] \in Nat
          BY <5>1
        <5>. QED
          BY <5>2 DEF cp_count
      <4>. QED
        BY <4>1, <4>2
    <3>. QED
      BY <2>3, <3>1, <3>2 DEF PoolAt
  <2>. QED
    BY <2>2, <2>4 DEF PoolTurn
<1>. QED
  BY <1>2, <1>3, <1>4

(* All of the file after the pool, read at once. *)
LEMMA RestIs ==
  ASSUME NEW f \in ClassSet, NEW off \in Offsets(f), TrueLengths(f) \/ off = Fail
  PROVE  LET head == Read(f, Read(f, off, 8), 2 * f.interfaces)
             fields == ReadMembers(f, head, f.fields)
             methods == ReadMembers(f, fields, f.methods)
         IN  ReadAttrs(f, Read(f, methods, 2), f.attrs)
               = Read(f, off, 14 + 2 * f.interfaces + MemberBytes(f.fields)
                                 + MemberBytes(f.methods) + AttrBytes(f.attrs))
<1>. DEFINE a == 2 * f.interfaces
            b == MemberBytes(f.fields)
            c == MemberBytes(f.methods)
            d == AttrBytes(f.attrs)
            head == Read(f, Read(f, off, 8), a)
            fields == ReadMembers(f, head, f.fields)
            methods == ReadMembers(f, fields, f.methods)
            last == Read(f, methods, 2)
<1>1. /\ f.size \in Nat /\ f.interfaces \in Nat /\ f.fields \in Seq(Member) /\ f.methods \in Seq(Member)
      /\ f.attrs \in Member
  BY DEF ClassSet, Member
<1>2. b \in Nat /\ c \in Nat
  BY <1>1, MemberFacts
<1>3. d \in Nat /\ a \in Nat
  BY <1>1, AttrBytesNat
<1>. DEFINE F == f.fields
            M == f.methods
            A == f.attrs
            On(o) == o \in Offsets(f) /\ (TrueLengths(f) \/ o = Fail)
<1>4. /\ \A o : On(o) => ReadMembers(f, o, F) = Read(f, o, 2 + b)
      /\ \A o : On(o) => ReadMembers(f, o, M) = Read(f, o, 2 + c)
      /\ \A o : On(o) => ReadAttrs(f, o, A) = Read(f, o, d)
  <2>1. ASSUME NEW o, On(o) PROVE ReadMembers(f, o, F) = Read(f, o, 2 + b)
    <3>1. o = Fail \/ \A k \in DOMAIN F : Honest(f, F[k])
      BY <2>1 DEF TrueLengths
    <3>. QED
      BY <1>1, <2>1, <3>1, ReadMembersIs
  <2>2. ASSUME NEW o, On(o) PROVE ReadMembers(f, o, M) = Read(f, o, 2 + c)
    <3>1. o = Fail \/ \A k \in DOMAIN M : Honest(f, M[k])
      BY <2>2 DEF TrueLengths
    <3>. QED
      BY <1>1, <2>2, <3>1, ReadMembersIs
  <2>3. ASSUME NEW o, On(o) PROVE ReadAttrs(f, o, A) = Read(f, o, d)
    <3>1. o = Fail \/ Honest(f, A)
      BY <2>3 DEF TrueLengths
    <3>. QED
      BY <1>1, <2>3, <3>1, ReadAttrsIs
  <2>. QED
    BY <2>1, <2>2, <2>3
<1>11. \A n \in Nat : Read(f, off, n) \in Offsets(f) => On(Read(f, off, n))
  BY <1>1, ReadIs
<1>. HIDE DEF On
<1>. HIDE DEF a, b, c, d, F, M, A
<1>5. head = Read(f, off, 8 + a) /\ head \in Offsets(f)
  <2>. DEFINE x == 8
              h == Read(f, off, x)
  <2>1. x \in Nat /\ f.size \in Nat /\ a \in Nat
    BY <1>1, <1>3
  <2>2. head = Read(f, h, a)
    OBVIOUS
  <2>. HIDE DEF x, head
  <2>5. h \in Offsets(f)
    BY <2>1, ReadFacts
  <2>3. Read(f, h, a) = Read(f, off, x + a)
    BY <2>1, ReadFacts
  <2>. HIDE DEF h
  <2>4. Read(f, h, a) \in Offsets(f)
    BY <2>1, <2>5, ReadFacts
  <2>. QED
    BY <2>2, <2>3, <2>4 DEF x
<1>6. fields = Read(f, off, (8 + a) + (2 + b)) /\ fields \in Offsets(f)
  <2>. DEFINE x == 8 + a
              y == 2 + b
  <2>1. x \in Nat /\ y \in Nat
    BY <1>2, <1>3
  <2>4. head = Read(f, off, x) /\ On(head)
    BY <1>5, <1>11, <2>1
  <2>2. fields = Read(f, head, y) /\ head = Read(f, off, x)
    BY <1>4, <2>4 DEF F
  <2>. HIDE DEF x, y, head, fields
  <2>3. fields = Read(f, off, x + y) /\ fields \in Offsets(f)
    BY <1>1, <1>5, <2>1, <2>2, ReadFacts
  <2>. QED
    BY <2>3 DEF x, y
<1>7. methods = Read(f, off, ((8 + a) + (2 + b)) + (2 + c)) /\ methods \in Offsets(f)
  <2>. DEFINE x == (8 + a) + (2 + b)
              y == 2 + c
  <2>1. x \in Nat /\ y \in Nat
    BY <1>2, <1>3
  <2>4. fields = Read(f, off, x) /\ On(fields)
    BY <1>6, <1>11, <2>1
  <2>2. methods = Read(f, fields, y) /\ fields = Read(f, off, x)
    BY <1>4, <2>4 DEF M
  <2>. HIDE DEF x, y, fields, methods
  <2>3. methods = Read(f, off, x + y) /\ methods \in Offsets(f)
    BY <1>1, <1>6, <2>1, <2>2, ReadFacts
  <2>. QED
    BY <2>3 DEF x, y
<1>. HIDE DEF methods
<1>8. last = Read(f, off, (((8 + a) + (2 + b)) + (2 + c)) + 2) /\ last \in Offsets(f)
  <2>. DEFINE x == ((8 + a) + (2 + b)) + (2 + c)
  <2>1. x \in Nat
    BY <1>2, <1>3
  <2>. DEFINE y == 2
  <2>2. y \in Nat /\ last = Read(f, methods, y) /\ methods = Read(f, off, x)
    BY <1>7
  <2>. HIDE DEF x, y, last
  <2>3. last = Read(f, off, x + y) /\ last \in Offsets(f)
    BY <1>1, <1>7, <2>1, <2>2, ReadFacts
  <2>. QED
    BY <2>3 DEF x, y
<1>9. ReadAttrs(f, last, A) = Read(f, off, ((((8 + a) + (2 + b)) + (2 + c)) + 2) + d)
  <2>. DEFINE x == (((8 + a) + (2 + b)) + (2 + c)) + 2
  <2>1. x \in Nat
    BY <1>2, <1>3
  <2>2. last = Read(f, off, x) /\ On(last)
    BY <1>8, <1>11, <2>1
  <2>. HIDE DEF x, last
  <2>3. ReadAttrs(f, last, A) = Read(f, last, d)
    BY <1>4, <2>2
  <2>4. Read(f, last, d) = Read(f, off, x + d)
    BY <1>1, <1>3, <2>1, <2>2, ReadFacts
  <2>. QED
    BY <2>3, <2>4 DEF x
<1>10. ((((8 + a) + (2 + b)) + (2 + c)) + 2) + d = 14 + a + b + c + d
  BY <1>2, <1>3
<1>. QED
  BY <1>9, <1>10 DEF a, b, c, d, methods, A

LEMMA ParsedAsWritten ==
  ASSUME NEW f \in ClassSet, NEW c \in jvm_parse_class(f)
  PROVE  /\ TrueLengths(f) => c.ok = Written(f).ok
         /\ c.ok => c.cp = Written(f).cp
<1>. DEFINE pool == ParsePool(f)
            n == Len(f.pool)
            rest == 14 + 2 * f.interfaces + MemberBytes(f.fields)
                    + MemberBytes(f.methods) + AttrBytes(f.attrs)
            end == Read(f, pool.off, rest)
            whole == /\ f.size >= FileBytes(f)
                     /\ \A k \in DOMAIN f.pool : Width(f.pool[k]) # 0
<1>1. PoolAt(f, pool, n)
  BY PoolParsed
<1>2. f.size \in Nat /\ n \in Nat /\ n \in 0 .. n /\ DOMAIN f.pool = 1 .. n
  BY PoolFacts
<1>3. PoolOffs(f)[n] = PoolBytes(f) /\ PoolBytes(f) \in Nat
  BY PoolOffsFacts
<1>. HIDE DEF pool
<1>4. pool.off \in Offsets(f)
  BY <1>1 DEF PoolAt, Failed, Filled, Offsets
<1>5. rest \in Nat /\ FileBytes(f) = 10 + PoolBytes(f) + rest
  <2>. DEFINE a == f.interfaces
              b == MemberBytes(f.fields)
              m == MemberBytes(f.methods)
              d == AttrBytes(f.attrs)
              p == PoolBytes(f)
  <2>0. /\ f.interfaces \in Nat /\ f.fields \in Seq(Member) /\ f.methods \in Seq(Member)
        /\ f.attrs \in Member
    BY DEF ClassSet, Member
  <2>1. b \in Nat /\ m \in Nat
    BY <2>0, MemberFacts
  <2>2. d \in Nat /\ a \in Nat /\ p \in Nat
    BY <1>3, <2>0, AttrBytesNat
  <2>3. FileBytes(f) = 24 + p + 2 * a + b + m + d
    BY DEF FileBytes
  <2>. HIDE DEF a, b, m, d, p
  <2>4. 14 + 2 * a + b + m + d \in Nat
        /\ 24 + p + 2 * a + b + m + d = 10 + p + (14 + 2 * a + b + m + d)
    BY <2>1, <2>2
  <2>. QED
    BY <2>3, <2>4 DEF a, b, m, d, p
<1>6. /\ c.cp = pool.cp
      /\ TrueLengths(f) \/ pool.off = Fail => c.ok = (end # Fail /\ cp_count(f) <= JVM_CP_MAX)
  <2>. DEFINE head == Read(f, Read(f, pool.off, 8), 2 * f.interfaces)
              fields == ReadMembers(f, head, f.fields)
              methods == ReadMembers(f, fields, f.methods)
              e == ReadAttrs(f, Read(f, methods, 2), f.attrs)
              kept == {i \in DOMAIN f.methods : i <= JVM_METHOD_MAX}
              code == [i \in kept |->
                         CodeOf(f, Read(f, MemberOffs(f, fields, f.methods)[i - 1], 8), f.methods[i])]
              result(ok, cd) == [ok |-> ok /\ cp_count(f) <= JVM_CP_MAX, cp |-> pool.cp, code |-> cd]
  <2>1. jvm_parse_class(f) =
          IF e = Astray THEN {result(ok, cd) : ok \in BOOLEAN, cd \in {<<>>, <<1>>}}
          ELSE {result(e # Fail, code)}
    BY DEF jvm_parse_class, pool
  <2>2. TrueLengths(f) \/ pool.off = Fail => e = end
    BY <1>4, RestIs
  <2>3. end \in Offsets(f)
    <3>. HIDE DEF rest
    <3>. QED
      BY <1>2, <1>4, <1>5, ReadFacts
  <2>4. end # Astray
    <3>. HIDE DEF end
    <3>. QED
      BY <1>2, <2>3 DEF Offsets, Astray, Fail
  <2>. HIDE DEF e, code, end
  <2>5. c.cp = pool.cp
    BY <2>1
  <2>6. ASSUME e # Astray PROVE c.ok = (e # Fail /\ cp_count(f) <= JVM_CP_MAX)
    BY <2>1, <2>6
  <2>. QED
    BY <2>2, <2>4, <2>5, <2>6
<1>7. Written(f).ok = (whole /\ cp_count(f) <= JVM_CP_MAX)
  BY DEF Written
<1>. HIDE DEF rest
<1>8. CASE Failed(f, pool)
  <2>1. end = Fail /\ pool.off = Fail
    BY <1>2, <1>4, <1>8, ReadIs DEF Failed
  <2>2. ~whole
    <3>1. CASE 10 + PoolBytes(f) > f.size
      BY <1>2, <1>3, <1>5, <3>1
    <3>2. CASE \E m \in 1 .. n : Width(f.pool[m]) = 0
      BY <1>2, <3>2
    <3>. QED
      BY <1>8, <3>1, <3>2 DEF Failed
  <2>. HIDE DEF end, whole
  <2>. QED
    BY <1>6, <1>7, <2>1, <2>2
<1>9. CASE Filled(f, pool, n)
  <2>1. pool.off = 10 + PoolBytes(f) /\ pool.off # Fail /\ \A m \in 1 .. n : Width(f.pool[m]) # 0
    BY <1>2, <1>3, <1>9 DEF Filled, Fail
  <2>2. end # Fail <=> ~(FileBytes(f) > f.size)
    <3>1. pool.off + rest = FileBytes(f) /\ FileBytes(f) # Fail
      BY <1>3, <1>5, <2>1 DEF Fail
    <3>2. end = IF pool.off + rest > f.size THEN Fail ELSE pool.off + rest
      BY <1>2, <1>4, <2>1, ReadIs
    <3>. QED
      BY <3>1, <3>2
  <2>3. FileBytes(f) \in Nat
    BY <1>3, <1>5
  <2>4. end # Fail <=> whole
    BY <1>2, <2>1, <2>2, <2>3
  <2>. HIDE DEF end, whole
  <2>5. pool.cp = Written(f).cp
    <3>. DEFINE D == {IndexOf(f, m) : m \in 1 .. n}
                g == [i \in D |-> f.pool[CHOOSE k \in 1 .. n : IndexOf(f, k) = i]]
    <3>1. Written(f).cp = g
      BY <1>2 DEF Written
    <3>2. /\ DOMAIN pool.cp = D /\ pool.cp = [j \in DOMAIN pool.cp |-> pool.cp[j]]
          /\ \A m \in 1 .. n : pool.cp[IndexOf(f, m)] = f.pool[m]
      BY <1>9 DEF Filled
    <3>3. ASSUME NEW i \in D PROVE pool.cp[i] = g[i]
      <4>1. PICK m \in 1 .. n : i = IndexOf(f, m)
        OBVIOUS
      <4>2. \A k \in 1 .. n : IndexOf(f, k) = i => k = m
        BY <4>1, IndexFacts
      <4>3. (CHOOSE k \in 1 .. n : IndexOf(f, k) = i) = m
        BY <4>1, <4>2
      <4>. QED
        BY <3>2, <4>1, <4>3
    <3>4. pool.cp = [j \in D |-> pool.cp[j]]
      BY <3>2
    <3>5. g = [j \in D |-> g[j]]
      OBVIOUS
    <3>. HIDE DEF D, g
    <3>6. pool.cp = g
      BY <3>3, <3>4, <3>5
    <3>. QED
      BY <3>1, <3>6
  <2>. QED
    BY <1>6, <1>7, <2>4, <2>5
<1>. QED
  BY <1>1, <1>8, <1>9 DEF PoolAt

(* jvm_parse_class, on any file whose attributes give their lengths and    *)
(* that is cut at any byte, accepts exactly the whole ones whose constants *)
(* are all of known kinds, and in any file that it accepts it puts each    *)
(* constant, a text of any length included, at the index its compiler gave *)
(* it.                                                                     *)
THEOREM ClassesParsed == Spec => []ParsesAsWritten
<1>1. Init => ParsesAsWritten
  BY DEF Init, ParsesAsWritten
<1>2. ParsesAsWritten /\ [Next]_vars => ParsesAsWritten'
  <2>. SUFFICES ASSUME ParsesAsWritten, [Next]_vars, phase' = "parsed"
                PROVE  ParsesAsWritten'
    BY DEF ParsesAsWritten
  <2>1. CASE ParseClass
    <3>1. PICK f \in ClassFiles : file' = f /\ parsed' \in jvm_parse_class(f)
      BY <2>1 DEF ParseClass
    <3>2. f \in ClassSet
      BY <3>1, FilesAssumption DEF ClassSet
    <3>3. /\ TrueLengths(f) => parsed'.ok = Written(f).ok
          /\ parsed'.ok => parsed'.cp = Written(f).cp
      BY <3>1, <3>2, ParsedAsWritten
    <3>. QED
      BY <3>1, <3>3 DEF ParsesAsWritten
  <2>2. CASE ~ParseClass
    <3>1. ~End
      BY DEF End
    <3>2. UNCHANGED <<phase, file, parsed>>
      BY <2>2, <3>1 DEF Next, vars, fileVars, cmd_java, cmd_jarinfo, java_load_file, RunJar,
         ListJar, SearchOn, ShowJar, HaveJar, StartMain, Instruction, Executing, ProgramEnds,
         StartHjar, HjarStep, HjarEnds
    <3>. QED
      BY <3>2 DEF ParsesAsWritten
  <2>. QED
    BY <2>1, <2>2
<1>. QED
  BY <1>1, <1>2, PTL DEF Spec
=============================================================================
