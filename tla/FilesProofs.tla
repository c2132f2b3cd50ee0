----------------------------- MODULE FilesProofs -----------------------------
(***************************************************************************)
(* The file system under every sequence of the shell's commands, for every *)
(* table size, pool size and set of paths.                                 *)
(***************************************************************************)
EXTENDS FileCommands, FiniteSetTheorems, NaturalsInduction, WellFoundedInduction, TLAPS

-----------------------------------------------------------------------------
(* Numbers. *)

(* A non-empty set of naturals has a least element, and Min is that.       *)
LEMMA LeastNat ==
  ASSUME NEW S \in SUBSET Nat, S # {}
  PROVE  Min(S) \in S /\ \A y \in S : Min(S) <= y
<1>. DEFINE R == OpToRel(<, Nat)
<1>1. IsWellFoundedOn(R, Nat)
  BY NatLessThanWellFounded
<1>2. \A a, b \in Nat : a < b => <<a, b>> \in R
  BY DEF OpToRel
<1>. HIDE DEF R
<1>3. PICK x \in S : \A y \in S : ~ (<<y, x>> \in R)
  BY <1>1, WFMin
<1>4. ASSUME NEW y \in S
      PROVE  x <= y
  <2>1. x \in Nat /\ y \in Nat
    OBVIOUS
  <2>2. ~ (y < x)
    BY <1>2, <1>3, <2>1
  <2>. QED
    BY <2>1, <2>2
<1>. QED
  BY <1>3, <1>4 DEF Min

(* Induction on a bounded number: a set of numbers up to n that holds 0    *)
(* and, with k, the number after it, holds them all.                       *)
LEMMA UpTo ==
  ASSUME NEW n \in Nat, NEW S, 0 \in S,
         \A k \in 0 .. (n - 1) : k \in S => k + 1 \in S
  PROVE  \A k \in 0 .. n : k \in S
<1>. DEFINE T == {k \in 0 .. n : k \notin S}
<1>. SUFFICES ASSUME T # {} PROVE FALSE
  OBVIOUS
<1>1. T \in SUBSET Nat
  OBVIOUS
<1>. DEFINE m == Min(T)
<1>2. m \in T /\ \A y \in T : m <= y
  BY <1>1, LeastNat
<1>. HIDE DEF m
<1>3. m \in 1 .. n
  BY <1>2
<1>4. m - 1 \in 0 .. (n - 1) /\ m - 1 \notin T
  BY <1>2, <1>3
<1>5. m - 1 \in S
  BY <1>4
<1>6. (m - 1) + 1 = m
  BY <1>3
<1>. QED
  BY <1>2, <1>4, <1>5, <1>6

-----------------------------------------------------------------------------
(* The disk's shape. *)

Fields == {"type", "parent", "first_child", "next_sibling", "name", "size", "data_off"}

(* TypeOK of one disk. *)
NodeOK(e) ==
  /\ DOMAIN e = Fields
  /\ e.type \in {"free", "dir", "file"}
  /\ e.parent \in Node
  /\ e.first_child \in Node
  /\ e.next_sibling \in Node
  /\ e.size \in 0 .. DATA_CAP
  /\ e.data_off \in 0 .. DATA_CAP

DiskOK(d) ==
  /\ DOMAIN d = {"node", "pool"}
  /\ DOMAIN d.node = Node
  /\ \A n \in Node : NodeOK(d.node[n])
  /\ d.pool \in Seq(Byte)
  /\ Len(d.pool) <= DATA_CAP

LEMMA Constants ==
  /\ MAX_NODES \in Nat /\ MAX_NODES > 0
  /\ DATA_CAP \in Nat
  /\ Root \in Node /\ Root = 0
  /\ \A n : n \in Node <=> n \in Nat /\ n < MAX_NODES
  /\ FAIL \notin Node
  BY RamdiskAssumption DEF Root, Node, FAIL

-----------------------------------------------------------------------------
(* Chains. *)

(* The walk along a chain is well defined. *)
LEMMA ChainFacts ==
  ASSUME NEW d, NEW dir
  PROVE  LET at == Chain(d, dir)
         IN  /\ DOMAIN at = 1 .. MAX_NODES
             /\ at[1] = d.node[dir].first_child
             /\ \A k \in 2 .. MAX_NODES :
                  at[k] = IF at[k - 1] = 0 THEN 0 ELSE d.node[at[k - 1]].next_sibling
<1>. DEFINE Rec(f, n) == f = [k \in 1 .. (n + 1) |->
                 IF k = 1 THEN d.node[dir].first_child
                 ELSE IF f[k - 1] = 0 THEN 0 ELSE d.node[f[k - 1]].next_sibling]
            S == {n \in 0 .. (MAX_NODES - 1) : \E f : Rec(f, n)}
            at == Chain(d, dir)
<1>1. at = CHOOSE f : Rec(f, MAX_NODES - 1)
  <2>1. (MAX_NODES - 1) + 1 = MAX_NODES
    BY Constants
  <2>. QED
    BY <2>1 DEF Chain
<1>2. 0 \in S
  <2>. DEFINE f == [k \in 1 .. 1 |-> d.node[dir].first_child]
  <2>1. f = [k \in 1 .. 1 |-> IF k = 1 THEN d.node[dir].first_child
                ELSE IF f[k - 1] = 0 THEN 0 ELSE d.node[f[k - 1]].next_sibling]
    OBVIOUS
  <2>. HIDE DEF f
  <2>2. Rec(f, 0)
    BY <2>1
  <2>. QED
    BY <2>2, Constants
<1>3. ASSUME NEW n \in 0 .. (MAX_NODES - 2), n \in S
      PROVE  n + 1 \in S
  <2>1. PICK f : Rec(f, n)
    BY <1>3
  <2>. DEFINE v == IF f[n + 1] = 0 THEN 0 ELSE d.node[f[n + 1]].next_sibling
              g == [k \in 1 .. (n + 2) |-> IF k = n + 2 THEN v ELSE f[k]]
  <2>2. \A k \in 1 .. (n + 1) : g[k] = f[k]
    OBVIOUS
  <2>3. ASSUME NEW k \in 1 .. (n + 2)
        PROVE  g[k] = IF k = 1 THEN d.node[dir].first_child
                      ELSE IF g[k - 1] = 0 THEN 0 ELSE d.node[g[k - 1]].next_sibling
    <3>1. CASE k = n + 2
      <4>1. k - 1 = n + 1 /\ k # 1 /\ n + 1 \in 1 .. (n + 1)
        BY <3>1
      <4>. QED
        BY <2>2, <3>1, <4>1
    <3>2. CASE k # n + 2
      <4>1. k \in 1 .. (n + 1) /\ (k # 1 => k - 1 \in 1 .. (n + 1))
        BY <3>2
      <4>2. f[k] = IF k = 1 THEN d.node[dir].first_child
                   ELSE IF f[k - 1] = 0 THEN 0 ELSE d.node[f[k - 1]].next_sibling
        BY <2>1, <4>1
      <4>. QED
        BY <2>2, <4>1, <4>2
    <3>. QED
      BY <3>1, <3>2
  <2>4. g = [k \in 1 .. (n + 2) |-> g[k]] /\ (n + 1) + 1 = n + 2
    OBVIOUS
  <2>. HIDE DEF g
  <2>5. g = [k \in 1 .. (n + 2) |-> IF k = 1 THEN d.node[dir].first_child
                ELSE IF g[k - 1] = 0 THEN 0 ELSE d.node[g[k - 1]].next_sibling]
    BY <2>3, <2>4
  <2>6. Rec(g, n + 1)
    BY <2>4, <2>5
  <2>7. n + 1 \in 0 .. (MAX_NODES - 1)
    BY Constants
  <2>. HIDE DEF Rec
  <2>. QED
    BY <2>6, <2>7
<1>4. MAX_NODES - 1 \in S
  <2>. HIDE DEF S
  <2>1. MAX_NODES - 1 \in Nat /\ (MAX_NODES - 1) - 1 = MAX_NODES - 2
    BY Constants
  <2>2. \A k \in 0 .. (MAX_NODES - 1) : k \in S
    BY <1>2, <1>3, <2>1, UpTo
  <2>. QED
    BY <2>1, <2>2
<1>5. Rec(at, MAX_NODES - 1) /\ (MAX_NODES - 1) + 1 = MAX_NODES
  <2>. HIDE DEF at
  <2>1. PICK f : Rec(f, MAX_NODES - 1)
    BY <1>4
  <2>. HIDE DEF Rec
  <2>. QED
    BY <1>1, <2>1, Constants
<1>. HIDE DEF at
<1>6. DOMAIN at = 1 .. MAX_NODES /\ at[1] = d.node[dir].first_child
  BY <1>5, Constants
<1>7. ASSUME NEW k \in 2 .. MAX_NODES
      PROVE  at[k] = IF at[k - 1] = 0 THEN 0 ELSE d.node[at[k - 1]].next_sibling
  <2>1. k \in 1 .. MAX_NODES /\ k # 1
    BY Constants
  <2>. QED
    BY <1>5, <2>1
<1>. QED
  BY <1>6, <1>7 DEF at

-----------------------------------------------------------------------------
(* Lists, without counting: first leads through nx to every element of K   *)
(* and then to 0.  No part of K with 0 holds first, is closed under nx and *)
(* is not the whole.                                                       *)
List(K, first, nx) ==
  /\ first \in K \cup {0}
  /\ \A n \in K : nx[n] \in K \cup {0}
  /\ \A n \in K : nx[n] # 0 => nx[n] # first
  /\ \A n, m \in K : nx[n] = nx[m] /\ nx[n] # 0 => n = m
  /\ \A S \in SUBSET (K \cup {0}) :
       first \in S /\ (\A n \in S \ {0} : nx[n] \in S) => S = K \cup {0}

(* Only the elements' own successors matter. *)
LEMMA ListSame ==
  ASSUME NEW K, NEW first, NEW f, NEW g, 0 \notin K,
         List(K, first, f), \A n \in K : g[n] = f[n]
  PROVE  List(K, first, g)
<1>1. ASSUME NEW S \in SUBSET (K \cup {0}),
             first \in S, \A n \in S \ {0} : g[n] \in S
      PROVE  S = K \cup {0}
  <2>1. \A n \in S \ {0} : n \in K /\ f[n] = g[n]
    OBVIOUS
  <2>. QED
    BY <1>1, <2>1 DEF List
<1>. QED
  BY <1>1 DEF List

(* A list that starts with 0 is empty. *)
LEMMA ListEmpty ==
  ASSUME NEW K, NEW nx, 0 \notin K, List(K, 0, nx)
  PROVE  K = {}
<1>1. {0} = K \cup {0}
  BY DEF List
<1>. QED
  BY <1>1

LEMMA ListNone ==
  ASSUME NEW nx
  PROVE  List({}, 0, nx)
  BY DEF List

(* A new element in front. *)
LEMMA ListInsert ==
  ASSUME NEW K, NEW first, NEW f, NEW g, 0 \notin K, List(K, first, f),
         NEW n, n \notin K, n # 0,
         g[n] = first, \A m \in K : g[m] = f[m]
  PROVE  List(K \cup {n}, n, g)
<1>1. /\ first \in K \cup {0}
      /\ \A m \in K : f[m] \in K \cup {0}
      /\ \A m \in K : f[m] # 0 => f[m] # first
      /\ \A a, b \in K : f[a] = f[b] /\ f[a] # 0 => a = b
  BY DEF List
<1>2. \A m \in K \cup {n} : g[m] \in K \cup {0}
  BY <1>1
<1>3. \A m \in K \cup {n} : g[m] # 0 => g[m] # n
  BY <1>2
<1>4. \A a, b \in K \cup {n} : g[a] = g[b] /\ g[a] # 0 => a = b
  BY <1>1
<1>5. ASSUME NEW S \in SUBSET (K \cup {n} \cup {0}),
             n \in S, \A m \in S \ {0} : g[m] \in S
      PROVE  S = K \cup {n} \cup {0}
  <2>. DEFINE T == S \ {n}
  <2>1. T \in SUBSET (K \cup {0}) /\ first \in T
    BY <1>1, <1>5
  <2>2. ASSUME NEW m \in T \ {0} PROVE f[m] \in T
    <3>1. m \in K /\ f[m] = g[m] /\ g[m] \in S
      BY <1>5
    <3>. QED
      BY <1>1, <3>1
  <2>3. T = K \cup {0}
    <3>. HIDE DEF T
    <3>. QED
      BY <2>1, <2>2 DEF List
  <2>. QED
    BY <1>5, <2>3
<1>. QED
  BY <1>2, <1>3, <1>4, <1>5 DEF List

(* The first element taken off. *)
LEMMA ListBehead ==
  ASSUME NEW K, NEW n \in K, NEW f, NEW g, 0 \notin K, List(K, n, f),
         \A m \in K \ {n} : g[m] = f[m]
  PROVE  List(K \ {n}, f[n], g)
<1>1. /\ \A m \in K : f[m] \in K \cup {0}
      /\ \A m \in K : f[m] # 0 => f[m] # n
      /\ \A a, b \in K : f[a] = f[b] /\ f[a] # 0 => a = b
      /\ n # 0
  BY DEF List
<1>2. \A m \in K : f[m] \in (K \ {n}) \cup {0}
  BY <1>1
<1>3. \A m \in K \ {n} : g[m] # 0 => g[m] # f[n]
  BY <1>1
<1>4. \A a, b \in K \ {n} : g[a] = g[b] /\ g[a] # 0 => a = b
  BY <1>1
<1>5. ASSUME NEW S \in SUBSET ((K \ {n}) \cup {0}),
             f[n] \in S, \A m \in S \ {0} : g[m] \in S
      PROVE  S = (K \ {n}) \cup {0}
  <2>. DEFINE T == S \cup {n}
  <2>1. T \in SUBSET (K \cup {0}) /\ n \in T
    OBVIOUS
  <2>2. ASSUME NEW m \in T \ {0} PROVE f[m] \in T
    BY <1>5
  <2>3. T = K \cup {0}
    <3>. HIDE DEF T
    <3>. QED
      BY <2>1, <2>2 DEF List
  <2>. QED
    BY <1>1, <2>3
<1>. QED
  BY <1>2, <1>3, <1>4, <1>5 DEF List

(* Every element but the first has one before it, which is not itself.     *)
LEMMA ListBefore ==
  ASSUME NEW K, NEW first, NEW f, 0 \notin K, List(K, first, f),
         NEW n \in K, n # first
  PROVE  \E c \in K \ {n} : f[c] = n
<1>. SUFFICES ASSUME \A c \in K \ {n} : f[c] # n PROVE FALSE
  OBVIOUS
<1>. DEFINE S == (K \cup {0}) \ {n}
<1>1. first \in S /\ \A m \in S \ {0} : f[m] \in S
  BY DEF List
<1>2. S \in SUBSET (K \cup {0})
  OBVIOUS
<1>. HIDE DEF S
<1>3. S = K \cup {0}
  BY <1>1, <1>2 DEF List
<1>. QED
  BY <1>3 DEF S

(* An element that is not the first taken off. *)
LEMMA ListRemove ==
  ASSUME NEW K, NEW first, NEW f, NEW g, 0 \notin K, List(K, first, f),
         NEW n \in K, n # first, NEW c \in K, f[c] = n,
         g[c] = f[n], \A m \in K \ {n, c} : g[m] = f[m]
  PROVE  c # n /\ List(K \ {n}, first, g)
<1>1. /\ first \in K \cup {0}
      /\ \A m \in K : f[m] \in K \cup {0}
      /\ \A m \in K : f[m] # 0 => f[m] # first
      /\ \A a, b \in K : f[a] = f[b] /\ f[a] # 0 => a = b
      /\ n # 0
  BY DEF List
<1>2. c # n
  <2>1. PICK b \in K \ {n} : f[b] = n
    BY ListBefore
  <2>. QED
    BY <1>1, <2>1
<1>3. \A m \in K : m # c => f[m] # n
  BY <1>1
<1>4. \A m \in K \ {n} : g[m] \in (K \ {n}) \cup {0}
  BY <1>1, <1>2, <1>3
<1>5. \A m \in K \ {n} : g[m] # 0 => g[m] # first
  BY <1>1
<1>6. \A a, b \in K \ {n} : g[a] = g[b] /\ g[a] # 0 => a = b
  BY <1>1
<1>7. ASSUME NEW S \in SUBSET ((K \ {n}) \cup {0}),
             first \in S, \A m \in S \ {0} : g[m] \in S
      PROVE  S = (K \ {n}) \cup {0}
  <2>1. CASE c \in S
    <3>. DEFINE T == S \cup {n}
    <3>1. T \in SUBSET (K \cup {0}) /\ first \in T
      BY <1>7
    <3>2. c # 0
      OBVIOUS
    <3>3. ASSUME NEW m \in T \ {0} PROVE f[m] \in T
      BY <1>7, <2>1, <3>2
    <3>4. T = K \cup {0}
      <4>. HIDE DEF T
      <4>. QED
        BY <3>1, <3>3 DEF List
    <3>. QED
      BY <1>1, <3>4
  <2>2. CASE c \notin S
    <3>1. \A m \in S \ {0} : f[m] \in S
      BY <1>7, <2>2
    <3>2. S \in SUBSET (K \cup {0})
      OBVIOUS
    <3>3. S = K \cup {0}
      BY <1>7, <3>1, <3>2 DEF List
    <3>. QED
      BY <2>2, <3>3
  <2>. QED
    BY <2>1, <2>2
<1>. QED
  BY <1>1, <1>2, <1>4, <1>5, <1>6, <1>7 DEF List

-----------------------------------------------------------------------------
(* The siblings' links as a function. *)
Sib(d) == [n \in Node |-> d.node[n].next_sibling]

(* The walk along a chain that is a list of K meets the elements of K and  *)
(* nothing else, and reaches the end: the table has more entries than K,   *)
(* and no element is met twice.                                            *)
LEMMA ChainIsList ==
  ASSUME NEW d, NEW dir, NEW K \in SUBSET (Node \ {0}),
         List(K, d.node[dir].first_child, Sib(d))
  PROVE  /\ OnChain(d, dir) = K
         /\ Chain(d, dir)[MAX_NODES] = 0
         /\ \A k \in 1 .. MAX_NODES : Chain(d, dir)[k] \in K \cup {0}
<1>. DEFINE at == Chain(d, dir)
            nx == Sib(d)
            first == d.node[dir].first_child
            M == MAX_NODES
<1>1. M \in Nat /\ M > 0 /\ K \subseteq 1 .. (M - 1)
  BY Constants
<1>2. /\ first \in K \cup {0}
      /\ \A n \in K : nx[n] \in K \cup {0}
      /\ \A n \in K : nx[n] # 0 => nx[n] # first
      /\ \A n, m \in K : nx[n] = nx[m] /\ nx[n] # 0 => n = m
  BY DEF List
<1>3. \A n \in K : nx[n] = d.node[n].next_sibling
  BY DEF Sib
<1>4. /\ at[1] = first
      /\ \A k \in 2 .. M : at[k] = IF at[k - 1] = 0 THEN 0
                                   ELSE d.node[at[k - 1]].next_sibling
  BY ChainFacts
<1>5. OnChain(d, dir) = {at[k] : k \in 1 .. M} \ {0}
  BY DEF OnChain
<1>6. \A S \in SUBSET (K \cup {0}) :
        first \in S /\ (\A n \in S \ {0} : nx[n] \in S) => S = K \cup {0}
  BY DEF List
<1>. HIDE DEF at, nx, first, M
<1>7. \A k \in 1 .. M : at[k] \in K \cup {0}
  <2>. DEFINE S == {j \in 0 .. (M - 1) : at[j + 1] \in K \cup {0}}
  <2>1. 0 \in S
    BY <1>1, <1>2, <1>4
  <2>2. ASSUME NEW j \in 0 .. ((M - 1) - 1), j \in S PROVE j + 1 \in S
    <3>1. at[j + 1] \in K \cup {0} /\ j + 1 \in 0 .. (M - 1)
      BY <1>1, <2>2
    <3>2. (j + 1) + 1 \in 2 .. M /\ ((j + 1) + 1) - 1 = j + 1
      BY <1>1
    <3>3. at[(j + 1) + 1] = IF at[j + 1] = 0 THEN 0 ELSE d.node[at[j + 1]].next_sibling
      BY <1>4, <3>2
    <3>4. at[(j + 1) + 1] \in K \cup {0}
      BY <1>2, <1>3, <3>1, <3>3
    <3>. QED
      BY <3>1, <3>4
  <2>3. \A j \in 0 .. (M - 1) : j \in S
    <3>. HIDE DEF S
    <3>1. M - 1 \in Nat
      BY <1>1
    <3>. QED
      BY <2>1, <2>2, <3>1, UpTo
  <2>4. ASSUME NEW k \in 1 .. M PROVE at[k] \in K \cup {0}
    <3>1. k - 1 \in 0 .. (M - 1) /\ (k - 1) + 1 = k
      BY <1>1
    <3>. QED
      BY <2>3, <3>1
  <2>. QED
    BY <2>4
<1>8. ASSUME NEW k \in 2 .. M
      PROVE  /\ k - 1 \in 1 .. M
             /\ at[k] # 0 => at[k - 1] \in K /\ at[k] = nx[at[k - 1]]
  <2>1. k - 1 \in 1 .. M
    BY <1>1
  <2>. QED
    BY <1>3, <1>4, <1>7, <2>1
<1>9. at[M] = 0
  <2>. SUFFICES ASSUME at[M] # 0 PROVE FALSE
    OBVIOUS
  <2>1. \A k \in 1 .. M : at[k] # 0
    <3>. DEFINE S == {j \in 0 .. (M - 1) : at[M - j] # 0}
    <3>1. 0 \in S
      BY <1>1
    <3>2. ASSUME NEW j \in 0 .. ((M - 1) - 1), j \in S PROVE j + 1 \in S
      <4>1. M - j \in 2 .. M /\ at[M - j] # 0 /\ (M - j) - 1 = M - (j + 1)
        BY <1>1, <3>2
      <4>2. at[M - (j + 1)] \in K
        BY <1>8, <4>1
      <4>. QED
        BY <1>1, <4>2
    <3>3. \A j \in 0 .. (M - 1) : j \in S
      <4>. HIDE DEF S
      <4>1. M - 1 \in Nat
        BY <1>1
      <4>. QED
        BY <3>1, <3>2, <4>1, UpTo
    <3>4. ASSUME NEW k \in 1 .. M PROVE at[k] # 0
      <4>1. M - k \in 0 .. (M - 1) /\ M - (M - k) = k
        BY <1>1
      <4>. QED
        BY <3>3, <4>1
    <3>. QED
      BY <3>4
  <2>2. \A i, j \in 1 .. M : i < j => at[i] # at[j]
    <3>. DEFINE T == {i \in 1 .. M : \E j \in 1 .. M : i < j /\ at[i] = at[j]}
    <3>. SUFFICES ASSUME T # {} PROVE FALSE
      OBVIOUS
    <3>. DEFINE i == Min(T)
    <3>1. i \in T /\ \A y \in T : i <= y
      <4>1. T \in SUBSET Nat
        BY <1>1
      <4>. HIDE DEF T
      <4>. QED
        BY <4>1, LeastNat
    <3>. HIDE DEF i
    <3>2. PICK j \in 1 .. M : i < j /\ at[i] = at[j] /\ i \in 1 .. M
      BY <3>1
    <3>3. j \in 2 .. M /\ j - 1 \in 1 .. M
      BY <1>1, <3>2
    <3>4. at[j] = nx[at[j - 1]] /\ at[j - 1] \in K
      BY <1>8, <2>1, <3>3
    <3>5. CASE i = 1
      BY <1>2, <1>4, <2>1, <3>2, <3>4, <3>5
    <3>6. CASE i # 1
      <4>1. i \in 2 .. M /\ i - 1 \in 1 .. M /\ i - 1 < j - 1 /\ ~ (i <= i - 1)
        BY <1>1, <3>2, <3>6
      <4>2. at[i] = nx[at[i - 1]] /\ at[i - 1] \in K
        BY <1>8, <2>1, <4>1
      <4>3. at[i - 1] = at[j - 1]
        BY <1>2, <2>1, <3>2, <3>4, <4>2
      <4>4. i - 1 \in T
        BY <3>3, <4>1, <4>3
      <4>. HIDE DEF T
      <4>. QED
        BY <3>1, <4>1, <4>4
    <3>. QED
      BY <3>5, <3>6
  <2>. DEFINE g == [k \in 1 .. M |-> at[k]]
  <2>3. ASSUME NEW a \in 1 .. M, NEW b \in 1 .. M, g[a] = g[b] PROVE a = b
    <3>1. a < b \/ b < a \/ a = b
      BY <1>1
    <3>. QED
      BY <2>2, <2>3, <3>1
  <2>4. g \in [1 .. M -> 1 .. (M - 1)]
    BY <1>1, <1>7, <2>1
  <2>5. g \in Injection(1 .. M, 1 .. (M - 1))
    <3>. HIDE DEF g
    <3>. QED
      BY <2>3, <2>4 DEF Injection, IsInjective
  <2>6. /\ IsFiniteSet(1 .. (M - 1)) /\ Cardinality(1 .. (M - 1)) = M - 1
        /\ Cardinality(1 .. M) = M
    BY <1>1, FS_Interval
  <2>7. Cardinality(1 .. M) <= Cardinality(1 .. (M - 1))
    <3>. HIDE DEF g
    <3>. QED
      BY <2>5, <2>6, FS_Injection
  <2>. QED
    BY <1>1, <2>6, <2>7
<1>10. {at[k] : k \in 1 .. M} = K \cup {0}
  <2>. DEFINE S == {at[k] : k \in 1 .. M}
  <2>1. S \in SUBSET (K \cup {0}) /\ first \in S
    BY <1>1, <1>4, <1>7
  <2>2. ASSUME NEW n \in S \ {0} PROVE nx[n] \in S
    <3>1. PICK k \in 1 .. M : n = at[k]
      BY <2>2
    <3>2. k # M /\ n \in K
      BY <1>7, <1>9, <3>1
    <3>3. k + 1 \in 2 .. M /\ k + 1 \in 1 .. M /\ (k + 1) - 1 = k
      BY <1>1, <3>2
    <3>4. at[k + 1] = nx[n]
      BY <1>3, <1>4, <2>2, <3>1, <3>2, <3>3
    <3>. QED
      BY <3>3, <3>4
  <2>. HIDE DEF S
  <2>3. S = K \cup {0}
    BY <1>6, <2>1, <2>2
  <2>. QED
    BY <2>3 DEF S
<1>11. OnChain(d, dir) = K
  BY <1>5, <1>10
<1>. QED
  BY <1>7, <1>9, <1>11 DEF at, M

-----------------------------------------------------------------------------
(* Looking up a name. *)

LEMMA ChainInTable ==
  ASSUME NEW d, DiskOK(d), NEW dir \in Node
  PROVE  \A k \in 1 .. MAX_NODES : Chain(d, dir)[k] \in Node
<1>. DEFINE at == Chain(d, dir)
            M == MAX_NODES
            S == {j \in 0 .. (M - 1) : at[j + 1] \in Node}
<1>1. M \in Nat /\ M > 0 /\ M - 1 \in Nat
  BY Constants
<1>2. /\ at[1] = d.node[dir].first_child
      /\ \A k \in 2 .. M : at[k] = IF at[k - 1] = 0 THEN 0
                                   ELSE d.node[at[k - 1]].next_sibling
  BY ChainFacts
<1>3. \A n \in Node : d.node[n].first_child \in Node /\ d.node[n].next_sibling \in Node
  BY DEF DiskOK, NodeOK
<1>. HIDE DEF at, M
<1>4. 0 \in S
  BY <1>1, <1>2, <1>3
<1>5. ASSUME NEW j \in 0 .. ((M - 1) - 1), j \in S PROVE j + 1 \in S
  <2>1. at[j + 1] \in Node /\ j + 1 \in 0 .. (M - 1)
    BY <1>1, <1>5
  <2>2. (j + 1) + 1 \in 2 .. M /\ ((j + 1) + 1) - 1 = j + 1
    BY <1>1
  <2>3. at[(j + 1) + 1] = IF at[j + 1] = 0 THEN 0 ELSE d.node[at[j + 1]].next_sibling
    BY <1>2, <2>2
  <2>4. at[(j + 1) + 1] \in Node
    BY <1>3, <2>1, <2>3, Constants
  <2>. QED
    BY <2>1, <2>4
<1>6. \A j \in 0 .. (M - 1) : j \in S
  <2>. HIDE DEF S
  <2>. QED
    BY <1>1, <1>4, <1>5, UpTo
<1>7. ASSUME NEW k \in 1 .. M PROVE at[k] \in Node
  <2>1. k - 1 \in 0 .. (M - 1) /\ (k - 1) + 1 = k
    BY <1>1
  <2>. QED
    BY <1>6, <2>1
<1>. QED
  BY <1>7 DEF at, M

LEMMA FindFacts ==
  ASSUME NEW d, DiskOK(d), NEW dir \in Node, NEW token
  PROVE  LET c == fs_find_child(d, dir, token)
         IN  /\ c \in Node
             /\ c # 0 => /\ c \in OnChain(d, dir)
                         /\ d.node[c].type # "free" /\ d.node[c].name = token
             /\ c = 0 => \A m \in OnChain(d, dir) :
                           d.node[m].type # "free" => d.node[m].name # token
<1>. DEFINE at == Chain(d, dir)
            hits == {k \in 1 .. MAX_NODES :
                       /\ at[k] # 0
                       /\ d.node[at[k]].type # "free"
                       /\ d.node[at[k]].name = token}
            c == fs_find_child(d, dir, token)
<1>1. c = IF hits = {} THEN 0 ELSE at[Min(hits)]
  BY DEF fs_find_child
<1>2. OnChain(d, dir) = {at[k] : k \in 1 .. MAX_NODES} \ {0}
  BY DEF OnChain
<1>3. \A k \in 1 .. MAX_NODES : at[k] \in Node
  BY ChainInTable
<1>. HIDE DEF at, c
<1>4. CASE hits = {}
  <2>1. \A m \in OnChain(d, dir) : d.node[m].type # "free" => d.node[m].name # token
    BY <1>2, <1>4
  <2>. QED
    BY <1>1, <1>4, <2>1, Constants DEF c
<1>5. CASE hits # {}
  <2>1. Min(hits) \in hits
    <3>1. hits \in SUBSET Nat
      OBVIOUS
    <3>. HIDE DEF hits
    <3>. QED
      BY <1>5, <3>1, LeastNat
  <2>. DEFINE k == Min(hits)
  <2>. HIDE DEF k
  <2>2. k \in hits /\ c = at[k]
    BY <1>1, <1>5, <2>1 DEF k
  <2>3. c \in Node /\ c # 0 /\ c \in OnChain(d, dir)
        /\ d.node[c].type # "free" /\ d.node[c].name = token
    BY <1>2, <1>3, <2>2
  <2>. QED
    BY <2>3 DEF c
<1>. QED
  BY <1>4, <1>5

-----------------------------------------------------------------------------
(* What each operation does to the fields. *)

(* The two fields that links are made of; everything else of a node.       *)
SameData(e, f) ==
  /\ e.type = f.type /\ e.parent = f.parent /\ e.name = f.name
  /\ e.size = f.size /\ e.data_off = f.data_off

SameLinks(e, f) == e.first_child = f.first_child /\ e.next_sibling = f.next_sibling

(* g is d with a new, empty entry n at the head of parent's chain. *)
Grown(d, g, n, parent, name, type) ==
  /\ n \in Node \ {Root} /\ d.node[n].type = "free"
  /\ n # parent
  /\ g.pool = d.pool
  /\ g.node[n].type = type /\ g.node[n].parent = parent /\ g.node[n].name = name
  /\ g.node[n].size = 0 /\ g.node[n].data_off = 0
  /\ g.node[n].first_child = 0
  /\ g.node[n].next_sibling = d.node[parent].first_child
  /\ \A m \in Node \ {n} : /\ SameData(g.node[m], d.node[m])
                           /\ g.node[m].next_sibling = d.node[m].next_sibling
  /\ g.node[parent].first_child = n
  /\ \A m \in Node \ {n, parent} : g.node[m].first_child = d.node[m].first_child

LEMMA LinkGrows ==
  ASSUME NEW d, DiskOK(d), NEW parent \in Node, IsDir(d, parent), NEW name,
         NEW type \in {"dir", "file"}, FreeNodes(d) # {}
  PROVE  LET n == Min(FreeNodes(d))
             g == Link(d, parent, name, type)
         IN  Grown(d, g, n, parent, name, type) /\ DiskOK(g)
<1>. DEFINE n == Min(FreeNodes(d))
            g == Link(d, parent, name, type)
            entry == [type |-> type, parent |-> parent, first_child |-> 0,
                      next_sibling |-> d.node[parent].first_child,
                      name |-> name, size |-> 0, data_off |-> 0]
<1>1. n \in FreeNodes(d)
  <2>1. FreeNodes(d) \in SUBSET Nat
    BY Constants DEF FreeNodes
  <2>. QED
    BY <2>1, LeastNat
<1>2. g = [d EXCEPT !.node = [d.node EXCEPT ![n] = entry, ![parent].first_child = n]]
  BY DEF Link, DiskOK
<1>. HIDE DEF n, g
<1>3. n \in Node \ {Root} /\ d.node[n].type = "free" /\ n # parent
  BY <1>1 DEF FreeNodes, IsDir
<1>4. /\ DOMAIN g = {"node", "pool"} /\ g.pool = d.pool
      /\ g.node = [d.node EXCEPT ![n] = entry, ![parent].first_child = n]
  BY <1>2 DEF DiskOK
<1>. HIDE DEF entry
<1>5. /\ DOMAIN g.node = Node
      /\ g.node[n] = entry
      /\ g.node[parent] = [d.node[parent] EXCEPT !.first_child = n]
      /\ \A m \in Node \ {n, parent} : g.node[m] = d.node[m]
  BY <1>3, <1>4 DEF DiskOK
<1>6. /\ SameData(g.node[parent], d.node[parent])
      /\ DOMAIN g.node[parent] = Fields
      /\ g.node[parent].next_sibling = d.node[parent].next_sibling
      /\ g.node[parent].first_child = n
  BY <1>5 DEF DiskOK, NodeOK, SameData, Fields
<1>7. /\ DOMAIN g.node[n] = Fields
      /\ g.node[n].type = type /\ g.node[n].parent = parent /\ g.node[n].name = name
      /\ g.node[n].size = 0 /\ g.node[n].data_off = 0
      /\ g.node[n].first_child = 0
      /\ g.node[n].next_sibling = d.node[parent].first_child
  <2>1. DOMAIN entry = Fields
    BY DEF entry, Fields
  <2>2. g.node[n] = entry
    BY <1>5
  <2>. QED
    BY <2>1, <2>2 DEF entry
<1>8. Grown(d, g, n, parent, name, type)
  BY <1>3, <1>4, <1>5, <1>6, <1>7 DEF Grown, SameData
<1>9. ASSUME NEW m \in Node PROVE NodeOK(g.node[m])
  <2>1. CASE m = n
    <3>1. d.node[parent].first_child \in Node
      BY DEF DiskOK, NodeOK
    <3>2. 0 \in Node /\ 0 \in 0 .. DATA_CAP
      BY Constants
    <3>. QED
      BY <1>7, <2>1, <3>1, <3>2 DEF NodeOK
  <2>2. CASE m = parent
    <3>1. NodeOK(d.node[parent])
      BY DEF DiskOK
    <3>. QED
      BY <1>3, <1>6, <2>2, <3>1 DEF NodeOK, SameData
  <2>3. CASE m \notin {n, parent}
    BY <1>5, <2>3 DEF DiskOK
  <2>. QED
    BY <2>1, <2>2, <2>3
<1>10. DiskOK(g)
  BY <1>4, <1>5, <1>9 DEF DiskOK
<1>. QED
  BY <1>8, <1>10 DEF n, g

(* g is d with the entry n free and nothing else but links changed. *)
Shrunk(d, g, n) ==
  /\ g.pool = d.pool
  /\ g.node[n].type = "free"
  /\ \A m \in Node \ {n} : SameData(g.node[m], d.node[m])

(* fs_delete either leaves all links alone, or takes n off its parent's    *)
(* chain at the head or behind a node of that chain.                       *)
LEMMA DeleteShrinks ==
  ASSUME NEW d, DiskOK(d), NEW n \in Node, CanDelete(d, n)
  PROVE  LET g == fs_delete(d, n)
             parent == d.node[n].parent
             before == {c \in OnChain(d, parent) : d.node[c].next_sibling = n}
         IN  /\ Shrunk(d, g, n) /\ DiskOK(g)
             /\ \/ /\ parent = Root \/ (d.node[parent].first_child # n /\ before = {})
                   /\ \A m \in Node : SameLinks(g.node[m], d.node[m])
                \/ /\ parent # Root /\ d.node[parent].first_child = n
                   /\ g.node[parent].first_child = d.node[n].next_sibling
                   /\ \A m \in Node \ {parent} : g.node[m].first_child = d.node[m].first_child
                   /\ \A m \in Node : g.node[m].next_sibling = d.node[m].next_sibling
                \/ /\ parent # Root /\ d.node[parent].first_child # n
                   /\ \E c \in before :
                        /\ g.node[c].next_sibling = d.node[n].next_sibling
                        /\ \A m \in Node \ {c} :
                             g.node[m].next_sibling = d.node[m].next_sibling
                   /\ \A m \in Node : g.node[m].first_child = d.node[m].first_child
<1>. DEFINE g == fs_delete(d, n)
            parent == d.node[n].parent
            next == d.node[n].next_sibling
            before == {c \in OnChain(d, parent) : d.node[c].next_sibling = n}
            U == UnlinkNode(d, n)
            b == CHOOSE c \in before : TRUE
<1>1. g = [d EXCEPT !.node = [U EXCEPT ![n].type = "free"]]
  BY DEF fs_delete
<1>2. U = IF parent = Root THEN d.node
          ELSE IF d.node[parent].first_child = n
          THEN [d.node EXCEPT ![parent].first_child = next]
          ELSE IF before = {} THEN d.node
          ELSE [d.node EXCEPT ![b].next_sibling = next]
  BY DEF UnlinkNode
<1>3. before # {} => b \in before
  OBVIOUS
<1>4. before \subseteq Node
  <2>1. parent \in Node
    BY DEF DiskOK, NodeOK
  <2>2. OnChain(d, parent) \subseteq Node
    BY <2>1, ChainInTable DEF OnChain
  <2>. QED
    BY <2>2
<1>5. \A m \in Node : NodeOK(d.node[m])
  BY DEF DiskOK
<1>6. parent \in Node /\ next \in Node
  BY <1>5 DEF NodeOK
<1>. HIDE DEF g, U, b, before, next, parent
\* What taking n off its chain does.
<1>7. /\ DOMAIN U = Node
      /\ \A m \in Node : SameData(U[m], d.node[m]) /\ NodeOK(U[m])
      /\ \/ /\ parent = Root \/ (d.node[parent].first_child # n /\ before = {})
            /\ \A m \in Node : SameLinks(U[m], d.node[m])
         \/ /\ parent # Root /\ d.node[parent].first_child = n
            /\ U[parent].first_child = next
            /\ \A m \in Node \ {parent} : U[m].first_child = d.node[m].first_child
            /\ \A m \in Node : U[m].next_sibling = d.node[m].next_sibling
         \/ /\ parent # Root /\ d.node[parent].first_child # n
            /\ b \in before
            /\ U[b].next_sibling = next
            /\ \A m \in Node \ {b} : U[m].next_sibling = d.node[m].next_sibling
            /\ \A m \in Node : U[m].first_child = d.node[m].first_child
  <2>1. DOMAIN d.node = Node
    BY DEF DiskOK
  <2>2. CASE U = d.node /\ (parent = Root \/ (d.node[parent].first_child # n /\ before = {}))
    BY <1>5, <2>1, <2>2 DEF SameData, SameLinks
  <2>3. CASE parent # Root /\ d.node[parent].first_child = n
    <3>1. U = [d.node EXCEPT ![parent].first_child = next]
      BY <1>2, <2>3
    <3>2. /\ DOMAIN U = Node
          /\ U[parent] = [d.node[parent] EXCEPT !.first_child = next]
          /\ \A m \in Node \ {parent} : U[m] = d.node[m]
      BY <1>6, <2>1, <3>1
    <3>3. /\ SameData(U[parent], d.node[parent]) /\ NodeOK(U[parent])
          /\ U[parent].first_child = next
          /\ U[parent].next_sibling = d.node[parent].next_sibling
      <4>1. NodeOK(d.node[parent])
        BY <1>5, <1>6
      <4>. QED
        BY <1>6, <3>2, <4>1 DEF NodeOK, SameData, Fields
    <3>4. \A m \in Node \ {parent} : SameData(U[m], d.node[m]) /\ NodeOK(U[m])
      BY <1>5, <3>2 DEF SameData
    <3>. QED
      BY <2>3, <3>2, <3>3, <3>4
  <2>4. CASE parent # Root /\ d.node[parent].first_child # n /\ before # {}
    <3>1. U = [d.node EXCEPT ![b].next_sibling = next] /\ b \in before /\ b \in Node
      BY <1>2, <1>3, <1>4, <2>4
    <3>2. /\ DOMAIN U = Node
          /\ U[b] = [d.node[b] EXCEPT !.next_sibling = next]
          /\ \A m \in Node \ {b} : U[m] = d.node[m]
      BY <2>1, <3>1
    <3>3. /\ SameData(U[b], d.node[b]) /\ NodeOK(U[b])
          /\ U[b].next_sibling = next
          /\ U[b].first_child = d.node[b].first_child
      <4>1. NodeOK(d.node[b])
        BY <1>5, <3>1
      <4>. QED
        BY <1>6, <3>2, <4>1 DEF NodeOK, SameData, Fields
    <3>4. \A m \in Node \ {b} : SameData(U[m], d.node[m]) /\ NodeOK(U[m])
      BY <1>5, <3>2 DEF SameData
    <3>. QED
      BY <2>4, <3>1, <3>2, <3>3, <3>4
  <2>. QED
    BY <1>2, <2>2, <2>3, <2>4
\* Marking n free changes nothing else.
<1>8. /\ DOMAIN g = {"node", "pool"} /\ g.pool = d.pool
      /\ g.node = [U EXCEPT ![n].type = "free"]
  BY <1>1 DEF DiskOK
<1>9. /\ DOMAIN g.node = Node
      /\ g.node[n] = [U[n] EXCEPT !.type = "free"]
      /\ \A m \in Node \ {n} : g.node[m] = U[m]
  BY <1>7, <1>8
<1>10. /\ g.node[n].type = "free" /\ NodeOK(g.node[n])
       /\ SameLinks(g.node[n], U[n])
  <2>1. NodeOK(U[n])
    BY <1>7
  <2>. QED
    BY <1>9, <2>1 DEF NodeOK, SameLinks, Fields
<1>11. \A m \in Node : SameLinks(g.node[m], U[m])
  BY <1>9, <1>10 DEF SameLinks
<1>12. Shrunk(d, g, n)
  BY <1>7, <1>8, <1>9, <1>10 DEF Shrunk
<1>13. DiskOK(g)
  <2>1. \A m \in Node : NodeOK(g.node[m])
    BY <1>7, <1>9, <1>10
  <2>. QED
    BY <1>8, <1>9, <2>1 DEF DiskOK
<1>14. CASE /\ parent = Root \/ (d.node[parent].first_child # n /\ before = {})
            /\ \A m \in Node : SameLinks(U[m], d.node[m])
  BY <1>11, <1>12, <1>13, <1>14 DEF g, parent, before, SameLinks
<1>15. CASE /\ parent # Root /\ d.node[parent].first_child = n
            /\ U[parent].first_child = next
            /\ \A m \in Node \ {parent} : U[m].first_child = d.node[m].first_child
            /\ \A m \in Node : U[m].next_sibling = d.node[m].next_sibling
  <2>1. /\ g.node[parent].first_child = next
        /\ \A m \in Node \ {parent} : g.node[m].first_child = d.node[m].first_child
        /\ \A m \in Node : g.node[m].next_sibling = d.node[m].next_sibling
    BY <1>6, <1>11, <1>15 DEF SameLinks
  <2>. QED
    BY <1>12, <1>13, <1>15, <2>1 DEF g, parent, before, next
<1>16. CASE /\ parent # Root /\ d.node[parent].first_child # n
            /\ b \in before
            /\ U[b].next_sibling = next
            /\ \A m \in Node \ {b} : U[m].next_sibling = d.node[m].next_sibling
            /\ \A m \in Node : U[m].first_child = d.node[m].first_child
  <2>1. /\ g.node[b].next_sibling = next
        /\ \A m \in Node \ {b} : g.node[m].next_sibling = d.node[m].next_sibling
        /\ \A m \in Node : g.node[m].first_child = d.node[m].first_child
    BY <1>4, <1>11, <1>16 DEF SameLinks
  <2>. QED
    BY <1>12, <1>13, <1>16, <2>1 DEF g, parent, before, next
<1>. QED
  BY <1>7, <1>14, <1>15, <1>16

(* g is d with data in fresh space at the end of the pool. *)
Written(d, g, n, data) ==
  /\ g.pool = d.pool \o data
  /\ g.node[n].type = d.node[n].type /\ g.node[n].parent = d.node[n].parent
  /\ g.node[n].name = d.node[n].name
  /\ g.node[n].data_off = Len(d.pool) /\ g.node[n].size = Len(data)
  /\ \A m \in Node : SameLinks(g.node[m], d.node[m])
  /\ \A m \in Node \ {n} : SameData(g.node[m], d.node[m])

LEMMA WriteFacts ==
  ASSUME NEW d, DiskOK(d), NEW n \in Node, NEW data \in Seq(Byte), CanWrite(d, n, data)
  PROVE  Written(d, fs_write(d, n, data), n, data) /\ DiskOK(fs_write(d, n, data))
<1>. DEFINE g == fs_write(d, n, data)
<1>1. g = [node |-> [d.node EXCEPT ![n].data_off = Len(d.pool), ![n].size = Len(data)],
           pool |-> d.pool \o data]
  BY DEF fs_write
<1>. HIDE DEF g
<1>2. /\ DOMAIN g = {"node", "pool"} /\ g.pool = d.pool \o data
      /\ g.node = [d.node EXCEPT ![n].data_off = Len(d.pool), ![n].size = Len(data)]
  BY <1>1
<1>3. /\ DOMAIN g.node = Node
      /\ g.node[n] = [d.node[n] EXCEPT !.data_off = Len(d.pool), !.size = Len(data)]
      /\ \A m \in Node \ {n} : g.node[m] = d.node[m]
  BY <1>2 DEF DiskOK
<1>4. NodeOK(d.node[n])
  BY DEF DiskOK
<1>5. /\ DOMAIN g.node[n] = Fields
      /\ g.node[n].type = d.node[n].type /\ g.node[n].parent = d.node[n].parent
      /\ g.node[n].name = d.node[n].name
      /\ g.node[n].data_off = Len(d.pool) /\ g.node[n].size = Len(data)
      /\ SameLinks(g.node[n], d.node[n])
  BY <1>3, <1>4 DEF NodeOK, Fields, SameLinks
<1>6. Written(d, g, n, data)
  BY <1>2, <1>3, <1>5 DEF Written, SameLinks, SameData
<1>7. /\ d.pool \in Seq(Byte) /\ Len(d.pool) \in Nat /\ Len(data) \in Nat
      /\ Len(d.pool) + Len(data) <= DATA_CAP
  BY DEF DiskOK, CanWrite
<1>8. g.pool \in Seq(Byte) /\ Len(g.pool) <= DATA_CAP
  BY <1>2, <1>7
<1>9. NodeOK(g.node[n])
  <2>1. Len(d.pool) \in 0 .. DATA_CAP /\ Len(data) \in 0 .. DATA_CAP
    BY <1>7, Constants
  <2>. QED
    BY <1>4, <1>5, <2>1 DEF NodeOK, SameLinks
<1>10. \A m \in Node : NodeOK(g.node[m])
  BY <1>3, <1>9 DEF DiskOK
<1>11. DiskOK(g)
  BY <1>2, <1>3, <1>8, <1>10 DEF DiskOK
<1>. QED
  BY <1>6, <1>11 DEF g

-----------------------------------------------------------------------------
(* The pool. *)

(* The inductive form of PoolDisjoint. *)
InPool(d, n) == d.node[n].data_off + d.node[n].size <= Len(d.pool)

Apart(d, n, m) ==
  \/ d.node[n].size = 0
  \/ d.node[m].size = 0
  \/ d.node[n].data_off + d.node[n].size <= d.node[m].data_off
  \/ d.node[m].data_off + d.node[m].size <= d.node[n].data_off

PoolOK(d) ==
  /\ \A n \in Node : IsFile(d, n) => InPool(d, n)
  /\ \A n, m \in Node : n # m /\ IsFile(d, n) /\ IsFile(d, m) => Apart(d, n, m)

LEMMA Sizes ==
  ASSUME NEW d, DiskOK(d)
  PROVE  /\ d.pool \in Seq(Byte) /\ Len(d.pool) \in Nat
         /\ \A n \in Node : d.node[n].size \in Nat /\ d.node[n].data_off \in Nat
<1>1. ASSUME NEW n \in Node PROVE d.node[n].size \in Nat /\ d.node[n].data_off \in Nat
  <2>1. d.node[n].size \in 0 .. DATA_CAP /\ d.node[n].data_off \in 0 .. DATA_CAP
    BY DEF DiskOK, NodeOK
  <2>. QED
    BY <2>1, Constants
<1>2. d.pool \in Seq(Byte) /\ Len(d.pool) \in Nat
  BY DEF DiskOK
<1>. QED
  BY <1>1, <1>2

(* A new entry is empty. *)
LEMMA GrownPool ==
  ASSUME NEW d, DiskOK(d), PoolOK(d), NEW g, NEW n, NEW parent, NEW name, NEW type,
         Grown(d, g, n, parent, name, type)
  PROVE  PoolOK(g)
<1>1. /\ g.pool = d.pool /\ g.node[n].size = 0 /\ g.node[n].data_off = 0
      /\ \A m \in Node \ {n} : /\ g.node[m].type = d.node[m].type
                               /\ g.node[m].size = d.node[m].size
                               /\ g.node[m].data_off = d.node[m].data_off
  BY DEF Grown, SameData
<1>2. ASSUME NEW m \in Node, IsFile(g, m) PROVE InPool(g, m)
  <2>1. CASE m = n
    BY <1>1, <2>1, Sizes DEF InPool
  <2>2. CASE m # n
    BY <1>1, <1>2, <2>2 DEF InPool, PoolOK, IsFile
  <2>. QED
    BY <2>1, <2>2
<1>3. ASSUME NEW a \in Node, NEW b \in Node, a # b, IsFile(g, a), IsFile(g, b)
      PROVE  Apart(g, a, b)
  <2>1. CASE a = n \/ b = n
    BY <1>1, <2>1 DEF Apart
  <2>2. CASE a # n /\ b # n
    BY <1>1, <1>3, <2>2 DEF Apart, PoolOK, IsFile
  <2>. QED
    BY <2>1, <2>2
<1>. QED
  BY <1>2, <1>3 DEF PoolOK

LEMMA ShrunkPool ==
  ASSUME NEW d, PoolOK(d), NEW g, NEW n, Shrunk(d, g, n)
  PROVE  PoolOK(g)
<1>1. /\ g.pool = d.pool /\ ~IsFile(g, n)
      /\ \A m \in Node \ {n} : /\ g.node[m].type = d.node[m].type
                               /\ g.node[m].size = d.node[m].size
                               /\ g.node[m].data_off = d.node[m].data_off
  BY DEF Shrunk, SameData, IsFile
<1>2. \A m \in Node : IsFile(g, m) => m # n /\ IsFile(d, m)
  BY <1>1 DEF IsFile
<1>. QED
  BY <1>1, <1>2 DEF PoolOK, InPool, Apart

(* The space that is written was used by no file. *)
LEMMA WrittenPool ==
  ASSUME NEW d, DiskOK(d), PoolOK(d), NEW g, NEW n \in Node, NEW data \in Seq(Byte),
         Written(d, g, n, data)
  PROVE  PoolOK(g)
<1>1. /\ Len(d.pool) \in Nat /\ Len(data) \in Nat
      /\ Len(g.pool) = Len(d.pool) + Len(data)
      /\ g.node[n].data_off = Len(d.pool) /\ g.node[n].size = Len(data)
      /\ \A m \in Node \ {n} : /\ g.node[m].type = d.node[m].type
                               /\ g.node[m].size = d.node[m].size
                               /\ g.node[m].data_off = d.node[m].data_off
  BY Sizes DEF Written, SameData
<1>2. \A m \in Node \ {n} : IsFile(g, m) => /\ IsFile(d, m)
                                           /\ d.node[m].size \in Nat
                                           /\ d.node[m].data_off \in Nat
                                           /\ d.node[m].data_off + d.node[m].size <= Len(d.pool)
  BY <1>1, Sizes DEF IsFile, PoolOK, InPool
<1>3. ASSUME NEW m \in Node, IsFile(g, m) PROVE InPool(g, m)
  <2>1. CASE m = n
    BY <1>1, <2>1 DEF InPool
  <2>2. CASE m # n
    BY <1>1, <1>2, <1>3, <2>2 DEF InPool
  <2>. QED
    BY <2>1, <2>2
<1>4. ASSUME NEW a \in Node, NEW b \in Node, a # b, IsFile(g, a), IsFile(g, b)
      PROVE  Apart(g, a, b)
  <2>1. CASE a = n
    BY <1>1, <1>2, <1>4, <2>1 DEF Apart
  <2>2. CASE b = n
    BY <1>1, <1>2, <1>4, <2>2 DEF Apart
  <2>3. CASE a # n /\ b # n
    BY <1>1, <1>2, <1>4, <2>3 DEF Apart, PoolOK
  <2>. QED
    BY <2>1, <2>2, <2>3
<1>. QED
  BY <1>3, <1>4 DEF PoolOK

-----------------------------------------------------------------------------
(* Following a path. *)

Tokens == Names \cup {".", ".."}

LEMMA WalkFacts ==
  ASSUME NEW d, NEW start, NEW toks \in Seq(Tokens)
  PROVE  LET at == Walk(d, start, toks)
         IN  /\ at[0] = start
             /\ \A k \in 1 .. Len(toks) : at[k] = Step(d, at[k - 1], toks[k])
<1>. DEFINE L == Len(toks)
            Rec(f, n) == f = [k \in 0 .. n |->
                           IF k = 0 THEN start ELSE Step(d, f[k - 1], toks[k])]
            S == {n \in 0 .. L : \E f : Rec(f, n)}
            at == Walk(d, start, toks)
<1>1. at = CHOOSE f : Rec(f, L)
  BY DEF Walk
<1>2. L \in Nat
  OBVIOUS
<1>. HIDE DEF L
<1>3. 0 \in S
  <2>. DEFINE f == [k \in 0 .. 0 |-> start]
  <2>1. Rec(f, 0)
    OBVIOUS
  <2>. HIDE DEF Rec
  <2>. QED
    BY <1>2, <2>1
<1>4. ASSUME NEW n \in 0 .. (L - 1), n \in S
      PROVE  n + 1 \in S
  <2>1. PICK f : Rec(f, n)
    BY <1>4
  <2>. DEFINE g == [k \in 0 .. (n + 1) |-> IF k = n + 1 THEN Step(d, f[n], toks[k]) ELSE f[k]]
  <2>2. \A k \in 0 .. n : g[k] = f[k]
    OBVIOUS
  <2>3. ASSUME NEW k \in 0 .. (n + 1)
        PROVE  g[k] = IF k = 0 THEN start ELSE Step(d, g[k - 1], toks[k])
    <3>1. CASE k = n + 1
      <4>1. k - 1 = n /\ k # 0 /\ n \in 0 .. n
        BY <3>1
      <4>. QED
        BY <2>2, <3>1, <4>1
    <3>2. CASE k # n + 1
      <4>1. k \in 0 .. n /\ (k # 0 => k - 1 \in 0 .. n)
        BY <3>2
      <4>2. f[k] = IF k = 0 THEN start ELSE Step(d, f[k - 1], toks[k])
        BY <2>1, <4>1
      <4>. QED
        BY <2>2, <4>1, <4>2
    <3>. QED
      BY <3>1, <3>2
  <2>4. g = [k \in 0 .. (n + 1) |-> g[k]]
    OBVIOUS
  <2>. HIDE DEF g
  <2>5. Rec(g, n + 1)
    BY <2>3, <2>4
  <2>6. n + 1 \in 0 .. L
    BY <1>2
  <2>. HIDE DEF Rec
  <2>. QED
    BY <2>5, <2>6
<1>5. L \in S
  <2>. HIDE DEF S
  <2>1. \A k \in 0 .. L : k \in S
    BY <1>2, <1>3, <1>4, UpTo
  <2>. QED
    BY <1>2, <2>1
<1>6. Rec(at, L)
  <2>. HIDE DEF at
  <2>1. PICK f : Rec(f, L)
    BY <1>5
  <2>. HIDE DEF Rec
  <2>. QED
    BY <1>1, <2>1
<1>. HIDE DEF at
<1>7. at[0] = start
  BY <1>2, <1>6
<1>8. ASSUME NEW k \in 1 .. L PROVE at[k] = Step(d, at[k - 1], toks[k])
  <2>1. k \in 0 .. L /\ k # 0
    BY <1>2
  <2>. QED
    BY <1>6, <2>1
<1>. QED
  BY <1>7, <1>8 DEF at, L

-----------------------------------------------------------------------------
(* The tree. *)

Kids(d, dir) == {n \in Live(d) \ {Root} : d.node[n].parent = dir}

Linked(d, dir) == List(Kids(d, dir), d.node[dir].first_child, Sib(d))

(* ListsIntact without walks and counting, and what keeps it so: entries   *)
(* of a directory have different names, and every node descends from the   *)
(* root (no part of the nodes holds the root, holds with a node its        *)
(* children, and is not the whole).                                        *)
TreeOK(d) ==
  /\ IsDir(d, Root) /\ d.node[Root].parent = Root
  /\ \A n \in Live(d) : IsDir(d, d.node[n].parent)
  /\ \A dir \in Live(d) : Linked(d, dir)
  /\ \A n, m \in Live(d) \ {Root} :
       d.node[n].parent = d.node[m].parent /\ d.node[n].name = d.node[m].name => n = m
  /\ \A S \in SUBSET Live(d) :
       Root \in S /\ (\A n \in Live(d) \ {Root} : d.node[n].parent \in S => n \in S)
         => S = Live(d)

LEMMA KidsOnChain ==
  ASSUME NEW d, TreeOK(d), NEW dir \in Live(d)
  PROVE  /\ OnChain(d, dir) = Kids(d, dir)
         /\ Chain(d, dir)[MAX_NODES] = 0
<1>1. Kids(d, dir) \in SUBSET (Node \ {0}) /\ Linked(d, dir)
  BY Constants DEF Kids, Live, TreeOK
<1>. QED
  BY <1>1, ChainIsList DEF Linked

LEMMA DirLive ==
  ASSUME NEW d, NEW n \in Node, IsDir(d, n) \/ IsFile(d, n)
  PROVE  n \in Live(d)
  BY DEF Live, IsDir, IsFile

LEMMA GrownTree ==
  ASSUME NEW d, DiskOK(d), TreeOK(d), NEW parent \in Node, NEW name,
         CanAdd(d, parent, name), NEW n, NEW g, NEW type \in {"dir", "file"},
         Grown(d, g, n, parent, name, type)
  PROVE  TreeOK(g)
<1>1. /\ n \in Node \ {Root} /\ n \notin Live(d) /\ n # parent
      /\ parent \in Live(d) /\ IsDir(d, parent)
  BY DirLive DEF Grown, CanAdd, Live
<1>2. /\ g.node[n].type = type /\ g.node[n].parent = parent /\ g.node[n].name = name
      /\ g.node[n].first_child = 0
      /\ g.node[n].next_sibling = d.node[parent].first_child
      /\ g.node[parent].first_child = n
  BY DEF Grown
<1>3. ASSUME NEW m \in Node, m # n
      PROVE  /\ g.node[m].type = d.node[m].type /\ g.node[m].parent = d.node[m].parent
             /\ g.node[m].name = d.node[m].name
             /\ g.node[m].next_sibling = d.node[m].next_sibling
             /\ m # parent => g.node[m].first_child = d.node[m].first_child
  BY <1>3 DEF Grown, SameData
<1>4. Live(g) = Live(d) \cup {n} /\ Live(d) \subseteq Node
  BY <1>1, <1>2, <1>3 DEF Live
<1>5. /\ IsDir(d, Root) /\ d.node[Root].parent = Root /\ Root \in Node
      /\ \A m \in Live(d) : IsDir(d, d.node[m].parent) /\ d.node[m].parent \in Node
  BY Constants DEF TreeOK, DiskOK, NodeOK, Live
<1>6. IsDir(g, Root) /\ g.node[Root].parent = Root
  BY <1>1, <1>3, <1>5 DEF IsDir
<1>7. ASSUME NEW m \in Live(g) PROVE IsDir(g, g.node[m].parent)
  <2>1. CASE m = n
    BY <1>1, <1>2, <1>3, <2>1 DEF IsDir
  <2>2. CASE m # n
    <3>1. m \in Live(d) /\ g.node[m].parent = d.node[m].parent
      BY <1>3, <1>4, <2>2
    <3>2. d.node[m].parent \in Node /\ IsDir(d, d.node[m].parent)
      BY <1>5, <3>1
    <3>3. d.node[m].parent # n
      BY <1>1, <3>2 DEF Live, IsDir
    <3>. QED
      BY <1>3, <3>1, <3>2, <3>3 DEF IsDir
  <2>. QED
    BY <2>1, <2>2
<1>8. /\ Kids(g, parent) = Kids(d, parent) \cup {n}
      /\ \A m \in Live(d) \ {parent} : Kids(g, m) = Kids(d, m)
      /\ Kids(g, n) = {}
  <2>1. \A m \in Live(d) : d.node[m].parent # n
    BY <1>1, <1>5 DEF Live, IsDir
  <2>2. \A m \in Live(d) : g.node[m].parent = d.node[m].parent
    BY <1>1, <1>3, <1>4
  <2>. QED
    BY <1>1, <1>2, <1>4, <2>1, <2>2 DEF Kids
<1>9. ASSUME NEW m \in Live(d) PROVE 0 \notin Kids(d, m) /\ List(Kids(d, m), d.node[m].first_child, Sib(d))
  BY Constants DEF Kids, TreeOK, Linked
<1>10. ASSUME NEW m \in Node, m # n PROVE Sib(g)[m] = Sib(d)[m]
  BY <1>3, <1>10 DEF Sib
<1>11. ASSUME NEW dir \in Live(g) PROVE Linked(g, dir)
  <2>1. CASE dir = n
    BY <1>2, <1>8, <2>1, ListNone DEF Linked
  <2>2. CASE dir = parent
    <3>1. \A m \in Kids(d, parent) : Sib(g)[m] = Sib(d)[m]
      BY <1>1, <1>4, <1>10 DEF Kids
    <3>2. Sib(g)[n] = d.node[parent].first_child
      BY <1>1, <1>2 DEF Sib
    <3>3. n \notin Kids(d, parent) /\ n # 0
      BY <1>1, Constants DEF Kids
    <3>4. List(Kids(d, parent) \cup {n}, n, Sib(g))
      BY <1>1, <1>9, <3>1, <3>2, <3>3, ListInsert
    <3>. QED
      BY <1>2, <1>8, <2>2, <3>4 DEF Linked
  <2>3. CASE dir \notin {n, parent}
    <3>1. dir \in Live(d) /\ dir \in Node
      BY <1>4, <2>3
    <3>2. \A m \in Kids(d, dir) : Sib(g)[m] = Sib(d)[m]
      BY <1>1, <1>4, <1>10 DEF Kids
    <3>3. List(Kids(d, dir), d.node[dir].first_child, Sib(g))
      BY <1>9, <3>1, <3>2, ListSame
    <3>. QED
      BY <1>3, <1>8, <2>3, <3>1, <3>3 DEF Linked
  <2>. QED
    BY <2>1, <2>2, <2>3
\* The new name was not found on parent's chain.
<1>12. ASSUME NEW m \in Kids(d, parent) PROVE d.node[m].name # name
  <2>1. m \in OnChain(d, parent) /\ d.node[m].type # "free"
    BY <1>1, KidsOnChain DEF Kids, Live
  <2>2. fs_find_child(d, parent, name) = 0
    BY DEF CanAdd
  <2>. QED
    BY <2>1, <2>2, FindFacts
<1>13. ASSUME NEW a \in Live(g) \ {Root}, NEW b \in Live(g) \ {Root},
              g.node[a].parent = g.node[b].parent, g.node[a].name = g.node[b].name
       PROVE  a = b
  <2>1. ASSUME NEW m \in Live(d) \ {Root}, d.node[m].parent = parent
        PROVE  g.node[m].name # name
    <3>1. m \in Kids(d, parent) /\ m # n /\ m \in Node
      BY <1>1, <1>4, <2>1 DEF Kids
    <3>. QED
      BY <1>3, <1>12, <3>1
  <2>2. \A m \in Live(d) : m # n /\ m \in Node
    BY <1>1, <1>4
  <2>3. CASE a # n /\ b # n
    <3>1. a \in Live(d) \ {Root} /\ b \in Live(d) \ {Root}
      BY <1>4, <2>3
    <3>2. d.node[a].parent = d.node[b].parent /\ d.node[a].name = d.node[b].name
      BY <1>3, <1>13, <2>2, <3>1
    <3>. QED
      BY <3>1, <3>2 DEF TreeOK
  <2>4. CASE a = n /\ b # n
    <3>1. b \in Live(d) \ {Root} /\ d.node[b].parent = parent
      BY <1>2, <1>3, <1>4, <1>13, <2>2, <2>4
    <3>. QED
      BY <1>2, <1>13, <2>1, <2>4, <3>1
  <2>5. CASE a # n /\ b = n
    <3>1. a \in Live(d) \ {Root} /\ d.node[a].parent = parent
      BY <1>2, <1>3, <1>4, <1>13, <2>2, <2>5
    <3>. QED
      BY <1>2, <1>13, <2>1, <2>5, <3>1
  <2>. QED
    BY <2>3, <2>4, <2>5
<1>14. ASSUME NEW S \in SUBSET Live(g), Root \in S,
              \A m \in Live(g) \ {Root} : g.node[m].parent \in S => m \in S
       PROVE  S = Live(g)
  <2>. DEFINE T == S \ {n}
  <2>1. T \in SUBSET Live(d) /\ Root \in T
    BY <1>1, <1>4, <1>14
  <2>2. ASSUME NEW m \in Live(d) \ {Root}, d.node[m].parent \in T PROVE m \in T
    <3>1. m \in Node /\ m # n /\ m \in Live(g) \ {Root}
      BY <1>1, <1>4
    <3>2. g.node[m].parent \in S
      BY <1>3, <2>2, <3>1
    <3>. QED
      BY <1>14, <3>1, <3>2
  <2>3. T = Live(d)
    <3>. HIDE DEF T
    <3>. QED
      BY <2>1, <2>2 DEF TreeOK
  <2>4. n \in S
    <3>1. parent \in S /\ n \in Live(g) \ {Root}
      BY <1>1, <1>4, <2>3
    <3>. QED
      BY <1>2, <1>14, <3>1
  <2>. QED
    BY <1>4, <2>3, <2>4
<1>. QED
  BY <1>6, <1>7, <1>11, <1>13, <1>14 DEF TreeOK

(* What is deleted has no children. *)
LEMMA Childless ==
  ASSUME NEW d, TreeOK(d), NEW n \in Node, CanDelete(d, n)
  PROVE  /\ n \in Live(d) \ {Root}
         /\ \A m \in Live(d) : d.node[m].parent # n
<1>1. n \in Live(d) \ {Root}
  BY DEF CanDelete, Live
<1>2. Kids(d, n) = {}
  <2>1. CASE IsDir(d, n)
    <3>1. d.node[n].first_child = 0
      BY <2>1 DEF CanDelete
    <3>2. 0 \notin Kids(d, n) /\ List(Kids(d, n), 0, Sib(d))
      BY <1>1, <3>1, Constants DEF Kids, TreeOK, Linked
    <3>. QED
      BY <3>2, ListEmpty
  <2>2. CASE ~IsDir(d, n)
    BY <2>2 DEF Kids, TreeOK
  <2>. QED
    BY <2>1, <2>2
<1>3. d.node[Root].parent # n
  BY <1>1 DEF TreeOK
<1>. QED
  BY <1>1, <1>2, <1>3 DEF Kids

LEMMA DeletedTree ==
  ASSUME NEW d, DiskOK(d), TreeOK(d), NEW n \in Node, CanDelete(d, n),
         d.node[n].parent # Root
  PROVE  TreeOK(fs_delete(d, n))
<1>. DEFINE g == fs_delete(d, n)
            p == d.node[n].parent
            K == Kids(d, p)
            first == d.node[p].first_child
<1>1. n \in Live(d) \ {Root} /\ \A m \in Live(d) : d.node[m].parent # n
  BY Childless
<1>2. Live(d) \subseteq Node
  BY DEF Live
<1>3. /\ IsDir(d, Root) /\ d.node[Root].parent = Root /\ Root \in Node
      /\ \A m \in Live(d) : IsDir(d, d.node[m].parent) /\ d.node[m].parent \in Node
  BY Constants DEF TreeOK, DiskOK, NodeOK, Live
<1>4. p \in Live(d) /\ p # n /\ p # Root /\ n \in K /\ 0 \notin K
  BY <1>1, <1>3, DirLive, Constants DEF Kids
<1>5. Shrunk(d, g, n) /\ DiskOK(g)
  BY DeleteShrinks
<1>6. List(K, first, Sib(d)) /\ OnChain(d, p) = K
  BY <1>4, KidsOnChain DEF TreeOK, Linked
\* How the links change.
<1>7. \/ /\ first = n
         /\ g.node[p].first_child = Sib(d)[n]
         /\ \A m \in Node \ {p} : g.node[m].first_child = d.node[m].first_child
         /\ \A m \in Node : Sib(g)[m] = Sib(d)[m]
      \/ /\ first # n
         /\ \E c \in K : /\ Sib(d)[c] = n
                         /\ Sib(g)[c] = Sib(d)[n]
                         /\ \A m \in Node \ {c} : Sib(g)[m] = Sib(d)[m]
         /\ \A m \in Node : g.node[m].first_child = d.node[m].first_child
  <2>1. K \subseteq Node
    BY <1>2 DEF Kids
  <2>2. \A m \in Node : Sib(g)[m] = g.node[m].next_sibling /\ Sib(d)[m] = d.node[m].next_sibling
    BY DEF Sib
  <2>3. first # n => \E c \in K : d.node[c].next_sibling = n
    <3>1. first # n => \E c \in K \ {n} : Sib(d)[c] = n
      BY <1>4, <1>6, ListBefore
    <3>. QED
      BY <2>1, <2>2, <3>1
  <2>. DEFINE before == {c \in OnChain(d, p) : d.node[c].next_sibling = n}
  <2>4. before = {c \in K : d.node[c].next_sibling = n}
    BY <1>6
  <2>5. \/ /\ p = Root \/ (first # n /\ before = {})
           /\ \A m \in Node : SameLinks(g.node[m], d.node[m])
        \/ /\ p # Root /\ first = n
           /\ g.node[p].first_child = d.node[n].next_sibling
           /\ \A m \in Node \ {p} : g.node[m].first_child = d.node[m].first_child
           /\ \A m \in Node : g.node[m].next_sibling = d.node[m].next_sibling
        \/ /\ p # Root /\ first # n
           /\ \E c \in before :
                /\ g.node[c].next_sibling = d.node[n].next_sibling
                /\ \A m \in Node \ {c} :
                     g.node[m].next_sibling = d.node[m].next_sibling
           /\ \A m \in Node : g.node[m].first_child = d.node[m].first_child
    BY DeleteShrinks
  <2>. HIDE DEF g, p, first, before, K
  <2>. QED
    BY <1>4, <2>1, <2>2, <2>3, <2>4, <2>5
<1>. HIDE DEF g
<1>8. g.node[n].type = "free"
  BY <1>5 DEF Shrunk
<1>9. ASSUME NEW m \in Node, m # n
      PROVE  /\ g.node[m].type = d.node[m].type /\ g.node[m].parent = d.node[m].parent
             /\ g.node[m].name = d.node[m].name
  BY <1>5, <1>9 DEF Shrunk, SameData
<1>10. Live(g) = Live(d) \ {n}
  BY <1>8, <1>9 DEF Live
<1>11. IsDir(g, Root) /\ g.node[Root].parent = Root
  BY <1>1, <1>3, <1>9 DEF IsDir
<1>12. ASSUME NEW m \in Live(g) PROVE IsDir(g, g.node[m].parent)
  <2>1. m \in Live(d) /\ m \in Node /\ m # n
    BY <1>2, <1>10
  <2>2. d.node[m].parent \in Node /\ IsDir(d, d.node[m].parent) /\ d.node[m].parent # n
    BY <1>1, <1>3, <2>1
  <2>. QED
    BY <1>9, <2>1, <2>2 DEF IsDir
<1>13. Kids(g, p) = K \ {n} /\ \A m \in Live(g) \ {p} : Kids(g, m) = Kids(d, m)
  <2>1. \A m \in Live(g) : g.node[m].parent = d.node[m].parent
    BY <1>2, <1>9, <1>10
  <2>. QED
    BY <1>1, <1>10, <2>1 DEF Kids
<1>14. K \subseteq Node
  BY <1>2 DEF Kids
<1>15. ASSUME NEW dir \in Live(g) PROVE Linked(g, dir)
  <2>1. CASE dir = p /\ first = n
    <3>1. \A m \in K \ {n} : Sib(g)[m] = Sib(d)[m]
      BY <1>7, <1>14, <2>1
    <3>2. List(K \ {n}, Sib(d)[n], Sib(g))
      <4>. HIDE DEF K, first
      <4>. QED
        BY <1>4, <1>6, <2>1, <3>1, ListBehead
    <3>3. g.node[p].first_child = Sib(d)[n]
      BY <1>7, <2>1
    <3>. QED
      BY <1>13, <2>1, <3>2, <3>3 DEF Linked
  <2>2. CASE dir = p /\ first # n
    <3>1. PICK c \in K : /\ Sib(d)[c] = n
                         /\ Sib(g)[c] = Sib(d)[n]
                         /\ \A m \in Node \ {c} : Sib(g)[m] = Sib(d)[m]
      BY <1>7, <2>2
    <3>2. \A m \in K \ {n, c} : Sib(g)[m] = Sib(d)[m]
      BY <1>14, <3>1
    <3>3. List(K \ {n}, first, Sib(g))
      <4>. HIDE DEF K, first
      <4>. QED
        BY <1>4, <1>6, <2>2, <3>1, <3>2, ListRemove
    <3>4. g.node[p].first_child = first
      BY <1>4, <1>2, <1>7, <2>2
    <3>. QED
      BY <1>13, <2>2, <3>3, <3>4 DEF Linked
  <2>3. CASE dir # p
    <3>1. dir \in Live(d) /\ dir \in Node
      BY <1>2, <1>10
    <3>2. g.node[dir].first_child = d.node[dir].first_child
      BY <1>7, <2>3, <3>1
    <3>3. ASSUME NEW m \in Kids(d, dir) PROVE Sib(g)[m] = Sib(d)[m]
      <4>1. m \in Node /\ m \notin K
        BY <1>2, <2>3 DEF Kids
      <4>. QED
        BY <1>7, <4>1
    <3>4. 0 \notin Kids(d, dir) /\ List(Kids(d, dir), d.node[dir].first_child, Sib(d))
      BY <3>1, Constants DEF Kids, TreeOK, Linked
    <3>5. List(Kids(d, dir), d.node[dir].first_child, Sib(g))
      BY <3>3, <3>4, ListSame
    <3>. QED
      BY <1>13, <2>3, <3>2, <3>5 DEF Linked
  <2>. QED
    BY <2>1, <2>2, <2>3
<1>16. ASSUME NEW a \in Live(g) \ {Root}, NEW b \in Live(g) \ {Root},
              g.node[a].parent = g.node[b].parent, g.node[a].name = g.node[b].name
       PROVE  a = b
  <2>1. /\ a \in Live(d) \ {Root} /\ a \in Node /\ a # n
        /\ b \in Live(d) \ {Root} /\ b \in Node /\ b # n
    BY <1>2, <1>10
  <2>2. d.node[a].parent = d.node[b].parent /\ d.node[a].name = d.node[b].name
    BY <1>9, <1>16, <2>1
  <2>. QED
    BY <2>1, <2>2 DEF TreeOK
<1>17. ASSUME NEW S \in SUBSET Live(g), Root \in S,
              \A m \in Live(g) \ {Root} : g.node[m].parent \in S => m \in S
       PROVE  S = Live(g)
  <2>. DEFINE T == S \cup {n}
  <2>1. T \in SUBSET Live(d) /\ Root \in T
    BY <1>1, <1>10, <1>17
  <2>2. ASSUME NEW m \in Live(d) \ {Root}, d.node[m].parent \in T PROVE m \in T
    <3>1. CASE m = n
      BY <3>1
    <3>2. CASE m # n
      <4>1. m \in Live(g) \ {Root} /\ m \in Node
        BY <1>2, <1>10, <3>2
      <4>2. g.node[m].parent \in S
        BY <1>1, <1>9, <2>2, <3>2, <4>1
      <4>. QED
        BY <1>17, <4>1, <4>2
    <3>. QED
      BY <3>1, <3>2
  <2>3. T = Live(d)
    <3>. HIDE DEF T
    <3>. QED
      BY <2>1, <2>2 DEF TreeOK
  <2>. QED
    BY <1>10, <2>3
<1>18. TreeOK(g)
  BY <1>11, <1>12, <1>15, <1>16, <1>17 DEF TreeOK
<1>. QED
  BY <1>18 DEF g

(* Writing a file changes no link. *)
LEMMA WrittenTree ==
  ASSUME NEW d, DiskOK(d), TreeOK(d), NEW g, NEW n \in Node, NEW data, Written(d, g, n, data)
  PROVE  TreeOK(g)
<1>1. ASSUME NEW m \in Node
      PROVE  /\ g.node[m].type = d.node[m].type /\ g.node[m].parent = d.node[m].parent
             /\ g.node[m].name = d.node[m].name
             /\ g.node[m].first_child = d.node[m].first_child
             /\ g.node[m].next_sibling = d.node[m].next_sibling
  BY DEF Written, SameData, SameLinks
<1>2. Live(g) = Live(d) /\ Live(d) \subseteq Node
  BY <1>1 DEF Live
<1>3. Sib(g) = Sib(d) /\ \A dir \in Live(d) : Kids(g, dir) = Kids(d, dir)
  BY <1>1, <1>2 DEF Sib, Kids
<1>4. ASSUME NEW m \in Live(d)
      PROVE  IsDir(g, g.node[m].parent) /\ Linked(g, m)
  <2>1. m \in Node
    BY <1>2
  <2>2. d.node[m].parent \in Node
    BY <2>1 DEF DiskOK, NodeOK
  <2>3. IsDir(g, g.node[m].parent)
    BY <1>1, <2>1, <2>2 DEF TreeOK, IsDir
  <2>4. Linked(g, m)
    BY <1>1, <1>3, <2>1 DEF TreeOK, Linked
  <2>. QED
    BY <2>3, <2>4
<1>5. IsDir(g, Root) /\ g.node[Root].parent = Root
  BY <1>1, Constants DEF TreeOK, IsDir
<1>6. ASSUME NEW a \in Live(d) \ {Root}, NEW b \in Live(d) \ {Root},
             g.node[a].parent = g.node[b].parent, g.node[a].name = g.node[b].name
      PROVE  a = b
  BY <1>1, <1>2, <1>6 DEF TreeOK
<1>7. ASSUME NEW S \in SUBSET Live(d), Root \in S,
             \A m \in Live(d) \ {Root} : g.node[m].parent \in S => m \in S
      PROVE  S = Live(d)
  <2>1. \A m \in Live(d) \ {Root} : d.node[m].parent \in S => m \in S
    BY <1>1, <1>2, <1>7
  <2>. QED
    BY <1>7, <2>1 DEF TreeOK
<1>. QED
  BY <1>2, <1>4, <1>5, <1>6, <1>7 DEF TreeOK

-----------------------------------------------------------------------------
(* Where a path leads. *)

PathSet ==
  [abs : BOOLEAN, toks : Seq(Tokens), slash : BOOLEAN, text : Names \cup RawNames]

LEMMA WalkStays ==
  ASSUME NEW d, NEW X, NEW start \in X, NEW toks \in Seq(Tokens),
         \A c \in X, t \in Tokens : Step(d, c, t) \in X
  PROVE  \A k \in 0 .. Len(toks) : Walk(d, start, toks)[k] \in X
<1>. DEFINE at == Walk(d, start, toks)
            L == Len(toks)
            S == {k \in 0 .. L : at[k] \in X}
<1>1. L \in Nat /\ \A k \in 1 .. L : toks[k] \in Tokens
  OBVIOUS
<1>2. at[0] = start /\ \A k \in 1 .. L : at[k] = Step(d, at[k - 1], toks[k])
  BY WalkFacts
<1>. HIDE DEF at, L
<1>3. 0 \in S
  BY <1>1, <1>2
<1>4. ASSUME NEW k \in 0 .. (L - 1), k \in S PROVE k + 1 \in S
  <2>1. k + 1 \in 1 .. L /\ (k + 1) - 1 = k /\ k + 1 \in 0 .. L
    BY <1>1
  <2>2. at[k] \in X
    BY <1>4
  <2>3. at[k + 1] = Step(d, at[k], toks[k + 1]) /\ toks[k + 1] \in Tokens
    BY <1>1, <1>2, <2>1
  <2>. QED
    BY <2>1, <2>2, <2>3
<1>5. \A k \in 0 .. L : k \in S
  <2>. HIDE DEF S
  <2>. QED
    BY <1>1, <1>3, <1>4, UpTo
<1>. QED
  BY <1>5 DEF at, L

LEMMA StepInTable ==
  ASSUME NEW d, DiskOK(d), NEW c \in Node \cup {FAIL}, NEW t
  PROVE  /\ Step(d, c, t) \in Node \cup {FAIL}
         /\ TreeOK(d) /\ c \in Live(d) \cup {FAIL} => Step(d, c, t) \in Live(d) \cup {FAIL}
<1>1. CASE c = FAIL
  BY <1>1 DEF Step
<1>2. CASE c # FAIL /\ t = "."
  BY <1>2 DEF Step
<1>3. CASE c # FAIL /\ t = ".."
  <2>1. Step(d, c, t) = IF c = Root THEN c ELSE d.node[c].parent
    BY <1>3 DEF Step
  <2>2. d.node[c].parent \in Node
    BY <1>3 DEF DiskOK, NodeOK
  <2>3. TreeOK(d) /\ c \in Live(d) => d.node[c].parent \in Live(d)
    BY <2>2, DirLive DEF TreeOK
  <2>. QED
    BY <1>3, <2>1, <2>2, <2>3
<1>4. CASE c # FAIL /\ t # "." /\ t # ".."
  <2>1. Step(d, c, t) = LET child == fs_find_child(d, c, t)
                        IN  IF child = 0 THEN FAIL ELSE child
    BY <1>4 DEF Step
  <2>2. /\ fs_find_child(d, c, t) \in Node
        /\ fs_find_child(d, c, t) # 0 => d.node[fs_find_child(d, c, t)].type # "free"
    BY <1>4, FindFacts
  <2>. QED
    BY <2>1, <2>2 DEF Live
<1>. QED
  BY <1>1, <1>2, <1>3, <1>4

LEMMA ResolveInTable ==
  ASSUME NEW d, DiskOK(d), NEW cwd \in Node, NEW p \in PathSet
  PROVE  /\ fs_resolve_checked(d, cwd, p) \in Node \cup {FAIL}
         /\ TreeOK(d) /\ cwd \in Live(d) =>
              fs_resolve_checked(d, cwd, p) \in Live(d) \cup {FAIL}
<1>. DEFINE start == IF p.abs THEN Root ELSE cwd
<1>1. p.toks \in Seq(Tokens) /\ Len(p.toks) \in Nat
  BY DEF PathSet
<1>2. fs_resolve_checked(d, cwd, p) = Walk(d, start, p.toks)[Len(p.toks)]
  BY DEF fs_resolve_checked
<1>3. start \in Node
  BY Constants
<1>4. TreeOK(d) /\ cwd \in Live(d) => start \in Live(d)
  BY Constants, DirLive DEF TreeOK
<1>. HIDE DEF start
<1>5. Len(p.toks) \in 0 .. Len(p.toks)
  BY <1>1
<1>6. Walk(d, start, p.toks)[Len(p.toks)] \in Node \cup {FAIL}
  <2>. DEFINE X == Node \cup {FAIL}
  <2>1. start \in X /\ \A c \in X, t \in Tokens : Step(d, c, t) \in X
    BY <1>3, StepInTable
  <2>. HIDE DEF X
  <2>2. Walk(d, start, p.toks)[Len(p.toks)] \in X
    BY <1>1, <1>5, <2>1, WalkStays
  <2>. QED
    BY <2>2 DEF X
<1>7. ASSUME TreeOK(d), cwd \in Live(d)
      PROVE  Walk(d, start, p.toks)[Len(p.toks)] \in Live(d) \cup {FAIL}
  <2>. DEFINE X == Live(d) \cup {FAIL}
  <2>1. start \in X
    BY <1>4, <1>7
  <2>2. ASSUME NEW c \in X, NEW t \in Tokens PROVE Step(d, c, t) \in X
    <3>1. c \in Node \cup {FAIL}
      BY DEF Live
    <3>. QED
      BY <1>7, <3>1, StepInTable
  <2>. HIDE DEF X
  <2>3. Walk(d, start, p.toks)[Len(p.toks)] \in X
    BY <1>1, <1>5, <2>1, <2>2, WalkStays
  <2>. QED
    BY <2>3 DEF X
<1>. QED
  BY <1>2, <1>6, <1>7

-----------------------------------------------------------------------------
(* What each operation of the ramdisk keeps. *)

Sound(d) == DiskOK(d) /\ PoolOK(d) /\ (~DELETE_AT_ROOT => TreeOK(d))

(* The nodes in S stay what and where they are. *)
Keeps(d, g, S) ==
  \A m \in S : /\ g.node[m].type = d.node[m].type
               /\ g.node[m].parent = d.node[m].parent
               /\ g.node[m].name = d.node[m].name

LEMMA AddSound ==
  ASSUME NEW d, Sound(d), NEW parent \in Node, NEW name, CanAdd(d, parent, name),
         NEW type \in {"dir", "file"}
  PROVE  LET g == Link(d, parent, name, type)
         IN  /\ Sound(g) /\ Keeps(d, g, Live(d))
             /\ Grown(d, g, Min(FreeNodes(d)), parent, name, type)
<1>. DEFINE g == Link(d, parent, name, type)
            n == Min(FreeNodes(d))
<1>1. DiskOK(d) /\ PoolOK(d) /\ (~DELETE_AT_ROOT => TreeOK(d))
  BY DEF Sound
<1>2. Grown(d, g, n, parent, name, type) /\ DiskOK(g)
  BY <1>1, LinkGrows DEF CanAdd
<1>. HIDE DEF g, n
<1>3. PoolOK(g)
  BY <1>1, <1>2, GrownPool
<1>4. ~DELETE_AT_ROOT => TreeOK(g)
  BY <1>1, <1>2, GrownTree
<1>5. Keeps(d, g, Live(d))
  BY <1>2 DEF Grown, Keeps, Live, SameData
<1>. QED
  BY <1>2, <1>3, <1>4, <1>5 DEF Sound, g, n

LEMMA KeepsItself ==
  ASSUME NEW d, NEW S
  PROVE  Keeps(d, d, S)
  BY DEF Keeps

LEMMA MkdirSound ==
  ASSUME NEW d, Sound(d), NEW parent \in Node, NEW name
  PROVE  Sound(fs_mkdir_child(d, parent, name)) /\ Keeps(d, fs_mkdir_child(d, parent, name), Live(d))
<1>1. CASE CanAdd(d, parent, name)
  <2>1. fs_mkdir_child(d, parent, name) = Link(d, parent, name, "dir")
    BY <1>1 DEF fs_mkdir_child
  <2>. QED
    BY <1>1, <2>1, AddSound
<1>2. CASE ~CanAdd(d, parent, name)
  BY <1>2, KeepsItself DEF fs_mkdir_child
<1>. QED
  BY <1>1, <1>2

LEMMA CreateSound ==
  ASSUME NEW d, Sound(d), NEW parent \in Node, NEW name
  PROVE  Sound(fs_create_file(d, parent, name)) /\ Keeps(d, fs_create_file(d, parent, name), Live(d))
<1>1. CASE CanAdd(d, parent, name)
  <2>1. fs_create_file(d, parent, name) = Link(d, parent, name, "file")
    BY <1>1 DEF fs_create_file
  <2>. QED
    BY <1>1, <2>1, AddSound
<1>2. CASE ~CanAdd(d, parent, name)
  BY <1>2, KeepsItself DEF fs_create_file
<1>. QED
  BY <1>1, <1>2

LEMMA WriteSound ==
  ASSUME NEW d, Sound(d), NEW n \in Node, NEW data \in Seq(Byte)
  PROVE  Sound(fs_write(d, n, data)) /\ Keeps(d, fs_write(d, n, data), Node)
<1>1. CASE CanWrite(d, n, data)
  <2>. DEFINE g == fs_write(d, n, data)
  <2>1. DiskOK(d) /\ PoolOK(d) /\ (~DELETE_AT_ROOT => TreeOK(d))
    BY DEF Sound
  <2>2. Written(d, g, n, data) /\ DiskOK(g)
    BY <1>1, <2>1, WriteFacts
  <2>. HIDE DEF g
  <2>3. PoolOK(g) /\ (~DELETE_AT_ROOT => TreeOK(g))
    BY <2>1, <2>2, WrittenPool, WrittenTree
  <2>4. Keeps(d, g, Node)
    BY <2>2 DEF Written, Keeps, SameData
  <2>. QED
    BY <2>2, <2>3, <2>4 DEF Sound, g
<1>2. CASE ~CanWrite(d, n, data)
  BY <1>2, KeepsItself DEF fs_write
<1>. QED
  BY <1>1, <1>2

LEMMA DeleteSound ==
  ASSUME NEW d, Sound(d), NEW n \in Node, DELETE_AT_ROOT \/ d.node[n].parent # Root
  PROVE  Sound(fs_delete(d, n)) /\ Keeps(d, fs_delete(d, n), Node \ {n})
<1>1. CASE CanDelete(d, n)
  <2>. DEFINE g == fs_delete(d, n)
  <2>1. DiskOK(d) /\ PoolOK(d) /\ (~DELETE_AT_ROOT => TreeOK(d))
    BY DEF Sound
  <2>2. Shrunk(d, g, n) /\ DiskOK(g)
    BY <1>1, <2>1, DeleteShrinks
  <2>3. ~DELETE_AT_ROOT => TreeOK(g)
    BY <1>1, <2>1, DeletedTree
  <2>. HIDE DEF g
  <2>4. PoolOK(g)
    BY <2>1, <2>2, ShrunkPool
  <2>5. Keeps(d, g, Node \ {n})
    BY <2>2 DEF Shrunk, Keeps, SameData
  <2>. QED
    BY <2>2, <2>3, <2>4, <2>5 DEF Sound, g
<1>2. CASE ~CanDelete(d, n)
  BY <1>2, KeepsItself DEF fs_delete
<1>. QED
  BY <1>1, <1>2

-----------------------------------------------------------------------------
(* ramdisk_init *)

LEMMA EmptySound == Sound(EmptyDisk) /\ IsDir(EmptyDisk, Root)
<1>. DEFINE d == EmptyDisk
<1>1. /\ DOMAIN d = {"node", "pool"} /\ d.pool = <<>>
      /\ d.node = [n \in Node |-> IF n = Root THEN [Blank EXCEPT !.type = "dir"] ELSE Blank]
  BY DEF EmptyDisk
<1>. HIDE DEF d
<1>2. ASSUME NEW e \in {Blank, [Blank EXCEPT !.type = "dir"]}
      PROVE  /\ DOMAIN e = Fields /\ e.type \in {"free", "dir"}
             /\ e.parent = 0 /\ e.first_child = 0 /\ e.next_sibling = 0
             /\ e.size = 0 /\ e.data_off = 0
  <2>1. CASE e = Blank
    BY <2>1 DEF Blank, Fields
  <2>2. CASE e = [Blank EXCEPT !.type = "dir"]
    BY <2>2 DEF Blank, Fields
  <2>. QED
    BY <2>1, <2>2
<1>3. ASSUME NEW n \in Node
      PROVE  /\ DOMAIN d.node[n] = Fields
             /\ d.node[n].type = IF n = Root THEN "dir" ELSE "free"
             /\ d.node[n].parent = 0 /\ d.node[n].first_child = 0
             /\ d.node[n].next_sibling = 0 /\ d.node[n].size = 0 /\ d.node[n].data_off = 0
  <2>1. d.node[n] = IF n = Root THEN [Blank EXCEPT !.type = "dir"] ELSE Blank
    BY <1>1
  <2>2. [Blank EXCEPT !.type = "dir"].type = "dir" /\ Blank.type = "free"
    BY DEF Blank
  <2>. QED
    BY <1>2, <2>1, <2>2
<1>4. DiskOK(d)
  <2>1. ASSUME NEW n \in Node PROVE NodeOK(d.node[n])
    <3>1. 0 \in Node /\ 0 \in 0 .. DATA_CAP
      BY Constants
    <3>. QED
      BY <1>3, <3>1 DEF NodeOK
  <2>2. DOMAIN d.node = Node
    BY <1>1
  <2>3. d.pool \in Seq(Byte) /\ Len(d.pool) <= DATA_CAP
    BY <1>1, Constants
  <2>. QED
    BY <1>1, <2>1, <2>2, <2>3 DEF DiskOK
<1>5. \A n \in Node : ~IsFile(d, n)
  BY <1>3 DEF IsFile
<1>6. PoolOK(d)
  BY <1>5 DEF PoolOK
<1>7. Live(d) = {Root} /\ Kids(d, Root) = {} /\ Root = 0 /\ Root \in Node
  BY <1>3, Constants DEF Live, Kids
<1>8. IsDir(d, Root) /\ d.node[Root].parent = Root /\ d.node[Root].first_child = 0
  BY <1>3, <1>7 DEF IsDir
<1>9. Linked(d, Root)
  BY <1>7, <1>8, ListNone DEF Linked
<1>10. TreeOK(d)
  BY <1>7, <1>8, <1>9 DEF TreeOK
<1>. QED
  BY <1>4, <1>6, <1>8, <1>10 DEF Sound, d

LEMMA InitSound ==
  /\ Sound(ramdisk_init) /\ IsDir(ramdisk_init, Root)
  /\ \A n \in Node : ~IsFile(ramdisk_init, n)
<1>. DEFINE L == Len(Seeds)
            Rec(f, n) == f = [k \in 0 .. n |->
                           IF k = 0 THEN EmptyDisk ELSE fs_mkdir_child(f[k - 1], Root, Seeds[k])]
            S == {n \in 0 .. L : \E f : Rec(f, n)}
            made == CHOOSE f : Rec(f, L)
<1>1. ramdisk_init = made[L]
  BY DEF ramdisk_init
<1>2. L \in Nat
  BY RamdiskAssumption
<1>. HIDE DEF L
<1>3. 0 \in S
  <2>. DEFINE f == [k \in 0 .. 0 |-> EmptyDisk]
  <2>1. Rec(f, 0)
    OBVIOUS
  <2>. HIDE DEF Rec
  <2>. QED
    BY <1>2, <2>1
<1>4. ASSUME NEW n \in 0 .. (L - 1), n \in S
      PROVE  n + 1 \in S
  <2>1. PICK f : Rec(f, n)
    BY <1>4
  <2>. DEFINE g == [k \in 0 .. (n + 1) |->
                      IF k = n + 1 THEN fs_mkdir_child(f[n], Root, Seeds[k]) ELSE f[k]]
  <2>2. \A k \in 0 .. n : g[k] = f[k]
    OBVIOUS
  <2>3. ASSUME NEW k \in 0 .. (n + 1)
        PROVE  g[k] = IF k = 0 THEN EmptyDisk ELSE fs_mkdir_child(g[k - 1], Root, Seeds[k])
    <3>1. CASE k = n + 1
      <4>1. k - 1 = n /\ k # 0 /\ n \in 0 .. n
        BY <3>1
      <4>. QED
        BY <2>2, <3>1, <4>1
    <3>2. CASE k # n + 1
      <4>1. k \in 0 .. n /\ (k # 0 => k - 1 \in 0 .. n)
        BY <3>2
      <4>2. f[k] = IF k = 0 THEN EmptyDisk ELSE fs_mkdir_child(f[k - 1], Root, Seeds[k])
        BY <2>1, <4>1
      <4>. QED
        BY <2>2, <4>1, <4>2
    <3>. QED
      BY <3>1, <3>2
  <2>4. g = [k \in 0 .. (n + 1) |-> g[k]]
    OBVIOUS
  <2>. HIDE DEF g
  <2>5. Rec(g, n + 1)
    BY <2>3, <2>4
  <2>6. n + 1 \in 0 .. L
    BY <1>2
  <2>. HIDE DEF Rec
  <2>. QED
    BY <2>5, <2>6
<1>5. L \in S
  <2>. HIDE DEF S
  <2>1. \A k \in 0 .. L : k \in S
    BY <1>2, <1>3, <1>4, UpTo
  <2>. QED
    BY <1>2, <2>1
<1>6. Rec(made, L)
  <2>1. PICK f : Rec(f, L)
    BY <1>5
  <2>. HIDE DEF Rec
  <2>. QED
    BY <2>1
<1>. HIDE DEF made
<1>. DEFINE NoFile(d) == \A n \in Node : ~IsFile(d, n)
            T == {k \in 0 .. L : Sound(made[k]) /\ IsDir(made[k], Root) /\ NoFile(made[k])}
<1>7. 0 \in T
  <2>1. made[0] = EmptyDisk
    BY <1>2, <1>6
  <2>. QED
    <3>1. NoFile(EmptyDisk)
      BY DEF EmptyDisk, Blank, IsFile
    <3>. QED
      BY <1>2, <2>1, <3>1, EmptySound
<1>8. ASSUME NEW k \in 0 .. (L - 1), k \in T PROVE k + 1 \in T
  <2>1. k + 1 \in 0 .. L /\ (k + 1) - 1 = k /\ k + 1 # 0
    BY <1>2
  <2>2. made[k + 1] = fs_mkdir_child(made[k], Root, Seeds[k + 1])
    BY <1>6, <2>1
  <2>3. Sound(made[k]) /\ IsDir(made[k], Root) /\ Root \in Live(made[k])
    BY <1>8, DirLive, Constants
  <2>4. Sound(made[k + 1]) /\ Keeps(made[k], made[k + 1], Live(made[k]))
    BY <2>2, <2>3, MkdirSound, Constants
  <2>5. NoFile(made[k + 1])
    <3>. DEFINE d == made[k]
                name == Seeds[k + 1]
    <3>1. NoFile(d) /\ DiskOK(d) /\ IsDir(d, Root) /\ Sound(d)
      BY <1>8, <2>3 DEF Sound
    <3>. HIDE DEF d, name, NoFile
    <3>2. NoFile(fs_mkdir_child(d, Root, name))
      <4>1. CASE CanAdd(d, Root, name)
        <5>1. PICK type \in {"dir", "file"} : type = "dir"
          OBVIOUS
        <5>2. fs_mkdir_child(d, Root, name) = Link(d, Root, name, type)
          BY <4>1, <5>1 DEF fs_mkdir_child
        <5>. DEFINE g == Link(d, Root, name, type)
                    n == Min(FreeNodes(d))
        <5>3. Grown(d, g, n, Root, name, type)
          BY <3>1, <4>1, AddSound, Constants
        <5>. HIDE DEF g, n
        <5>4. NoFile(g)
          BY <3>1, <5>1, <5>3 DEF NoFile, Grown, SameData, IsFile
        <5>. QED
          BY <5>2, <5>4 DEF g
      <4>2. CASE ~CanAdd(d, Root, name)
        BY <3>1, <4>2 DEF fs_mkdir_child
      <4>. QED
        BY <4>1, <4>2
    <3>. QED
      BY <2>2, <3>2 DEF d, name
  <2>. HIDE DEF NoFile
  <2>. QED
    BY <2>1, <2>3, <2>4, <2>5 DEF Keeps, IsDir
<1>9. L \in T
  <2>. HIDE DEF T
  <2>1. \A k \in 0 .. L : k \in T
    BY <1>2, <1>7, <1>8, UpTo
  <2>. QED
    BY <1>2, <2>1
<1>. QED
  BY <1>1, <1>9

-----------------------------------------------------------------------------
(* The commands. *)

FilesInv == Sound(disk) /\ IsDir(disk, Root) /\ fs_cwd \in Node /\ IsDir(disk, fs_cwd)

(* A file's bytes. *)
LEMMA ReadBytes ==
  ASSUME NEW d, Sound(d), NEW n \in Node, IsFile(d, n)
  PROVE  /\ fs_read(d, n, DATA_CAP) \in Seq(Byte)
         /\ Len(fs_read(d, n, DATA_CAP)) = d.node[n].size
         /\ \A i \in 1 .. d.node[n].size :
              fs_read(d, n, DATA_CAP)[i] = d.pool[d.node[n].data_off + i]
<1>. DEFINE s == d.node[n].size
            o == d.node[n].data_off
            r == [i \in 1 .. s |-> d.pool[o + i]]
<1>1. s \in 0 .. DATA_CAP /\ s \in Nat /\ o \in Nat
  BY Sizes DEF Sound, DiskOK, NodeOK
<1>2. d.pool \in Seq(Byte) /\ Len(d.pool) \in Nat /\ o + s <= Len(d.pool)
  BY Sizes DEF Sound, PoolOK, InPool
<1>3. fs_read(d, n, DATA_CAP) = r
  <2>1. (IF DATA_CAP < s THEN DATA_CAP ELSE s) = s
    BY <1>1, Constants
  <2>. QED
    BY <2>1 DEF fs_read
<1>. HIDE DEF s, o
<1>4. \A i \in 1 .. s : o + i \in 1 .. Len(d.pool)
  BY <1>1, <1>2
<1>5. \A i \in 1 .. s : d.pool[o + i] \in Byte
  BY <1>2, <1>4
<1>6. r \in [1 .. s -> Byte]
  BY <1>5
<1>7. r \in Seq(Byte) /\ Len(r) = s
  BY <1>1, <1>6
<1>. QED
  BY <1>3, <1>7 DEF s, o

LEMMA PathFacts ==
  ASSUME NEW p \in Paths
  PROVE  p \in PathSet /\ (p.abs \/ p.toks # <<>>)
  BY CommandAssumption DEF PathSet, Tokens

(* The path of the directory that holds p's last token. *)
LEMMA ParentPath ==
  ASSUME NEW p \in PathSet, p.toks # <<>>
  PROVE  LET q == [p EXCEPT !.toks = Front(@)]
         IN  /\ q \in PathSet /\ q.abs = p.abs
             /\ Len(q.toks) = Len(p.toks) - 1
             /\ \A i \in 1 .. (Len(p.toks) - 1) : q.toks[i] = p.toks[i]
<1>. DEFINE s == p.toks
            f == Front(s)
            q == [p EXCEPT !.toks = Front(@)]
<1>1. s \in Seq(Tokens) /\ Len(s) \in Nat /\ Len(s) > 0 /\ p.abs \in BOOLEAN
  BY DEF PathSet
<1>2. f = [i \in 1 .. (Len(s) - 1) |-> s[i]]
  <2>1. f = SubSeq(s, 1, Len(s) - 1)
    BY DEF Front
  <2>. HIDE DEF f, s
  <2>. QED
    BY <1>1, <2>1
<1>. HIDE DEF f
<1>3. f \in Seq(Tokens) /\ Len(f) = Len(s) - 1
  <2>1. \A i \in 1 .. (Len(s) - 1) : s[i] \in Tokens
    <3>. HIDE DEF s
    <3>. QED
      BY <1>1
  <2>2. f \in [1 .. (Len(s) - 1) -> Tokens]
    BY <1>2, <2>1
  <2>. HIDE DEF s
  <2>. QED
    BY <1>1, <2>2
<1>4. /\ q.abs = p.abs /\ q.toks = f
      /\ q = [abs |-> p.abs, toks |-> f, slash |-> p.slash, text |-> p.text]
  BY DEF PathSet, f
<1>. QED
  BY <1>1, <1>2, <1>3, <1>4 DEF PathSet

LEMMA KeepsTrans ==
  ASSUME NEW d, NEW g, NEW h, Keeps(d, g, Live(d)), Keeps(g, h, Live(g))
  PROVE  Keeps(d, h, Live(d)) /\ Live(d) \subseteq Live(g)
<1>1. Live(d) \subseteq Live(g)
  BY DEF Keeps, Live
<1>. QED
  BY <1>1 DEF Keeps

(* An argument without tokens is "/", which leads to the root. *)
LEMMA MissingHasTokens ==
  ASSUME NEW d, NEW p \in Paths, Resolve(d, p) = FAIL
  PROVE  p.toks # <<>>
<1>. SUFFICES ASSUME p.toks = <<>> PROVE FALSE
  OBVIOUS
<1>1. p.abs /\ Len(p.toks) = 0 /\ p.toks \in Seq(Tokens)
  BY PathFacts DEF PathSet
<1>2. Resolve(d, p) = Walk(d, Root, p.toks)[0]
  <2>1. (IF p.abs THEN Root ELSE fs_cwd) = Root
    BY <1>1
  <2>2. Resolve(d, p) = Walk(d, IF p.abs THEN Root ELSE fs_cwd, p.toks)[Len(p.toks)]
    BY DEF Resolve, fs_resolve_checked
  <2>. QED
    BY <1>1, <2>1, <2>2
<1>3. Walk(d, Root, p.toks)[0] = Root
  <2>1. p.toks \in Seq(Tokens)
    BY <1>1
  <2>2. \A t \in Seq(Tokens) : Walk(d, Root, t)[0] = Root
    BY WalkFacts
  <2>. QED
    BY <2>1, <2>2
<1>. QED
  BY <1>2, <1>3, Constants

LEMMA DestinationSound ==
  ASSUME fs_cwd \in Node, NEW d, Sound(d), NEW p \in Paths
  PROVE  LET to == Destination(d, p)
         IN  /\ Sound(to.made) /\ Keeps(d, to.made, Live(d))
             /\ to.target \in Node \cup {FAIL}
<1>. DEFINE found == Resolve(d, p)
            parent == Resolve(d, [p EXCEPT !.toks = Front(@)])
            name == Last(p.toks)
            made == fs_create_file(d, parent, name)
            to == Destination(d, p)
<1>1. to = IF found # FAIL
           THEN [made |-> d, target |-> IF IsFile(d, found) THEN found ELSE FAIL]
           ELSE IF p.slash \/ parent = FAIL \/ ~CanAdd(d, parent, name)
           THEN [made |-> d, target |-> FAIL]
           ELSE [made |-> made, target |-> IF Resolve(made, p) # FAIL /\ IsFile(made, Resolve(made, p))
                                         THEN Resolve(made, p) ELSE FAIL]
  BY DEF Destination, FileAt, LeadsTo
<1>2. p \in PathSet
  BY PathFacts
<1>3. found \in Node \cup {FAIL}
  BY <1>2, ResolveInTable DEF Sound, Resolve
<1>. HIDE DEF to
<1>4. CASE found # FAIL
  <2>1. to.made = d /\ to.target = IF IsFile(d, found) THEN found ELSE FAIL
    BY <1>1, <1>4
  <2>. QED
    BY <1>3, <2>1, KeepsItself DEF to
<1>5. CASE found = FAIL /\ (p.slash \/ parent = FAIL \/ ~CanAdd(d, parent, name))
  <2>1. to.made = d /\ to.target = FAIL
    BY <1>1, <1>5
  <2>. QED
    BY <2>1, KeepsItself DEF to
<1>6. CASE found = FAIL /\ ~p.slash /\ parent # FAIL /\ CanAdd(d, parent, name)
  <2>1. to.made = made /\ to.target \in {Resolve(made, p), FAIL}
    BY <1>1, <1>6
  <2>2. p.toks # <<>>
    BY <1>6, MissingHasTokens
  <2>3. parent \in Node
    <3>1. [p EXCEPT !.toks = Front(@)] \in PathSet
      BY <1>2, <2>2, ParentPath
    <3>. QED
      BY <1>6, <3>1, ResolveInTable DEF Sound, Resolve
  <2>. HIDE DEF parent, name
  <2>4. Sound(made) /\ Keeps(d, made, Live(d))
    BY <2>3, CreateSound
  <2>. HIDE DEF made
  <2>5. Resolve(made, p) \in Node \cup {FAIL}
    BY <1>2, <2>4, ResolveInTable DEF Sound, Resolve
  <2>. QED
    BY <2>1, <2>4, <2>5 DEF to
<1>. QED
  BY <1>4, <1>5, <1>6

LEMMA PutSound ==
  ASSUME fs_cwd \in Node, NEW d, Sound(d), NEW p \in Paths, NEW data \in Seq(Byte)
  PROVE  Sound(Put(d, p, data).disk) /\ Keeps(d, Put(d, p, data).disk, Live(d))
<1>. DEFINE to == Destination(d, p)
<1>1. /\ Sound(to.made) /\ Keeps(d, to.made, Live(d))
      /\ to.target \in Node \cup {FAIL}
  BY DestinationSound
<1>2. Put(d, p, data).disk = IF to.target = FAIL THEN to.made
                             ELSE fs_write(to.made, to.target, data)
  BY DEF Put, WriteTo
<1>. HIDE DEF to
<1>3. CASE to.target = FAIL
  BY <1>1, <1>2, <1>3
<1>4. CASE to.target # FAIL
  <2>1. /\ Sound(fs_write(to.made, to.target, data))
        /\ Keeps(to.made, fs_write(to.made, to.target, data), Node)
    BY <1>1, <1>4, WriteSound
  <2>2. Keeps(to.made, fs_write(to.made, to.target, data), Live(to.made))
    BY <2>1 DEF Keeps, Live
  <2>3. Keeps(d, fs_write(to.made, to.target, data), Live(d))
    BY <1>1, <2>2, KeepsTrans
  <2>. QED
    BY <1>2, <1>4, <2>1, <2>3
<1>. QED
  BY <1>3, <1>4

(* A command that keeps the current directory keeps the invariant. *)
LEMMA CwdKept ==
  ASSUME FilesInv, Sound(disk'), UNCHANGED fs_cwd, Keeps(disk, disk', {Root, fs_cwd})
  PROVE  FilesInv'
  BY DEF FilesInv, Keeps, IsDir

LEMMA CwdIsLive ==
  ASSUME FilesInv
  PROVE  fs_cwd \in Live(disk) /\ Root \in Live(disk)
  BY DirLive, Constants DEF FilesInv

LEMMA SaveInv ==
  ASSUME FilesInv, NEW d, Sound(d), Keeps(disk, d, Live(disk)),
         NEW n \in Node, NEW text \in Seq(Byte),
         disk' \in {d, fs_write(d, n, text)}, UNCHANGED fs_cwd
  PROVE  FilesInv'
<1>1. Sound(fs_write(d, n, text)) /\ Keeps(d, fs_write(d, n, text), Node)
  BY WriteSound
<1>2. Keeps(disk, fs_write(d, n, text), Live(disk))
  <2>1. Keeps(d, fs_write(d, n, text), Live(d))
    BY <1>1 DEF Keeps, Live
  <2>. QED
    BY <2>1, KeepsTrans
<1>3. Sound(disk') /\ Keeps(disk, disk', Live(disk))
  BY <1>1, <1>2
<1>4. Keeps(disk, disk', {Root, fs_cwd})
  BY <1>3, CwdIsLive DEF Keeps
<1>. QED
  BY <1>3, <1>4, CwdKept

LEMMA DeleteInv ==
  ASSUME FilesInv, NEW n \in Node, n \notin {Root, fs_cwd}, InScope(n),
         disk' = fs_delete(disk, n), UNCHANGED fs_cwd
  PROVE  FilesInv'
<1>1. Sound(disk) /\ fs_cwd \in Node
  BY DEF FilesInv
<1>2. Sound(disk') /\ Keeps(disk, disk', Node \ {n})
  BY <1>1, DeleteSound DEF InScope
<1>3. Keeps(disk, disk', {Root, fs_cwd})
  BY <1>1, <1>2, Constants DEF Keeps
<1>. QED
  BY <1>2, <1>3, CwdKept

LEMMA CommandInv ==
  ASSUME FilesInv, NEW p \in Paths,
         cmd_mkdir(p) \/ cmd_touch(p) \/ cmd_cd(p) \/ cmd_rm(p) \/ cmd_rmdir(p)
  PROVE  FilesInv'
<1>1. Sound(disk) /\ DiskOK(disk) /\ fs_cwd \in Node /\ {Root, fs_cwd} \subseteq Live(disk)
  BY CwdIsLive DEF FilesInv, Sound
<1>2. Resolve(disk, p) \in Node \cup {FAIL}
  BY <1>1, PathFacts, ResolveInTable DEF Resolve
<1>3. CASE cmd_mkdir(p)
  <2>1. Sound(disk') /\ Keeps(disk, disk', Live(disk)) /\ UNCHANGED fs_cwd
    BY <1>1, <1>3, MkdirSound DEF cmd_mkdir
  <2>2. Keeps(disk, disk', {Root, fs_cwd})
    BY <1>1, <2>1 DEF Keeps
  <2>. QED
    BY <2>1, <2>2, CwdKept
<1>4. CASE cmd_touch(p)
  <2>1. Sound(disk') /\ Keeps(disk, disk', Live(disk)) /\ UNCHANGED fs_cwd
    BY <1>1, <1>4, CreateSound DEF cmd_touch
  <2>2. Keeps(disk, disk', {Root, fs_cwd})
    BY <1>1, <2>1 DEF Keeps
  <2>. QED
    BY <2>1, <2>2, CwdKept
<1>5. CASE cmd_cd(p)
  <2>1. /\ fs_cwd' \in Node /\ IsDir(disk, fs_cwd') /\ disk' = disk
    BY <1>2, <1>5 DEF cmd_cd
  <2>. QED
    BY <1>1, <2>1 DEF FilesInv, IsDir
<1>6. CASE cmd_rm(p) \/ cmd_rmdir(p)
  <2>. DEFINE n == Resolve(disk, p)
  <2>1. /\ n \notin {FAIL, Root, fs_cwd} /\ InScope(n)
        /\ disk' = fs_delete(disk, n) /\ UNCHANGED fs_cwd
    BY <1>6 DEF cmd_rm, cmd_rmdir
  <2>. HIDE DEF n
  <2>2. n \in Node
    BY <1>2, <2>1 DEF n
  <2>. QED
    BY <2>1, <2>2, DeleteInv
<1>. QED
  BY <1>3, <1>4, <1>5, <1>6

LEMMA WriterInv ==
  ASSUME FilesInv, NEW p \in Paths, NEW text \in Texts,
         cmd_echo(text, p) \/ cmd_wget(text, p) \/ mamu_save(text, p)
  PROVE  FilesInv'
<1>1. Sound(disk) /\ DiskOK(disk) /\ fs_cwd \in Node /\ {Root, fs_cwd} \subseteq Live(disk)
  BY CwdIsLive DEF FilesInv, Sound
<1>2. text \in Seq(Byte) /\ p \in PathSet
  BY CommandAssumption, PathFacts
<1>3. CASE cmd_echo(text, p)
  <2>1. Sound(disk') /\ Keeps(disk, disk', Live(disk)) /\ UNCHANGED fs_cwd
    BY <1>1, <1>2, <1>3, PutSound DEF cmd_echo
  <2>2. Keeps(disk, disk', {Root, fs_cwd})
    BY <1>1, <2>1 DEF Keeps
  <2>. QED
    BY <2>1, <2>2, CwdKept
<1>. DEFINE created == fs_create_file(disk, fs_cwd, RawName(p))
<1>4. Sound(created) /\ Keeps(disk, created, Live(disk))
  BY <1>1, CreateSound
<1>5. Sound(disk) /\ Keeps(disk, disk, Live(disk))
  BY <1>1, KeepsItself
<1>6. CASE cmd_wget(text, p)
  <2>. DEFINE out == Resolve(created, p)
  <2>1. out \in Node \cup {FAIL}
    BY <1>1, <1>2, <1>4, ResolveInTable DEF Resolve, Sound
  <2>2. /\ disk' = IF out # FAIL /\ IsFile(created, out)
                   THEN fs_write(created, out, text) ELSE created
        /\ UNCHANGED fs_cwd
    BY <1>6 DEF cmd_wget
  <2>. HIDE DEF created, out
  <2>3. CASE out = FAIL
    <3>1. disk' \in {created, fs_write(created, Root, text)} /\ Root \in Node
      BY <2>2, <2>3, Constants
    <3>. QED
      BY <1>2, <1>4, <2>2, <3>1, SaveInv
  <2>4. CASE out # FAIL
    <3>1. disk' \in {created, fs_write(created, out, text)} /\ out \in Node
      BY <2>1, <2>2, <2>4
    <3>. QED
      BY <1>2, <1>4, <2>2, <3>1, SaveInv
  <2>. QED
    BY <2>3, <2>4
<1>7. CASE mamu_save(text, p)
  <2>. DEFINE made == IF fs_resolve(disk, fs_cwd, p) = Root THEN created ELSE disk
              node == fs_resolve(made, fs_cwd, p)
  <2>1. Sound(made) /\ Keeps(disk, made, Live(disk))
    BY <1>4, <1>5
  <2>2. /\ disk' = IF node # Root /\ IsFile(made, node) THEN fs_write(made, node, text) ELSE made
        /\ UNCHANGED fs_cwd
    BY <1>7 DEF mamu_save
  <2>. HIDE DEF made
  <2>3. node \in Node
    <3>1. fs_resolve_checked(made, fs_cwd, p) \in Node \cup {FAIL}
      BY <1>1, <1>2, <2>1, ResolveInTable DEF Sound
    <3>. QED
      BY <3>1, Constants DEF fs_resolve
  <2>. HIDE DEF node
  <2>4. disk' \in {made, fs_write(made, node, text)}
    BY <2>2
  <2>. QED
    BY <1>2, <2>1, <2>2, <2>3, <2>4, SaveInv
<1>. QED
  BY <1>3, <1>6, <1>7

LEMMA CopierInv ==
  ASSUME FilesInv, NEW p \in Paths, NEW s \in Paths, cmd_cp(s, p) \/ cmd_mv(s, p)
  PROVE  FilesInv'
<1>1. Sound(disk) /\ DiskOK(disk) /\ fs_cwd \in Node /\ {Root, fs_cwd} \subseteq Live(disk)
      /\ IsDir(disk, fs_cwd) /\ IsDir(disk, Root)
  BY CwdIsLive DEF FilesInv, Sound
<1>. DEFINE src == Resolve(disk, s)
            copy == CopyFile(s, p)
<1>2. IsSource(s) /\ UNCHANGED fs_cwd
  BY DEF cmd_cp, cmd_mv, Moved
<1>3. src \in Node /\ IsFile(disk, src)
  BY <1>1, <1>2, PathFacts, ResolveInTable DEF IsSource, Resolve
<1>4. Sound(copy.disk) /\ Keeps(disk, copy.disk, Live(disk))
  <2>1. fs_read(disk, src, DATA_CAP) \in Seq(Byte)
    BY <1>1, <1>3, ReadBytes
  <2>. QED
    BY <1>1, <2>1, PutSound DEF CopyFile
<1>5. disk' = copy.disk \/ (disk' = fs_delete(copy.disk, src) /\ InScope(src))
  BY DEF cmd_cp, cmd_mv, Moved
<1>. HIDE DEF copy, src
<1>6. CASE disk' = copy.disk
  <2>1. Keeps(disk, disk', {Root, fs_cwd})
    BY <1>1, <1>4, <1>6 DEF Keeps
  <2>. QED
    BY <1>2, <1>4, <1>6, <2>1, CwdKept
<1>7. CASE disk' = fs_delete(copy.disk, src) /\ InScope(src)
  <2>1. src \in Live(disk) /\ src \notin {Root, fs_cwd}
    BY <1>1, <1>3, DirLive DEF IsDir, IsFile
  <2>2. copy.disk.node[src].parent = disk.node[src].parent
    BY <1>4, <2>1 DEF Keeps
  <2>3. Sound(disk') /\ Keeps(copy.disk, disk', Node \ {src})
    BY <1>3, <1>4, <1>7, <2>2, DeleteSound DEF InScope
  <2>4. Keeps(disk, disk', {Root, fs_cwd})
    BY <1>1, <1>4, <2>1, <2>3, Constants DEF Keeps
  <2>. QED
    BY <1>2, <2>3, <2>4, CwdKept
<1>. QED
  BY <1>5, <1>6, <1>7

LEMMA FilesInductive == Spec => []FilesInv
<1>1. Init => FilesInv
  BY InitSound, Constants DEF Init, FilesInv
<1>2. FilesInv /\ [Next]_vars => FilesInv'
  <2>. SUFFICES ASSUME FilesInv, [Next]_vars PROVE FilesInv'
    OBVIOUS
  <2>1. CASE cmd_cd_home
    BY <2>1, Constants DEF cmd_cd_home, FilesInv, IsDir
  <2>2. CASE \E p \in Paths :
               cmd_mkdir(p) \/ cmd_touch(p) \/ cmd_cd(p) \/ cmd_rm(p) \/ cmd_rmdir(p)
    BY <2>2, CommandInv
  <2>3. CASE \E p \in Paths, text \in Texts :
               cmd_echo(text, p) \/ cmd_wget(text, p) \/ mamu_save(text, p)
    BY <2>3, WriterInv
  <2>4. CASE \E p \in Paths, s \in Paths : cmd_cp(s, p) \/ cmd_mv(s, p)
    BY <2>4, CopierInv
  <2>5. CASE UNCHANGED vars
    BY <2>5 DEF vars, FilesInv, IsDir
  <2>. QED
    BY <2>1, <2>2, <2>3, <2>4, <2>5 DEF Next
<1>. QED
  BY <1>1, <1>2, PTL DEF Spec

-----------------------------------------------------------------------------
(* Under any sequence of commands, of any arguments, the node table keeps  *)
(* its shape, no index in it leaves the table, and no write runs past the  *)
(* end of the data pool (also with children of the root deleted).          *)
THEOREM FilesTyped == Spec => []TypeOK
<1>1. FilesInv => TypeOK
  <2>. SUFFICES ASSUME FilesInv PROVE TypeOK
    OBVIOUS
  <2>1. DiskOK(disk) /\ fs_cwd \in Node
    BY DEF FilesInv, Sound
  <2>2. \A n \in Node : NodeOK(disk.node[n])
    BY <2>1 DEF DiskOK
  <2>. QED
    BY <2>1, <2>2 DEF TypeOK, DiskOK, NodeOK
<1>. QED
  BY <1>1, FilesInductive, PTL

(* Under any sequence of commands the bytes of every file lie in the used  *)
(* part of the pool and no two files share one, so no write reaches        *)
(* another file's contents (also with children of the root deleted).       *)
THEOREM PoolSafe == Spec => []PoolDisjoint
<1>1. FilesInv => PoolDisjoint
  <2>. SUFFICES ASSUME FilesInv PROVE PoolDisjoint
    OBVIOUS
  <2>1. DiskOK(disk) /\ PoolOK(disk)
    BY DEF FilesInv, Sound
  <2>. DEFINE Files == {n \in Live(disk) : IsFile(disk, n) /\ disk.node[n].size > 0}
              Bytes(n) == disk.node[n].data_off .. (disk.node[n].data_off + disk.node[n].size - 1)
  <2>2. ASSUME NEW n \in Files
        PROVE  /\ n \in Node /\ IsFile(disk, n)
               /\ disk.node[n].size \in Nat \ {0} /\ disk.node[n].data_off \in Nat
               /\ disk.node[n].data_off + disk.node[n].size <= Len(disk.pool)
    BY <2>1, Sizes DEF Live, PoolOK, InPool
  <2>3. Len(disk.pool) \in Nat
    BY <2>1, Sizes
  <2>4. ASSUME NEW n \in Files PROVE Bytes(n) \subseteq 0 .. (Len(disk.pool) - 1)
    BY <2>2, <2>3
  <2>5. ASSUME NEW n \in Files, NEW m \in Files, n # m PROVE Bytes(n) \cap Bytes(m) = {}
    <3>1. Apart(disk, n, m)
      BY <2>1, <2>2, <2>5 DEF PoolOK
    <3>. DEFINE a == disk.node[n].data_off
                b == disk.node[m].data_off
                s == disk.node[n].size
                t == disk.node[m].size
    <3>2. a \in Nat /\ b \in Nat /\ s \in Nat \ {0} /\ t \in Nat \ {0}
      BY <2>2
    <3>3. a + s <= b \/ b + t <= a
      BY <3>1, <3>2 DEF Apart
    <3>4. Bytes(n) = a .. (a + s - 1) /\ Bytes(m) = b .. (b + t - 1)
      OBVIOUS
    <3>. HIDE DEF a, b, s, t, Bytes
    <3>5. \A x \in a .. (a + s - 1) : x \notin b .. (b + t - 1)
      BY <3>2, <3>3
    <3>. QED
      BY <3>4, <3>5
  <2>. QED
    BY <2>4, <2>5 DEF PoolDisjoint
<1>. QED
  BY <1>1, FilesInductive, PTL

(* As long as nothing in the root is deleted: every directory's chain ends *)
(* and holds the directory's entries, each once, and nothing else, after   *)
(* any sequence of commands, however often the table fills up and its      *)
(* entries are used again.                                                 *)
THEOREM ListsSafe ==
  ASSUME ~DELETE_AT_ROOT
  PROVE  Spec => []ListsIntact
<1>1. FilesInv => ListsIntact
  <2>. SUFFICES ASSUME FilesInv PROVE ListsIntact
    OBVIOUS
  <2>1. TreeOK(disk)
    BY DEF FilesInv, Sound
  <2>. QED
    BY <2>1, KidsOnChain DEF ListsIntact, Kids, TreeOK
<1>. QED
  BY <1>1, FilesInductive, PTL

(* As long as nothing in the root is deleted, the current directory exists *)
(* and is listed in its parent, whatever rm, rmdir and mv removed.         *)
THEOREM CwdSafe ==
  ASSUME ~DELETE_AT_ROOT
  PROVE  Spec => []CwdLive
<1>1. FilesInv => CwdLive
  <2>. SUFFICES ASSUME FilesInv PROVE CwdLive
    OBVIOUS
  <2>1. TreeOK(disk) /\ DiskOK(disk) /\ IsDir(disk, fs_cwd) /\ fs_cwd \in Live(disk)
        /\ fs_cwd \in Node
    BY CwdIsLive DEF FilesInv, Sound
  <2>. DEFINE parent == disk.node[fs_cwd].parent
  <2>2. IsDir(disk, parent) /\ parent \in Node
    BY <2>1 DEF TreeOK, DiskOK, NodeOK
  <2>3. parent \in Live(disk)
    BY <2>2, DirLive
  <2>4. fs_cwd # Root => fs_cwd \in OnChain(disk, parent)
    BY <2>1, <2>3, KidsOnChain DEF Kids
  <2>. QED
    BY <2>1, <2>2, <2>4 DEF CwdLive
<1>. QED
  BY <1>1, FilesInductive, PTL

-----------------------------------------------------------------------------
(* Paths, there and back. *)

(* A path that is followed for m tokens depends on these only. *)
LEMMA WalkAgree ==
  ASSUME NEW d, NEW start, NEW s \in Seq(Tokens), NEW t \in Seq(Tokens),
         NEW m \in Nat, m <= Len(s), m <= Len(t),
         \A i \in 1 .. m : s[i] = t[i]
  PROVE  Walk(d, start, s)[m] = Walk(d, start, t)[m]
<1>. DEFINE f == Walk(d, start, s)
            g == Walk(d, start, t)
            S == {k \in 0 .. m : f[k] = g[k]}
<1>1. /\ f[0] = start /\ \A k \in 1 .. Len(s) : f[k] = Step(d, f[k - 1], s[k])
      /\ g[0] = start /\ \A k \in 1 .. Len(t) : g[k] = Step(d, g[k - 1], t[k])
  BY WalkFacts
<1>2. Len(s) \in Nat /\ Len(t) \in Nat
  OBVIOUS
<1>. HIDE DEF f, g
<1>3. 0 \in S
  BY <1>1
<1>4. ASSUME NEW k \in 0 .. (m - 1), k \in S PROVE k + 1 \in S
  <2>1. /\ k + 1 \in 1 .. Len(s) /\ k + 1 \in 1 .. Len(t) /\ (k + 1) - 1 = k
        /\ k + 1 \in 1 .. m /\ k + 1 \in 0 .. m
    BY <1>2
  <2>2. f[k + 1] = Step(d, f[k], s[k + 1]) /\ g[k + 1] = Step(d, g[k], t[k + 1])
    BY <1>1, <2>1
  <2>3. f[k] = g[k]
    BY <1>4
  <2>4. f[k + 1] = g[k + 1]
    BY <2>1, <2>2, <2>3
  <2>. QED
    BY <2>1, <2>4
<1>5. \A k \in 0 .. m : k \in S
  <2>. HIDE DEF S
  <2>. QED
    BY <1>3, <1>4, UpTo
<1>. QED
  BY <1>5 DEF f, g

(* An entry is found under its name. *)
LEMMA FindKid ==
  ASSUME NEW d, DiskOK(d), TreeOK(d), NEW c \in Live(d), NEW x \in Kids(d, c)
  PROVE  fs_find_child(d, c, d.node[x].name) = x
<1>. DEFINE name == d.node[x].name
            y == fs_find_child(d, c, name)
<1>1. c \in Node /\ OnChain(d, c) = Kids(d, c)
  BY KidsOnChain DEF Live
<1>2. x \in OnChain(d, c) /\ d.node[x].type # "free"
  BY <1>1 DEF Kids, Live
<1>3. /\ y # 0 => y \in OnChain(d, c) /\ d.node[y].type # "free" /\ d.node[y].name = name
      /\ y = 0 => \A m \in OnChain(d, c) : d.node[m].type # "free" => d.node[m].name # name
  BY <1>1, FindFacts
<1>. HIDE DEF y
<1>4. y # 0
  BY <1>2, <1>3
<1>5. y \in Kids(d, c) /\ d.node[y].name = name
  BY <1>1, <1>3, <1>4
<1>6. y = x
  BY <1>5 DEF Kids, TreeOK
<1>. QED
  BY <1>6 DEF y

(* The value of PathTo for a node and for its parent. *)
LEMMA BuildPath ==
  ASSUME NEW d, TreeOK(d)
  PROVE  /\ PathTo(d, Root) = <<>>
         /\ \A n \in Live(d) \ {Root} :
              PathTo(d, n) = Append(PathTo(d, d.node[n].parent), d.node[n].name)
<1>. DEFINE L == Live(d)
            up(n) == d.node[n].parent
            name(n) == d.node[n].name
            \* f is right on C, which holds with a node its parent
            Partly(f, C) ==
              /\ C \in SUBSET L
              /\ \A n \in C \ {Root} : up(n) \in C /\ f[n] = Append(f[up(n)], name(n))
              /\ Root \in C => f[Root] = <<>>
            Rec(f) == f = [m \in L |-> IF m = Root THEN <<>>
                                       ELSE Append(f[up(m)], name(m))]
<1>1. Root \in L /\ L \subseteq Node /\ \A n \in L : up(n) \in L \/ up(n) \notin Node
  BY DirLive, Constants DEF TreeOK, Live
<1>2. ASSUME NEW S \in SUBSET L, Root \in S,
             \A n \in L \ {Root} : up(n) \in S => n \in S
      PROVE  S = L
  BY <1>2 DEF TreeOK
<1>3. ASSUME NEW f, NEW C, NEW g, NEW E, Partly(f, C), Partly(g, E)
      PROVE  \A n \in C \cap E : f[n] = g[n]
  <2>. DEFINE S == {n \in L : n \in C \cap E => f[n] = g[n]}
  <2>1. S \in SUBSET L /\ Root \in S
    BY <1>1, <1>3
  <2>2. ASSUME NEW n \in L \ {Root}, up(n) \in S PROVE n \in S
    BY <1>3, <2>2
  <2>3. S = L
    <3>. HIDE DEF S, L, up
    <3>. QED
      BY <1>2, <2>1, <2>2
  <2>. QED
    BY <1>3, <2>3
<1>. DEFINE Has(n) == \E f, C : Partly(f, C) /\ n \in C
            S == {n \in L : Has(n)}
<1>4. S = L
  <2>1. Root \in S
    <3>. DEFINE f == [m \in {Root} |-> <<>>]
    <3>1. Partly(f, {Root})
      BY <1>1
    <3>. HIDE DEF Partly, f
    <3>. QED
      BY <1>1, <3>1
  <2>2. ASSUME NEW n \in L \ {Root}, up(n) \in S PROVE n \in S
    <3>1. PICK f, C : Partly(f, C) /\ up(n) \in C
      BY <2>2
    <3>. DEFINE g == [m \in C \cup {n} |-> IF m \in C THEN f[m] ELSE Append(f[up(n)], name(n))]
    <3>2. \A m \in C : g[m] = f[m]
      OBVIOUS
    <3>3. n \notin C => g[n] = Append(f[up(n)], name(n))
      OBVIOUS
    <3>. HIDE DEF g, L, up, name
    <3>4. Partly(g, C \cup {n})
      <4>1. C \cup {n} \in SUBSET L
        BY <3>1
      <4>2. ASSUME NEW m \in (C \cup {n}) \ {Root}
            PROVE  up(m) \in C \cup {n} /\ g[m] = Append(g[up(m)], name(m))
        <5>1. CASE m \in C
          <6>1. up(m) \in C /\ f[m] = Append(f[up(m)], name(m))
            BY <3>1, <5>1
          <6>. QED
            BY <3>2, <5>1, <6>1
        <5>2. CASE m \notin C
          <6>1. m = n /\ up(n) \in C
            BY <3>1, <5>2
          <6>. QED
            BY <3>2, <3>3, <5>2, <6>1
        <5>. QED
          BY <5>1, <5>2
      <4>3. Root \in C \cup {n} => g[Root] = <<>>
        BY <3>1, <3>2
      <4>. QED
        BY <4>1, <4>2, <4>3
    <3>. HIDE DEF Partly
    <3>. QED
      BY <3>4
  <2>. HIDE DEF S, L, up
  <2>3. S \in SUBSET L
    BY DEF S
  <2>. QED
    BY <1>2, <2>1, <2>2, <2>3
<1>. DEFINE Best(n) == CHOOSE f : \E C : Partly(f, C) /\ n \in C
            F == [n \in L |-> Best(n)[n]]
<1>5. ASSUME NEW n \in L PROVE \E C : Partly(Best(n), C) /\ n \in C
  <2>1. Has(n)
    BY <1>4
  <2>. HIDE DEF Partly
  <2>. QED
    BY <2>1
<1>. HIDE DEF Best
<1>6. F[Root] = <<>>
  <2>1. PICK C : Partly(Best(Root), C) /\ Root \in C
    BY <1>1, <1>5
  <2>. QED
    BY <1>1, <2>1
<1>7. ASSUME NEW n \in L \ {Root} PROVE up(n) \in L /\ F[n] = Append(F[up(n)], name(n))
  <2>1. PICK C : Partly(Best(n), C) /\ n \in C
    BY <1>5
  <2>2. up(n) \in C /\ up(n) \in L /\ Best(n)[n] = Append(Best(n)[up(n)], name(n))
    BY <2>1
  <2>3. PICK E : Partly(Best(up(n)), E) /\ up(n) \in E
    BY <1>5, <2>2
  <2>4. Best(n)[up(n)] = Best(up(n))[up(n)]
    <3>. HIDE DEF Partly
    <3>. QED
      BY <1>3, <2>1, <2>2, <2>3
  <2>5. F[n] = Best(n)[n] /\ F[up(n)] = Best(up(n))[up(n)]
    BY <2>2
  <2>. QED
    BY <2>2, <2>4, <2>5
<1>8. Rec(F)
  <2>1. F = [n \in L |-> F[n]]
    OBVIOUS
  <2>. HIDE DEF F, up, name, L
  <2>. QED
    BY <1>6, <1>7, <2>1
<1>. HIDE DEF F
<1>. DEFINE path == CHOOSE f : Rec(f)
<1>9. Rec(path)
  <2>. HIDE DEF Rec
  <2>. QED
    BY <1>8
<1>10. \A n : PathTo(d, n) = path[n]
  BY DEF PathTo
<1>. HIDE DEF path
<1>11. path[Root] = <<>>
  BY <1>1, <1>9
<1>12. \A n \in L \ {Root} : path[n] = Append(path[up(n)], name(n))
  BY <1>9
<1>. QED
  BY <1>10, <1>11, <1>12

(* One token that spells the name of an entry. *)
LEMMA StepKid ==
  ASSUME NEW d, DiskOK(d), TreeOK(d), NEW c \in Live(d), NEW x \in Kids(d, c),
         d.node[x].name \in Names
  PROVE  Step(d, c, d.node[x].name) = x
<1>. DEFINE t == d.node[x].name
<1>1. c # FAIL /\ t # "." /\ t # ".."
  BY RamdiskAssumption DEF Live, Node, FAIL
<1>2. fs_find_child(d, c, t) = x /\ x # 0
  BY FindKid DEF Kids, Root
<1>. HIDE DEF t
<1>3. Step(d, c, t) = x
  BY <1>1, <1>2 DEF Step
<1>. QED
  BY <1>3 DEF t

(* The path that PathTo gives for a node leads to the node. *)
LEMMA ThereAndBack ==
  ASSUME NEW d, DiskOK(d), TreeOK(d), NEW n \in Live(d)
  PROVE  LET path == PathTo(d, n)
         IN  /\ path \in Seq({d.node[m].name : m \in Live(d)})
             /\ (\A i \in DOMAIN path : path[i] \in Names) => Walk(d, Root, path)[Len(path)] = n
<1>. DEFINE L == Live(d)
            X == {d.node[m].name : m \in L}
            path(m) == PathTo(d, m)
            Spelled(m) == \A i \in 1 .. Len(path(m)) : path(m)[i] \in Names
            Back(m) == /\ path(m) \in Seq(X)
                       /\ Spelled(m) => Walk(d, Root, path(m))[Len(path(m))] = m
            S == {m \in L : Back(m)}
<1>1. Root \in L /\ \A m \in L : d.node[m].parent \in L
  BY DirLive, Constants DEF TreeOK, DiskOK, NodeOK, Live
<1>2. ASSUME NEW s \in Seq(X), \A i \in 1 .. Len(s) : s[i] \in Names
      PROVE  s \in Seq(Tokens)
  <2>. HIDE DEF X
  <2>1. \A i \in 1 .. Len(s) : s[i] \in Tokens
    BY <1>2 DEF Tokens
  <2>2. s \in [1 .. Len(s) -> Tokens] /\ Len(s) \in Nat
    BY <2>1
  <2>. QED
    BY <2>2
<1>3. Root \in S
  <2>1. path(Root) = <<>>
    BY BuildPath
  <2>2. <<>> \in Seq(Tokens) /\ Len(<<>>) = 0 /\ <<>> \in Seq(X)
    <3>. HIDE DEF X
    <3>1. \A Y : <<>> \in Seq(Y)
      OBVIOUS
    <3>2. Len(<<>>) = 0
      OBVIOUS
    <3>. QED
      BY <3>1, <3>2, Zenon
  <2>3. Walk(d, Root, <<>>)[0] = Root
    <3>1. \A t \in Seq(Tokens) : Walk(d, Root, t)[0] = Root
      BY WalkFacts
    <3>. QED
      BY <2>2, <3>1, Zenon
  <2>. HIDE DEF path
  <2>. QED
    BY <1>1, <2>1, <2>2, <2>3
<1>4. ASSUME NEW m \in L \ {Root}, d.node[m].parent \in S PROVE m \in S
  <2>. DEFINE u == d.node[m].parent
              t == d.node[m].name
              p == path(u)
              q == path(m)
  <2>1. q = Append(p, t)
    BY BuildPath
  <2>2. t \in X /\ p \in Seq(X)
    BY <1>4
  <2>3. Spelled(u) => Walk(d, Root, p)[Len(p)] = u
    BY <1>4
  <2>4. m \in Kids(d, u) /\ u \in L
    BY <1>1 DEF Kids
  <2>. HIDE DEF p, q, t, u, path, X, L
  <2>5. /\ q \in Seq(X) /\ Len(q) = Len(p) + 1 /\ Len(p) \in Nat
        /\ q[Len(p) + 1] = t /\ \A i \in 1 .. Len(p) : q[i] = p[i]
    BY <2>1, <2>2
  <2>6. ASSUME Spelled(m)
        PROVE  Walk(d, Root, q)[Len(q)] = m
    <3>1. \A i \in 1 .. Len(q) : q[i] \in Names
      BY <2>6 DEF q
    <3>2. /\ \A i \in 1 .. Len(p) : p[i] \in Names
          /\ t \in Names
      BY <2>5, <3>1
    <3>3. q \in Seq(Tokens) /\ p \in Seq(Tokens)
      BY <1>2, <2>2, <2>5, <3>1, <3>2
    <3>4. Walk(d, Root, p)[Len(p)] = u
      BY <2>3, <3>2 DEF p
    <3>5. Walk(d, Root, q)[Len(p)] = u
      <4>1. Len(p) <= Len(q) /\ Len(p) <= Len(p)
        BY <2>5
      <4>. QED
        BY <2>5, <3>3, <3>4, <4>1, WalkAgree
    <3>6. Walk(d, Root, q)[Len(q)] = Step(d, Walk(d, Root, q)[Len(p)], t)
      <4>1. Len(q) \in 1 .. Len(q) /\ Len(q) - 1 = Len(p)
        BY <2>5
      <4>2. Walk(d, Root, q)[Len(q)] = Step(d, Walk(d, Root, q)[Len(q) - 1], q[Len(q)])
        BY <3>3, <4>1, WalkFacts
      <4>. QED
        BY <2>5, <4>1, <4>2
    <3>7. Step(d, u, t) = m
      BY <2>4, <3>2, StepKid DEF t, L
    <3>. QED
      BY <3>5, <3>6, <3>7
  <2>7. Back(m)
    BY <2>5, <2>6 DEF q
  <2>. HIDE DEF Back
  <2>. QED
    BY <2>7
<1>5. S = L
  <2>1. S \in SUBSET L
    OBVIOUS
  <2>. HIDE DEF S
  <2>. QED
    BY <1>3, <1>4, <2>1 DEF TreeOK
<1>6. Back(n)
  BY <1>5
<1>7. DOMAIN path(n) = 1 .. Len(path(n))
  <2>. HIDE DEF path, X
  <2>. QED
    BY <1>6
<1>. QED
  BY <1>6, <1>7

(* As long as nothing in the root is deleted: the path that pwd and find   *)
(* print for a node leads back to it, after any sequence of commands, if   *)
(* it fits the buffer they give fs_build_path.                             *)
THEOREM PathsSafe ==
  ASSUME ~DELETE_AT_ROOT
  PROVE  Spec => []PathsResolve
<1>1. FilesInv => PathsResolve
  <2>. SUFFICES ASSUME FilesInv, NEW n \in Live(disk),
                       \A i \in DOMAIN PathTo(disk, n) : PathTo(disk, n)[i] \in Names,
                       TextEnd(PathTo(disk, n))[Len(PathTo(disk, n))] < PATH_CAP
                PROVE  fs_resolve_checked(disk, Root,
                         [abs |-> TRUE, toks |-> fs_build_path(disk, n, PATH_CAP)]) = n
    BY DEF PathsResolve
  <2>. DEFINE path == PathTo(disk, n)
              end == TextEnd(path)
  <2>1. TreeOK(disk) /\ DiskOK(disk)
    BY DEF FilesInv, Sound
  <2>. DEFINE X == {disk.node[m].name : m \in Live(disk)}
  <2>2. path \in Seq(X) /\ Walk(disk, Root, path)[Len(path)] = n
    BY <2>1, ThereAndBack
  <2>. HIDE DEF X
  <2>3. end[Len(path)] < PATH_CAP
    OBVIOUS
  <2>4. fs_build_path(disk, n, PATH_CAP) = path
    <3>. DEFINE whole == Max({i \in 0 .. Len(path) : end[i] < PATH_CAP})
                room == PATH_CAP - 2 - end[whole]
    <3>1. fs_build_path(disk, n, PATH_CAP) =
            IF whole = Len(path) \/ room <= 0 THEN SubSeq(path, 1, whole)
            ELSE Append(SubSeq(path, 1, whole), [of |-> path[whole + 1], chars |-> room])
      BY DEF fs_build_path
    <3>. HIDE DEF end, path
    <3>2. whole = Len(path)
      <4>. DEFINE S == {i \in 0 .. Len(path) : end[i] < PATH_CAP}
      <4>1. Len(path) \in S /\ \A i \in S : Len(path) >= i
        BY <2>2, <2>3
      <4>2. \A x \in S : (\A y \in S : x >= y) => x = Len(path)
        BY <2>2, <4>1
      <4>3. Max(S) = CHOOSE x \in S : \A y \in S : x >= y
        BY DEF Max
      <4>. HIDE DEF S
      <4>. QED
        BY <4>1, <4>2, <4>3 DEF S
    <3>3. SubSeq(path, 1, Len(path)) = path
      BY <2>2
    <3>. HIDE DEF whole, room
    <3>. QED
      BY <3>1, <3>2, <3>3
  <2>. HIDE DEF path
  <2>5. fs_resolve_checked(disk, Root, [abs |-> TRUE, toks |-> path])
          = Walk(disk, Root, path)[Len(path)]
    BY DEF fs_resolve_checked
  <2>. QED
    BY <2>2, <2>4, <2>5
<1>. QED
  BY <1>1, FilesInductive, PTL

-----------------------------------------------------------------------------
(* What mv does to the bytes. *)

(* As nodes are added and written, a path that leads somewhere goes on     *)
(* leading there.                                                          *)
LEMMA StepKept ==
  ASSUME NEW d, DiskOK(d), TreeOK(d), NEW g, DiskOK(g), TreeOK(g), Keeps(d, g, Live(d)),
         NEW c \in Live(d), NEW t, Step(d, c, t) # FAIL
  PROVE  Step(g, c, t) = Step(d, c, t)
<1>1. c # FAIL /\ c \in Node /\ c \in Live(g)
  BY Constants DEF Live, Keeps, Node, FAIL
<1>2. CASE t = "."
  BY <1>1, <1>2 DEF Step
<1>3. CASE t = ".."
  <2>1. g.node[c].parent = d.node[c].parent
    BY DEF Keeps
  <2>. QED
    BY <1>1, <1>3, <2>1 DEF Step
<1>4. CASE t # "." /\ t # ".."
  <2>. DEFINE x == fs_find_child(d, c, t)
              y == fs_find_child(g, c, t)
  <2>1. Step(d, c, t) = IF x = 0 THEN FAIL ELSE x
    BY <1>1, <1>4 DEF Step
  <2>2. Step(g, c, t) = IF y = 0 THEN FAIL ELSE y
    BY <1>1, <1>4 DEF Step
  <2>3. x # 0
    BY <2>1
  <2>4. x \in Kids(d, c) /\ d.node[x].name = t
    BY <1>1, <2>3, FindFacts, KidsOnChain
  <2>. HIDE DEF x
  <2>5. x \in Kids(g, c) /\ g.node[x].name = t
    BY <2>4 DEF Kids, Keeps, Live
  <2>6. y = x
    BY <1>1, <2>5, FindKid
  <2>. QED
    BY <2>1, <2>2, <2>3, <2>6
<1>. QED
  BY <1>2, <1>3, <1>4

LEMMA WalkKept ==
  ASSUME NEW d, DiskOK(d), TreeOK(d), NEW g, DiskOK(g), TreeOK(g), Keeps(d, g, Live(d)),
         NEW start \in Live(d), NEW toks \in Seq(Tokens),
         NEW m \in 0 .. Len(toks), Walk(d, start, toks)[m] # FAIL
  PROVE  /\ Walk(g, start, toks)[m] = Walk(d, start, toks)[m]
         /\ Walk(d, start, toks)[m] \in Live(d)
<1>. DEFINE f == Walk(d, start, toks)
            h == Walk(g, start, toks)
            L == Len(toks)
            S == {k \in 0 .. L : f[k] # FAIL => h[k] = f[k]}
<1>1. /\ f[0] = start /\ \A k \in 1 .. L : f[k] = Step(d, f[k - 1], toks[k])
      /\ h[0] = start /\ \A k \in 1 .. L : h[k] = Step(g, h[k - 1], toks[k])
  BY WalkFacts
<1>2. \A k \in 0 .. L : f[k] \in Live(d) \cup {FAIL}
  <2>. DEFINE X == Live(d) \cup {FAIL}
  <2>1. start \in X
    OBVIOUS
  <2>2. ASSUME NEW c \in X, NEW t \in Tokens PROVE Step(d, c, t) \in X
    <3>1. c \in Node \cup {FAIL}
      BY DEF Live
    <3>. QED
      BY <3>1, StepInTable
  <2>. HIDE DEF X
  <2>3. \A k \in 0 .. L : f[k] \in X
    BY <2>1, <2>2, WalkStays
  <2>. QED
    BY <2>3 DEF X
<1>3. L \in Nat
  OBVIOUS
<1>. HIDE DEF f, h, L
<1>4. 0 \in S
  BY <1>1, <1>3
<1>5. ASSUME NEW k \in 0 .. (L - 1), k \in S PROVE k + 1 \in S
  <2>1. k + 1 \in 1 .. L /\ k + 1 \in 0 .. L /\ (k + 1) - 1 = k /\ k \in 0 .. L
    BY <1>3
  <2>2. f[k + 1] = Step(d, f[k], toks[k + 1]) /\ h[k + 1] = Step(g, h[k], toks[k + 1])
    BY <1>1, <2>1
  <2>3. ASSUME f[k + 1] # FAIL PROVE h[k + 1] = f[k + 1]
    <3>1. f[k] # FAIL
      BY <2>2, <2>3 DEF Step
    <3>2. f[k] \in Live(d) /\ h[k] = f[k]
      BY <1>2, <1>5, <2>1, <3>1
    <3>. QED
      BY <2>2, <2>3, <3>2, StepKept
  <2>. QED
    BY <2>1, <2>3
<1>6. \A k \in 0 .. L : k \in S
  <2>. HIDE DEF S
  <2>. QED
    BY <1>3, <1>4, <1>5, UpTo
<1>7. m \in 0 .. L /\ f[m] # FAIL
  BY DEF f, L
<1>8. h[m] = f[m] /\ f[m] \in Live(d)
  BY <1>2, <1>6, <1>7
<1>. QED
  BY <1>8 DEF f, h

LEMMA ResolveKept ==
  ASSUME NEW d, DiskOK(d), TreeOK(d), NEW g, DiskOK(g), TreeOK(g), Keeps(d, g, Live(d)),
         fs_cwd \in Live(d), NEW p \in PathSet, Resolve(d, p) # FAIL
  PROVE  Resolve(g, p) = Resolve(d, p) /\ Resolve(d, p) \in Live(d)
<1>. DEFINE start == IF p.abs THEN Root ELSE fs_cwd
            L == Len(p.toks)
<1>1. p.toks \in Seq(Tokens) /\ L \in Nat
  BY DEF PathSet
<1>2. Resolve(d, p) = Walk(d, start, p.toks)[L] /\ Resolve(g, p) = Walk(g, start, p.toks)[L]
  BY DEF Resolve, fs_resolve_checked
<1>3. start \in Live(d)
  BY Constants, DirLive DEF TreeOK
<1>. HIDE DEF start
<1>4. L \in 0 .. L
  BY <1>1
<1>. QED
  BY <1>1, <1>2, <1>3, <1>4, WalkKept

(* The path under which a file is created leads to the new file. *)
LEMMA CreatedFound ==
  ASSUME ~DELETE_AT_ROOT, NEW d, Sound(d), fs_cwd \in Live(d),
         NEW p \in PathSet, p.toks # <<>>,
         NEW parent, parent = Resolve(d, [p EXCEPT !.toks = Front(@)]),
         NEW name, name = Last(p.toks),
         Resolve(d, p) = FAIL, parent # FAIL, CanAdd(d, parent, name),
         NEW g, g = fs_create_file(d, parent, name)
  PROVE  \E n : Grown(d, g, n, parent, name, "file") /\ Resolve(g, p) = n
<1>. DEFINE q == [p EXCEPT !.toks = Front(@)]
            start == IF p.abs THEN Root ELSE fs_cwd
            L == Len(p.toks)
            n == Min(FreeNodes(d))
<1>1. /\ q \in PathSet /\ q.abs = p.abs /\ Len(q.toks) = L - 1
      /\ \A i \in 1 .. (L - 1) : q.toks[i] = p.toks[i]
  BY ParentPath
<1>2. p.toks \in Seq(Tokens) /\ L \in Nat /\ L > 0 /\ q.toks \in Seq(Tokens)
  BY <1>1 DEF PathSet
<1>3. name = p.toks[L]
  BY DEF Last
<1>4. DiskOK(d) /\ TreeOK(d)
  BY DEF Sound
<1>5. parent = Resolve(d, q)
  OBVIOUS
<1>6. parent \in Live(d) /\ parent \in Node
  BY <1>1, <1>4, <1>5, ResolveInTable DEF Resolve, Live
<1>7. Sound(g) /\ Keeps(d, g, Live(d)) /\ Grown(d, g, n, parent, name, "file")
  BY <1>6, AddSound DEF fs_create_file
<1>8. DiskOK(g) /\ TreeOK(g)
  BY <1>7 DEF Sound
<1>. HIDE DEF n
<1>9. Resolve(g, q) = parent
  BY <1>1, <1>4, <1>5, <1>7, <1>8, ResolveKept
<1>. HIDE DEF q
<1>10. ASSUME NEW e, Resolve(e, q) = parent PROVE Resolve(e, p) = Step(e, parent, name)
  <2>1. Resolve(e, q) = Walk(e, start, q.toks)[L - 1]
    BY <1>1 DEF Resolve, fs_resolve_checked
  <2>2. Resolve(e, p) = Walk(e, start, p.toks)[L]
    BY DEF Resolve, fs_resolve_checked
  <2>. HIDE DEF L, start
  <2>3. L - 1 \in Nat /\ L - 1 <= L /\ L - 1 <= L - 1 /\ L \in 1 .. L
    BY <1>2
  <2>4. Walk(e, start, p.toks)[L - 1] = Walk(e, start, q.toks)[L - 1]
    <3>. DEFINE s == p.toks
                t == q.toks
                m == L - 1
    <3>1. /\ s \in Seq(Tokens) /\ t \in Seq(Tokens) /\ m \in Nat /\ m <= Len(s) /\ m <= Len(t)
          /\ \A i \in 1 .. m : s[i] = t[i]
      BY <1>1, <1>2, <2>3 DEF L
    <3>. HIDE DEF s, t, m
    <3>2. Walk(e, start, s)[m] = Walk(e, start, t)[m]
      BY <3>1, WalkAgree
    <3>. QED
      BY <3>2 DEF s, t, m
  <2>5. Walk(e, start, p.toks)[L] = Step(e, Walk(e, start, p.toks)[L - 1], p.toks[L])
    <3>. DEFINE s == p.toks
    <3>1. s \in Seq(Tokens) /\ L = Len(s)
      BY <1>2 DEF L
    <3>. HIDE DEF s
    <3>2. Walk(e, start, s)[L] = Step(e, Walk(e, start, s)[L - 1], s[L])
      BY <2>3, <3>1, WalkFacts
    <3>. QED
      BY <3>2 DEF s
  <2>. QED
    BY <1>3, <1>10, <2>1, <2>2, <2>4, <2>5
<1>11. Step(d, parent, name) = FAIL
  BY <1>5, <1>10 DEF q
<1>12. parent # FAIL /\ d.node[parent].parent # FAIL
  BY <1>4, <1>6, Constants DEF DiskOK, NodeOK, Node, FAIL
<1>13. name # "." /\ name # ".."
  BY <1>11, <1>12 DEF Step
<1>14. n \in Kids(g, parent) /\ g.node[n].name = name /\ n # 0
  BY <1>7 DEF Grown, Kids, Live, Root
<1>15. parent \in Live(g)
  BY <1>6, <1>7 DEF Live, Keeps
<1>16. fs_find_child(g, parent, name) = n
  BY <1>8, <1>14, <1>15, FindKid
<1>17. Step(g, parent, name) = n
  BY <1>12, <1>13, <1>14, <1>16 DEF Step
<1>18. Resolve(g, p) = n
  BY <1>9, <1>10, <1>17
<1>. QED
  BY <1>7, <1>18

(* Where mv's copy goes: not into the source, and what is made for it      *)
(* leaves the source as it was.                                            *)
LEMMA CopyGoesElsewhere ==
  ASSUME ~DELETE_AT_ROOT, FilesInv, NEW p \in Paths,
         NEW src \in Live(disk), src # Resolve(disk, p),
         NEW made, made = Destination(disk, p).made,
         NEW target, target = Destination(disk, p).target
  PROVE  /\ made.pool = disk.pool /\ SameData(made.node[src], disk.node[src])
         /\ target # FAIL => target = Resolve(made, p) /\ target # src
<1>. DEFINE found == Resolve(disk, p)
            parent == Resolve(disk, [p EXCEPT !.toks = Front(@)])
            name == Last(p.toks)
            new == fs_create_file(disk, parent, name)
            to == Destination(disk, p)
<1>1. to = IF found # FAIL
           THEN [made |-> disk, target |-> IF IsFile(disk, found) THEN found ELSE FAIL]
           ELSE IF p.slash \/ parent = FAIL \/ ~CanAdd(disk, parent, name)
           THEN [made |-> disk, target |-> FAIL]
           ELSE [made |-> new, target |-> IF Resolve(new, p) # FAIL /\ IsFile(new, Resolve(new, p))
                                         THEN Resolve(new, p) ELSE FAIL]
  BY DEF Destination, FileAt, LeadsTo
<1>2. made = to.made /\ target = to.target
  OBVIOUS
<1>. HIDE DEF to
<1>3. Sound(disk) /\ fs_cwd \in Live(disk) /\ p \in PathSet
  BY CwdIsLive, PathFacts DEF FilesInv
<1>4. CASE found # FAIL
  <2>1. made = disk /\ target = IF IsFile(disk, found) THEN found ELSE FAIL
    BY <1>1, <1>2, <1>4
  <2>. QED
    BY <2>1 DEF SameData
<1>5. CASE found = FAIL /\ (p.slash \/ parent = FAIL \/ ~CanAdd(disk, parent, name))
  <2>1. made = disk /\ target = FAIL
    BY <1>1, <1>2, <1>5
  <2>. QED
    BY <2>1 DEF SameData
<1>6. CASE found = FAIL /\ ~p.slash /\ parent # FAIL /\ CanAdd(disk, parent, name)
  <2>2. p.toks # <<>>
    BY <1>6, MissingHasTokens
  <2>3. PICK n : Grown(disk, new, n, parent, name, "file") /\ Resolve(new, p) = n
    BY <1>3, <1>6, <2>2, CreatedFound
  <2>1. made = new /\ target = Resolve(new, p)
    <3>. HIDE DEF new, parent, name
    <3>1. n # FAIL /\ IsFile(new, n)
      BY <2>3, Constants DEF Grown, IsFile
    <3>. QED
      BY <1>1, <1>2, <1>6, <2>3, <3>1
  <2>. HIDE DEF new, parent, name
  <2>4. n # src /\ src \in Node \ {n}
    BY <2>3 DEF Grown, Live
  <2>5. new.pool = disk.pool /\ SameData(new.node[src], disk.node[src])
    BY <2>3, <2>4 DEF Grown
  <2>. QED
    BY <2>1, <2>3, <2>4, <2>5
<1>. QED
  BY <1>4, <1>5, <1>6

(* A file whose data and pool are the same reads the same. *)
LEMMA ReadsSame ==
  ASSUME NEW d, NEW g, NEW n, NEW m, g.pool = d.pool,
         g.node[m].size = d.node[n].size, g.node[m].data_off = d.node[n].data_off
  PROVE  fs_read(g, m, DATA_CAP) = fs_read(d, n, DATA_CAP)
  BY DEF fs_read

(* What was written is read back. *)
LEMMA ReadsWritten ==
  ASSUME NEW d, Sound(d), NEW g, Sound(g), NEW n \in Node, IsFile(g, n),
         NEW data \in Seq(Byte), Written(d, g, n, data)
  PROVE  fs_read(g, n, DATA_CAP) = data
<1>. DEFINE r == fs_read(g, n, DATA_CAP)
<1>1. g.pool = d.pool \o data /\ g.node[n].data_off = Len(d.pool) /\ g.node[n].size = Len(data)
  BY DEF Written
<1>2. d.pool \in Seq(Byte)
  BY Sizes DEF Sound
<1>3. /\ r \in Seq(Byte) /\ Len(r) = Len(data)
      /\ \A i \in 1 .. Len(data) : r[i] = g.pool[Len(d.pool) + i]
  <2>1. /\ r \in Seq(Byte) /\ Len(r) = g.node[n].size
        /\ \A i \in 1 .. g.node[n].size : r[i] = g.pool[g.node[n].data_off + i]
    BY ReadBytes
  <2>2. g.node[n].data_off = Len(d.pool) /\ g.node[n].size = Len(data)
    BY <1>1
  <2>. HIDE DEF r
  <2>. QED
    BY <2>1, <2>2
<1>. HIDE DEF r
<1>4. \A i \in 1 .. Len(data) : g.pool[Len(d.pool) + i] = data[i]
  <2>. DEFINE a == d.pool
  <2>1. a \in Seq(Byte) /\ Len(a) \in Nat /\ Len(data) \in Nat
    BY <1>2
  <2>. HIDE DEF a
  <2>2. \A i \in 1 .. Len(data) : (a \o data)[Len(a) + i] = data[i]
    BY <2>1
  <2>. QED
    BY <1>1, <2>2 DEF a
<1>5. r = data
  BY <1>3, <1>4
<1>. QED
  BY <1>5 DEF r

(* As long as nothing in the root is deleted, mv never loses the bytes it  *)
(* moves: after it they are in the file that the destination leads to, or  *)
(* still in the source, whether the table or the pool was full, or the     *)
(* destination was there before.                                           *)
THEOREM MvSafe ==
  ASSUME ~DELETE_AT_ROOT
  PROVE  Spec => MvKeepsBytes
<1>1. ASSUME FilesInv, NEW s \in Paths, NEW p \in Paths, cmd_mv(s, p)
      PROVE  \E n \in {Resolve(disk, s), Resolve(CopyFile(s, p).disk, p)} :
               /\ n # FAIL
               /\ IsFile(disk', n)
               /\ fs_read(disk', n, DATA_CAP) = fs_read(disk, Resolve(disk, s), DATA_CAP)
  <2>. DEFINE src == Resolve(disk, s)
              data == fs_read(disk, src, DATA_CAP)
              copy == CopyFile(s, p)
              made == Destination(disk, p).made
              target == Destination(disk, p).target
              wrote == fs_write(made, target, data)
  <2>1. Sound(disk) /\ DiskOK(disk) /\ fs_cwd \in Node /\ fs_cwd \in Live(disk)
    BY <1>1, CwdIsLive DEF FilesInv, Sound
  <2>2. /\ src # FAIL /\ IsFile(disk, src) /\ src # Resolve(disk, p) /\ InScope(src)
        /\ disk' = IF copy.ok THEN fs_delete(copy.disk, src) ELSE copy.disk
    BY <1>1 DEF cmd_mv, Moved, IsSource
  <2>3. src \in Node
    BY <2>1, <2>2, PathFacts, ResolveInTable DEF Resolve
  <2>. HIDE DEF src
  <2>4. src \in Live(disk)
    BY <2>2, <2>3, DirLive
  <2>5. data \in Seq(Byte)
    BY <2>1, <2>2, <2>3, ReadBytes
  <2>. HIDE DEF data
  <2>6. Sound(made) /\ Keeps(disk, made, Live(disk)) /\ target \in Node \cup {FAIL}
    BY <2>1, DestinationSound
  <2>7. /\ made.pool = disk.pool /\ SameData(made.node[src], disk.node[src])
        /\ target # FAIL => target = Resolve(made, p) /\ target # src
    BY <1>1, <2>2, <2>4, CopyGoesElsewhere
  <2>8. copy = IF target = FAIL THEN [disk |-> made, ok |-> FALSE]
               ELSE [disk |-> wrote, ok |-> CanWrite(made, target, data)]
    BY DEF CopyFile, Put, WriteTo, src, data
  <2>. HIDE DEF copy, made, target
  <2>9. CASE target = FAIL \/ ~CanWrite(made, target, data)
    <3>1. copy.disk = made /\ ~copy.ok
      BY <2>8, <2>9 DEF fs_write
    <3>2. disk' = made
      BY <2>2, <3>1
    <3>3. IsFile(disk', src) /\ fs_read(disk', src, DATA_CAP) = data
      BY <2>2, <2>7, <3>2, ReadsSame DEF SameData, IsFile, data
    <3>. QED
      BY <2>2, <3>3 DEF src, data
  <2>10. CASE target # FAIL /\ CanWrite(made, target, data)
    <3>1. copy.disk = wrote /\ copy.ok
      BY <2>8, <2>10
    <3>2. disk' = fs_delete(wrote, src)
      BY <2>2, <3>1
    <3>3. target \in Node /\ target = Resolve(made, p) /\ target # src
      BY <2>6, <2>7, <2>10
    <3>4. Sound(wrote) /\ Keeps(made, wrote, Node)
      BY <2>5, <2>6, <3>3, WriteSound
    <3>5. Written(made, wrote, target, data)
      BY <2>5, <2>6, <2>10, <3>3, WriteFacts DEF Sound
    <3>. HIDE DEF wrote
    <3>6. IsFile(wrote, target)
      BY <2>10, <3>3, <3>4 DEF CanWrite, IsFile, Keeps
    <3>7. fs_read(wrote, target, DATA_CAP) = data
      BY <2>5, <2>6, <3>3, <3>4, <3>5, <3>6, ReadsWritten
    <3>8. Resolve(wrote, p) = target
      <4>1. DiskOK(made) /\ TreeOK(made) /\ DiskOK(wrote) /\ TreeOK(wrote)
        BY <2>6, <3>4 DEF Sound
      <4>2. Keeps(made, wrote, Live(made)) /\ fs_cwd \in Live(made)
        BY <2>1, <2>6, <3>4 DEF Keeps, Live
      <4>. QED
        BY <2>10, <3>3, <4>1, <4>2, PathFacts, ResolveKept
    <3>9. wrote.node[src].parent = disk.node[src].parent
      BY <2>3, <2>7, <3>4 DEF Keeps, SameData
    <3>10. /\ disk'.pool = wrote.pool /\ SameData(disk'.node[target], wrote.node[target])
      <4>1. CASE CanDelete(wrote, src)
        <5>1. Shrunk(wrote, fs_delete(wrote, src), src)
          BY <2>3, <3>4, <4>1, DeleteShrinks DEF Sound
        <5>. QED
          BY <3>2, <3>3, <5>1 DEF Shrunk
      <4>2. CASE ~CanDelete(wrote, src)
        <5>1. disk' = wrote
          BY <3>2, <4>2 DEF fs_delete
        <5>. QED
          BY <5>1 DEF SameData
      <4>. QED
        BY <4>1, <4>2
    <3>11. IsFile(disk', target) /\ fs_read(disk', target, DATA_CAP) = data
      BY <3>6, <3>7, <3>10, ReadsSame DEF SameData, IsFile
    <3>12. target = Resolve(CopyFile(s, p).disk, p)
      BY <3>1, <3>8 DEF copy
    <3>. QED
      BY <2>10, <3>11, <3>12 DEF src, data
  <2>. QED
    BY <2>9, <2>10
<1>2. FilesInv => [\A s, p \in Paths : cmd_mv(s, p) =>
        \E n \in {Resolve(disk, s), Resolve(CopyFile(s, p).disk, p)} :
          /\ n # FAIL
          /\ IsFile(disk', n)
          /\ fs_read(disk', n, DATA_CAP) = fs_read(disk, Resolve(disk, s), DATA_CAP) ]_vars
  BY <1>1
<1>. QED
  BY <1>2, FilesInductive, PTL DEF MvKeepsBytes
-----------------------------------------------------------------------------
(* The table as a tree of names. *)

(* What Append adds, Front takes off. *)
LEMMA AppendFront ==
  ASSUME NEW X, NEW s \in Seq(X), NEW x \in X
  PROVE  /\ Append(s, x) \in Seq(X) /\ Append(s, x) # <<>>
         /\ Front(Append(s, x)) = s
<1>. DEFINE a == Append(s, x)
            L == Len(s)
<1>1. L \in Nat /\ a \in Seq(X) /\ Len(a) = L + 1 /\ \A i \in 1 .. L : a[i] = s[i]
  OBVIOUS
<1>2. Front(a) = SubSeq(a, 1, L)
  <2>1. Len(a) - 1 = L
    BY <1>1
  <2>. QED
    BY <2>1 DEF Front
<1>3. s = [i \in 1 .. L |-> s[i]]
  OBVIOUS
<1>. HIDE DEF a, L
<1>4. SubSeq(a, 1, L) = [i \in 1 .. L |-> a[i]]
  BY <1>1
<1>5. SubSeq(a, 1, L) = s
  BY <1>1, <1>3, <1>4
<1>6. a # <<>>
  BY <1>1
<1>. QED
  BY <1>1, <1>2, <1>5, <1>6 DEF a

LEMMA AppendSame ==
  ASSUME NEW X, NEW s \in Seq(X), NEW x \in X, NEW t \in Seq(X), NEW y \in X,
         Append(s, x) = Append(t, y)
  PROVE  s = t /\ x = y
<1>1. s = t
  BY AppendFront
<1>2. Append(s, x)[Len(s) + 1] = x /\ Append(t, y)[Len(t) + 1] = y
  OBVIOUS
<1>. QED
  BY <1>1, <1>2

(* Every node has a path of its own, and the path of its parent is the     *)
(* path without its last name.                                             *)
LEMMA PathsApart ==
  ASSUME NEW d, TreeOK(d)
  PROVE  /\ Root \in Live(d) /\ PathTo(d, Root) = <<>>
         /\ \A n \in Live(d) \ {Root} :
              /\ PathTo(d, n) # <<>>
              /\ Front(PathTo(d, n)) = PathTo(d, d.node[n].parent)
         /\ \A n, m \in Live(d) : PathTo(d, n) = PathTo(d, m) => n = m
<1>. DEFINE L == Live(d)
            P(n) == PathTo(d, n)
            up(n) == d.node[n].parent
            name(n) == d.node[n].name
            X == {name(n) : n \in L}
<1>1. Root \in L
  BY DirLive, Constants DEF TreeOK
<1>2. P(Root) = <<>> /\ \A n \in L \ {Root} : P(n) = Append(P(up(n)), name(n))
  BY BuildPath
<1>3. ASSUME NEW S \in SUBSET L, Root \in S,
             \A n \in L \ {Root} : up(n) \in S => n \in S
      PROVE  S = L
  BY <1>3 DEF TreeOK
<1>4. \A n, m \in L \ {Root} : up(n) = up(m) /\ name(n) = name(m) => n = m
  BY DEF TreeOK
<1>5. \A n \in L : name(n) \in X
  OBVIOUS
<1>. HIDE DEF P, X, up, name
<1>. DEFINE C == {n \in L : n = Root \/ up(n) \in L}
<1>6. C = L
  <2>1. C \in SUBSET L /\ Root \in C
    BY <1>1
  <2>2. ASSUME NEW n \in L \ {Root}, up(n) \in C PROVE n \in C
    BY <2>2
  <2>. HIDE DEF C, L
  <2>. QED
    BY <1>3, <2>1, <2>2
<1>7. \A n \in L \ {Root} : up(n) \in L
  BY <1>6
<1>. HIDE DEF C, L
<1>8. \A n \in L : P(n) \in Seq(X)
  <2>. DEFINE S == {n \in L : P(n) \in Seq(X)}
  <2>1. S \in SUBSET L /\ Root \in S
    BY <1>1, <1>2
  <2>2. ASSUME NEW n \in L \ {Root}, up(n) \in S PROVE n \in S
    BY <1>2, <1>5, <2>2
  <2>. HIDE DEF S
  <2>3. S = L
    BY <1>3, <2>1, <2>2
  <2>. QED
    BY <2>3 DEF S
<1>9. ASSUME NEW n \in L \ {Root}
      PROVE  P(n) # <<>> /\ Front(P(n)) = P(up(n))
  <2>. DEFINE s == P(up(n))
              x == name(n)
  <2>1. s \in Seq(X) /\ x \in X /\ P(n) = Append(s, x)
    BY <1>2, <1>5, <1>7, <1>8
  <2>. HIDE DEF s, x
  <2>2. P(n) # <<>> /\ Front(P(n)) = s
    BY <2>1, AppendFront
  <2>. QED
    BY <2>2 DEF s
<1>. DEFINE S == {n \in L : \A m \in L : P(n) = P(m) => n = m}
<1>10. S \in SUBSET L /\ Root \in S
  BY <1>1, <1>2, <1>9
<1>11. ASSUME NEW n \in L \ {Root}, up(n) \in S PROVE n \in S
  <2>. SUFFICES ASSUME NEW m \in L, P(n) = P(m) PROVE n = m
    OBVIOUS
  <2>1. m \in L \ {Root}
    BY <1>2, <1>9
  <2>. DEFINE s == P(up(n))
              x == name(n)
              t == P(up(m))
              y == name(m)
  <2>2. s \in Seq(X) /\ x \in X /\ t \in Seq(X) /\ y \in X /\ Append(s, x) = Append(t, y)
    BY <1>2, <1>5, <1>7, <1>8, <2>1
  <2>. HIDE DEF s, x, t, y
  <2>3. s = t /\ x = y
    BY <2>2, AppendSame
  <2>4. P(up(n)) = P(up(m)) /\ name(n) = name(m)
    BY <2>3 DEF s, x, t, y
  <2>5. up(n) = up(m)
    BY <1>7, <1>11, <2>1, <2>4
  <2>. QED
    BY <1>4, <2>1, <2>4, <2>5
<1>12. S = L
  <2>. HIDE DEF S
  <2>. QED
    BY <1>3, <1>10, <1>11
<1>13. \A n, m \in L : P(n) = P(m) => n = m
  BY <1>12
<1>. QED
  BY <1>1, <1>2, <1>9, <1>13 DEF L, P, up

(* What the tree holds for a node. *)
Content(d, n) ==
  IF IsDir(d, n) THEN Tree!Dir ELSE Tree!File(fs_read(d, n, DATA_CAP))

LEMMA TreeHolds ==
  ASSUME NEW d, TreeOK(d)
  PROVE  /\ DOMAIN TreeOf(d) = {PathTo(d, n) : n \in Live(d)}
         /\ TreeOf(d) = [p \in DOMAIN TreeOf(d) |-> TreeOf(d)[p]]
         /\ \A n \in Live(d) : TreeOf(d)[PathTo(d, n)] = Content(d, n)
<1>. DEFINE L == Live(d)
            P(n) == PathTo(d, n)
            contents == [n \in L |->
              IF IsDir(d, n) THEN [kind |-> "dir", data |-> <<>>]
              ELSE [kind |-> "file", data |-> fs_read(d, n, DATA_CAP)]]
            Owner(p) == CHOOSE n \in L : P(n) = p
            t == [p \in {P(n) : n \in L} |-> contents[Owner(p)]]
<1>1. TreeOf(d) = t
  BY DEF TreeOf
<1>2. \A n \in L : contents[n] = Content(d, n)
  BY DEF Content, Tree!Dir, Tree!File
<1>3. \A n, m \in L : P(n) = P(m) => n = m
  BY PathsApart
<1>. HIDE DEF P, L, contents
<1>4. ASSUME NEW n \in L PROVE Owner(P(n)) = n
  BY <1>3
<1>. HIDE DEF Owner
<1>5. ASSUME NEW n \in L PROVE t[P(n)] = Content(d, n)
  BY <1>2, <1>4
<1>6. DOMAIN t = {P(n) : n \in L} /\ t = [p \in DOMAIN t |-> t[p]]
  OBVIOUS
<1>. HIDE DEF t
<1>. QED
  BY <1>1, <1>5, <1>6 DEF P, L

(* Nodes that stay what and where they are, and with each its parent, keep *)
(* their paths.                                                            *)
LEMMA PathsKept ==
  ASSUME NEW d, TreeOK(d), NEW g, TreeOK(g), NEW S \in SUBSET Live(d), Keeps(d, g, S),
         Root \in S, \A n \in S \ {Root} : d.node[n].parent \in S
  PROVE  \A n \in S : n \in Live(g) /\ PathTo(g, n) = PathTo(d, n)
<1>. DEFINE L == Live(d)
            T == {n \in L : n \in S => PathTo(g, n) = PathTo(d, n)}
<1>1. \A n \in S : n \in Live(g) /\ g.node[n].parent = d.node[n].parent
                                 /\ g.node[n].name = d.node[n].name
  BY DEF Keeps, Live
<1>2. PathTo(d, Root) = <<>> /\ PathTo(g, Root) = <<>>
  BY BuildPath
<1>3. ASSUME NEW n \in S \ {Root}
      PROVE  /\ PathTo(d, n) = Append(PathTo(d, d.node[n].parent), d.node[n].name)
             /\ PathTo(g, n) = Append(PathTo(g, d.node[n].parent), d.node[n].name)
  <2>1. n \in Live(d) \ {Root} /\ n \in Live(g) \ {Root}
    BY <1>1
  <2>2. PathTo(d, n) = Append(PathTo(d, d.node[n].parent), d.node[n].name)
    BY <2>1, BuildPath
  <2>3. PathTo(g, n) = Append(PathTo(g, g.node[n].parent), g.node[n].name)
    BY <2>1, BuildPath
  <2>. QED
    BY <1>1, <2>2, <2>3
<1>4. T \in SUBSET L /\ Root \in T
  BY <1>2
<1>5. ASSUME NEW n \in L \ {Root}, d.node[n].parent \in T PROVE n \in T
  BY <1>3, <1>5
<1>6. T = L
  <2>. HIDE DEF T
  <2>. QED
    BY <1>4, <1>5 DEF TreeOK
<1>. QED
  BY <1>1, <1>6

LEMMA AllKept ==
  ASSUME NEW d, DiskOK(d), TreeOK(d), NEW g, TreeOK(g), Keeps(d, g, Live(d))
  PROVE  \A n \in Live(d) : n \in Live(g) /\ PathTo(g, n) = PathTo(d, n)
<1>1. Root \in Live(d)
  BY PathsApart
<1>2. \A n \in Live(d) \ {Root} : d.node[n].parent \in Live(d)
  BY DirLive DEF TreeOK, DiskOK, NodeOK, Live
<1>. DEFINE S == Live(d)
<1>3. S \in SUBSET Live(d) /\ Root \in S /\ Keeps(d, g, S)
      /\ \A n \in S \ {Root} : d.node[n].parent \in S
  BY <1>1, <1>2
<1>. HIDE DEF S
<1>4. \A n \in S : n \in Live(g) /\ PathTo(g, n) = PathTo(d, n)
  BY <1>3, PathsKept
<1>. QED
  BY <1>4 DEF S

(* FileTree's notions, for a tree t. *)
VacantIn(t, p) ==
  /\ p # <<>> /\ p \notin DOMAIN t
  /\ Front(p) \in DOMAIN t /\ t[Front(p)] = Tree!Dir

FileIn(t, p) == p \in DOMAIN t /\ t[p].kind = "file"

LeafIn(t, p) == \A q \in DOMAIN t : q # <<>> => Front(q) # p

(* A new entry is a new name in the tree. *)
LEMMA GrownIsWith ==
  ASSUME NEW d, DiskOK(d), TreeOK(d), NEW g, TreeOK(g),
         NEW n, NEW parent \in Live(d), NEW name, NEW type \in {"dir", "file"},
         IsDir(d, parent), Keeps(d, g, Live(d)), Grown(d, g, n, parent, name, type)
  PROVE  LET q == PathTo(g, n)
         IN  /\ n \in Live(g) /\ VacantIn(TreeOf(d), q) /\ Front(q) = PathTo(d, parent)
             /\ TreeOf(g) = Tree!With(TreeOf(d), q,
                              IF type = "dir" THEN Tree!Dir ELSE Tree!File(<<>>))
<1>. DEFINE t == TreeOf(d)
            u == TreeOf(g)
            L == Live(d)
            P(m) == PathTo(d, m)
            Q(m) == PathTo(g, m)
            v == IF type = "dir" THEN Tree!Dir ELSE Tree!File(<<>>)
<1>1. /\ n \in Node \ {Root} /\ n \notin L /\ g.pool = d.pool
      /\ g.node[n].type = type /\ g.node[n].parent = parent /\ g.node[n].size = 0
      /\ \A m \in Node \ {n} : SameData(g.node[m], d.node[m])
  BY DEF Grown, Live
<1>2. Live(g) = L \cup {n}
  BY <1>1 DEF Live, SameData
<1>3. \A m \in L : Q(m) = P(m)
  BY AllKept
<1>4. Q(n) # <<>> /\ Front(Q(n)) = Q(parent) /\ \A m, k \in Live(g) : Q(m) = Q(k) => m = k
  BY <1>1, <1>2, PathsApart
<1>5. /\ DOMAIN t = {P(m) : m \in L} /\ \A m \in L : t[P(m)] = Content(d, m)
      /\ t = [p \in DOMAIN t |-> t[p]]
  BY TreeHolds
<1>6. /\ DOMAIN u = {Q(m) : m \in Live(g)} /\ \A m \in Live(g) : u[Q(m)] = Content(g, m)
      /\ u = [p \in DOMAIN u |-> u[p]]
  BY TreeHolds
<1>7. ASSUME NEW m \in L PROVE Content(g, m) = Content(d, m)
  <2>1. SameData(g.node[m], d.node[m])
    BY <1>1 DEF Live
  <2>2. fs_read(g, m, DATA_CAP) = fs_read(d, m, DATA_CAP)
    BY <1>1, <2>1, ReadsSame DEF SameData
  <2>. QED
    BY <2>1, <2>2 DEF Content, IsDir, SameData
<1>8. Content(g, n) = v
  <2>1. fs_read(g, n, DATA_CAP) = <<>>
    <3>1. (IF DATA_CAP < g.node[n].size THEN DATA_CAP ELSE g.node[n].size) = 0
      BY <1>1, Constants
    <3>. DEFINE r == fs_read(g, n, DATA_CAP)
                Y == {g.pool[g.node[n].data_off + i] : i \in 1 .. 0}
    <3>2. r = [i \in 1 .. 0 |-> g.pool[g.node[n].data_off + i]]
      BY <3>1 DEF fs_read
    <3>3. r \in [1 .. 0 -> Y]
      BY <3>2
    <3>. HIDE DEF r, Y
    <3>4. r \in Seq(Y) /\ Len(r) = 0
      BY <3>3
    <3>5. r = <<>>
      BY <3>4
    <3>. QED
      BY <3>5 DEF r
  <2>. QED
    BY <1>1, <2>1 DEF Content, IsDir
<1>9. Content(d, parent) = Tree!Dir
  BY DEF Content
<1>. HIDE DEF P, Q, L, t, u, v
<1>10. DOMAIN u = DOMAIN t \cup {Q(n)} /\ Q(n) \notin DOMAIN t
  BY <1>1, <1>2, <1>3, <1>4, <1>5, <1>6
<1>11. \A p \in DOMAIN u : u[p] = IF p = Q(n) THEN v ELSE t[p]
  BY <1>2, <1>3, <1>4, <1>5, <1>6, <1>7, <1>8
<1>12. u = Tree!With(t, Q(n), v)
  BY <1>6, <1>10, <1>11 DEF Tree!With
<1>13. VacantIn(t, Q(n)) /\ Front(Q(n)) = P(parent)
  BY <1>3, <1>4, <1>5, <1>9, <1>10 DEF VacantIn, L
<1>. QED
  BY <1>2, <1>12, <1>13 DEF P, Q, t, u, v

(* A write changes what the tree holds for the file, and for no other. *)
LEMMA WrittenIsWith ==
  ASSUME ~DELETE_AT_ROOT, NEW d, Sound(d), NEW g, Sound(g), NEW n \in Node, IsFile(d, n),
         NEW data \in Seq(Byte), Keeps(d, g, Node), Written(d, g, n, data)
  PROVE  /\ FileIn(TreeOf(d), PathTo(d, n))
         /\ TreeOf(g) = Tree!With(TreeOf(d), PathTo(d, n), Tree!File(data))
<1>. DEFINE t == TreeOf(d)
            u == TreeOf(g)
            L == Live(d)
            P(m) == PathTo(d, m)
            Q(m) == PathTo(g, m)
            v == Tree!File(data)
<1>1. DiskOK(d) /\ TreeOK(d) /\ DiskOK(g) /\ TreeOK(g) /\ PoolOK(d) /\ PoolOK(g)
  BY DEF Sound
<1>2. Live(g) = L /\ Keeps(d, g, L) /\ L \subseteq Node
  BY DEF Live, Keeps
<1>3. \A m \in L : Q(m) = P(m)
  BY <1>1, <1>2, AllKept
<1>4. n \in L /\ \A m, k \in L : P(m) = P(k) => m = k
  BY <1>1, PathsApart, DirLive
<1>5. /\ DOMAIN t = {P(m) : m \in L} /\ \A m \in L : t[P(m)] = Content(d, m)
      /\ t = [p \in DOMAIN t |-> t[p]]
  BY <1>1, TreeHolds
<1>6. /\ DOMAIN u = {Q(m) : m \in Live(g)} /\ \A m \in Live(g) : u[Q(m)] = Content(g, m)
      /\ u = [p \in DOMAIN u |-> u[p]]
  BY <1>1, TreeHolds
<1>7. ASSUME NEW m \in L, m # n PROVE Content(g, m) = Content(d, m)
  <2>1. SameData(g.node[m], d.node[m]) /\ m \in Node
    BY <1>2, <1>7 DEF Written
  <2>2. IsDir(g, m) <=> IsDir(d, m)
    BY <2>1 DEF SameData, IsDir
  <2>3. CASE IsDir(d, m)
    BY <2>2, <2>3 DEF Content
  <2>4. CASE ~IsDir(d, m)
    <3>1. IsFile(d, m) /\ IsFile(g, m)
      <4>1. d.node[m].type \in {"free", "dir", "file"} /\ d.node[m].type # "free"
        BY <1>1, <2>1 DEF DiskOK, NodeOK, Live
      <4>. QED
        BY <2>1, <2>4, <4>1 DEF IsDir, IsFile, SameData
    <3>. DEFINE r == fs_read(d, m, DATA_CAP)
                w == fs_read(g, m, DATA_CAP)
                s == d.node[m].size
                o == d.node[m].data_off
                a == d.pool
    <3>2. /\ r \in Seq(Byte) /\ Len(r) = s /\ \A i \in 1 .. s : r[i] = a[o + i]
      BY <2>1, <3>1, ReadBytes
    <3>3. g.node[m].size = s /\ g.node[m].data_off = o /\ g.pool = a \o data
      BY <2>1 DEF SameData, Written
    <3>4. /\ w \in Seq(Byte) /\ Len(w) = g.node[m].size
          /\ \A i \in 1 .. g.node[m].size : w[i] = g.pool[g.node[m].data_off + i]
      BY <2>1, <3>1, ReadBytes
    <3>5. s \in Nat /\ o \in Nat /\ a \in Seq(Byte) /\ o + s <= Len(a)
      BY <1>1, <2>1, <3>1, Sizes DEF PoolOK, InPool
    <3>. HIDE DEF r, w, s, o, a
    <3>6. /\ w \in Seq(Byte) /\ Len(w) = s
          /\ \A i \in 1 .. s : w[i] = (a \o data)[o + i]
      BY <3>3, <3>4
    <3>7. ASSUME NEW i \in 1 .. s PROVE (a \o data)[o + i] = a[o + i]
      <4>1. o + i \in 1 .. Len(a)
        BY <3>5
      <4>. QED
        BY <3>5, <4>1
    <3>8. w = r
      <4>1. \A i \in 1 .. s : w[i] = r[i]
        BY <3>2, <3>6, <3>7
      <4>2. w \in Seq(Byte) /\ r \in Seq(Byte) /\ Len(w) = s /\ Len(r) = s
        BY <3>2, <3>6
      <4>. QED
        BY <4>1, <4>2
    <3>. QED
      BY <2>2, <2>4, <3>8 DEF Content, r, w
  <2>. QED
    BY <2>3, <2>4
<1>8. IsFile(g, n) /\ Content(g, n) = v
  <2>1. IsFile(g, n) /\ ~IsDir(g, n)
    BY DEF Written, IsFile, IsDir
  <2>2. fs_read(g, n, DATA_CAP) = data
    BY <2>1, ReadsWritten
  <2>. QED
    BY <2>1, <2>2 DEF Content
<1>9. Content(d, n).kind = "file"
  BY DEF Content, IsDir, IsFile, Tree!File
<1>. HIDE DEF P, Q, L, t, u, v
<1>10. DOMAIN u = DOMAIN t /\ P(n) \in DOMAIN t
  BY <1>2, <1>3, <1>4, <1>5, <1>6
<1>11. \A p \in DOMAIN u : u[p] = IF p = P(n) THEN v ELSE t[p]
  BY <1>2, <1>3, <1>4, <1>5, <1>6, <1>7, <1>8
<1>12. DOMAIN u = DOMAIN t \cup {P(n)}
  BY <1>10
<1>13. u = Tree!With(t, P(n), v)
  BY <1>6, <1>11, <1>12 DEF Tree!With
<1>14. FileIn(t, P(n))
  BY <1>4, <1>5, <1>9, <1>10 DEF FileIn
<1>. QED
  BY <1>13, <1>14 DEF P, t, u, v

(* What is deleted is a leaf of the tree. *)
LEMMA DeletedIsLeaf ==
  ASSUME NEW d, TreeOK(d), NEW n \in Node, CanDelete(d, n)
  PROVE  /\ PathTo(d, n) \in DOMAIN TreeOf(d)
         /\ PathTo(d, n) # <<>>
         /\ LeafIn(TreeOf(d), PathTo(d, n))
<1>. DEFINE L == Live(d)
            P(m) == PathTo(d, m)
            up(m) == d.node[m].parent
            t == TreeOf(d)
<1>1. n \in L \ {Root} /\ \A m \in L : up(m) # n
  BY Childless
<1>2. /\ P(Root) = <<>> /\ \A m \in L \ {Root} : P(m) # <<>> /\ Front(P(m)) = P(up(m))
      /\ \A m, k \in L : P(m) = P(k) => m = k
  BY PathsApart
<1>3. \A m \in L \ {Root} : up(m) \in L \/ up(m) \notin Node
  BY DirLive DEF TreeOK
<1>4. DOMAIN t = {P(m) : m \in L}
  BY TreeHolds
<1>5. ASSUME NEW m \in L \ {Root} PROVE up(m) \in L
  <2>. DEFINE S == {k \in L : k = Root \/ up(k) \in L}
  <2>1. S \in SUBSET L /\ Root \in S
    BY PathsApart
  <2>2. ASSUME NEW k \in L \ {Root}, up(k) \in S PROVE k \in S
    BY <2>2
  <2>3. S = L
    <3>. HIDE DEF S
    <3>. QED
      BY <2>1, <2>2 DEF TreeOK
  <2>. QED
    BY <2>3
<1>. HIDE DEF P, up, L, t
<1>6. LeafIn(t, P(n))
  BY <1>1, <1>2, <1>4, <1>5 DEF LeafIn
<1>7. P(n) \in DOMAIN t /\ P(n) # <<>>
  BY <1>1, <1>2, <1>4
<1>. QED
  BY <1>6, <1>7 DEF P, t

LEMMA DeletedIsWithout ==
  ASSUME ~DELETE_AT_ROOT, NEW d, Sound(d), NEW n \in Node, CanDelete(d, n),
         d.node[n].parent # Root
  PROVE  LET g == fs_delete(d, n)
         IN  /\ TreeOf(g) = Tree!Without(TreeOf(d), PathTo(d, n))
             /\ \A m \in Live(d) \ {n} : PathTo(g, m) = PathTo(d, m)
<1>. DEFINE g == fs_delete(d, n)
            t == TreeOf(d)
            u == TreeOf(g)
            L == Live(d)
            P(m) == PathTo(d, m)
            Q(m) == PathTo(g, m)
<1>1. DiskOK(d) /\ TreeOK(d) /\ Sound(g) /\ TreeOK(g) /\ Keeps(d, g, Node \ {n})
  BY DeleteSound DEF Sound
<1>2. Shrunk(d, g, n)
  BY <1>1, DeleteShrinks
<1>. HIDE DEF g
<1>3. n \in L \ {Root} /\ \A m \in L : d.node[m].parent # n
  BY <1>1, Childless
<1>4. Live(g) = L \ {n} /\ L \subseteq Node
  BY <1>2 DEF Shrunk, Live, SameData
<1>5. \A m \in L \ {n} : Q(m) = P(m)
  <2>. DEFINE S == L \ {n}
  <2>1. Root \in L /\ \A m \in L \ {Root} : d.node[m].parent \in L
    BY <1>1, PathsApart, DirLive DEF TreeOK, DiskOK, NodeOK, Live
  <2>2. /\ S \in SUBSET Live(d) /\ Keeps(d, g, S) /\ Root \in S
        /\ \A m \in S \ {Root} : d.node[m].parent \in S
    BY <1>1, <1>3, <1>4, <2>1 DEF Keeps
  <2>. HIDE DEF S
  <2>3. \A m \in S : Q(m) = P(m)
    BY <1>1, <2>2, PathsKept
  <2>. QED
    BY <2>3 DEF S
<1>6. \A m, k \in L : P(m) = P(k) => m = k
  BY <1>1, PathsApart
<1>7. /\ DOMAIN t = {P(m) : m \in L} /\ \A m \in L : t[P(m)] = Content(d, m)
      /\ t = [p \in DOMAIN t |-> t[p]]
  BY <1>1, TreeHolds
<1>8. /\ DOMAIN u = {Q(m) : m \in Live(g)} /\ \A m \in Live(g) : u[Q(m)] = Content(g, m)
      /\ u = [p \in DOMAIN u |-> u[p]]
  BY <1>1, TreeHolds
<1>9. ASSUME NEW m \in L \ {n} PROVE Content(g, m) = Content(d, m)
  <2>1. SameData(g.node[m], d.node[m]) /\ g.pool = d.pool
    BY <1>2, <1>4 DEF Shrunk
  <2>2. fs_read(g, m, DATA_CAP) = fs_read(d, m, DATA_CAP)
    BY <2>1, ReadsSame DEF SameData
  <2>. QED
    BY <2>1, <2>2 DEF Content, IsDir, SameData
<1>. HIDE DEF P, Q, L, t, u
<1>10. DOMAIN u = DOMAIN t \ {P(n)}
  BY <1>3, <1>4, <1>5, <1>6, <1>7, <1>8
<1>11. \A p \in DOMAIN u : u[p] = t[p]
  BY <1>4, <1>5, <1>6, <1>7, <1>8, <1>9
<1>12. u = Tree!Without(t, P(n))
  BY <1>8, <1>10, <1>11 DEF Tree!Without
<1>. QED
  BY <1>5, <1>12 DEF g, P, Q, L, t, u

(* What a command may do to the tree t when the current directory's path   *)
(* is c: a step of FileTree, or nothing.                                   *)
Effect(t, u, c) ==
  \/ u = t
  \/ \E p : VacantIn(t, p) /\ u \in {Tree!With(t, p, Tree!Dir), Tree!With(t, p, Tree!File(<<>>))}
  \/ \E p : /\ VacantIn(t, p) \/ FileIn(t, p)
            /\ \/ \E x \in Texts : u = Tree!With(t, p, Tree!File(x))
               \/ \E s : FileIn(t, s) /\ u = Tree!With(t, p, t[s])
  \/ \E p : /\ p \in DOMAIN t /\ p # <<>> /\ p # c /\ LeafIn(t, p)
            /\ u = Tree!Without(t, p)
  \/ \E q, p : /\ VacantIn(t, q) /\ Front(q) = c /\ FileIn(t, p)
               /\ \E x \in Texts :
                    u = Tree!With(Tree!With(t, q, Tree!File(<<>>)), p, Tree!File(x))
  \/ \E s, p : /\ FileIn(t, s) /\ s # <<>> /\ s # c /\ LeafIn(t, s)
               /\ s # p /\ (VacantIn(t, p) \/ FileIn(t, p))
               /\ u = Tree!Without(Tree!With(t, p, t[s]), s)

(* Writing what is there changes nothing; anything else is seen. *)
LEMMA WithFacts ==
  ASSUME NEW t, t = [q \in DOMAIN t |-> t[q]], NEW p, NEW v
  PROVE  /\ p \in DOMAIN t /\ t[p] = v => Tree!With(t, p, v) = t
         /\ ~(p \in DOMAIN t /\ t[p] = v) => p \in Tree!Touched(t, Tree!With(t, p, v))
<1>. DEFINE u == Tree!With(t, p, v)
<1>1. u = [q \in DOMAIN t \cup {p} |-> IF q = p THEN v ELSE t[q]]
  BY DEF Tree!With
<1>2. ASSUME p \in DOMAIN t, t[p] = v PROVE u = t
  <2>1. DOMAIN t \cup {p} = DOMAIN t
    BY <1>2
  <2>. QED
    BY <1>1, <1>2, <2>1
<1>. HIDE DEF u
<1>3. ASSUME ~(p \in DOMAIN t /\ t[p] = v) PROVE p \in Tree!Touched(t, u)
  BY <1>1, <1>3 DEF Tree!Touched
<1>. QED
  BY <1>2, <1>3 DEF u

LEMMA EffectIsStep ==
  ASSUME TreeOK(disk), Effect(TreeOf(disk), TreeOf(disk'), PathTo(disk, fs_cwd)),
         PathTo(disk', fs_cwd') = PathTo(disk, fs_cwd)
  PROVE  [Tree!Next]_<<TreeOf(disk), PathTo(disk, fs_cwd)>>
<1>. DEFINE t == TreeOf(disk)
            u == TreeOf(disk')
            c == PathTo(disk, fs_cwd)
            Same == [Tree!Next]_<<TreeOf(disk), PathTo(disk, fs_cwd)>>
            D == Tree!Touched(t, u)
<1>1. t = [q \in DOMAIN t |-> t[q]]
  BY TreeHolds
<1>2. ASSUME u = t PROVE Same
  BY <1>2
<1>3. \A q : Tree!Front(q) = Front(q)
  BY DEF Front, Tree!Front
<1>4. ASSUME NEW p \in D, VacantIn(t, p),
             u \in {Tree!With(t, p, Tree!Dir), Tree!With(t, p, Tree!File(<<>>))}
      PROVE  Same
  <2>1. Tree!MakeDir(p) \/ Tree!MakeFile(p)
    BY <1>3, <1>4 DEF VacantIn, Tree!Vacant, Tree!MakeDir, Tree!MakeFile
  <2>. QED
    BY <1>4, <2>1 DEF Tree!Next
<1>5. ASSUME NEW p \in D, VacantIn(t, p) \/ FileIn(t, p),
             \/ \E x \in Texts : u = Tree!With(t, p, Tree!File(x))
             \/ \E s : FileIn(t, s) /\ u = Tree!With(t, p, t[s])
      PROVE  Same
  <2>1. Tree!Save(p)
    BY <1>3, <1>5 DEF VacantIn, FileIn, Tree!Vacant, Tree!IsFileAt, Tree!Save
  <2>. QED
    BY <1>5, <2>1 DEF Tree!Next
<1>6. ASSUME NEW p \in D, p # <<>>, p # c, LeafIn(t, p), u = Tree!Without(t, p)
      PROVE  Same
  <2>1. Tree!Children(p) = {}
    BY <1>3, <1>6 DEF LeafIn, Tree!Children
  <2>2. Tree!RemovePath(p)
    BY <1>6, <2>1 DEF Tree!RemovePath
  <2>. QED
    BY <1>6, <2>2 DEF Tree!Next
<1>7. ASSUME NEW q \in D, NEW p \in D, VacantIn(t, q), Front(q) = c, FileIn(t, p),
             \E x \in Texts : u = Tree!With(Tree!With(t, q, Tree!File(<<>>)), p, Tree!File(x))
      PROVE  Same
  <2>1. Tree!SaveBeside(q, p)
    BY <1>3, <1>7 DEF VacantIn, FileIn, Tree!Vacant, Tree!IsFileAt, Tree!SaveBeside
  <2>. QED
    BY <1>7, <2>1 DEF Tree!Next
<1>8. ASSUME NEW s \in D, NEW p \in D, FileIn(t, s), s # p, VacantIn(t, p) \/ FileIn(t, p),
             u = Tree!Without(Tree!With(t, p, t[s]), s)
      PROVE  Same
  <2>1. Tree!Move(s, p)
    BY <1>3, <1>8 DEF VacantIn, FileIn, Tree!Vacant, Tree!IsFileAt, Tree!Move
  <2>. QED
    BY <1>8, <2>1 DEF Tree!Next
<1>9. Effect(t, u, c)
  OBVIOUS
<1>. SUFFICES Same
  OBVIOUS
<1>. HIDE DEF t, u, c, Same
<1>10. CASE \E p : /\ VacantIn(t, p)
                  /\ u \in {Tree!With(t, p, Tree!Dir), Tree!With(t, p, Tree!File(<<>>))}
  <2>1. PICK p : /\ VacantIn(t, p)
                 /\ u \in {Tree!With(t, p, Tree!Dir), Tree!With(t, p, Tree!File(<<>>))}
    BY <1>10
  <2>2. p \in D
    BY <1>1, <2>1, WithFacts DEF VacantIn
  <2>. HIDE DEF D
  <2>. QED
    BY <1>4, <2>1, <2>2
<1>11. ASSUME NEW p, VacantIn(t, p) \/ FileIn(t, p), NEW v, u = Tree!With(t, p, v),
              \/ \E x \in Texts : v = Tree!File(x)
              \/ \E s : FileIn(t, s) /\ v = t[s]
       PROVE  Same
  <2>1. u = t \/ p \in D
    BY <1>1, <1>11, WithFacts
  <2>. HIDE DEF D
  <2>. QED
    BY <1>2, <1>5, <1>11, <2>1
<1>12. CASE \E p : /\ p \in DOMAIN t /\ p # <<>> /\ p # c /\ LeafIn(t, p)
                   /\ u = Tree!Without(t, p)
  <2>1. PICK p : /\ p \in DOMAIN t /\ p # <<>> /\ p # c /\ LeafIn(t, p)
                 /\ u = Tree!Without(t, p)
    BY <1>12
  <2>2. p \in D
    BY <2>1 DEF Tree!Touched, Tree!Without
  <2>. HIDE DEF D
  <2>. QED
    BY <1>6, <2>1, <2>2
<1>13. CASE \E q, p : /\ VacantIn(t, q) /\ Front(q) = c /\ FileIn(t, p)
                      /\ \E x \in Texts :
                           u = Tree!With(Tree!With(t, q, Tree!File(<<>>)), p, Tree!File(x))
  <2>1. PICK q, p : /\ VacantIn(t, q) /\ Front(q) = c /\ FileIn(t, p)
                    /\ \E x \in Texts :
                         u = Tree!With(Tree!With(t, q, Tree!File(<<>>)), p, Tree!File(x))
    BY <1>13
  <2>2. PICK x \in Texts : u = Tree!With(Tree!With(t, q, Tree!File(<<>>)), p, Tree!File(x))
    BY <2>1
  <2>3. q # p /\ q \notin DOMAIN t /\ p \in DOMAIN t
    BY <2>1 DEF VacantIn, FileIn
  <2>. DEFINE made == Tree!With(t, q, Tree!File(<<>>))
              v == Tree!File(x)
  <2>4. /\ DOMAIN made = DOMAIN t \cup {q} /\ made[p] = t[p]
        /\ made = [k \in DOMAIN made |-> made[k]]
    <3>1. made = [k \in DOMAIN t \cup {q} |-> IF k = q THEN Tree!File(<<>>) ELSE t[k]]
      BY DEF Tree!With
    <3>. HIDE DEF made
    <3>. QED
      BY <2>3, <3>1
  <2>5. u = Tree!With(made, p, v)
    BY <2>2
  <2>. HIDE DEF made, v
  <2>6. q \in D
    BY <2>3, <2>4, <2>5 DEF Tree!With, Tree!Touched
  <2>7. CASE t[p] = v
    <3>1. u = made
      BY <2>3, <2>4, <2>5, <2>7, WithFacts
    <3>2. u = Tree!With(t, q, Tree!File(<<>>))
      BY <3>1 DEF made
    <3>. HIDE DEF D
    <3>. QED
      BY <1>4, <2>1, <2>6, <3>2
  <2>8. CASE t[p] # v
    <3>1. p \in D
      BY <2>3, <2>4, <2>5, <2>8 DEF Tree!With, Tree!Touched
    <3>. HIDE DEF D
    <3>. QED
      BY <1>7, <2>1, <2>6, <3>1
  <2>. QED
    BY <2>7, <2>8
<1>14. CASE \E s, p : /\ FileIn(t, s) /\ s # <<>> /\ s # c /\ LeafIn(t, s)
                      /\ s # p /\ (VacantIn(t, p) \/ FileIn(t, p))
                      /\ u = Tree!Without(Tree!With(t, p, t[s]), s)
  <2>1. PICK s, p : /\ FileIn(t, s) /\ s # <<>> /\ s # c /\ LeafIn(t, s)
                    /\ s # p /\ (VacantIn(t, p) \/ FileIn(t, p))
                    /\ u = Tree!Without(Tree!With(t, p, t[s]), s)
    BY <1>14
  <2>2. s \in DOMAIN t
    BY <2>1 DEF FileIn
  <2>. DEFINE made == Tree!With(t, p, t[s])
  <2>3. u = Tree!Without(made, s)
    BY <2>1
  <2>4. DOMAIN made = DOMAIN t \cup {p} /\ made[p] = t[s]
    BY DEF Tree!With
  <2>. HIDE DEF made
  <2>5. s \in D
    BY <2>2, <2>3 DEF Tree!Without, Tree!Touched
  <2>6. CASE p \in DOMAIN t /\ t[p] = t[s]
    <3>1. made = t
      BY <1>1, <2>6, WithFacts DEF made
    <3>2. u = Tree!Without(t, s)
      BY <2>3, <3>1
    <3>. HIDE DEF D
    <3>. QED
      BY <1>6, <2>1, <2>5, <3>2
  <2>7. CASE ~(p \in DOMAIN t /\ t[p] = t[s])
    <3>1. p \in D
      BY <2>1, <2>3, <2>4, <2>7 DEF Tree!Without, Tree!Touched
    <3>. HIDE DEF D
    <3>. QED
      BY <1>8, <2>1, <2>5, <3>1
  <2>. QED
    BY <2>6, <2>7
<1>. HIDE DEF D
<1>. QED
  BY <1>2, <1>9, <1>10, <1>11, <1>12, <1>13, <1>14 DEF Effect

-----------------------------------------------------------------------------
(* The commands, on the tree. *)

LEMMA AddTree ==
  ASSUME ~DELETE_AT_ROOT, NEW d, Sound(d), NEW parent \in Node, NEW name,
         CanAdd(d, parent, name), NEW type \in {"dir", "file"}
  PROVE  LET g == Link(d, parent, name, type)
         IN  \E q : /\ VacantIn(TreeOf(d), q) /\ Front(q) = PathTo(d, parent)
                    /\ q = PathTo(g, Min(FreeNodes(d))) /\ Min(FreeNodes(d)) \in Live(g)
                    /\ TreeOf(g) = Tree!With(TreeOf(d), q,
                                     IF type = "dir" THEN Tree!Dir ELSE Tree!File(<<>>))
<1>. DEFINE g == Link(d, parent, name, type)
            n == Min(FreeNodes(d))
<1>1. Sound(g) /\ Keeps(d, g, Live(d)) /\ Grown(d, g, n, parent, name, type)
  BY AddSound
<1>. HIDE DEF g, n
<1>2. DiskOK(d) /\ TreeOK(d) /\ TreeOK(g)
  BY <1>1 DEF Sound
<1>3. IsDir(d, parent) /\ parent \in Live(d)
  BY DirLive DEF CanAdd
<1>4. /\ n \in Live(g) /\ VacantIn(TreeOf(d), PathTo(g, n))
      /\ Front(PathTo(g, n)) = PathTo(d, parent)
      /\ TreeOf(g) = Tree!With(TreeOf(d), PathTo(g, n),
                       IF type = "dir" THEN Tree!Dir ELSE Tree!File(<<>>))
  BY <1>1, <1>2, <1>3, GrownIsWith
<1>. QED
  BY <1>4 DEF g, n

LEMMA WriteTree ==
  ASSUME ~DELETE_AT_ROOT, NEW d, Sound(d), NEW n \in Node, IsFile(d, n),
         NEW data \in Seq(Byte), NEW g, g = fs_write(d, n, data)
  PROVE  /\ FileIn(TreeOf(d), PathTo(d, n))
         /\ ~CanWrite(d, n, data) => g = d
         /\ CanWrite(d, n, data) =>
              TreeOf(g) = Tree!With(TreeOf(d), PathTo(d, n), Tree!File(data))
<1>1. FileIn(TreeOf(d), PathTo(d, n))
  <2>1. TreeOK(d) /\ n \in Live(d)
    BY DirLive DEF Sound
  <2>2. PathTo(d, n) \in DOMAIN TreeOf(d) /\ TreeOf(d)[PathTo(d, n)] = Content(d, n)
    BY <2>1, TreeHolds
  <2>3. Content(d, n).kind = "file"
    BY DEF Content, IsDir, IsFile, Tree!File
  <2>. QED
    BY <2>2, <2>3 DEF FileIn
<1>2. ASSUME ~CanWrite(d, n, data) PROVE g = d
  BY <1>2 DEF fs_write
<1>3. ASSUME CanWrite(d, n, data)
      PROVE  TreeOf(g) = Tree!With(TreeOf(d), PathTo(d, n), Tree!File(data))
  <2>1. Sound(g) /\ Keeps(d, g, Node)
    BY WriteSound
  <2>2. Written(d, g, n, data)
    BY <1>3, WriteFacts DEF Sound
  <2>. QED
    BY <2>1, <2>2, WrittenIsWith
<1>. QED
  BY <1>1, <1>2, <1>3

LEMMA WithTwice ==
  ASSUME NEW t, NEW p, NEW v, NEW w
  PROVE  Tree!With(Tree!With(t, p, v), p, w) = Tree!With(t, p, w)
<1>. DEFINE a == Tree!With(t, p, v)
<1>1. a = [q \in DOMAIN t \cup {p} |-> IF q = p THEN v ELSE t[q]]
  BY DEF Tree!With
<1>2. DOMAIN a = DOMAIN t \cup {p} /\ \A q \in DOMAIN t : q # p => a[q] = t[q]
  BY <1>1
<1>. HIDE DEF a
<1>3. DOMAIN a \cup {p} = DOMAIN t \cup {p}
  BY <1>2
<1>4. Tree!With(a, p, w) = [q \in DOMAIN a \cup {p} |-> IF q = p THEN w ELSE a[q]]
  BY DEF Tree!With
<1>5. Tree!With(a, p, w) = [q \in DOMAIN t \cup {p} |-> IF q = p THEN w ELSE t[q]]
  BY <1>2, <1>3, <1>4
<1>. QED
  BY <1>5 DEF a, Tree!With

(* The file that echo and cp write to: one that was there, or a new one.   *)
LEMMA DestinationTree ==
  ASSUME ~DELETE_AT_ROOT, FilesInv, NEW p \in Paths,
         NEW made, made = Destination(disk, p).made,
         NEW target, target = Destination(disk, p).target
  PROVE  \/ made = disk /\ (target = FAIL \/ (target \in Node /\ IsFile(disk, target)))
         \/ /\ target \in Node /\ IsFile(made, target)
            /\ VacantIn(TreeOf(disk), PathTo(made, target))
            /\ TreeOf(made) = Tree!With(TreeOf(disk), PathTo(made, target), Tree!File(<<>>))
<1>. DEFINE found == Resolve(disk, p)
            parent == Resolve(disk, [p EXCEPT !.toks = Front(@)])
            name == Last(p.toks)
            new == fs_create_file(disk, parent, name)
            to == Destination(disk, p)
<1>1. to = IF found # FAIL
           THEN [made |-> disk, target |-> IF IsFile(disk, found) THEN found ELSE FAIL]
           ELSE IF p.slash \/ parent = FAIL \/ ~CanAdd(disk, parent, name)
           THEN [made |-> disk, target |-> FAIL]
           ELSE [made |-> new, target |-> IF Resolve(new, p) # FAIL /\ IsFile(new, Resolve(new, p))
                                         THEN Resolve(new, p) ELSE FAIL]
  BY DEF Destination, FileAt, LeadsTo
<1>2. made = to.made /\ target = to.target
  OBVIOUS
<1>. HIDE DEF to
<1>3. Sound(disk) /\ DiskOK(disk) /\ fs_cwd \in Live(disk) /\ fs_cwd \in Node /\ p \in PathSet
  BY CwdIsLive, PathFacts DEF FilesInv, Sound
<1>4. CASE found # FAIL
  <2>1. made = disk /\ target = IF IsFile(disk, found) THEN found ELSE FAIL
    BY <1>1, <1>2, <1>4
  <2>2. found \in Node
    BY <1>3, <1>4, ResolveInTable DEF Resolve
  <2>. HIDE DEF found
  <2>. QED
    BY <2>1, <2>2
<1>5. CASE found = FAIL /\ (p.slash \/ parent = FAIL \/ ~CanAdd(disk, parent, name))
  <2>1. made = disk /\ target = FAIL
    BY <1>1, <1>2, <1>5
  <2>. QED
    BY <2>1
<1>6. CASE found = FAIL /\ ~p.slash /\ parent # FAIL /\ CanAdd(disk, parent, name)
  <2>2. p.toks # <<>>
    BY <1>6, MissingHasTokens
  <2>3. PICK n : Grown(disk, new, n, parent, name, "file") /\ Resolve(new, p) = n
    BY <1>3, <1>6, <2>2, CreatedFound
  <2>1. made = new /\ target = Resolve(new, p)
    <3>. HIDE DEF new, parent, name
    <3>1. n # FAIL /\ IsFile(new, n)
      BY <2>3, Constants DEF Grown, IsFile
    <3>. QED
      BY <1>1, <1>2, <1>6, <2>3, <3>1
  <2>4. parent \in Node
    <3>1. [p EXCEPT !.toks = Front(@)] \in PathSet
      BY <1>3, <2>2, ParentPath
    <3>. QED
      BY <1>3, <1>6, <3>1, ResolveInTable DEF Resolve
  <2>. HIDE DEF parent, name
  <2>5. Sound(new) /\ Keeps(disk, new, Live(disk))
    BY <1>3, <2>4, CreateSound
  <2>. HIDE DEF new
  <2>6. TreeOK(disk) /\ TreeOK(new)
    BY <1>3, <2>5 DEF Sound
  <2>7. IsDir(disk, parent) /\ parent \in Live(disk)
    BY <1>6, <2>4, DirLive DEF CanAdd
  <2>8. PICK type \in {"dir", "file"} : type = "file"
    OBVIOUS
  <2>9. Grown(disk, new, n, parent, name, type)
    BY <2>3, <2>8
  <2>10. /\ n \in Live(new) /\ VacantIn(TreeOf(disk), PathTo(new, n))
         /\ TreeOf(new) = Tree!With(TreeOf(disk), PathTo(new, n),
                            IF type = "dir" THEN Tree!Dir ELSE Tree!File(<<>>))
    BY <1>3, <2>5, <2>6, <2>7, <2>9, GrownIsWith
  <2>11. n \in Node /\ IsFile(new, n)
    BY <2>3 DEF Grown, IsFile
  <2>12. target = n /\ made = new
    BY <2>1, <2>3
  <2>. QED
    BY <2>8, <2>10, <2>11, <2>12
<1>. QED
  BY <1>4, <1>5, <1>6

(* What data put to a path does to the tree: the file has it, when the     *)
(* write worked; else there is at most a new empty file.                   *)
LEMMA PutTree ==
  ASSUME ~DELETE_AT_ROOT, FilesInv, NEW p \in Paths, NEW data \in Seq(Byte),
         NEW g, g = Put(disk, p, data),
         NEW target, target = Destination(disk, p).target
  PROVE  LET t == TreeOf(disk)
             u == TreeOf(g.disk)
             q == PathTo(g.disk, target)
         IN  \/ /\ ~g.ok
                /\ u = t \/ \E r : VacantIn(t, r) /\ u = Tree!With(t, r, Tree!File(<<>>))
             \/ /\ g.ok /\ target \in Live(g.disk)
                /\ VacantIn(t, q) \/ FileIn(t, q)
                /\ u = Tree!With(t, q, Tree!File(data))
<1>. DEFINE made == Destination(disk, p).made
            wrote == fs_write(made, target, data)
            t == TreeOf(disk)
<1>1. Sound(disk) /\ fs_cwd \in Node
  BY DEF FilesInv
<1>2. Sound(made) /\ target \in Node \cup {FAIL}
  BY <1>1, DestinationSound
<1>3. \/ made = disk /\ (target = FAIL \/ (target \in Node /\ IsFile(disk, target)))
      \/ /\ target \in Node /\ IsFile(made, target)
         /\ VacantIn(t, PathTo(made, target))
         /\ TreeOf(made) = Tree!With(t, PathTo(made, target), Tree!File(<<>>))
  BY DestinationTree
<1>4. g = IF target = FAIL THEN [disk |-> made, ok |-> FALSE]
          ELSE [disk |-> wrote, ok |-> CanWrite(made, target, data)]
  BY DEF Put, WriteTo
<1>. HIDE DEF made, t, wrote
<1>5. CASE target = FAIL
  <2>1. g.disk = made /\ ~g.ok /\ made = disk
    BY <1>3, <1>4, <1>5, Constants
  <2>. QED
    BY <2>1 DEF t
<1>6. CASE target # FAIL
  <2>1. target \in Node /\ IsFile(made, target)
    BY <1>3, <1>6
  <2>2. g.disk = wrote /\ g.ok = CanWrite(made, target, data)
    BY <1>4, <1>6
  <2>. DEFINE r == PathTo(made, target)
  <2>3. /\ FileIn(TreeOf(made), r)
        /\ ~CanWrite(made, target, data) => wrote = made
        /\ CanWrite(made, target, data) =>
             TreeOf(wrote) = Tree!With(TreeOf(made), r, Tree!File(data))
    BY <1>2, <2>1, WriteTree DEF wrote
  <2>4. Sound(wrote) /\ Keeps(made, wrote, Node)
    BY <1>2, <2>1, WriteSound DEF wrote
  <2>5. target \in Live(wrote) /\ PathTo(wrote, target) = r
    <3>1. DiskOK(made) /\ TreeOK(made) /\ TreeOK(wrote) /\ Keeps(made, wrote, Live(made))
      BY <1>2, <2>4 DEF Sound, Keeps, Live
    <3>2. target \in Live(made)
      BY <2>1, DirLive
    <3>. QED
      BY <3>1, <3>2, AllKept
  <2>. HIDE DEF r
  <2>6. \/ TreeOf(made) = t
        \/ VacantIn(t, r) /\ TreeOf(made) = Tree!With(t, r, Tree!File(<<>>))
    BY <1>3, <1>6 DEF r, t
  <2>7. CASE ~CanWrite(made, target, data)
    <3>1. g.disk = made /\ ~g.ok
      BY <2>2, <2>3, <2>7
    <3>. QED
      BY <2>6, <3>1 DEF t
  <2>8. CASE CanWrite(made, target, data)
    <3>1. g.disk = wrote /\ g.ok
      BY <2>2, <2>8
    <3>2. VacantIn(t, r) \/ FileIn(t, r)
      BY <2>3, <2>6
    <3>3. TreeOf(wrote) = Tree!With(t, r, Tree!File(data))
      BY <2>3, <2>6, <2>8, WithTwice
    <3>. QED
      BY <2>5, <3>1, <3>2, <3>3 DEF t
  <2>. QED
    BY <2>7, <2>8
<1>. QED
  BY <1>5, <1>6

LEMMA CwdPathKept ==
  ASSUME ~DELETE_AT_ROOT, FilesInv, Sound(disk'), Keeps(disk, disk', Live(disk)), UNCHANGED fs_cwd
  PROVE  PathTo(disk', fs_cwd') = PathTo(disk, fs_cwd)
<1>1. DiskOK(disk) /\ TreeOK(disk) /\ TreeOK(disk') /\ fs_cwd \in Live(disk)
  BY CwdIsLive DEF FilesInv, Sound
<1>2. PathTo(disk', fs_cwd) = PathTo(disk, fs_cwd)
  BY <1>1, AllKept
<1>. QED
  BY <1>2

(* mkdir and touch *)
LEMMA MakeEffect ==
  ASSUME ~DELETE_AT_ROOT, FilesInv, NEW name, NEW g,
         g \in {fs_mkdir_child(disk, fs_cwd, name), fs_create_file(disk, fs_cwd, name)}
  PROVE  Effect(TreeOf(disk), TreeOf(g), PathTo(disk, fs_cwd))
<1>. DEFINE t == TreeOf(disk)
            c == PathTo(disk, fs_cwd)
<1>1. CASE CanAdd(disk, fs_cwd, name)
  <2>1. PICK type \in {"dir", "file"} : g = Link(disk, fs_cwd, name, type)
    BY <1>1 DEF fs_mkdir_child, fs_create_file
  <2>2. PICK q : /\ VacantIn(t, q)
                 /\ TreeOf(g) = Tree!With(t, q, IF type = "dir" THEN Tree!Dir ELSE Tree!File(<<>>))
    BY <1>1, <2>1, AddTree DEF FilesInv
  <2>3. TreeOf(g) \in {Tree!With(t, q, Tree!Dir), Tree!With(t, q, Tree!File(<<>>))}
    BY <2>2
  <2>. HIDE DEF t, c
  <2>4. Effect(t, TreeOf(g), c)
    BY <2>2, <2>3 DEF Effect
  <2>. QED
    BY <2>4 DEF t, c
<1>2. CASE ~CanAdd(disk, fs_cwd, name)
  <2>1. g = disk
    BY <1>2 DEF fs_mkdir_child, fs_create_file
  <2>. QED
    BY <2>1 DEF Effect
<1>. QED
  BY <1>1, <1>2

(* rm and rmdir *)
LEMMA RemoveEffect ==
  ASSUME ~DELETE_AT_ROOT, FilesInv, NEW n \in Node, n \notin {Root, fs_cwd}, InScope(n)
  PROVE  LET g == fs_delete(disk, n)
         IN  /\ Effect(TreeOf(disk), TreeOf(g), PathTo(disk, fs_cwd))
             /\ PathTo(g, fs_cwd) = PathTo(disk, fs_cwd)
<1>. DEFINE g == fs_delete(disk, n)
            t == TreeOf(disk)
            c == PathTo(disk, fs_cwd)
            p == PathTo(disk, n)
<1>1. Sound(disk) /\ TreeOK(disk) /\ fs_cwd \in Live(disk) \ {n} /\ disk.node[n].parent # Root
  BY CwdIsLive DEF FilesInv, Sound, InScope
<1>2. CASE CanDelete(disk, n)
  <2>1. TreeOf(g) = Tree!Without(t, p) /\ PathTo(g, fs_cwd) = c
    BY <1>1, <1>2, DeletedIsWithout
  <2>2. p \in DOMAIN t /\ p # <<>> /\ LeafIn(t, p)
    BY <1>1, <1>2, DeletedIsLeaf
  <2>3. p # c
    BY <1>1, <1>2, PathsApart DEF CanDelete, Live
  <2>. HIDE DEF g, t, c, p
  <2>4. Effect(t, TreeOf(g), c)
    BY <2>1, <2>2, <2>3 DEF Effect
  <2>. QED
    BY <2>1, <2>4 DEF g, t, c
<1>3. CASE ~CanDelete(disk, n)
  <2>1. g = disk
    BY <1>3 DEF fs_delete
  <2>. QED
    BY <2>1 DEF Effect
<1>. QED
  BY <1>2, <1>3

(* echo and cp *)
LEMMA PutEffect ==
  ASSUME ~DELETE_AT_ROOT, FilesInv, NEW p \in Paths, NEW data \in Seq(Byte),
         \/ data \in Texts
         \/ \E s : FileIn(TreeOf(disk), s) /\ TreeOf(disk)[s] = Tree!File(data)
  PROVE  Effect(TreeOf(disk), TreeOf(Put(disk, p, data).disk), PathTo(disk, fs_cwd))
<1>. DEFINE t == TreeOf(disk)
            c == PathTo(disk, fs_cwd)
            g == Put(disk, p, data)
            u == TreeOf(g.disk)
            target == Destination(disk, p).target
            q == PathTo(g.disk, target)
<1>1. \/ u = t \/ \E r : VacantIn(t, r) /\ u = Tree!With(t, r, Tree!File(<<>>))
      \/ /\ VacantIn(t, q) \/ FileIn(t, q)
         /\ u = Tree!With(t, q, Tree!File(data))
  <2>. DEFINE h == g
              to == target
  <2>1. h = Put(disk, p, data) /\ to = Destination(disk, p).target
    OBVIOUS
  <2>. HIDE DEF h, to
  <2>2. LET x == TreeOf(disk)
            y == TreeOf(h.disk)
            z == PathTo(h.disk, to)
        IN  \/ /\ ~h.ok
               /\ y = x \/ \E r : VacantIn(x, r) /\ y = Tree!With(x, r, Tree!File(<<>>))
            \/ /\ h.ok /\ to \in Live(h.disk)
               /\ VacantIn(x, z) \/ FileIn(x, z)
               /\ y = Tree!With(x, z, Tree!File(data))
    BY <2>1, PutTree
  <2>. QED
    BY <2>2 DEF h, to
<1>2. \/ data \in Texts
      \/ \E s : FileIn(t, s) /\ t[s] = Tree!File(data)
  OBVIOUS
<1>. HIDE DEF t, c, u, q
<1>3. Effect(t, u, c)
  BY <1>1, <1>2 DEF Effect
<1>. QED
  BY <1>3 DEF t, c, u

(* wget and mamu: a file made in the current directory, then perhaps a     *)
(* text in the file that the argument leads to, which may be another one.  *)
LEMMA SaveEffect ==
  ASSUME ~DELETE_AT_ROOT, FilesInv, NEW name,
         NEW made \in {disk, fs_create_file(disk, fs_cwd, name)},
         NEW out \in Node, NEW text \in Texts,
         NEW g, g = made \/ (IsFile(made, out) /\ g = fs_write(made, out, text))
  PROVE  Effect(TreeOf(disk), TreeOf(g), PathTo(disk, fs_cwd))
<1>. DEFINE t == TreeOf(disk)
            c == PathTo(disk, fs_cwd)
<1>1. Effect(t, TreeOf(made), c)
  <2>1. CASE made = disk
    BY <2>1 DEF Effect
  <2>2. CASE made = fs_create_file(disk, fs_cwd, name)
    BY <2>2, MakeEffect
  <2>. QED
    BY <2>1, <2>2
<1>2. Sound(made) /\ text \in Seq(Byte)
  BY CreateSound, CommandAssumption DEF FilesInv
<1>3. CASE g = made
  BY <1>1, <1>3
<1>4. CASE IsFile(made, out) /\ g = fs_write(made, out, text)
  <2>. DEFINE r == PathTo(made, out)
  <2>1. /\ FileIn(TreeOf(made), r)
        /\ ~CanWrite(made, out, text) => g = made
        /\ CanWrite(made, out, text) => TreeOf(g) = Tree!With(TreeOf(made), r, Tree!File(text))
    BY <1>2, <1>4, WriteTree
  <2>. HIDE DEF r
  <2>2. CASE ~CanWrite(made, out, text)
    BY <1>1, <2>1, <2>2
  <2>3. CASE CanWrite(made, out, text) /\ made = disk
    <3>1. FileIn(t, r) /\ TreeOf(g) = Tree!With(t, r, Tree!File(text))
      BY <2>1, <2>3
    <3>. HIDE DEF t, c
    <3>2. Effect(t, TreeOf(g), c)
      BY <3>1 DEF Effect
    <3>. QED
      BY <3>2 DEF t, c
  <2>4. CASE CanWrite(made, out, text) /\ made # disk
    <3>1. CanAdd(disk, fs_cwd, name)
      BY <2>4 DEF fs_create_file
    <3>2. PICK type \in {"dir", "file"} : type = "file"
      OBVIOUS
    <3>3. made = Link(disk, fs_cwd, name, type)
      BY <2>4, <3>1, <3>2 DEF fs_create_file
    <3>4. PICK q : /\ VacantIn(t, q) /\ Front(q) = c
                   /\ TreeOf(made) = Tree!With(t, q, IF type = "dir" THEN Tree!Dir
                                                     ELSE Tree!File(<<>>))
      BY <3>1, <3>3, AddTree DEF FilesInv
    <3>5. TreeOf(made) = Tree!With(t, q, Tree!File(<<>>))
      BY <3>2, <3>4
    <3>6. TreeOf(g) = Tree!With(Tree!With(t, q, Tree!File(<<>>)), r, Tree!File(text))
      BY <2>1, <2>4, <3>5
    <3>. HIDE DEF t, c
    <3>7. CASE r = q
      <4>1. TreeOf(g) = Tree!With(t, q, Tree!File(text))
        BY <3>6, <3>7, WithTwice
      <4>2. Effect(t, TreeOf(g), c)
        BY <3>4, <4>1 DEF Effect
      <4>. QED
        BY <4>2 DEF t, c
    <3>8. CASE r # q
      <4>1. FileIn(t, r)
        BY <2>1, <3>5, <3>8 DEF FileIn, Tree!With
      <4>2. Effect(t, TreeOf(g), c)
        BY <3>4, <3>6, <4>1 DEF Effect
      <4>. QED
        BY <4>2 DEF t, c
    <3>. QED
      BY <3>7, <3>8
  <2>. QED
    BY <2>2, <2>3, <2>4
<1>. QED
  BY <1>3, <1>4

(* mv *)
LEMMA MoveEffect ==
  ASSUME ~DELETE_AT_ROOT, FilesInv, NEW s \in Paths, NEW p \in Paths, cmd_mv(s, p)
  PROVE  /\ Effect(TreeOf(disk), TreeOf(disk'), PathTo(disk, fs_cwd))
         /\ PathTo(disk', fs_cwd') = PathTo(disk, fs_cwd)
<1>. DEFINE src == Resolve(disk, s)
            data == fs_read(disk, src, DATA_CAP)
            g == Put(disk, p, data)
            made == Destination(disk, p).made
            target == Destination(disk, p).target
            t == TreeOf(disk)
            c == PathTo(disk, fs_cwd)
            a == PathTo(disk, src)
<1>1. /\ Sound(disk) /\ DiskOK(disk) /\ TreeOK(disk) /\ fs_cwd \in Node /\ fs_cwd \in Live(disk)
      /\ IsDir(disk, fs_cwd) /\ IsDir(disk, Root)
  BY CwdIsLive DEF FilesInv, Sound
<1>2. /\ src # FAIL /\ IsFile(disk, src) /\ src # Resolve(disk, p) /\ InScope(src)
      /\ disk' = IF g.ok THEN fs_delete(g.disk, src) ELSE g.disk
      /\ UNCHANGED fs_cwd
  BY DEF cmd_mv, Moved, IsSource, CopyFile
<1>3. src \in Node
  BY <1>1, <1>2, PathFacts, ResolveInTable DEF Resolve
<1>. HIDE DEF src
<1>4. src \in Live(disk) /\ src # fs_cwd /\ src # Root
  BY <1>1, <1>2, <1>3, DirLive DEF IsFile, IsDir
<1>5. data \in Seq(Byte)
  BY <1>1, <1>2, <1>3, ReadBytes
<1>6. FileIn(t, a) /\ t[a] = Tree!File(data)
  <2>1. a \in DOMAIN t /\ t[a] = Content(disk, src)
    BY <1>1, <1>4, TreeHolds
  <2>2. Content(disk, src) = Tree!File(data) /\ Tree!File(data).kind = "file"
    BY <1>2 DEF Content, IsFile, IsDir, Tree!File
  <2>. QED
    BY <2>1, <2>2 DEF FileIn
<1>. HIDE DEF data
<1>7. Sound(g.disk) /\ Keeps(disk, g.disk, Live(disk))
  BY <1>1, <1>5, PutSound
<1>8. CASE ~g.ok
  <2>1. disk' = g.disk
    BY <1>2, <1>8
  <2>2. PathTo(disk', fs_cwd') = c
    BY <1>2, <1>7, <2>1, CwdPathKept
  <2>3. \E x : FileIn(t, x) /\ t[x] = Tree!File(data)
    BY <1>6
  <2>4. Effect(t, TreeOf(g.disk), c)
    BY <1>5, <2>3, PutEffect
  <2>. QED
    BY <2>1, <2>2, <2>4
<1>9. CASE g.ok
  <2>. DEFINE h == g.disk
              q == PathTo(h, target)
  <2>1. target \in Live(h) /\ (VacantIn(t, q) \/ FileIn(t, q))
        /\ TreeOf(h) = Tree!With(t, q, Tree!File(data))
    <3>. DEFINE put == g
                to == target
    <3>1. put = Put(disk, p, data) /\ to = Destination(disk, p).target
      OBVIOUS
    <3>. HIDE DEF put, to
    <3>2. LET x == TreeOf(disk)
              y == TreeOf(put.disk)
              z == PathTo(put.disk, to)
          IN  \/ /\ ~put.ok
                 /\ y = x \/ \E r : VacantIn(x, r) /\ y = Tree!With(x, r, Tree!File(<<>>))
              \/ /\ put.ok /\ to \in Live(put.disk)
                 /\ VacantIn(x, z) \/ FileIn(x, z)
                 /\ y = Tree!With(x, z, Tree!File(data))
      BY <1>5, <3>1, PutTree
    <3>. QED
      BY <1>9, <3>2 DEF put, to
  <2>2. target # src
    <3>. DEFINE m == made
                to == target
    <3>1. m = Destination(disk, p).made /\ to = Destination(disk, p).target
      OBVIOUS
    <3>. HIDE DEF m, to
    <3>2. to # FAIL => to # src
      BY <1>2, <1>4, <3>1, CopyGoesElsewhere
    <3>3. to \in Live(h)
      BY <2>1 DEF to
    <3>4. to # FAIL
      BY <3>3, Constants DEF Live
    <3>. QED
      BY <3>2, <3>4 DEF to
  <2>3. disk' = fs_delete(h, src)
    BY <1>2, <1>9
  <2>4. Sound(h) /\ Keeps(disk, h, Live(disk)) /\ TreeOK(h)
    BY <1>7 DEF Sound
  <2>. HIDE DEF h, g, target, made
  <2>5. /\ \A m \in Live(disk) : m \in Live(h) /\ PathTo(h, m) = PathTo(disk, m)
    BY <1>1, <2>4, AllKept
  <2>6. src \in Live(h) /\ PathTo(h, src) = a /\ PathTo(h, fs_cwd) = c
        /\ fs_cwd \in Live(h) \ {src}
    BY <1>1, <1>4, <2>5
  <2>7. q # a
    BY <2>1, <2>2, <2>4, <2>6, PathsApart
  <2>8. CanDelete(h, src) /\ h.node[src].parent # Root /\ CanDelete(disk, src)
    <3>1. /\ h.node[src].type = disk.node[src].type
          /\ h.node[src].parent = disk.node[src].parent
      BY <1>4, <2>4 DEF Keeps
    <3>. QED
      BY <1>2, <1>4, <3>1 DEF CanDelete, IsFile, IsDir, InScope
  <2>9. /\ TreeOf(disk') = Tree!Without(TreeOf(h), PathTo(h, src))
        /\ \A m \in Live(h) \ {src} : PathTo(disk', m) = PathTo(h, m)
    BY <1>3, <2>3, <2>4, <2>8, DeletedIsWithout
  <2>10. a # <<>> /\ LeafIn(t, a)
    BY <1>1, <1>3, <2>8, DeletedIsLeaf
  <2>11. a # c
    BY <1>1, <1>4, PathsApart
  <2>12. PathTo(disk', fs_cwd') = c
    BY <1>2, <2>6, <2>9
  <2>. HIDE DEF t, a, c, q
  <2>13. TreeOf(disk') = Tree!Without(Tree!With(t, q, t[a]), a)
    BY <1>6, <2>1, <2>6, <2>9
  <2>14. Effect(t, TreeOf(disk'), c)
    BY <1>6, <2>1, <2>7, <2>10, <2>11, <2>13 DEF Effect
  <2>. QED
    BY <2>12, <2>14 DEF t, c
<1>. QED
  BY <1>8, <1>9

LEMMA CommandSteps ==
  ASSUME ~DELETE_AT_ROOT, FilesInv, NEW p \in Paths,
         cmd_mkdir(p) \/ cmd_touch(p) \/ cmd_cd(p) \/ cmd_rm(p) \/ cmd_rmdir(p)
  PROVE  [Tree!Next]_<<TreeOf(disk), PathTo(disk, fs_cwd)>>
<1>1. /\ Sound(disk) /\ DiskOK(disk) /\ TreeOK(disk)
      /\ fs_cwd \in Node /\ {Root, fs_cwd} \subseteq Live(disk)
  BY CwdIsLive DEF FilesInv, Sound
<1>2. Resolve(disk, p) \in Node \cup {FAIL}
  BY <1>1, PathFacts, ResolveInTable DEF Resolve
<1>3. CASE cmd_mkdir(p) \/ cmd_touch(p)
  <2>. DEFINE name == RawName(p)
  <2>1. /\ disk' \in {fs_mkdir_child(disk, fs_cwd, name), fs_create_file(disk, fs_cwd, name)}
        /\ UNCHANGED fs_cwd
    BY <1>3 DEF cmd_mkdir, cmd_touch
  <2>. HIDE DEF name
  <2>2. Sound(disk') /\ Keeps(disk, disk', Live(disk))
    BY <1>1, <2>1, MkdirSound, CreateSound
  <2>3. PathTo(disk', fs_cwd') = PathTo(disk, fs_cwd)
    BY <2>1, <2>2, CwdPathKept
  <2>4. Effect(TreeOf(disk), TreeOf(disk'), PathTo(disk, fs_cwd))
    BY <2>1, MakeEffect
  <2>. QED
    BY <1>1, <2>3, <2>4, EffectIsStep
<1>4. CASE cmd_cd(p)
  <2>1. /\ fs_cwd' \in Node /\ IsDir(disk, fs_cwd') /\ disk' = disk
    BY <1>2, <1>4 DEF cmd_cd
  <2>. DEFINE q == PathTo(disk, fs_cwd')
  <2>2. q \in DOMAIN TreeOf(disk) /\ TreeOf(disk)[q] = Tree!Dir
    BY <1>1, <2>1, DirLive, TreeHolds DEF Content
  <2>3. q = PathTo(disk', fs_cwd') /\ TreeOf(disk') = TreeOf(disk)
    BY <2>1
  <2>. HIDE DEF q
  <2>4. Tree!ChangeDir(q)
    BY <2>2, <2>3 DEF Tree!ChangeDir
  <2>. QED
    BY <2>2, <2>4 DEF Tree!Next
<1>5. CASE cmd_rm(p) \/ cmd_rmdir(p)
  <2>. DEFINE n == Resolve(disk, p)
  <2>1. /\ n \notin {FAIL, Root, fs_cwd} /\ InScope(n)
        /\ disk' = fs_delete(disk, n) /\ UNCHANGED fs_cwd
    BY <1>5 DEF cmd_rm, cmd_rmdir
  <2>2. n \in Node
    BY <1>2, <2>1
  <2>. HIDE DEF n
  <2>3. /\ Effect(TreeOf(disk), TreeOf(disk'), PathTo(disk, fs_cwd))
        /\ PathTo(disk', fs_cwd') = PathTo(disk, fs_cwd)
    BY <2>1, <2>2, RemoveEffect
  <2>. QED
    BY <1>1, <2>3, EffectIsStep
<1>. QED
  BY <1>3, <1>4, <1>5

LEMMA WriterSteps ==
  ASSUME ~DELETE_AT_ROOT, FilesInv, NEW p \in Paths, NEW text \in Texts,
         cmd_echo(text, p) \/ cmd_wget(text, p) \/ mamu_save(text, p)
  PROVE  [Tree!Next]_<<TreeOf(disk), PathTo(disk, fs_cwd)>>
<1>. DEFINE name == RawName(p)
            created == fs_create_file(disk, fs_cwd, name)
<1>1. Sound(disk) /\ DiskOK(disk) /\ TreeOK(disk) /\ fs_cwd \in Node
  BY DEF FilesInv, Sound
<1>2. text \in Seq(Byte) /\ p \in PathSet
  BY CommandAssumption, PathFacts
<1>3. Sound(created) /\ Keeps(disk, created, Live(disk))
  BY <1>1, CreateSound
<1>. HIDE DEF name
<1>4. ASSUME NEW made \in {disk, created}, NEW out \in Node,
             disk' = made \/ (IsFile(made, out) /\ disk' = fs_write(made, out, text)),
             UNCHANGED fs_cwd
      PROVE  [Tree!Next]_<<TreeOf(disk), PathTo(disk, fs_cwd)>>
  <2>1. Effect(TreeOf(disk), TreeOf(disk'), PathTo(disk, fs_cwd))
    BY <1>4, SaveEffect
  <2>2. Sound(made) /\ Keeps(disk, made, Live(disk))
    BY <1>1, <1>3, KeepsItself
  <2>3. Sound(disk') /\ Keeps(disk, disk', Live(disk))
    <3>1. Sound(fs_write(made, out, text)) /\ Keeps(made, fs_write(made, out, text), Live(made))
      BY <1>2, <2>2, WriteSound DEF Keeps, Live
    <3>2. Keeps(disk, fs_write(made, out, text), Live(disk))
      BY <2>2, <3>1, KeepsTrans
    <3>. QED
      BY <1>4, <2>2, <3>1, <3>2
  <2>4. PathTo(disk', fs_cwd') = PathTo(disk, fs_cwd)
    BY <1>4, <2>3, CwdPathKept
  <2>. QED
    BY <1>1, <2>1, <2>4, EffectIsStep
<1>5. CASE cmd_echo(text, p)
  <2>1. disk' = Put(disk, p, text).disk /\ UNCHANGED fs_cwd
    BY <1>5 DEF cmd_echo
  <2>2. Sound(disk') /\ Keeps(disk, disk', Live(disk))
    BY <1>1, <1>2, <2>1, PutSound
  <2>3. PathTo(disk', fs_cwd') = PathTo(disk, fs_cwd)
    BY <2>1, <2>2, CwdPathKept
  <2>4. Effect(TreeOf(disk), TreeOf(disk'), PathTo(disk, fs_cwd))
    BY <1>2, <2>1, PutEffect
  <2>. QED
    BY <1>1, <2>3, <2>4, EffectIsStep
<1>6. CASE cmd_wget(text, p)
  <2>. DEFINE out == Resolve(created, p)
  <2>1. out \in Node \cup {FAIL}
    BY <1>1, <1>2, <1>3, ResolveInTable DEF Resolve, Sound
  <2>2. /\ disk' = IF out # FAIL /\ IsFile(created, out)
                   THEN fs_write(created, out, text) ELSE created
        /\ UNCHANGED fs_cwd
    BY <1>6 DEF cmd_wget, name
  <2>. HIDE DEF created, out
  <2>3. \E k \in Node : disk' = created
                        \/ (IsFile(created, k) /\ disk' = fs_write(created, k, text))
    BY <2>1, <2>2, Constants
  <2>. QED
    BY <1>4, <2>2, <2>3
<1>7. CASE mamu_save(text, p)
  <2>. DEFINE made == IF fs_resolve(disk, fs_cwd, p) = Root THEN created ELSE disk
              node == fs_resolve(made, fs_cwd, p)
  <2>1. Sound(made) /\ made \in {disk, created}
    BY <1>1, <1>3
  <2>2. /\ disk' = IF node # Root /\ IsFile(made, node) THEN fs_write(made, node, text) ELSE made
        /\ UNCHANGED fs_cwd
    BY <1>7 DEF mamu_save, name
  <2>. HIDE DEF made
  <2>3. node \in Node
    <3>1. fs_resolve_checked(made, fs_cwd, p) \in Node \cup {FAIL}
      BY <1>1, <1>2, <2>1, ResolveInTable DEF Sound
    <3>. QED
      BY <3>1, Constants DEF fs_resolve
  <2>. HIDE DEF node, created
  <2>. QED
    BY <1>4, <2>1, <2>2, <2>3
<1>. QED
  BY <1>5, <1>6, <1>7

LEMMA CopierSteps ==
  ASSUME ~DELETE_AT_ROOT, FilesInv, NEW p \in Paths, NEW s \in Paths,
         cmd_cp(s, p) \/ cmd_mv(s, p)
  PROVE  [Tree!Next]_<<TreeOf(disk), PathTo(disk, fs_cwd)>>
<1>1. Sound(disk) /\ DiskOK(disk) /\ TreeOK(disk) /\ fs_cwd \in Node
  BY DEF FilesInv, Sound
<1>2. CASE cmd_cp(s, p)
  <2>. DEFINE src == Resolve(disk, s)
              data == fs_read(disk, src, DATA_CAP)
              a == PathTo(disk, src)
  <2>1. /\ src # FAIL /\ IsFile(disk, src)
        /\ disk' = Put(disk, p, data).disk /\ UNCHANGED fs_cwd
    BY <1>2 DEF cmd_cp, IsSource, CopyFile
  <2>2. src \in Node
    BY <1>1, <2>1, PathFacts, ResolveInTable DEF Resolve
  <2>. HIDE DEF src
  <2>3. src \in Live(disk) /\ data \in Seq(Byte)
    BY <1>1, <2>1, <2>2, DirLive, ReadBytes
  <2>4. FileIn(TreeOf(disk), a) /\ TreeOf(disk)[a] = Tree!File(data)
    <3>1. a \in DOMAIN TreeOf(disk) /\ TreeOf(disk)[a] = Content(disk, src)
      BY <1>1, <2>3, TreeHolds
    <3>2. Content(disk, src) = Tree!File(data) /\ Tree!File(data).kind = "file"
      BY <2>1 DEF Content, IsFile, IsDir, Tree!File
    <3>. QED
      BY <3>1, <3>2 DEF FileIn
  <2>. HIDE DEF data, a
  <2>5. Sound(disk') /\ Keeps(disk, disk', Live(disk))
    BY <1>1, <2>1, <2>3, PutSound
  <2>6. PathTo(disk', fs_cwd') = PathTo(disk, fs_cwd)
    BY <2>1, <2>5, CwdPathKept
  <2>7. Effect(TreeOf(disk), TreeOf(disk'), PathTo(disk, fs_cwd))
    BY <2>1, <2>3, <2>4, PutEffect
  <2>. QED
    BY <1>1, <2>6, <2>7, EffectIsStep
<1>3. CASE cmd_mv(s, p)
  BY <1>1, <1>3, MoveEffect, EffectIsStep
<1>. QED
  BY <1>2, <1>3

LEMMA TreeStarts ==
  ASSUME ~DELETE_AT_ROOT, Init
  PROVE  Tree!Init
<1>1. /\ Sound(disk) /\ TreeOK(disk) /\ DiskOK(disk) /\ fs_cwd = Root
      /\ \A n \in Node : ~IsFile(disk, n)
  BY InitSound DEF Init, Sound
<1>. DEFINE t == TreeOf(disk)
            L == Live(disk)
            P(n) == PathTo(disk, n)
            up(n) == disk.node[n].parent
<1>2. ASSUME NEW n \in L PROVE Content(disk, n) = Tree!Dir
  <2>1. n \in Node /\ disk.node[n].type \in {"free", "dir", "file"} /\ disk.node[n].type # "free"
    BY <1>1 DEF Live, DiskOK, NodeOK
  <2>2. IsDir(disk, n)
    BY <1>1, <2>1 DEF IsDir, IsFile
  <2>. QED
    BY <2>2 DEF Content
<1>3. /\ Root \in L /\ P(Root) = <<>>
      /\ \A n \in L \ {Root} : Front(P(n)) = P(up(n))
  BY <1>1, PathsApart
<1>4. \A n \in L \ {Root} : up(n) \in L
  BY <1>1, DirLive DEF TreeOK, DiskOK, NodeOK, Live
<1>5. DOMAIN t = {P(n) : n \in L} /\ \A n \in L : t[P(n)] = Content(disk, n)
  BY <1>1, TreeHolds
<1>6. \A q : Tree!Front(q) = Front(q)
  BY DEF Front, Tree!Front
<1>7. PathTo(disk, fs_cwd) = <<>>
  BY <1>1, <1>3
<1>8. <<>> \in DOMAIN TreeOf(disk)
  BY <1>3, <1>5
<1>9. ASSUME NEW p \in DOMAIN TreeOf(disk)
      PROVE  TreeOf(disk)[p] = Tree!Dir /\ (p # <<>> => Tree!Front(p) \in DOMAIN TreeOf(disk))
  <2>1. PICK n \in L : p = P(n)
    BY <1>5
  <2>2. t[p] = Tree!Dir
    BY <1>2, <1>5, <2>1
  <2>3. p # <<>> => n \in L \ {Root}
    BY <1>3, <2>1
  <2>4. p # <<>> => Front(p) \in DOMAIN t
    BY <1>3, <1>4, <1>5, <2>1, <2>3
  <2>. QED
    BY <1>6, <2>2, <2>4
<1>. QED
  BY <1>7, <1>8, <1>9 DEF Tree!Init

(* As long as nothing in the root is deleted, every command of the shell,  *)
(* and the editor's save, acts on the tree of names as one operation of    *)
(* FileTree or leaves it alone, whatever the node table, the chains and    *)
(* the data pool do underneath, and however it fails half way.             *)
THEOREM CommandsActOnTree ==
  ASSUME ~DELETE_AT_ROOT
  PROVE  Spec => CommandsKeepTree
<1>1. Init => Tree!Init
  BY TreeStarts
<1>2. FilesInv /\ [Next]_vars => [Tree!Next]_<<TreeOf(disk), PathTo(disk, fs_cwd)>>
  <2>. SUFFICES ASSUME FilesInv, [Next]_vars
                PROVE  [Tree!Next]_<<TreeOf(disk), PathTo(disk, fs_cwd)>>
    OBVIOUS
  <2>1. CASE cmd_cd_home
    <3>1. /\ TreeOK(disk) /\ IsDir(disk, Root) /\ Root \in Live(disk)
          /\ disk' = disk /\ fs_cwd' = Root
      BY <2>1, CwdIsLive DEF cmd_cd_home, FilesInv, Sound
    <3>. DEFINE q == PathTo(disk, Root)
    <3>2. q \in DOMAIN TreeOf(disk) /\ TreeOf(disk)[q] = Tree!Dir
      BY <3>1, TreeHolds DEF Content
    <3>3. q = PathTo(disk', fs_cwd') /\ TreeOf(disk') = TreeOf(disk)
      BY <3>1
    <3>. HIDE DEF q
    <3>4. Tree!ChangeDir(q)
      BY <3>2, <3>3 DEF Tree!ChangeDir
    <3>. QED
      BY <3>2, <3>4 DEF Tree!Next
  <2>2. CASE \E p \in Paths :
               cmd_mkdir(p) \/ cmd_touch(p) \/ cmd_cd(p) \/ cmd_rm(p) \/ cmd_rmdir(p)
    BY <2>2, CommandSteps
  <2>3. CASE \E p \in Paths, text \in Texts :
               cmd_echo(text, p) \/ cmd_wget(text, p) \/ mamu_save(text, p)
    BY <2>3, WriterSteps
  <2>4. CASE \E p \in Paths, s \in Paths : cmd_cp(s, p) \/ cmd_mv(s, p)
    BY <2>4, CopierSteps
  <2>5. CASE UNCHANGED vars
    BY <2>5 DEF vars
  <2>. QED
    BY <2>1, <2>2, <2>3, <2>4, <2>5 DEF Next
<1>. QED
  BY <1>1, <1>2, FilesInductive, PTL DEF Spec, CommandsKeepTree, Tree!Spec

-----------------------------------------------------------------------------
(* Where the tree changes *)

LEMMA TouchedNothing ==
  ASSUME NEW t
  PROVE  Tree!Touched(t, t) = {}
  BY DEF Tree!Touched

LEMMA TouchedWith ==
  ASSUME NEW t, NEW p, NEW v
  PROVE  Tree!Touched(t, Tree!With(t, p, v)) \subseteq {p}
<1>. DEFINE u == Tree!With(t, p, v)
<1>1. u = [q \in DOMAIN t \cup {p} |-> IF q = p THEN v ELSE t[q]]
  BY DEF Tree!With
<1>2. DOMAIN u = DOMAIN t \cup {p} /\ \A q \in DOMAIN t : q # p => u[q] = t[q]
  BY <1>1
<1>. HIDE DEF u
<1>3. Tree!Touched(t, u) \subseteq {p}
  BY <1>2 DEF Tree!Touched
<1>. QED
  BY <1>3 DEF u

LEMMA TouchedWithout ==
  ASSUME NEW t, NEW p
  PROVE  Tree!Touched(t, Tree!Without(t, p)) \subseteq {p}
<1>. DEFINE u == Tree!Without(t, p)
<1>1. u = [q \in DOMAIN t \ {p} |-> t[q]]
  BY DEF Tree!Without
<1>2. DOMAIN u = DOMAIN t \ {p} /\ \A q \in DOMAIN u : u[q] = t[q]
  BY <1>1
<1>. HIDE DEF u
<1>3. Tree!Touched(t, u) \subseteq {p}
  BY <1>2 DEF Tree!Touched
<1>. QED
  BY <1>3 DEF u

LEMMA TouchedTwice ==
  ASSUME NEW t, NEW u, NEW w
  PROVE  Tree!Touched(t, w) \subseteq Tree!Touched(t, u) \cup Tree!Touched(u, w)
  BY DEF Tree!Touched

(* A new entry of the current directory. *)
LEMMA MakeTouches ==
  ASSUME ~DELETE_AT_ROOT, FilesInv, NEW name, NEW g,
         g \in {fs_mkdir_child(disk, fs_cwd, name), fs_create_file(disk, fs_cwd, name)}
  PROVE  Tree!Touched(TreeOf(disk), TreeOf(g)) \subseteq {Append(PathTo(disk, fs_cwd), name)}
<1>1. Sound(disk) /\ DiskOK(disk) /\ TreeOK(disk) /\ fs_cwd \in Node /\ fs_cwd \in Live(disk)
  BY CwdIsLive DEF FilesInv, Sound
<1>2. CASE CanAdd(disk, fs_cwd, name)
  <2>1. PICK type \in {"dir", "file"} : g = Link(disk, fs_cwd, name, type)
    BY <1>2 DEF fs_mkdir_child, fs_create_file
  <2>. DEFINE n == Min(FreeNodes(disk))
  <2>2. Sound(g) /\ Keeps(disk, g, Live(disk)) /\ Grown(disk, g, n, fs_cwd, name, type)
    BY <1>1, <1>2, <2>1, AddSound
  <2>3. PICK q : /\ q = PathTo(g, n) /\ n \in Live(g)
                 /\ TreeOf(g) = Tree!With(TreeOf(disk), q,
                                  IF type = "dir" THEN Tree!Dir ELSE Tree!File(<<>>))
    BY <1>1, <1>2, <2>1, AddTree
  <2>. HIDE DEF n
  <2>4. TreeOK(g)
    BY <2>2 DEF Sound
  <2>5. n \in Live(g) \ {Root} /\ g.node[n].parent = fs_cwd /\ g.node[n].name = name
    BY <2>2, <2>3 DEF Grown
  <2>6. PathTo(g, n) = Append(PathTo(g, fs_cwd), name)
    BY <2>4, <2>5, BuildPath
  <2>7. PathTo(g, fs_cwd) = PathTo(disk, fs_cwd)
    BY <1>1, <2>2, <2>4, AllKept
  <2>8. Tree!Touched(TreeOf(disk), TreeOf(g)) \subseteq {q}
    BY <2>3, TouchedWith
  <2>. QED
    BY <2>3, <2>6, <2>7, <2>8
<1>3. CASE ~CanAdd(disk, fs_cwd, name)
  <2>1. g = disk
    BY <1>3 DEF fs_mkdir_child, fs_create_file
  <2>. QED
    BY <2>1, TouchedNothing
<1>. QED
  BY <1>2, <1>3

LEMMA DeleteTouches ==
  ASSUME ~DELETE_AT_ROOT, NEW d, Sound(d), NEW n \in Node, d.node[n].parent # Root
  PROVE  Tree!Touched(TreeOf(d), TreeOf(fs_delete(d, n))) \subseteq {PathTo(d, n)}
<1>1. CASE CanDelete(d, n)
  <2>1. TreeOf(fs_delete(d, n)) = Tree!Without(TreeOf(d), PathTo(d, n))
    BY <1>1, DeletedIsWithout
  <2>. QED
    BY <2>1, TouchedWithout
<1>2. CASE ~CanDelete(d, n)
  <2>1. fs_delete(d, n) = d
    BY <1>2 DEF fs_delete
  <2>. QED
    BY <2>1, TouchedNothing
<1>. QED
  BY <1>1, <1>2

(* A write changes the tree at the file, and a path that led there does    *)
(* so afterwards.                                                          *)
LEMMA WriteTouches ==
  ASSUME ~DELETE_AT_ROOT, NEW d, Sound(d), fs_cwd \in Live(d), NEW p \in PathSet,
         NEW n \in Node, Resolve(d, p) = n, IsFile(d, n), NEW data \in Seq(Byte),
         NEW g, g = fs_write(d, n, data)
  PROVE  /\ Tree!Touched(TreeOf(d), TreeOf(g)) \subseteq {PathTo(d, n)}
         /\ LedTo(g, p) = {PathTo(d, n)}
<1>1. /\ ~CanWrite(d, n, data) => g = d
      /\ CanWrite(d, n, data) =>
           TreeOf(g) = Tree!With(TreeOf(d), PathTo(d, n), Tree!File(data))
  BY WriteTree
<1>2. Tree!Touched(TreeOf(d), TreeOf(g)) \subseteq {PathTo(d, n)}
  <2>1. CASE CanWrite(d, n, data)
    BY <1>1, <2>1, TouchedWith
  <2>2. CASE ~CanWrite(d, n, data)
    BY <1>1, <2>2, TouchedNothing
  <2>. QED
    BY <2>1, <2>2
<1>3. Sound(g) /\ Keeps(d, g, Node)
  BY WriteSound
<1>4. /\ DiskOK(d) /\ TreeOK(d) /\ DiskOK(g) /\ TreeOK(g) /\ Keeps(d, g, Live(d))
      /\ n \in Live(d) /\ n # FAIL
  BY <1>3, DirLive, Constants DEF Sound, Keeps, Live
<1>5. Resolve(g, p) = n
  BY <1>4, ResolveKept
<1>6. PathTo(g, n) = PathTo(d, n)
  BY <1>4, AllKept
<1>7. LedTo(g, p) = {PathTo(g, n)}
  BY <1>4, <1>5 DEF LedTo
<1>. QED
  BY <1>2, <1>6, <1>7

(* Data put to a path changes the tree where the path then leads. *)
LEMMA PutTouches ==
  ASSUME ~DELETE_AT_ROOT, FilesInv, NEW p \in Paths, NEW data \in Seq(Byte),
         NEW g, g = Put(disk, p, data).disk
  PROVE  Tree!Touched(TreeOf(disk), TreeOf(g)) \subseteq LedTo(g, p)
<1>. DEFINE made == Destination(disk, p).made
            target == Destination(disk, p).target
            t == TreeOf(disk)
<1>1. Sound(disk) /\ fs_cwd \in Node /\ fs_cwd \in Live(disk) /\ p \in PathSet
  BY CwdIsLive, PathFacts DEF FilesInv
<1>2. Sound(made) /\ Keeps(disk, made, Live(disk)) /\ target \in Node \cup {FAIL}
  BY <1>1, DestinationSound
<1>3. \/ made = disk /\ (target = FAIL \/ (target \in Node /\ IsFile(disk, target)))
      \/ /\ target \in Node /\ IsFile(made, target)
         /\ TreeOf(made) = Tree!With(t, PathTo(made, target), Tree!File(<<>>))
  BY DestinationTree
<1>4. g = IF target = FAIL THEN made ELSE fs_write(made, target, data)
  BY DEF Put, WriteTo
<1>5. target # FAIL => target = Resolve(made, p)
  BY DEF Destination, FileAt, LeadsTo
<1>. HIDE DEF made, target
<1>6. fs_cwd \in Live(made)
  BY <1>1, <1>2 DEF Keeps, Live
<1>7. CASE target = FAIL
  <2>1. g = disk
    BY <1>3, <1>4, <1>7, Constants
  <2>. QED
    BY <2>1, TouchedNothing
<1>8. CASE target # FAIL
  <2>1. target \in Node /\ IsFile(made, target) /\ Resolve(made, p) = target
    BY <1>3, <1>5, <1>8
  <2>2. g = fs_write(made, target, data)
    BY <1>4, <1>8
  <2>3. /\ Tree!Touched(TreeOf(made), TreeOf(g)) \subseteq {PathTo(made, target)}
        /\ LedTo(g, p) = {PathTo(made, target)}
    BY <1>1, <1>2, <1>6, <2>1, <2>2, WriteTouches
  <2>4. Tree!Touched(t, TreeOf(made)) \subseteq {PathTo(made, target)}
    BY <1>3, <1>8, TouchedNothing, TouchedWith
  <2>5. Tree!Touched(t, TreeOf(g)) \subseteq
          Tree!Touched(t, TreeOf(made)) \cup Tree!Touched(TreeOf(made), TreeOf(g))
    BY TouchedTwice
  <2>. HIDE DEF t
  <2>6. Tree!Touched(t, TreeOf(g)) \subseteq {PathTo(made, target)}
    BY <2>3, <2>4, <2>5
  <2>. QED
    BY <2>3, <2>6 DEF t
<1>. QED
  BY <1>7, <1>8

(* A file made in the current directory, then a text in the file that the  *)
(* argument leads to.                                                      *)
LEMMA SaveTouches ==
  ASSUME ~DELETE_AT_ROOT, FilesInv, NEW p \in Paths, NEW text \in Texts,
         NEW made \in {disk, fs_create_file(disk, fs_cwd, RawName(p))},
         NEW out \in Node,
         NEW g, \/ g = made
                \/ Resolve(made, p) = out /\ IsFile(made, out) /\ g = fs_write(made, out, text)
  PROVE  Tree!Touched(TreeOf(disk), TreeOf(g)) \subseteq
           LedTo(g, p) \cup {Append(PathTo(disk, fs_cwd), RawName(p))}
<1>. DEFINE beside == Append(PathTo(disk, fs_cwd), RawName(p))
            name == RawName(p)
            t == TreeOf(disk)
<1>1. /\ Sound(disk) /\ fs_cwd \in Node /\ fs_cwd \in Live(disk)
      /\ p \in PathSet /\ text \in Seq(Byte)
  BY CwdIsLive, PathFacts, CommandAssumption DEF FilesInv
<1>2. Tree!Touched(t, TreeOf(made)) \subseteq {beside}
  <2>1. CASE made = disk
    BY <2>1, TouchedNothing
  <2>2. CASE made = fs_create_file(disk, fs_cwd, name)
    BY <2>2, MakeTouches
  <2>. QED
    BY <2>1, <2>2
<1>3. Sound(made) /\ Keeps(disk, made, Live(disk))
  <2>. HIDE DEF name
  <2>1. made \in {disk, fs_create_file(disk, fs_cwd, name)}
    BY DEF name
  <2>. QED
    BY <1>1, <2>1, CreateSound, KeepsItself
<1>4. fs_cwd \in Live(made)
  BY <1>1, <1>3 DEF Keeps, Live
<1>. HIDE DEF beside, t
<1>5. CASE g = made
  BY <1>2, <1>5 DEF beside, t
<1>6. CASE Resolve(made, p) = out /\ IsFile(made, out) /\ g = fs_write(made, out, text)
  <2>1. /\ Tree!Touched(TreeOf(made), TreeOf(g)) \subseteq {PathTo(made, out)}
        /\ LedTo(g, p) = {PathTo(made, out)}
    BY <1>1, <1>3, <1>4, <1>6, WriteTouches
  <2>2. Tree!Touched(t, TreeOf(g)) \subseteq
          Tree!Touched(t, TreeOf(made)) \cup Tree!Touched(TreeOf(made), TreeOf(g))
    BY TouchedTwice
  <2>3. Tree!Touched(t, TreeOf(g)) \subseteq LedTo(g, p) \cup {beside}
    BY <1>2, <2>1, <2>2
  <2>. QED
    BY <2>3 DEF beside, t
<1>. QED
  BY <1>5, <1>6

LEMMA RemoverTouches ==
  ASSUME ~DELETE_AT_ROOT, FilesInv, NEW p \in Paths, cmd_rm(p) \/ cmd_rmdir(p)
  PROVE  Tree!Touched(TreeOf(disk), TreeOf(disk')) \subseteq LedTo(disk, p)
<1>. DEFINE n == Resolve(disk, p)
<1>1. n # FAIL /\ InScope(n) /\ disk' = fs_delete(disk, n)
  BY DEF cmd_rm, cmd_rmdir
<1>2. Sound(disk) /\ DiskOK(disk) /\ fs_cwd \in Node
  BY DEF FilesInv, Sound
<1>3. n \in Node
  BY <1>1, <1>2, PathFacts, ResolveInTable DEF Resolve
<1>4. LedTo(disk, p) = {PathTo(disk, n)}
  BY <1>1 DEF LedTo
<1>. HIDE DEF n
<1>. QED
  BY <1>1, <1>2, <1>3, <1>4, DeleteTouches DEF InScope

LEMMA SaverTouches ==
  ASSUME ~DELETE_AT_ROOT, FilesInv, NEW p \in Paths, NEW text \in Texts,
         cmd_wget(text, p) \/ mamu_save(text, p)
  PROVE  Tree!Touched(TreeOf(disk), TreeOf(disk')) \subseteq
           LedTo(disk', p) \cup {Append(PathTo(disk, fs_cwd), RawName(p))}
<1>. DEFINE created == fs_create_file(disk, fs_cwd, RawName(p))
            touched == Tree!Touched(TreeOf(disk), TreeOf(disk'))
            allowed == LedTo(disk', p) \cup {Append(PathTo(disk, fs_cwd), RawName(p))}
<1>1. Sound(disk) /\ DiskOK(disk) /\ fs_cwd \in Node /\ p \in PathSet
  BY PathFacts DEF FilesInv, Sound
<1>2. Sound(created) /\ DiskOK(created)
  <2>. DEFINE name == RawName(p)
  <2>. HIDE DEF name
  <2>1. Sound(fs_create_file(disk, fs_cwd, name))
    BY <1>1, CreateSound
  <2>. QED
    BY <2>1 DEF Sound, name
<1>3. ASSUME NEW made \in {disk, created}, NEW out \in Node,
             \/ disk' = made
             \/ Resolve(made, p) = out /\ IsFile(made, out) /\ disk' = fs_write(made, out, text)
      PROVE  touched \subseteq allowed
  BY <1>3, SaveTouches
<1>. SUFFICES touched \subseteq allowed
  OBVIOUS
<1>. HIDE DEF touched, allowed
<1>4. CASE cmd_wget(text, p)
  <2>. DEFINE out == Resolve(created, p)
  <2>1. out \in Node \cup {FAIL}
    BY <1>1, <1>2, ResolveInTable DEF Resolve
  <2>2. disk' = IF out # FAIL /\ IsFile(created, out)
                THEN fs_write(created, out, text) ELSE created
    BY <1>4 DEF cmd_wget
  <2>3. CASE out # FAIL /\ IsFile(created, out)
    <3>. DEFINE o == out
    <3>1. o \in Node /\ Resolve(created, p) = o /\ IsFile(created, o)
          /\ disk' = fs_write(created, o, text)
      BY <2>1, <2>2, <2>3
    <3>. HIDE DEF o, created
    <3>. QED
      BY <1>3, <3>1
  <2>4. CASE ~(out # FAIL /\ IsFile(created, out))
    <3>1. disk' = created /\ Root \in Node
      BY <2>2, <2>4, Constants
    <3>. HIDE DEF created
    <3>. QED
      BY <1>3, <3>1
  <2>. QED
    BY <2>3, <2>4
<1>5. CASE mamu_save(text, p)
  <2>. DEFINE made == IF fs_resolve(disk, fs_cwd, p) = Root THEN created ELSE disk
              node == fs_resolve(made, fs_cwd, p)
  <2>1. DiskOK(made) /\ made \in {disk, created}
    BY <1>1, <1>2
  <2>2. disk' = IF node # Root /\ IsFile(made, node) THEN fs_write(made, node, text) ELSE made
    BY <1>5 DEF mamu_save
  <2>. HIDE DEF made
  <2>3. node \in Node /\ (node # Root => Resolve(made, p) = node)
    <3>1. fs_resolve_checked(made, fs_cwd, p) \in Node \cup {FAIL}
      BY <1>1, <2>1, ResolveInTable
    <3>. QED
      BY <3>1, Constants DEF fs_resolve, Resolve
  <2>. HIDE DEF node, created
  <2>. QED
    BY <1>3, <2>1, <2>2, <2>3
<1>. QED
  BY <1>4, <1>5

LEMMA CopierTouches ==
  ASSUME ~DELETE_AT_ROOT, FilesInv, NEW p \in Paths, NEW s \in Paths, IsSource(s),
         NEW g, g = CopyFile(s, p).disk
  PROVE  /\ Tree!Touched(TreeOf(disk), TreeOf(g)) \subseteq LedTo(g, p)
         /\ Sound(g) /\ Keeps(disk, g, Live(disk))
<1>. DEFINE src == Resolve(disk, s)
            data == fs_read(disk, src, DATA_CAP)
<1>1. Sound(disk) /\ DiskOK(disk) /\ fs_cwd \in Node
  BY DEF FilesInv, Sound
<1>2. src # FAIL /\ IsFile(disk, src) /\ g = Put(disk, p, data).disk
  BY DEF IsSource, CopyFile
<1>3. src \in Node
  BY <1>1, <1>2, PathFacts, ResolveInTable DEF Resolve
<1>. HIDE DEF src
<1>4. data \in Seq(Byte)
  BY <1>1, <1>2, <1>3, ReadBytes
<1>. HIDE DEF data
<1>. QED
  BY <1>1, <1>2, <1>4, PutTouches, PutSound

LEMMA MoverTouches ==
  ASSUME ~DELETE_AT_ROOT, FilesInv, NEW p \in Paths, NEW s \in Paths, cmd_mv(s, p)
  PROVE  Tree!Touched(TreeOf(disk), TreeOf(disk')) \subseteq
           LedTo(disk, s) \cup LedTo(CopyFile(s, p).disk, p)
<1>. DEFINE src == Resolve(disk, s)
            copy == CopyFile(s, p)
            g == copy.disk
            t == TreeOf(disk)
<1>1. /\ IsSource(s) /\ src # FAIL /\ IsFile(disk, src) /\ InScope(src)
      /\ disk' = IF copy.ok THEN fs_delete(g, src) ELSE g
  BY DEF cmd_mv, Moved, IsSource
<1>2. Sound(disk) /\ DiskOK(disk) /\ TreeOK(disk) /\ fs_cwd \in Node
  BY DEF FilesInv, Sound
<1>3. src \in Node
  BY <1>1, <1>2, PathFacts, ResolveInTable DEF Resolve
<1>4. LedTo(disk, s) = {PathTo(disk, src)}
  BY <1>1 DEF LedTo
<1>5. Tree!Touched(t, TreeOf(g)) \subseteq LedTo(g, p) /\ Sound(g) /\ Keeps(disk, g, Live(disk))
  <2>. DEFINE h == g
  <2>1. h = CopyFile(s, p).disk
    OBVIOUS
  <2>. HIDE DEF h
  <2>2. Tree!Touched(TreeOf(disk), TreeOf(h)) \subseteq LedTo(h, p)
        /\ Sound(h) /\ Keeps(disk, h, Live(disk))
    BY <1>1, <2>1, CopierTouches
  <2>. QED
    BY <2>2 DEF h
<1>. HIDE DEF src, copy, g
<1>6. src \in Live(disk)
  BY <1>1, <1>3, DirLive
<1>7. TreeOK(g) /\ PathTo(g, src) = PathTo(disk, src)
  BY <1>2, <1>5, <1>6, AllKept DEF Sound
<1>8. g.node[src].parent # Root
  BY <1>1, <1>5, <1>6 DEF Keeps, InScope
<1>9. Tree!Touched(TreeOf(g), TreeOf(fs_delete(g, src))) \subseteq {PathTo(disk, src)}
  BY <1>3, <1>5, <1>7, <1>8, DeleteTouches
<1>10. Tree!Touched(t, TreeOf(disk')) \subseteq
         Tree!Touched(t, TreeOf(g)) \cup Tree!Touched(TreeOf(g), TreeOf(disk'))
  BY TouchedTwice
<1>. HIDE DEF t
<1>11. Tree!Touched(t, TreeOf(disk')) \subseteq LedTo(disk, s) \cup LedTo(g, p)
  <2>1. CASE copy.ok
    <3>1. disk' = fs_delete(g, src)
      BY <1>1, <2>1
    <3>. QED
      BY <1>4, <1>5, <1>9, <1>10, <3>1
  <2>2. CASE ~copy.ok
    <3>1. disk' = g
      BY <1>1, <2>2
    <3>. QED
      BY <1>5, <3>1
  <2>. QED
    BY <2>1, <2>2
<1>. QED
  BY <1>11 DEF t, copy, g

(* As long as nothing in the root is deleted, no command changes the tree  *)
(* anywhere but where its own arguments lead, or, for the commands that    *)
(* take their argument's text as a name, at that name in the current       *)
(* directory: whichever of the ramdisk's calls fails half way.             *)
THEOREM ArgumentsOnly ==
  ASSUME ~DELETE_AT_ROOT
  PROVE  Spec => TouchesItsArguments
<1>. DEFINE touched == Tree!Touched(TreeOf(disk), TreeOf(disk'))
            Beside(p) == Append(PathTo(disk, fs_cwd), RawName(p))
            A == disk' # disk => \A p \in Paths :
              /\ cmd_rm(p) \/ cmd_rmdir(p) => touched \subseteq LedTo(disk, p)
              /\ cmd_mkdir(p) \/ cmd_touch(p) => touched \subseteq {Beside(p)}
              /\ \A text \in Texts :
                   /\ cmd_echo(text, p) => touched \subseteq LedTo(disk', p)
                   /\ cmd_wget(text, p) \/ mamu_save(text, p) =>
                        touched \subseteq LedTo(disk', p) \cup {Beside(p)}
              /\ \A s \in Paths :
                   /\ cmd_cp(s, p) => touched \subseteq LedTo(disk', p)
                   /\ cmd_mv(s, p) =>
                        touched \subseteq LedTo(disk, s) \cup LedTo(CopyFile(s, p).disk, p)
<1>1. FilesInv => A
  <2>. SUFFICES ASSUME FilesInv, NEW p \in Paths
                PROVE  /\ cmd_rm(p) \/ cmd_rmdir(p) => touched \subseteq LedTo(disk, p)
                       /\ cmd_mkdir(p) \/ cmd_touch(p) => touched \subseteq {Beside(p)}
                       /\ \A text \in Texts :
                            /\ cmd_echo(text, p) => touched \subseteq LedTo(disk', p)
                            /\ cmd_wget(text, p) \/ mamu_save(text, p) =>
                                 touched \subseteq LedTo(disk', p) \cup {Beside(p)}
                       /\ \A s \in Paths :
                            /\ cmd_cp(s, p) => touched \subseteq LedTo(disk', p)
                            /\ cmd_mv(s, p) =>
                                 touched \subseteq LedTo(disk, s) \cup LedTo(CopyFile(s, p).disk, p)
    OBVIOUS
  <2>1. ASSUME cmd_rm(p) \/ cmd_rmdir(p) PROVE touched \subseteq LedTo(disk, p)
    BY <2>1, RemoverTouches
  <2>2. ASSUME cmd_mkdir(p) \/ cmd_touch(p) PROVE touched \subseteq {Beside(p)}
    <3>. DEFINE name == RawName(p)
    <3>1. disk' \in {fs_mkdir_child(disk, fs_cwd, name), fs_create_file(disk, fs_cwd, name)}
      BY <2>2 DEF cmd_mkdir, cmd_touch
    <3>. HIDE DEF name
    <3>2. touched \subseteq {Append(PathTo(disk, fs_cwd), name)}
      BY <3>1, MakeTouches
    <3>. QED
      BY <3>2 DEF name
  <2>3. ASSUME NEW text \in Texts, cmd_echo(text, p) PROVE touched \subseteq LedTo(disk', p)
    <3>1. disk' = Put(disk, p, text).disk /\ text \in Seq(Byte)
      BY <2>3, CommandAssumption DEF cmd_echo
    <3>. QED
      BY <3>1, PutTouches
  <2>4. ASSUME NEW text \in Texts, cmd_wget(text, p) \/ mamu_save(text, p)
        PROVE  touched \subseteq LedTo(disk', p) \cup {Beside(p)}
    BY <2>4, SaverTouches
  <2>5. ASSUME NEW s \in Paths, cmd_cp(s, p) PROVE touched \subseteq LedTo(disk', p)
    <3>1. IsSource(s) /\ disk' = CopyFile(s, p).disk
      BY <2>5 DEF cmd_cp
    <3>. QED
      BY <3>1, CopierTouches
  <2>6. ASSUME NEW s \in Paths, cmd_mv(s, p)
        PROVE  touched \subseteq LedTo(disk, s) \cup LedTo(CopyFile(s, p).disk, p)
    BY <2>6, MoverTouches
  <2>. HIDE DEF touched, Beside
  <2>. QED
    BY <2>1, <2>2, <2>3, <2>4, <2>5, <2>6
<1>2. TouchesItsArguments <=> [][A]_vars
  BY DEF TouchesItsArguments
<1>. HIDE DEF A
<1>3. FilesInv /\ [Next]_vars => [A]_vars
  BY <1>1
<1>. QED
  BY <1>2, <1>3, FilesInductive, PTL DEF Spec
=============================================================================
