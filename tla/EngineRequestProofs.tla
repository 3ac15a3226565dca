------------------------ MODULE EngineRequestProofs ------------------------
(***************************************************************************)
(* Theorems about the request half of the engine protocol, for every set   *)
(* of paths, requests and frames and every limit.                          *)
(*                                                                         *)
(* RequestFlow is the inductive invariant: what the phase of the stream    *)
(* says about the stage and the sealed tree, that the stage's entries are  *)
(* exactly what the directory holds, each after its parents (Made), and    *)
(* that TreeStream and Stage are at the same byte of the same file.        *)
(* HonestFlow adds where a client that follows the protocol is: which      *)
(* frame is next, what the running sums and the directory are.             *)
(***************************************************************************)
EXTENDS EngineRequest, SequenceTheorems, WellFoundedInduction, TLAPS

-----------------------------------------------------------------------------
(* Induction and recursion over the naturals up to n.  What is proved by     *)
(* induction is stated as a set, what is defined by recursion as a function. *)

\* A set of naturals that is not empty has a least element.
LEMMA LeastNumber ==
  ASSUME NEW S \in SUBSET Nat, S # {}
  PROVE  \E m \in S : \A n \in S : m <= n
<1> DEFINE R == OpToRel(<, Nat)
<1>1. IsWellFoundedOn(R, Nat)
  BY NatLessThanWellFounded
<1>2. \A x, y \in Nat : <<y, x>> \in R <=> y < x
  BY DEF OpToRel
<1> HIDE DEF R
<1>3. PICK m \in S : \A n \in S : ~(<<n, m>> \in R)
  BY <1>1, WFMin
<1>4. \A n \in S : m <= n
  <2> TAKE n \in S
  <2>1. m \in Nat /\ n \in Nat
    OBVIOUS
  <2>2. ~(n < m)
    BY <1>2, <1>3, <2>1
  <2> QED
    BY <2>1, <2>2
<1> QED
  BY <1>4

\* Induction up to n, for a set of naturals.
LEMMA UpTo ==
  ASSUME NEW n \in Nat, NEW S, 0 \in S, \A i \in 1 .. n : i - 1 \in S => i \in S
  PROVE  \A i \in 0 .. n : i \in S
<1> SUFFICES ASSUME ~ \A i \in 0 .. n : i \in S PROVE FALSE
  OBVIOUS
<1> DEFINE T == {i \in 0 .. n : i \notin S}
<1>1. T \in SUBSET Nat /\ T # {}
  OBVIOUS
<1>2. PICK m \in T : \A i \in T : m <= i
  <2> HIDE DEF T
  <2> QED
    BY <1>1, LeastNumber
<1>3. m \in 1 .. n /\ m - 1 \in 0 .. n
  BY <1>2
<1>4. m - 1 \in S
  BY <1>2, <1>3
<1> QED
  BY <1>2, <1>3, <1>4

\* f starts at b and goes on by F.
Follows(f, n, b, F) == f[0] = b /\ \A i \in 1 .. n : f[i] = F[<<i, f[i - 1]>>]

\* A recursive function of the numbers up to n exists.
LEMMA RecursionExists ==
  ASSUME NEW n \in Nat, NEW V, NEW b \in V, NEW F \in [(1 .. n) \X V -> V]
  PROVE  \E f \in [0 .. n -> V] : Follows(f, n, b, F)
<1> DEFINE S == {m \in 0 .. n : \E f \in [0 .. m -> V] : Follows(f, m, b, F)}
<1>1. 0 \in S
  <2> DEFINE f == [i \in 0 .. 0 |-> b]
  <2>1. f \in [0 .. 0 -> V] /\ Follows(f, 0, b, F)
    BY DEF Follows
  <2> QED
    BY <2>1
<1>2. ASSUME NEW m \in 1 .. n, m - 1 \in S PROVE m \in S
  <2>1. PICK g \in [0 .. (m - 1) -> V] : Follows(g, m - 1, b, F)
    BY <1>2
  <2> DEFINE f == [i \in 0 .. m |-> IF i = m THEN F[<<m, g[m - 1]>>] ELSE g[i]]
  <2>2. g[m - 1] \in V
    OBVIOUS
  <2>3. F[<<m, g[m - 1]>>] \in V
    BY <2>2
  <2>4. f \in [0 .. m -> V]
    BY <2>3
  <2>5. f[0] = b
    BY <2>1 DEF Follows
  <2>6. ASSUME NEW i \in 1 .. m PROVE f[i] = F[<<i, f[i - 1]>>]
    <3>1. CASE i = m
      <4>1. m \in 0 .. m /\ m - 1 \in 0 .. m /\ m - 1 # m
        OBVIOUS
      <4>2. f[m] = F[<<m, g[m - 1]>>] /\ f[m - 1] = g[m - 1]
        BY <4>1
      <4> HIDE DEF f
      <4> QED
        BY <3>1, <4>2
    <3>2. CASE i # m
      <4>1. i \in 1 .. (m - 1) /\ i - 1 \in 0 .. m /\ i - 1 # m
        BY <3>2
      <4> QED
        BY <2>1, <3>2, <4>1 DEF Follows
    <3> QED
      BY <3>1, <3>2
  <2>7. Follows(f, m, b, F)
    <3> HIDE DEF f
    <3> QED
      BY <2>5, <2>6 DEF Follows
  <2> HIDE DEF f
  <2> QED
    BY <2>4, <2>7
<1>3. n \in S
  <2> HIDE DEF S
  <2> QED
    BY <1>1, <1>2, UpTo
<1> QED
  BY <1>3

-----------------------------------------------------------------------------
(* Total                                                                   *)

\* f holds the totals of the beginnings of s.
Sums(f, s) ==
    /\ f \in [0 .. Len(s) -> Nat]
    /\ f[0] = 0
    /\ \A i \in 1 .. Len(s) : f[i] = f[i - 1] + s[i]

\* Total is the last of the running sums.
LEMMA TotalSums ==
  ASSUME NEW s \in Seq(Nat)
  PROVE  \E f : Sums(f, s) /\ Total(s) = f[Len(s)]
<1> DEFINE n == Len(s)
           F == [x \in (1 .. n) \X Nat |-> x[2] + s[x[1]]]
           IsUpto(f) == f = [i \in 0 .. n |-> IF i = 0 THEN 0 ELSE f[i - 1] + s[i]]
<1>1. n \in Nat /\ \A i \in 1 .. n : s[i] \in Nat
  OBVIOUS
<1>2. F \in [(1 .. n) \X Nat -> Nat]
  BY <1>1
<1>3. PICK g \in [0 .. n -> Nat] : Follows(g, n, 0, F)
  <2> HIDE DEF F
  <2> QED
    BY <1>1, <1>2, RecursionExists
<1>4. IsUpto(g)
  <2>1. ASSUME NEW i \in 0 .. n PROVE g[i] = IF i = 0 THEN 0 ELSE g[i - 1] + s[i]
    <3>1. CASE i = 0
      BY <1>3, <3>1 DEF Follows
    <3>2. CASE i # 0
      <4>1. i \in 1 .. n /\ g[i - 1] \in Nat
        BY <3>2
      <4>2. g[i] = F[<<i, g[i - 1]>>]
        BY <1>3, <4>1 DEF Follows
      <4> QED
        BY <3>2, <4>1, <4>2
    <3> QED
      BY <3>1, <3>2
  <2> QED
    BY <2>1
<1> DEFINE f == CHOOSE h : IsUpto(h)
<1>5. IsUpto(f)
  BY <1>4
<1>6. Total(s) = f[n]
  BY Zenon DEF Total
<1> HIDE DEF f
<1>7. DOMAIN f = 0 .. n /\ f[0] = 0 /\ \A i \in 1 .. n : f[i] = f[i - 1] + s[i]
  BY <1>1, <1>5, SMTT(30)
<1>8. \A i \in 0 .. n : f[i] \in Nat
  <2> DEFINE S == {i \in 0 .. n : f[i] \in Nat}
  <2>1. 0 \in S
    BY <1>1, <1>7
  <2>2. ASSUME NEW i \in 1 .. n, i - 1 \in S PROVE i \in S
    BY <1>1, <1>7, <2>2
  <2>3. \A i \in 0 .. n : i \in S
    <3> HIDE DEF S
    <3> QED
      BY <1>1, <2>1, <2>2, UpTo
  <2> QED
    BY <2>3
<1>9. f \in [0 .. n -> Nat]
  <2>1. f = [i \in 0 .. n |-> f[i]]
    BY <1>5, <1>7
  <2> QED
    BY <1>8, <2>1
<1> QED
  BY <1>6, <1>7, <1>9 DEF Sums

\* A total of naturals is a natural.
LEMMA TotalIsNatural ==
  ASSUME NEW s \in Seq(Nat)
  PROVE  Total(s) \in Nat
BY TotalSums DEF Sums

\* The total of no numbers is 0.
LEMMA TotalOfNothing ==
  ASSUME NEW s \in Seq(Nat), Len(s) = 0
  PROVE  Total(s) = 0
BY TotalSums DEF Sums

\* The totals of two sequences that begin alike are alike so far.
LEMMA SumsAgree ==
  ASSUME NEW s \in Seq(Nat), NEW t \in Seq(Nat), NEW f, NEW g, Sums(f, s), Sums(g, t),
         Len(s) <= Len(t), \A i \in 1 .. Len(s) : s[i] = t[i]
  PROVE  \A i \in 0 .. Len(s) : f[i] = g[i]
<1> DEFINE S == {i \in 0 .. Len(s) : f[i] = g[i]}
<1>1. 0 \in S
  BY DEF Sums
<1>2. ASSUME NEW i \in 1 .. Len(s), i - 1 \in S PROVE i \in S
  <2>1. i \in 1 .. Len(t)
    OBVIOUS
  <2>2. f[i] = f[i - 1] + s[i] /\ g[i] = g[i - 1] + t[i]
    BY <2>1 DEF Sums
  <2> QED
    BY <1>2, <2>2
<1>3. \A i \in 0 .. Len(s) : i \in S
  <2>1. Len(s) \in Nat
    OBVIOUS
  <2> HIDE DEF S
  <2> QED
    BY <1>1, <1>2, <2>1, UpTo
<1> QED
  BY <1>3

\* One more number adds itself.
LEMMA TotalGrows ==
  ASSUME NEW s \in Seq(Nat), NEW t \in Seq(Nat), Len(t) = Len(s) + 1,
         \A i \in 1 .. Len(s) : s[i] = t[i]
  PROVE  Total(t) = Total(s) + t[Len(t)]
<1>1. PICK f : Sums(f, s) /\ Total(s) = f[Len(s)]
  BY TotalSums
<1>2. PICK g : Sums(g, t) /\ Total(t) = g[Len(t)]
  BY TotalSums
<1>3. f[Len(s)] = g[Len(s)]
  BY <1>1, <1>2, SumsAgree
<1>4. Len(t) \in 1 .. Len(t) /\ Len(t) - 1 = Len(s)
  OBVIOUS
<1>5. g[Len(t)] = g[Len(t) - 1] + t[Len(t)]
  BY <1>2, <1>4 DEF Sums
<1> QED
  BY <1>1, <1>2, <1>3, <1>4, <1>5

\* A beginning has no larger total than the whole.
LEMMA TotalOfBeginning ==
  ASSUME NEW s \in Seq(Nat), NEW t \in Seq(Nat), Len(s) <= Len(t),
         \A i \in 1 .. Len(s) : s[i] = t[i]
  PROVE  Total(s) <= Total(t)
<1>1. PICK f : Sums(f, s) /\ Total(s) = f[Len(s)]
  BY TotalSums
<1>2. PICK g : Sums(g, t) /\ Total(t) = g[Len(t)]
  BY TotalSums
<1>3. f[Len(s)] = g[Len(s)]
  BY <1>1, <1>2, SumsAgree
<1> DEFINE n == Len(t) - Len(s)
           S == {i \in 0 .. n : g[Len(s)] <= g[Len(s) + i]}
<1>4. n \in Nat
  OBVIOUS
<1>5. 0 \in S
  BY <1>2, SMTT(30) DEF Sums
<1>6. ASSUME NEW i \in 1 .. n, i - 1 \in S PROVE i \in S
  <2>1. Len(s) + i \in 1 .. Len(t) /\ Len(s) + (i - 1) = (Len(s) + i) - 1
    OBVIOUS
  <2>2. g[Len(s) + i] = g[Len(s) + (i - 1)] + t[Len(s) + i] /\ t[Len(s) + i] \in Nat
    BY <1>2, <2>1 DEF Sums
  <2>3. g[Len(s)] \in Nat /\ g[Len(s) + (i - 1)] \in Nat
    <3>1. Len(s) \in 0 .. Len(t) /\ Len(s) + (i - 1) \in 0 .. Len(t)
      OBVIOUS
    <3> QED
      BY <1>2, <3>1 DEF Sums
  <2> QED
    BY <1>6, <2>2, <2>3
<1>7. n \in S
  <2> HIDE DEF S, n
  <2> QED
    BY <1>4, <1>5, <1>6, UpTo, SMTT(30)
<1> QED
  BY <1>1, <1>2, <1>3, <1>7
-----------------------------------------------------------------------------
(* The staging directory: what was made in it, and its removal.            *)

NodeTypes == {Dir} \cup [kind : {"File"}, data : Content]

IsDisk(d) == d \in [DOMAIN d -> NodeTypes]

\* d is a directory tree in which nothing but its root and es was made, every
\* one of es after its parents, which are directories.
Made(d, es) ==
    /\ es \in Seq(Paths)
    /\ DOMAIN d = {Root} \cup ToSet(es)
    /\ d[Root] = Dir
    /\ \A i \in DOMAIN es : es[i] # Root
    /\ \A i, j \in DOMAIN es : es[i] = es[j] => i = j
    /\ \A i \in DOMAIN es : \A k \in 1 .. Len(es[i]) - 1 :
          \E j \in 1 .. i - 1 : es[j] = SubSeq(es[i], 1, k) /\ d[es[j]] = Dir

\* f holds what is left of d when some of the paths, in their order, are removed.
Leaves(f, d, paths) ==
    f[0] = d /\ \A i \in 1 .. Len(paths) : f[i] = Unlink(f[i - 1], paths[i])

\* UnlinkAll removes the paths one after the other.
LEMMA UnlinkAllSteps ==
  ASSUME NEW d, IsDisk(d), NEW paths, Len(paths) \in Nat
  PROVE  \E f : Leaves(f, d, paths) /\ UnlinkAll(d, paths) = f[Len(paths)]
<1> DEFINE n == Len(paths)
           N == NodeTypes
           E == DOMAIN d
           V == UNION {[G -> N] : G \in SUBSET E}
           F == [x \in (1 .. n) \X V |-> Unlink(x[2], paths[x[1]])]
           IsLeft(f) ==
             f = [k \in 0 .. n |-> IF k = 0 THEN d ELSE Unlink(f[k - 1], paths[k])]
<1>1. d \in V
  BY DEF IsDisk
<1> HIDE DEF N, E
<1>2. ASSUME NEW v \in V, NEW path PROVE Unlink(v, path) \in V
  <2>1. PICK G \in SUBSET E : v \in [G -> N]
    OBVIOUS
  <2>2. [p \in DOMAIN v \ {path} |-> v[p]] \in [G \ {path} -> N]
    BY <2>1
  <2>3. G \ {path} \in SUBSET E
    BY <2>1
  <2>4. [p \in DOMAIN v \ {path} |-> v[p]] \in V
    BY <2>2, <2>3
  <2> HIDE DEF V
  <2> QED
    BY <2>4 DEF Unlink
<1>3. F \in [(1 .. n) \X V -> V]
  <2> HIDE DEF V, n
  <2> QED
    BY <1>2
<1>4. PICK g \in [0 .. n -> V] : Follows(g, n, d, F)
  <2> HIDE DEF V, F
  <2> QED
    BY <1>1, <1>3, RecursionExists
<1> HIDE DEF V
<1>5. IsLeft(g)
  <2>1. ASSUME NEW i \in 0 .. n
        PROVE  g[i] = IF i = 0 THEN d ELSE Unlink(g[i - 1], paths[i])
    <3>1. CASE i = 0
      BY <1>4, <3>1 DEF Follows
    <3>2. CASE i # 0
      <4>1. i \in 1 .. n /\ g[i - 1] \in V
        BY <3>2
      <4>2. g[i] = F[<<i, g[i - 1]>>]
        BY <1>4, <4>1 DEF Follows
      <4> QED
        BY <3>2, <4>1, <4>2
    <3> QED
      BY <3>1, <3>2
  <2> QED
    BY <2>1
<1> DEFINE f == CHOOSE h : IsLeft(h)
<1>6. IsLeft(f)
  <2> HIDE DEF IsLeft
  <2> QED
    BY <1>5
<1>7. UnlinkAll(d, paths) = f[n]
  BY Zenon DEF UnlinkAll
<1> HIDE DEF f
<1>8. f[0] = d /\ \A i \in 1 .. n : f[i] = Unlink(f[i - 1], paths[i])
  BY <1>6
<1> QED
  BY <1>7, <1>8 DEF Leaves

\* What has nothing below it is removed.
LEMMA UnlinkRemoves ==
  ASSUME NEW d, NEW path,
         \A p \in DOMAIN d : ~(Len(p) > Len(path) /\ SubSeq(p, 1, Len(path)) = path)
  PROVE  DOMAIN Unlink(d, path) = DOMAIN d \ {path}
BY DEF Unlink

\* Of what was made, nothing is made below something younger.
LEMMA MadeInOrder ==
  ASSUME NEW d, NEW es, Made(d, es), NEW i \in DOMAIN es, NEW j \in DOMAIN es,
         Len(es[j]) > Len(es[i]), SubSeq(es[j], 1, Len(es[i])) = es[i]
  PROVE  i < j
<1>1. es[i] \in Seq(STRING) /\ es[j] \in Seq(STRING) /\ es[i] # <<>>
  BY DEF Made, Paths, Root
<1>2. Len(es[i]) \in 1 .. Len(es[j]) - 1
  BY <1>1
<1>3. PICK m \in 1 .. j - 1 : es[m] = es[i]
  BY <1>2, SMTT(30) DEF Made
<1>4. m \in DOMAIN es /\ j \in Nat
  BY <1>3 DEF Made
<1>5. m = i
  BY <1>3, <1>4 DEF Made
<1> QED
  BY <1>3, <1>4, <1>5

\* A function on no values is the empty sequence.
LEMMA EmptyFunction ==
  ASSUME NEW S, NEW f \in [{} -> S]
  PROVE  f = <<>>
<1>1. {} = 1 .. 0
  OBVIOUS
<1>2. f \in [1 .. 0 -> S]
  BY <1>1
<1>3. f \in Seq(S) /\ DOMAIN f = 1 .. 0
  BY <1>2, SeqDef
<1>4. Len(f) = 0
  BY <1>3
<1> QED
  BY <1>3, <1>4, EmptySeq

\* OwnedTreeRoot leaves nothing of what was made.
LEMMA RemovedIsEmpty ==
  ASSUME NEW d, NEW es, IsDisk(d), Made(d, es)
  PROVE  Removed(d, es) = <<>>
<1> DEFINE n == Len(es)
           paths == Reverse(es)
<1>1. es \in Seq(Paths) /\ n \in Nat /\ DOMAIN es = 1 .. n
  BY DEF Made
<1>2. Len(paths) = n /\ \A k \in 1 .. n : paths[k] = es[(n - k) + 1]
  BY <1>1 DEF Reverse
<1>3. PICK f : Leaves(f, d, paths) /\ UnlinkAll(d, paths) = f[Len(paths)]
  <2>1. Len(paths) \in Nat
    BY <1>1, <1>2
  <2> HIDE DEF paths
  <2> QED
    BY <2>1, UnlinkAllSteps
<1>4. /\ f[0] = d
      /\ \A i \in 1 .. n : f[i] = Unlink(f[i - 1], paths[i])
      /\ UnlinkAll(d, paths) = f[n]
  <2> HIDE DEF paths
  <2> QED
    BY <1>2, <1>3 DEF Leaves
<1> DEFINE S == {k \in 0 .. n : DOMAIN f[k] = {Root} \cup {es[i] : i \in 1 .. n - k}}
<1>5. 0 \in S
  <2>1. ToSet(es) = {es[i] : i \in 1 .. n - 0}
    BY <1>1 DEF ToSet
  <2>2. DOMAIN f[0] = {Root} \cup ToSet(es)
    BY <1>4 DEF Made
  <2> QED
    BY <1>1, <2>1, <2>2
<1>6. ASSUME NEW k \in 1 .. n, k - 1 \in S PROVE k \in S
  <2> DEFINE m == (n - k) + 1
  <2>1. m \in 1 .. n /\ paths[k] = es[m] /\ n - (k - 1) = m /\ n - k = m - 1
    BY <1>1, <1>2
  <2>2. DOMAIN f[k - 1] = {Root} \cup {es[i] : i \in 1 .. m}
    BY <1>6, <2>1
  <2> HIDE DEF m, paths
  <2>3. ASSUME NEW p \in DOMAIN f[k - 1], Len(p) > Len(es[m]), SubSeq(p, 1, Len(es[m])) = es[m]
        PROVE  FALSE
    <3>1. CASE p = Root
      <4>1. Len(es[m]) \in Nat /\ Len(p) = 0
        BY <1>1, <2>1, <3>1 DEF Root, Paths
      <4> QED
        BY <2>3, <4>1
    <3>2. CASE p # Root
      <4>1. PICK i \in 1 .. m : p = es[i]
        BY <2>2, <3>2
      <4>2. i \in DOMAIN es /\ m \in DOMAIN es
        BY <1>1, <2>1, <4>1
      <4>3. m < i
        BY <2>3, <4>1, <4>2, MadeInOrder
      <4> QED
        BY <2>1, <4>1, <4>3
    <3> QED
      BY <3>1, <3>2
  <2>4. DOMAIN f[k] = DOMAIN f[k - 1] \ {es[m]}
    <3>1. f[k] = Unlink(f[k - 1], es[m])
      BY <1>4, <2>1
    <3> QED
      BY <2>3, <3>1, UnlinkRemoves
  <2>5. es[m] # Root /\ \A i \in 1 .. m : es[i] = es[m] <=> i = m
    BY <1>1, <2>1, SMTT(30) DEF Made
  <2>6. \A i : i \in 1 .. (m - 1) <=> i \in 1 .. m /\ i # m
    BY <2>1
  <2>7. DOMAIN f[k] = {Root} \cup {es[i] : i \in 1 .. (m - 1)}
    BY <2>2, <2>4, <2>5, <2>6
  <2> QED
    BY <2>1, <2>7
<1>7. n \in S
  <2> HIDE DEF S, n, paths
  <2> QED
    BY <1>1, <1>5, <1>6, UpTo
<1>8. DOMAIN f[n] = {Root}
  BY <1>1, <1>7
<1>9. Removed(d, es) = [p \in {} |-> f[n][p]]
  <2> DEFINE e == f[n]
  <2>1. \A p \in DOMAIN e : ~(Len(p) > Len(Root) /\ SubSeq(p, 1, Len(Root)) = Root)
    <3>1. ~(Len(Root) > Len(Root))
      BY DEF Root
    <3> QED
      BY <1>8, <3>1
  <2>2. Removed(d, es) = Unlink(e, Root)
    BY <1>4 DEF Removed
  <2>3. DOMAIN e \ {Root} = {}
    BY <1>8
  <2> HIDE DEF e
  <2>4. Unlink(e, Root) = [p \in {} |-> e[p]]
    BY <2>1, <2>3 DEF Unlink
  <2> QED
    BY <2>2, <2>4 DEF e
<1>10. [p \in {} |-> f[n][p]] \in [{} -> {}]
  OBVIOUS
<1> QED
  BY <1>9, <1>10, EmptyFunction
-----------------------------------------------------------------------------
(* Paths and their parents                                                 *)

\* The parents of a path are its proper beginnings, the shortest first.
LEMMA ParentsOf ==
  ASSUME NEW p \in DOMAIN PathOrder
  PROVE  LET path == PathOrder[p] IN
         /\ path \in Paths /\ path # Root /\ Len(path) \in Nat \ {0}
         /\ Parents(p) \in Seq(Paths) /\ Len(Parents(p)) = Len(path) - 1
         /\ DOMAIN Parents(p) = 1 .. (Len(path) - 1)
         /\ \A k \in 1 .. (Len(path) - 1) :
               Parents(p)[k] = SubSeq(path, 1, k) /\ Len(Parents(p)[k]) = k
<1> DEFINE path == PathOrder[p]
           n == Len(path) - 1
<1>1. path \in Paths /\ path # Root
  BY RequestAssumption DEF Root
<1>2. path \in Seq(STRING)
  BY <1>1 DEF Paths
<1>3. Len(path) \in Nat \ {0}
  BY <1>1, <1>2, EmptySeq DEF Root
<1>4. n \in Nat
  BY <1>3
<1>5. Parents(p) = [k \in 1 .. n |-> SubSeq(path, 1, k)]
  BY DEF Parents
<1> HIDE DEF path
<1>6. \A k \in 1 .. n : SubSeq(path, 1, k) \in Seq(STRING) /\ Len(SubSeq(path, 1, k)) = k
  BY <1>2, <1>3
<1>7. Parents(p) \in [1 .. n -> Paths]
  BY <1>5, <1>6 DEF Paths
<1>8. Parents(p) \in Seq(Paths)
  BY <1>4, <1>7, SeqDef
<1>9. Len(Parents(p)) = n
  BY <1>4, <1>7, <1>8
<1> QED
  BY <1>1, <1>3, <1>5, <1>6, <1>7, <1>8, <1>9 DEF path

\* Every proper beginning of a beginning of a path is one of its parents.
LEMMA ParentOfParent ==
  ASSUME NEW p \in DOMAIN PathOrder, NEW k \in DOMAIN Parents(p), NEW m \in 1 .. k
  PROVE  SubSeq(Parents(p)[k], 1, m) = Parents(p)[m]
<1> DEFINE path == PathOrder[p]
<1>1. path \in Seq(STRING) /\ Len(path) \in Nat \ {0} /\ k \in 1 .. (Len(path) - 1)
  BY ParentsOf DEF Paths
<1>2. Parents(p)[k] = SubSeq(path, 1, k) /\ Parents(p)[m] = SubSeq(path, 1, m)
  BY <1>1, ParentsOf
<1> HIDE DEF path
<1>3. SubSeq(SubSeq(path, 1, k), 1, m) = SubSeq(path, 1, m)
  <2> DEFINE s == SubSeq(path, 1, k)
  <2>1. s \in Seq(STRING) /\ Len(s) = k /\ \A i \in 1 .. k : s[i] = path[i]
    BY <1>1
  <2> HIDE DEF s
  <2>2. /\ SubSeq(s, 1, m) \in Seq(STRING) /\ Len(SubSeq(s, 1, m)) = m
        /\ \A i \in 1 .. m : SubSeq(s, 1, m)[i] = path[i]
    BY <1>1, <2>1
  <2>3. /\ SubSeq(path, 1, m) \in Seq(STRING) /\ Len(SubSeq(path, 1, m)) = m
        /\ \A i \in 1 .. m : SubSeq(path, 1, m)[i] = path[i]
    BY <1>1
  <2>4. SubSeq(s, 1, m) = SubSeq(path, 1, m)
    BY <2>2, <2>3, SeqEqual
  <2> QED
    BY <2>4 DEF s
<1> QED
  BY <1>2, <1>3

\* A bounded set of naturals has a greatest element.
LEMMA MaxOf ==
  ASSUME NEW n \in Nat, NEW S \in SUBSET (0 .. n), S # {}
  PROVE  Max(S) \in S /\ \A m \in S : m <= Max(S)
<1> DEFINE T == {k \in Nat : n - k \in S}
<1>1. T \in SUBSET Nat /\ T # {}
  <2>1. PICK m \in S : TRUE
    OBVIOUS
  <2>2. n - m \in Nat /\ n - (n - m) = m
    BY <2>1
  <2> QED
    BY <2>1, <2>2
<1>2. PICK k \in T : \A j \in T : k <= j
  <2> HIDE DEF T
  <2> QED
    BY <1>1, LeastNumber
<1>3. n - k \in S
  OBVIOUS
<1>4. \A m \in S : n - k >= m
  <2> TAKE m \in S
  <2>1. n - m \in Nat /\ n - (n - m) = m /\ k \in Nat
    OBVIOUS
  <2>2. k <= n - m
    BY <1>2, <2>1
  <2> QED
    BY <2>1, <2>2
<1>5. \E x \in S : \A y \in S : x >= y
  BY <1>3, <1>4
<1>6. Max(S) \in S /\ \A y \in S : Max(S) >= y
  BY <1>5, Zenon DEF Max
<1> QED
  BY <1>6

\* The new parents of a path are its own below some depth.
LEMMA NewParentsBelow ==
  ASSUME NEW p \in DOMAIN PathOrder, NEW known
  PROVE  LET n == Len(Parents(p)) IN
         \E m \in 0 .. n :
            /\ NewParents(p, known) = SubSeq(Parents(p), m + 1, n)
            /\ m # 0 => Parents(p)[m] \in known
            /\ \A k \in m + 1 .. n : Parents(p)[k] \notin known
<1> DEFINE n == Len(Parents(p))
           S == {0} \cup {k \in DOMAIN Parents(p) : Parents(p)[k] \in known}
<1>1. n \in Nat /\ DOMAIN Parents(p) = 1 .. n
  BY ParentsOf
<1>2. S \in SUBSET (0 .. n) /\ S # {}
  BY <1>1
<1>3. Max(S) \in S /\ \A m \in S : m <= Max(S)
  <2> HIDE DEF S, n
  <2> QED
    BY <1>1, <1>2, MaxOf
<1>4. NewParents(p, known) = SubSeq(Parents(p), Max(S) + 1, n)
  BY DEF NewParents
<1> DEFINE m == Max(S)
<1> HIDE DEF m
<1>5. m \in S /\ \A k \in S : k <= m
  BY <1>3 DEF m
<1>6. m \in 0 .. n /\ (m # 0 => Parents(p)[m] \in known)
  BY <1>1, <1>5
<1>7. \A k \in m + 1 .. n : Parents(p)[k] \notin known
  BY <1>1, <1>5
<1> QED
  BY <1>4, <1>6, <1>7 DEF m

\* The parents to make are paths.
LEMMA NewParentsType ==
  ASSUME NEW p \in DOMAIN PathOrder, NEW known
  PROVE  NewParents(p, known) \in Seq(Paths)
<1> DEFINE n == Len(Parents(p))
<1>1. Parents(p) \in Seq(Paths) /\ n \in Nat
  BY ParentsOf
<1>2. PICK m \in 0 .. n : NewParents(p, known) = SubSeq(Parents(p), m + 1, n)
  BY NewParentsBelow
<1> QED
  BY <1>1, <1>2
-----------------------------------------------------------------------------
(* Making directories and files                                            *)

\* The first n of the missing parents of path p.
MadeParents(p, d, n) == SubSeq(NewParents(p, DOMAIN d), 1, n)

WithParents(p, d, n) == Placed(d, ToSet(MadeParents(p, d, n)), Dir)

\* None of the parents of p is a file.
NoFileAbove(p, d) ==
    \A k \in DOMAIN Parents(p) : Parents(p)[k] \in DOMAIN d => d[Parents(p)[k]] = Dir

\* The parents that are made are those of the path below depth m.
ParentsFrom(m, p, d, n) ==
    /\ m \in 0 .. Len(Parents(p))
    /\ m # 0 => Parents(p)[m] \in DOMAIN d
    /\ \A k \in m + 1 .. Len(Parents(p)) : Parents(p)[k] \notin DOMAIN d
    /\ m + n <= Len(Parents(p))
    /\ n = Len(NewParents(p, DOMAIN d)) => m + n = Len(Parents(p))
    /\ MadeParents(p, d, n) \in Seq(Paths)
    /\ Len(MadeParents(p, d, n)) = n
    /\ \A i \in 1 .. n : MadeParents(p, d, n)[i] = Parents(p)[m + i]

\* The parents that are made are those below the deepest directory there is.
LEMMA MadeParentsAre ==
  ASSUME NEW p \in DOMAIN PathOrder, NEW d,
         NEW n \in 0 .. Len(NewParents(p, DOMAIN d))
  PROVE  \E m : ParentsFrom(m, p, d, n)
<1> DEFINE t == Parents(p)
           s == NewParents(p, DOMAIN d)
<1>1. t \in Seq(Paths) /\ Len(t) \in Nat
  BY ParentsOf
<1>2. PICK m \in 0 .. Len(t) : /\ s = SubSeq(t, m + 1, Len(t))
                               /\ m # 0 => t[m] \in DOMAIN d
                               /\ \A k \in m + 1 .. Len(t) : t[k] \notin DOMAIN d
  BY NewParentsBelow
<1> HIDE DEF t, s
<1>3. s \in Seq(Paths) /\ Len(s) = Len(t) - m /\ \A i \in 1 .. Len(s) : s[i] = t[m + i]
  BY <1>1, <1>2
<1>4. MadeParents(p, d, n) = SubSeq(s, 1, n)
  BY DEF MadeParents, s
<1>5. n \in 0 .. Len(s)
  BY DEF s
<1>6. /\ SubSeq(s, 1, n) \in Seq(Paths) /\ Len(SubSeq(s, 1, n)) = n
      /\ \A i \in 1 .. n : SubSeq(s, 1, n)[i] = t[m + i]
  BY <1>1, <1>3, <1>5
<1>7. m + n <= Len(t) /\ (n = Len(s) => m + n = Len(t))
  BY <1>1, <1>3, <1>5
<1> QED
  BY <1>2, <1>4, <1>6, <1>7 DEF s, t, ParentsFrom

\* What Placed leaves.
LEMMA PlacedIs ==
  ASSUME NEW d, NEW paths, NEW node
  PROVE  /\ DOMAIN Placed(d, paths, node) = DOMAIN d \cup paths
         /\ \A x \in paths : Placed(d, paths, node)[x] = node
         /\ \A x \in DOMAIN d \ paths : Placed(d, paths, node)[x] = d[x]
         /\ IsDisk(d) /\ node \in NodeTypes => IsDisk(Placed(d, paths, node))
<1> DEFINE e == Placed(d, paths, node)
<1>1. DOMAIN e = DOMAIN d \cup paths
  BY DEF Placed
<1>2. (\A x \in paths : e[x] = node) /\ (\A x \in DOMAIN d \ paths : e[x] = d[x])
  BY DEF Placed
<1>3. ASSUME IsDisk(d), node \in NodeTypes PROVE IsDisk(e)
  <2>1. \A x \in DOMAIN d : d[x] \in NodeTypes
    BY <1>3 DEF IsDisk
  <2>2. e \in [DOMAIN d \cup paths -> NodeTypes]
    BY <1>3, <2>1 DEF Placed
  <2> QED
    BY <1>1, <2>2 DEF IsDisk
<1> QED
  BY <1>1, <1>2, <1>3

\* Whatever is made has its parents in the tree.
LEMMA MadeHasParents ==
  ASSUME NEW d, NEW es, Made(d, es), NEW x \in DOMAIN d, NEW k \in 1 .. Len(x) - 1
  PROVE  \E j \in DOMAIN es : es[j] = SubSeq(x, 1, k) /\ d[es[j]] = Dir
<1>1. x # Root
  <2> SUFFICES ASSUME x = Root PROVE FALSE
    OBVIOUS
  <2> QED
    BY DEF Root
<1>2. PICK i \in DOMAIN es : x = es[i]
  BY <1>1 DEF Made, ToSet
<1>3. PICK j \in 1 .. i - 1 : es[j] = SubSeq(x, 1, k) /\ d[es[j]] = Dir
  BY <1>2 DEF Made
<1>4. j \in DOMAIN es
  BY <1>2, <1>3 DEF Made
<1> QED
  BY <1>3, <1>4

\* Making parents keeps the order of the entries, and makes every parent there.
LEMMA ParentsAreMade ==
  ASSUME NEW p \in DOMAIN PathOrder, NEW d, NEW es, Made(d, es), NoFileAbove(p, d),
         NEW n \in 0 .. Len(NewParents(p, DOMAIN d))
  PROVE  /\ Made(WithParents(p, d, n), es \o MadeParents(p, d, n))
         /\ n = Len(NewParents(p, DOMAIN d)) =>
               \A k \in DOMAIN Parents(p) :
                  /\ Parents(p)[k] \in DOMAIN WithParents(p, d, n)
                  /\ WithParents(p, d, n)[Parents(p)[k]] = Dir
<1> DEFINE t == Parents(p)
           dirs == MadeParents(p, d, n)
           e == WithParents(p, d, n)
           fs == es \o dirs
<1>0. PICK m : ParentsFrom(m, p, d, n)
  BY MadeParentsAre
<1>1. /\ m \in 0 .. Len(t)
      /\ m # 0 => t[m] \in DOMAIN d
      /\ \A k \in m + 1 .. Len(t) : t[k] \notin DOMAIN d
      /\ m + n <= Len(t)
      /\ n = Len(NewParents(p, DOMAIN d)) => m + n = Len(t)
      /\ dirs \in Seq(Paths)
      /\ Len(dirs) = n
      /\ \A i \in 1 .. n : dirs[i] = t[m + i]
  BY <1>0 DEF ParentsFrom
<1>2. /\ t \in Seq(Paths) /\ Len(t) \in Nat /\ DOMAIN t = 1 .. Len(t)
      /\ \A k \in 1 .. Len(t) : t[k] \in Paths /\ Len(t[k]) = k
  BY ParentsOf
<1>3. /\ DOMAIN e = DOMAIN d \cup ToSet(dirs)
      /\ \A x \in ToSet(dirs) : e[x] = Dir
      /\ \A x \in DOMAIN d \ ToSet(dirs) : e[x] = d[x]
  <2>1. e = Placed(d, ToSet(dirs), Dir)
    BY DEF WithParents
  <2> HIDE DEF e, dirs
  <2>2. /\ DOMAIN Placed(d, ToSet(dirs), Dir) = DOMAIN d \cup ToSet(dirs)
        /\ \A x \in ToSet(dirs) : Placed(d, ToSet(dirs), Dir)[x] = Dir
        /\ \A x \in DOMAIN d \ ToSet(dirs) : Placed(d, ToSet(dirs), Dir)[x] = d[x]
    BY DEF Placed
  <2> QED
    BY <2>1, <2>2
<1>4. \A k \in 1 .. Len(t) : t[k] \in DOMAIN d => d[t[k]] = Dir
  BY <1>2 DEF NoFileAbove
<1>5. \A k \in 1 .. Len(t), j \in 1 .. Len(t) :
         j <= k => SubSeq(t[k], 1, j) = t[j]
  BY <1>2, ParentOfParent, SMTT(30)
<1>6. /\ es \in Seq(Paths) /\ Len(es) \in Nat /\ DOMAIN es = 1 .. Len(es)
      /\ DOMAIN d = {Root} \cup ToSet(es)
  BY DEF Made
<1>7. n \in Nat /\ m \in Nat /\ m <= Len(t) /\ m + n <= Len(t)
  <2>1. Len(NewParents(p, DOMAIN d)) \in Nat
    BY NewParentsType
  <2>2. n \in Nat
    BY <2>1, SMTT(30)
  <2>3. Len(t) \in Nat /\ m \in 0 .. Len(t) /\ m + n <= Len(t)
    BY <1>1, <1>2
  <2> HIDE DEF t
  <2> QED
    BY <2>2, <2>3
<1> HIDE DEF t, dirs, e
<1>8. ToSet(dirs) = {t[m + i] : i \in 1 .. n}
  <2>1. DOMAIN dirs = 1 .. n /\ \A i \in 1 .. n : dirs[i] = t[m + i]
    BY <1>1
  <2> QED
    BY <2>1 DEF ToSet
<1>9. \A k \in 1 .. m : t[k] \in DOMAIN d /\ d[t[k]] = Dir
  <2> TAKE k \in 1 .. m
  <2>1. k \in 1 .. Len(t) /\ m \in 1 .. Len(t) /\ k <= m
    BY <1>2, <1>7
  <2>a. t[m] \in DOMAIN d
    BY <1>1, <2>1
  <2>2. CASE k = m
    BY <1>4, <2>1, <2>a, <2>2
  <2>3. CASE k # m
    <3>1. k \in 1 .. Len(t[m]) - 1
      BY <1>2, <2>1, <2>3
    <3>2. PICK j \in DOMAIN es : es[j] = SubSeq(t[m], 1, k) /\ d[es[j]] = Dir
      BY <2>a, <3>1, MadeHasParents
    <3>3. es[j] \in DOMAIN d
      BY <1>6 DEF ToSet
    <3>4. SubSeq(t[m], 1, k) = t[k]
      BY <1>5, <2>1
    <3> QED
      BY <3>2, <3>3, <3>4
  <2> QED
    BY <2>2, <2>3
<1>10. /\ fs \in Seq(Paths) /\ Len(fs) = Len(es) + n
       /\ \A i \in 1 .. Len(es) : fs[i] = es[i]
       /\ \A i \in 1 .. n : fs[Len(es) + i] = t[m + i]
  <2>1. dirs \in Seq(Paths) /\ Len(dirs) = n /\ \A i \in 1 .. n : dirs[i] = t[m + i]
    BY <1>1
  <2>2. /\ fs \in Seq(Paths) /\ Len(fs) = Len(es) + Len(dirs)
        /\ \A i \in 1 .. Len(es) : fs[i] = es[i]
        /\ \A i \in 1 .. Len(dirs) : fs[Len(es) + i] = dirs[i]
    BY <1>6, <2>1
  <2> QED
    BY <2>1, <2>2
<1>11. \A i \in 1 .. n : /\ t[m + i] \notin DOMAIN d /\ t[m + i] # Root
                         /\ m + i \in 1 .. Len(t)
  <2> TAKE i \in 1 .. n
  <2>1. m + i \in m + 1 .. Len(t) /\ m + i \in 1 .. Len(t)
    BY <1>2, <1>7
  <2>2. t[m + i] \notin DOMAIN d
    BY <1>1, <2>1
  <2> QED
    BY <1>6, <2>1, <2>2
<1>12. \A i \in DOMAIN fs : (i \in 1 .. Len(es)) \/ (\E j \in 1 .. n : i = Len(es) + j)
  <2> TAKE i \in DOMAIN fs
  <2>1. i \in 1 .. (Len(es) + n)
    BY <1>10
  <2>2. CASE i > Len(es)
    <3>1. i - Len(es) \in 1 .. n /\ i = Len(es) + (i - Len(es))
      BY <1>6, <1>7, <2>1, <2>2
    <3> QED
      BY <3>1
  <2>3. CASE ~(i > Len(es))
    BY <1>6, <2>1, <2>3
  <2> QED
    BY <2>2, <2>3
<1>13. \A x \in DOMAIN d : e[x] = d[x]
  <2>1. DOMAIN d \cap ToSet(dirs) = {}
    BY <1>8, <1>11
  <2> QED
    BY <1>3, <2>1
<1>14. \A k \in 1 .. (m + n) : t[k] \in DOMAIN e /\ e[t[k]] = Dir
  <2> TAKE k \in 1 .. (m + n)
  <2>1. CASE k <= m
    BY <1>3, <1>7, <1>9, <1>13, <2>1
  <2>2. CASE k > m
    <3>1. k - m \in 1 .. n /\ k = m + (k - m)
      BY <1>7, <2>2
    <3>2. t[k] \in ToSet(dirs)
      BY <1>8, <3>1
    <3> QED
      BY <1>3, <3>2
  <2> QED
    BY <1>7, <2>1, <2>2
<1> HIDE DEF fs
<1>15. DOMAIN e = {Root} \cup ToSet(fs)
  <2>1. DOMAIN fs = 1 .. (Len(es) + n)
    BY <1>10
  <2>2. \A i \in 1 .. Len(es) : i \in DOMAIN fs
    BY <1>6, <1>7, <2>1
  <2>3. \A i \in 1 .. n : Len(es) + i \in DOMAIN fs
    BY <1>6, <1>7, <2>1
  <2>4. ToSet(fs) = ToSet(es) \cup ToSet(dirs)
    <3>1. ToSet(es) = {es[i] : i \in 1 .. Len(es)} /\ ToSet(fs) = {fs[i] : i \in DOMAIN fs}
      BY <1>6 DEF ToSet
    <3>2. ASSUME NEW x \in ToSet(fs) PROVE x \in ToSet(es) \cup ToSet(dirs)
      <4>1. PICK i \in DOMAIN fs : x = fs[i]
        BY <3>1, <3>2
      <4> QED
        BY <1>8, <1>10, <1>12, <3>1, <4>1
    <3>3. ASSUME NEW x \in ToSet(es) PROVE x \in ToSet(fs)
      <4>1. PICK i \in 1 .. Len(es) : x = es[i]
        BY <3>1, <3>3
      <4> QED
        BY <1>10, <2>2, <3>1, <4>1
    <3>4. ASSUME NEW x \in ToSet(dirs) PROVE x \in ToSet(fs)
      <4>1. PICK i \in 1 .. n : x = t[m + i]
        BY <1>8, <3>4
      <4> QED
        BY <1>10, <2>3, <3>1, <4>1
    <3> QED
      BY <3>2, <3>3, <3>4
  <2> QED
    BY <1>3, <1>6, <2>4
<1>16. e[Root] = Dir
  BY <1>6, <1>13 DEF Made
<1>17. \A i \in DOMAIN fs : fs[i] # Root
  <2>1. \A i \in 1 .. Len(es) : es[i] # Root
    BY <1>6 DEF Made
  <2> QED
    BY <1>10, <1>11, <1>12, <2>1
<1>18. \A i, j \in DOMAIN fs : fs[i] = fs[j] => i = j
  <2> SUFFICES ASSUME NEW i \in DOMAIN fs, NEW j \in DOMAIN fs, fs[i] = fs[j] PROVE i = j
    OBVIOUS
  <2>1. \A a \in 1 .. Len(es) : es[a] \in DOMAIN d
    BY <1>6 DEF ToSet
  <2>2. \A a \in 1 .. n : Len(t[m + a]) = m + a
    BY <1>2, <1>11
  <2>3. CASE i \in 1 .. Len(es) /\ j \in 1 .. Len(es)
    BY <1>6, <1>10, <2>3 DEF Made
  <2>4. ASSUME NEW a \in 1 .. n, NEW b \in 1 .. n, i = Len(es) + a, j = Len(es) + b
        PROVE  i = j
    <3>1. m + a = m + b
      BY <1>10, <2>2, <2>4
    <3> QED
      BY <1>7, <2>4, <3>1
  <2>5. ASSUME NEW a \in 1 .. n, i \in 1 .. Len(es), j = Len(es) + a PROVE FALSE
    BY <1>10, <1>11, <2>1, <2>5
  <2>6. ASSUME NEW a \in 1 .. n, j \in 1 .. Len(es), i = Len(es) + a PROVE FALSE
    BY <1>10, <1>11, <2>1, <2>6
  <2> QED
    BY <1>12, <2>3, <2>4, <2>5, <2>6
<1>19. ASSUME NEW i \in DOMAIN fs, NEW k \in 1 .. Len(fs[i]) - 1
       PROVE  \E j \in 1 .. i - 1 : fs[j] = SubSeq(fs[i], 1, k) /\ e[fs[j]] = Dir
  <2>1. CASE i \in 1 .. Len(es)
    <3>1. fs[i] = es[i] /\ i \in DOMAIN es
      BY <1>6, <1>10, <2>1
    <3>2. PICK j \in 1 .. i - 1 : es[j] = SubSeq(es[i], 1, k) /\ d[es[j]] = Dir
      BY <1>19, <3>1 DEF Made
    <3>3. j \in 1 .. Len(es)
      BY <1>6, <2>1, <3>2
    <3>4. es[j] \in DOMAIN d
      BY <1>6, <3>3 DEF ToSet
    <3> QED
      BY <1>10, <1>13, <3>1, <3>2, <3>3, <3>4
  <2>2. ASSUME NEW a \in 1 .. n, i = Len(es) + a
        PROVE  \E j \in 1 .. i - 1 : fs[j] = SubSeq(fs[i], 1, k) /\ e[fs[j]] = Dir
    <3>1. fs[i] = t[m + a] /\ m + a \in 1 .. Len(t) /\ Len(t[m + a]) = m + a
      BY <1>2, <1>10, <1>11, <2>2
    <3>2. k \in 1 .. (m + a) - 1
      BY <1>19, <3>1
    <3>3. k \in 1 .. Len(t) /\ SubSeq(fs[i], 1, k) = t[k]
      BY <1>5, <3>1, <3>2
    <3>4. CASE k <= m
      <4>1. t[k] \in DOMAIN d /\ d[t[k]] = Dir /\ t[k] # Root
        <5>1. Len(t[k]) = k
          BY <1>2, <3>3
        <5>2. t[k] # <<>>
          BY <3>3, <5>1
        <5> QED
          BY <1>9, <3>3, <3>4, <5>2 DEF Root
      <4>2. PICK j \in 1 .. Len(es) : es[j] = t[k]
        BY <1>6, <4>1 DEF ToSet
      <4>3. j \in 1 .. i - 1
        BY <1>6, <2>2, <4>2
      <4> QED
        BY <1>10, <1>13, <3>3, <4>1, <4>2, <4>3
    <3>5. CASE k > m
      <4>1. k - m \in 1 .. n /\ Len(es) + (k - m) \in 1 .. i - 1 /\ m + (k - m) = k
        BY <1>6, <1>7, <2>2, <3>2, <3>5
      <4>2. fs[Len(es) + (k - m)] = t[k]
        BY <1>10, <4>1
      <4>3. e[t[k]] = Dir
        BY <1>7, <1>14, <3>2, <2>2
      <4> QED
        BY <3>3, <4>1, <4>2, <4>3
    <3> QED
      BY <1>7, <3>2, <3>4, <3>5
  <2> QED
    BY <1>12, <2>1, <2>2
<1>20. Made(e, fs)
  BY <1>10, <1>15, <1>16, <1>17, <1>18, <1>19 DEF Made
<1>21. n = Len(NewParents(p, DOMAIN d)) =>
          \A k \in DOMAIN t : t[k] \in DOMAIN e /\ e[t[k]] = Dir
  BY <1>1, <1>2, <1>14
<1> QED
  BY <1>20, <1>21 DEF t, e, fs, dirs
\* A file is made in a directory that is there.
LEMMA FileIsMade ==
  ASSUME NEW d, NEW es, Made(d, es), NEW path \in Paths, path # Root, path \notin DOMAIN d,
         NEW node,
         \A k \in 1 .. Len(path) - 1 :
            SubSeq(path, 1, k) \in DOMAIN d /\ d[SubSeq(path, 1, k)] = Dir
  PROVE  Made(Placed(d, {path}, node), Append(es, path))
<1> DEFINE e == Placed(d, {path}, node)
           fs == Append(es, path)
           n == Len(es)
<1>1. DOMAIN e = DOMAIN d \cup {path} /\ \A x \in DOMAIN d : e[x] = d[x]
  BY DEF Placed
<1>2. /\ es \in Seq(Paths) /\ n \in Nat /\ DOMAIN es = 1 .. n
      /\ DOMAIN d = {Root} \cup ToSet(es) /\ d[Root] = Dir
      /\ \A i \in 1 .. n : es[i] # Root /\ es[i] \in DOMAIN d
      /\ \A i, j \in 1 .. n : es[i] = es[j] => i = j
  BY DEF Made, ToSet
<1>3. /\ fs \in Seq(Paths) /\ Len(fs) = n + 1 /\ DOMAIN fs = 1 .. (n + 1)
      /\ fs[n + 1] = path /\ \A i \in 1 .. n : fs[i] = es[i]
  BY <1>2
<1>4. \A i \in 1 .. (n + 1) : i \in 1 .. n \/ i = n + 1
  BY <1>2
<1>5. \A i \in 1 .. n : i \in 1 .. (n + 1)
  BY <1>2
<1>6. n + 1 \in 1 .. (n + 1)
  BY <1>2
<1> HIDE DEF e, fs
<1>7. DOMAIN e = {Root} \cup ToSet(fs)
  <2>1. ToSet(es) = {es[i] : i \in 1 .. n} /\ ToSet(fs) = {fs[i] : i \in 1 .. (n + 1)}
    BY <1>2, <1>3 DEF ToSet
  <2> HIDE DEF n
  <2>2. ToSet(fs) = ToSet(es) \cup {path}
    BY <1>3, <1>4, <1>5, <1>6, <2>1
  <2> QED
    BY <1>1, <1>2, <2>2
<1> HIDE DEF n
<1>8. e[Root] = Dir
  BY <1>1, <1>2
<1>9. \A i \in DOMAIN fs : fs[i] # Root
  BY <1>2, <1>3, <1>4
<1>10. \A i, j \in DOMAIN fs : fs[i] = fs[j] => i = j
  BY <1>2, <1>3, <1>4
<1>11. ASSUME NEW i \in DOMAIN fs, NEW k \in 1 .. Len(fs[i]) - 1
       PROVE  \E j \in 1 .. i - 1 : fs[j] = SubSeq(fs[i], 1, k) /\ e[fs[j]] = Dir
  <2>1. CASE i \in 1 .. n
    <3>1. fs[i] = es[i] /\ i \in DOMAIN es
      BY <1>2, <1>3, <2>1
    <3>2. PICK j \in 1 .. i - 1 : es[j] = SubSeq(es[i], 1, k) /\ d[es[j]] = Dir
      BY <1>11, <3>1 DEF Made
    <3>3. j \in 1 .. n
      BY <1>2, <2>1, <3>2
    <3> QED
      BY <1>1, <1>2, <1>3, <3>1, <3>2, <3>3
  <2>2. CASE i = n + 1
    <3> DEFINE x == SubSeq(path, 1, k)
    <3>1. fs[i] = path
      BY <1>3, <2>2
    <3>2. k \in 1 .. Len(path) - 1 /\ x \in DOMAIN d /\ d[x] = Dir
      BY <1>11, <3>1
    <3>3. x # Root
      <4>1. path \in Seq(STRING)
        BY DEF Paths
      <4>2. Len(x) = k
        BY <3>2, <4>1
      <4>3. x # <<>>
        BY <3>2, <4>2
      <4> QED
        BY <4>3 DEF Root
    <3> HIDE DEF x
    <3>4. PICK j \in 1 .. n : es[j] = x
      BY <1>2, <3>2, <3>3 DEF ToSet
    <3>5. j \in 1 .. i - 1
      BY <1>2, <2>2, <3>4
    <3>6. fs[j] = x /\ e[fs[j]] = Dir
      BY <1>1, <1>3, <3>2, <3>4
    <3> QED
      BY <3>1, <3>5, <3>6 DEF x
  <2> QED
    BY <1>3, <1>4, <2>1, <2>2
<1> QED
  BY <1>3, <1>7, <1>8, <1>9, <1>10, <1>11 DEF Made, e, fs

\* Writing to a file leaves the tree.
LEMMA FileIsWritten ==
  ASSUME NEW d, NEW es, Made(d, es), NEW path, d[path] # Dir, NEW node
  PROVE  Made([d EXCEPT ![path] = node], es)
<1> DEFINE e == [d EXCEPT ![path] = node]
<1>1. DOMAIN e = DOMAIN d /\ \A x \in DOMAIN d : d[x] = Dir => e[x] = d[x]
  OBVIOUS
<1>2. es \in Seq(Paths) /\ DOMAIN es = 1 .. Len(es) /\ Len(es) \in Nat
  BY DEF Made
<1>3. \A i \in DOMAIN es : es[i] \in DOMAIN d
  BY DEF Made, ToSet
<1> HIDE DEF e
<1>4. ASSUME NEW i \in DOMAIN es, NEW k \in 1 .. Len(es[i]) - 1
      PROVE  \E j \in 1 .. i - 1 : es[j] = SubSeq(es[i], 1, k) /\ e[es[j]] = Dir
  <2>1. PICK j \in 1 .. i - 1 : es[j] = SubSeq(es[i], 1, k) /\ d[es[j]] = Dir
    BY DEF Made
  <2>2. j \in DOMAIN es
    BY <1>2, <2>1
  <2> QED
    BY <1>1, <1>3, <2>1, <2>2
<1>5. e[Root] = Dir /\ DOMAIN e = {Root} \cup ToSet(es)
  BY <1>1 DEF Made
<1> QED
  BY <1>2, <1>4, <1>5 DEF Made, e

\* A file that is written stays a file.
LEMMA DiskIsWritten ==
  ASSUME NEW d, IsDisk(d), NEW path, NEW node \in NodeTypes
  PROVE  IsDisk([d EXCEPT ![path] = node])
BY DEF IsDisk
-----------------------------------------------------------------------------
(* The inductive invariant                                                 *)

StateTypes ==
    /\ stream \in StreamTypes
    /\ stage \in StageTypes \cup {Null}
    /\ sealed \in Seq(Paths) \cup {Null}
    /\ before \in {<<>>} \cup ForeignDisks
    /\ IsDisk(disk)
    /\ executor \in [poisoned : BOOLEAN, executed : BOOLEAN, dropped : BOOLEAN]
    /\ started \in {Null, "Check", "Cancelled"}
    /\ faultless \in BOOLEAN

\* The executor has neither failed nor gone.
Sound == ~executor.poisoned /\ ~executor.dropped

\* What the phase of the stream says about the rest of the executor.
PhaseFlow ==
    /\ stream.phase = "Poisoned" => executor.poisoned
    /\ executor.dropped => stage = Null /\ sealed = Null
    /\ stage # Null => sealed = Null
    /\ stage # Null /\ Sound => stream.phase = "Input"
    /\ stream.phase \in {"ClientHello", "Header"} =>
          /\ stage = Null /\ sealed = Null /\ stream.tree = Null
          /\ stream.request = Null /\ ~stream.manifest_seen
    /\ stream.phase = "Input" =>
          /\ stream.tree # Null /\ stream.request # Null
          /\ stream.tree.declared = stream.request.input
          /\ sealed = Null
          /\ Sound => stage # Null
    /\ stream.phase = "Complete" /\ Sound => sealed # Null
    /\ sealed # Null => stream.request # Null
    /\ started = "Check" => executor.executed

\* The sums of an open tree are within its declaration.
WithinDeclared ==
    stream.tree # Null =>
        /\ stream.tree.next <= stream.tree.declared.records
        /\ stream.tree.path_bytes <= stream.tree.declared.path_bytes
        /\ stream.tree.content_bytes <= stream.tree.declared.content_bytes

\* Everything in the directory was made by the stage, which holds or sealed it.
StagedTree ==
    /\ stage # Null => before = <<>> /\ Made(disk, stage.entries)
    /\ sealed # Null => before = <<>> /\ Made(disk, sealed)
    /\ stage = Null /\ sealed = Null => disk = before

\* The active record of the stream is the active file of the stage, and the
\* file holds what was streamed of it.
ActiveInStep ==
    LET tree == stream.tree
        n == Len(tree.digest)
    IN  IF tree.active = Null THEN ActiveDone(stage)
        ELSE /\ n # 0 /\ tree.active.index = n - 1
             /\ tree.active.bytes = tree.digest[n].bytes
             /\ tree.active.digest = tree.digest[n].digest
             /\ tree.active.offset = Len(tree.active.data)
             /\ tree.active.offset < tree.active.bytes
             /\ stage.active # Null
             /\ stage.active.index = tree.active.index
             /\ stage.active.offset = tree.active.offset
             /\ stage.active.declared = tree.active.bytes
             /\ stage.active.path = PathOrder[tree.digest[n].path]
             /\ stage.active.path \in DOMAIN disk
             /\ disk[stage.active.path] = FileOf(tree.active.data)

\* The stream and the stage are at the same place, all files but the active one
\* have their declared length, and a manifest that was seen is among them.
InStep ==
    stream.phase = "Input" /\ Sound =>
        LET recs == stream.tree.digest IN
        /\ stream.tree.next = Len(recs)
        /\ stage.records = recs
        /\ \A i \in 1 .. Len(recs) :
              i < Len(recs) \/ stream.tree.active = Null =>
                  recs[i].bytes = Len(recs[i].digest)
        /\ stream.manifest_seen =>
              \E i \in 1 .. Len(recs) : recs[i].path = stream.request.manifest
        /\ ActiveInStep

RequestFlow ==
    /\ StateTypes
    /\ PhaseFlow
    /\ WithinDeclared
    /\ StagedTree
    /\ InStep
    /\ SealedTreeIsDeclared
    /\ CheckStartsOnSealedTree
-----------------------------------------------------------------------------
(* Frames and the stream                                                   *)

\* The fields of the messages and of the state.
LEMMA FrameFields ==
  ASSUME NEW f \in Frames
  PROVE  f.seq \in Nat /\ f.id \in STRING /\ f.msg \in MessageTypes
BY RequestAssumption

\* The fields that a message of each kind has.
LEMMA MessageFields ==
  ASSUME NEW m \in MessageTypes
  PROVE  /\ m.kind = "RequestHeader" => m.request \in Requests
         /\ m.kind = "InputRecord" => m.index \in Nat /\ m.record \in RecordTypes
         /\ m.kind = "InputChunk" =>
               m.index \in Nat /\ m.offset \in Nat /\ m.bytes \in Content
         /\ m.kind = "InputFinish" => m.input \in TreeTypes
BY DEF MessageTypes

\* The fields of a request header.
LEMMA RequestFields ==
  ASSUME NEW r \in Requests
  PROVE  /\ r \in RequestTypes
         /\ r.id \in STRING /\ r.bound \in BOOLEAN /\ r.input \in TreeTypes
         /\ r.manifest \in DOMAIN PathOrder /\ r.allowance \in AllowanceTypes
<1>1. r \in RequestTypes
  BY RequestAssumption
<1> QED
  BY <1>1 DEF RequestTypes

\* The fields of a declared tree.
LEMMA TreeFields ==
  ASSUME NEW t \in TreeTypes
  PROVE  /\ t.digest \in Seq(RecordTypes) /\ t.records \in Nat
         /\ t.path_bytes \in Nat /\ t.content_bytes \in Nat
BY DEF TreeTypes

\* The fields of an allowance.
LEMMA AllowanceFields ==
  ASSUME NEW a \in AllowanceTypes
  PROVE  a.records \in Nat /\ a.path_bytes \in Nat /\ a.content_bytes \in Nat
BY DEF AllowanceTypes

\* The fields of a record.
LEMMA RecordFields ==
  ASSUME NEW r \in RecordTypes
  PROVE  /\ r.path \in DOMAIN PathOrder /\ r.bytes \in Nat /\ r.digest \in Content
         /\ r.path \in Nat /\ PathBytes(r.path) \in Nat
<1>1. r.path \in DOMAIN PathOrder /\ r.bytes \in Nat /\ r.digest \in Content
  BY DEF RecordTypes
<1>2. PathOrder \in Seq(Paths)
  BY RequestAssumption
<1>3. PathBytes(r.path) \in Nat
  BY <1>1, ParentsOf DEF PathBytes
<1> QED
  BY <1>1, <1>2, <1>3

\* The fields of the stream.
LEMMA StreamFields ==
  ASSUME NEW s \in StreamTypes
  PROVE  /\ s.phase \in {"ClientHello", "Header", "Input", "Complete", "Cancelled", "Poisoned"}
         /\ s.seq \in Nat /\ s.id \in STRING \cup {Null}
         /\ s.request \in Requests \cup {Null} /\ s.manifest_seen \in BOOLEAN
         /\ s.tree \in TreeStreamTypes \cup {Null}
BY DEF StreamTypes

\* The fields of an open tree.
LEMMA TreeStreamFields ==
  ASSUME NEW t \in TreeStreamTypes
  PROVE  /\ t.declared \in TreeTypes /\ t.allowance \in AllowanceTypes /\ t.next \in Nat
         /\ t.path_bytes \in Nat /\ t.content_bytes \in Nat /\ t.prev \in Nat
         /\ t.digest \in Seq(RecordTypes) /\ t.active \in ActiveTypes \cup {Null}
BY DEF TreeStreamTypes

\* The fields of an active record.
LEMMA ActiveFields ==
  ASSUME NEW a \in ActiveTypes
  PROVE  /\ a.index \in Nat /\ a.bytes \in Nat /\ a.digest \in Content
         /\ a.offset \in Nat /\ a.data \in Content
BY DEF ActiveTypes

\* TreeStream::new leaves an open tree.
LEMMA TreeNewType ==
  ASSUME NEW r \in Requests, TreeNew(r) # Null
  PROVE  TreeNew(r) \in TreeStreamTypes
<1>1. r.input \in TreeTypes /\ r.allowance \in AllowanceTypes
  BY RequestFields
<1>2. <<>> \in Seq(RecordTypes)
  OBVIOUS
<1> QED
  BY <1>1, <1>2 DEF TreeNew, TreeStreamTypes

\* accept_record leaves an active record or none.
LEMMA StartedRecordType ==
  ASSUME NEW index \in Nat, NEW rec \in RecordTypes
  PROVE  StartedRecord(index, rec) \in ActiveTypes \cup {Null}
BY RecordFields DEF StartedRecord, ActiveTypes, Content

\* What accept_record checks, and the tree it leaves.
LEMMA AcceptRecordIs ==
  ASSUME NEW tree \in TreeStreamTypes, NEW index \in Nat, NEW rec \in RecordTypes
  PROVE  /\ AcceptRecord(tree, index, rec) # Null <=>
              /\ tree.active = Null /\ index = tree.next
              /\ index < tree.declared.records /\ index < tree.allowance.records
              /\ tree.prev < rec.path /\ RecordFits(tree, rec)
              /\ rec.bytes = 0 => rec.digest = <<>>
         /\ AcceptRecord(tree, index, rec) # Null =>
              LET t == AcceptRecord(tree, index, rec) IN
              /\ t \in TreeStreamTypes
              /\ t.declared = tree.declared /\ t.allowance = tree.allowance
              /\ t.path_bytes = tree.path_bytes + PathBytes(rec.path)
              /\ t.content_bytes = tree.content_bytes + rec.bytes
              /\ t.prev = rec.path /\ t.digest = Append(tree.digest, rec)
              /\ t.next = tree.next + 1 /\ t.active = StartedRecord(index, rec)
<1> DEFINE new == [tree EXCEPT
                      !.path_bytes = @ + PathBytes(rec.path),
                      !.content_bytes = @ + rec.bytes,
                      !.prev = rec.path,
                      !.digest = Append(@, rec),
                      !.next = @ + 1,
                      !.active = StartedRecord(index, rec)]
           ok == /\ tree.active = Null /\ index = tree.next
                 /\ index < tree.declared.records /\ index < tree.allowance.records
                 /\ tree.prev < rec.path /\ RecordFits(tree, rec)
                 /\ rec.bytes = 0 => rec.digest = <<>>
<1>1. /\ tree.declared.records \in Nat /\ tree.allowance.records \in Nat /\ tree.prev \in Nat
      /\ rec.path \in Nat /\ rec.bytes \in Nat /\ PathBytes(rec.path) \in Nat
      /\ tree.path_bytes \in Nat /\ tree.content_bytes \in Nat /\ tree.next \in Nat
      /\ tree.digest \in Seq(RecordTypes)
  BY TreeStreamFields, TreeFields, AllowanceFields, RecordFields
<1>2. AcceptRecord(tree, index, rec) = IF ok THEN new ELSE Null
  BY <1>1, SMTT(30) DEF AcceptRecord
<1>3. new \in TreeStreamTypes
  <2>1. Append(tree.digest, rec) \in Seq(RecordTypes)
    BY <1>1
  <2>2. StartedRecord(index, rec) \in ActiveTypes \cup {Null}
    BY StartedRecordType
  <2>3. /\ tree.path_bytes + PathBytes(rec.path) \in Nat /\ tree.next + 1 \in Nat
        /\ tree.content_bytes + rec.bytes \in Nat /\ rec.path \in Nat
    BY <1>1, SMTT(30)
  <2>4. ASSUME NEW pb \in Nat, NEW cb \in Nat, NEW pv \in Nat, NEW nx \in Nat,
               NEW dg \in Seq(RecordTypes), NEW ac \in ActiveTypes \cup {Null}
        PROVE  [tree EXCEPT !.path_bytes = pb, !.content_bytes = cb, !.prev = pv,
                            !.digest = dg, !.next = nx, !.active = ac] \in TreeStreamTypes
    BY DEF TreeStreamTypes
  <2> QED
    BY <2>1, <2>2, <2>3, <2>4
<1>4. new # Null
  BY <1>3, NullAssumption
<1>5. /\ new.declared = tree.declared /\ new.allowance = tree.allowance
      /\ new.path_bytes = tree.path_bytes + PathBytes(rec.path)
      /\ new.content_bytes = tree.content_bytes + rec.bytes
      /\ new.prev = rec.path /\ new.digest = Append(tree.digest, rec)
      /\ new.next = tree.next + 1 /\ new.active = StartedRecord(index, rec)
  BY DEF TreeStreamTypes
<1> HIDE DEF new, ok
<1>6. ok => AcceptRecord(tree, index, rec) = new
  BY <1>2
<1>7. ~ok => AcceptRecord(tree, index, rec) = Null
  BY <1>2
<1>8. AcceptRecord(tree, index, rec) # Null <=> ok
  BY <1>4, <1>6, <1>7
<1>9. CASE ok
  BY <1>3, <1>5, <1>6, <1>8, <1>9 DEF ok
<1>10. CASE ~ok
  BY <1>8, <1>10 DEF ok
<1> QED
  BY <1>9, <1>10

\* What accept_chunk checks, and the tree it leaves.
ChunkFits(tree, index, offset, bytes) ==
    LET a == tree.active
        next == a.offset + Len(bytes)
    IN  /\ bytes # <<>> /\ a # Null
        /\ index = a.index /\ offset = a.offset /\ next <= a.bytes
        /\ next = a.bytes => a.data \o bytes = a.digest

ChunkLeaves(tree, bytes, t) ==
    LET a == tree.active
        next == a.offset + Len(bytes)
    IN  /\ t \in TreeStreamTypes
        /\ t = [tree EXCEPT !.active = t.active]
        /\ next = a.bytes => t.active = Null
        /\ next # a.bytes =>
              /\ t.active \in ActiveTypes
              /\ t.active = [a EXCEPT !.offset = next, !.data = a.data \o bytes]

\* accept_chunk takes what fits, and leaves that tree.
LEMMA AcceptChunkIs ==
  ASSUME NEW tree \in TreeStreamTypes, NEW index \in Nat, NEW offset \in Nat,
         NEW bytes \in Content
  PROVE  LET t == AcceptChunk(tree, index, offset, bytes) IN
         /\ t # Null <=> ChunkFits(tree, index, offset, bytes)
         /\ t # Null => ChunkLeaves(tree, bytes, t)
<1> DEFINE a == tree.active
           next == a.offset + Len(bytes)
           data == a.data \o bytes
           moved == [a EXCEPT !.offset = next, !.data = data]
           new == [tree EXCEPT !.active = IF next = a.bytes THEN Null ELSE moved]
           ok == /\ bytes # <<>> /\ a # Null
                 /\ index = a.index /\ offset = a.offset /\ next <= a.bytes
                 /\ next = a.bytes => data = a.digest
           t == AcceptChunk(tree, index, offset, bytes)
<1>1. a \in ActiveTypes \cup {Null}
  BY TreeStreamFields
<1>2. CASE a = Null
  BY <1>2 DEF AcceptChunk, ChunkFits
<1>3. CASE a # Null
  <2>1. a \in ActiveTypes /\ a.offset \in Nat /\ a.data \in Content /\ a.bytes \in Nat
    BY <1>1, <1>3, ActiveFields
  <2>2. Len(bytes) \in Nat /\ next \in Nat
    BY <2>1 DEF Content
  <2>3. data \in Content
    BY <2>1 DEF Content
  <2>4. moved \in ActiveTypes
    BY <2>1, <2>2, <2>3 DEF ActiveTypes
  <2>5. new \in TreeStreamTypes
    BY <2>4 DEF TreeStreamTypes
  <2>6. new.active = IF next = a.bytes THEN Null ELSE moved
    BY DEF TreeStreamTypes
  <2>7. new # Null
    BY <2>5, NullAssumption
  <2>8. t = IF ok THEN new ELSE Null
    <3>1. next > a.bytes <=> ~(next <= a.bytes)
      BY <2>1, <2>2
    <3> QED
      BY <1>3, <3>1, Zenon DEF AcceptChunk
  <2>9. new = [tree EXCEPT !.active = new.active]
    BY <2>6
  <2> HIDE DEF new, ok, moved, data, next, t
  <2>10. CASE ok
    <3>1. t = new /\ t # Null
      BY <2>7, <2>8, <2>10
    <3>2. next = a.bytes => t.active = Null
      BY <2>6, <3>1
    <3>3. next # a.bytes => t.active = moved /\ t.active \in ActiveTypes
      BY <2>4, <2>6, <3>1
    <3>4. t \in TreeStreamTypes /\ t = [tree EXCEPT !.active = t.active]
      BY <2>5, <2>9, <3>1
    <3> QED
      BY <2>10, <3>1, <3>2, <3>3, <3>4 DEF ok, moved, data, next, t, ChunkFits, ChunkLeaves
  <2>11. CASE ~ok
    <3>1. t = Null
      BY <2>8, <2>11
    <3> QED
      BY <2>11, <3>1 DEF ok, data, next, t, ChunkFits
  <2> QED
    BY <2>10, <2>11
<1> QED
  BY <1>2, <1>3
\* The frame has the next sequence number and is for this request.
Expected(s, f) == f.seq = s.seq /\ s.id \in {Null, f.id}

\* An open stream has a tree.
HasTree(s) == s.phase = "Input" => s.tree \in TreeStreamTypes

\* A poisoned stream is poisoned.
LEMMA PoisonIs ==
  ASSUME NEW s \in StreamTypes
  PROVE  Poison(s) \in StreamTypes /\ Poison(s).phase = "Poisoned"
BY DEF Poison, StreamTypes

\* Accept in terms of the transition it makes.
LEMMA AcceptIs ==
  ASSUME NEW s \in StreamTypes, NEW f, NEW t \in StreamTypes, NEW ok \in BOOLEAN,
         Transition(s, f) = IF ok THEN t ELSE Null, t.phase # "Poisoned"
  PROVE  /\ Accept(s, f).phase # "Poisoned" <=> Expected(s, f) /\ ok
         /\ Accept(s, f).phase # "Poisoned" => Accept(s, f) = [t EXCEPT !.seq = @ + 1]
<1>1. Accept(s, f) = IF Expected(s, f) /\ Transition(s, f) # Null
                     THEN [Transition(s, f) EXCEPT !.seq = @ + 1] ELSE Poison(s)
  BY Zenon DEF Accept, Expected
<1>2. t # Null
  BY NullAssumption
<1>3. Poison(s).phase = "Poisoned"
  BY PoisonIs
<1>4. [t EXCEPT !.seq = @ + 1].phase # "Poisoned"
  BY DEF StreamTypes
<1>5. CASE Expected(s, f) /\ ok
  BY <1>1, <1>2, <1>4, <1>5
<1>6. CASE ~(Expected(s, f) /\ ok)
  BY <1>1, <1>3, <1>6
<1> QED
  BY <1>5, <1>6

\* When a hello is taken, and the stream it leaves.
LEMMA TakesHello ==
  ASSUME NEW s \in StreamTypes, NEW f \in Frames, f.msg.kind = "ClientHello",
         f.msg.trusted \in BOOLEAN
  PROVE  LET t == Accept(s, f) IN
         /\ t.phase # "Poisoned" <=> Expected(s, f) /\ s.phase = "ClientHello" /\ f.msg.trusted
         /\ t.phase # "Poisoned" =>
               t = [s EXCEPT !.phase = "Header", !.id = f.id, !.seq = @ + 1]
<1> DEFINE t == [s EXCEPT !.phase = "Header", !.id = f.id]
<1>1. t \in StreamTypes /\ t.phase = "Header"
  BY FrameFields DEF StreamTypes
<1>2. Transition(s, f) = IF s.phase = "ClientHello" /\ f.msg.trusted THEN t ELSE Null
  BY DEF Transition
<1>3. [t EXCEPT !.seq = @ + 1] = [s EXCEPT !.phase = "Header", !.id = f.id, !.seq = @ + 1]
  BY DEF StreamTypes
<1> HIDE DEF t
<1> QED
  BY <1>1, <1>2, <1>3, AcceptIs

\* When a request header is taken, and the stream it leaves.
LEMMA TakesHeader ==
  ASSUME NEW s \in StreamTypes, NEW f \in Frames, f.msg.kind = "RequestHeader"
  PROVE  LET t == Accept(s, f)
             r == f.msg.request
         IN  /\ t.phase # "Poisoned" <=>
                   /\ Expected(s, f) /\ s.phase = "Header"
                   /\ r.bound /\ r.id = f.id /\ TreeNew(r) # Null
             /\ t.phase # "Poisoned" =>
                   t = [s EXCEPT !.phase = "Input", !.request = r, !.tree = TreeNew(r),
                                 !.seq = @ + 1]
<1> DEFINE r == f.msg.request
           t == [s EXCEPT !.phase = "Input", !.request = r, !.tree = TreeNew(r)]
<1>1. r \in Requests /\ r.bound \in BOOLEAN
  BY FrameFields, MessageFields, RequestFields
<1>2. TreeNew(r) \in TreeStreamTypes \cup {Null}
  BY <1>1, TreeNewType
<1>3. t \in StreamTypes /\ t.phase = "Input"
  BY <1>1, <1>2 DEF StreamTypes
<1>4. Transition(s, f) = IF s.phase = "Header" /\ r.bound /\ r.id = f.id /\ TreeNew(r) # Null
                         THEN t ELSE Null
  BY DEF Transition
<1>5. [t EXCEPT !.seq = @ + 1]
         = [s EXCEPT !.phase = "Input", !.request = r, !.tree = TreeNew(r), !.seq = @ + 1]
  BY DEF StreamTypes
<1>6. (s.phase = "Header" /\ r.bound /\ r.id = f.id /\ TreeNew(r) # Null) \in BOOLEAN
  BY <1>1
<1> HIDE DEF t, r
<1>7. /\ Accept(s, f).phase # "Poisoned" <=>
            Expected(s, f) /\ s.phase = "Header" /\ r.bound /\ r.id = f.id /\ TreeNew(r) # Null
      /\ Accept(s, f).phase # "Poisoned" => Accept(s, f) = [t EXCEPT !.seq = @ + 1]
  BY <1>3, <1>4, <1>6, AcceptIs
<1> QED
  BY <1>5, <1>7 DEF r

\* When a cancel is taken, and the stream it leaves.
LEMMA TakesCancel ==
  ASSUME NEW s \in StreamTypes, NEW f \in Frames, f.msg.kind = "Cancel"
  PROVE  LET t == Accept(s, f) IN
         /\ t.phase # "Poisoned" <=> Expected(s, f) /\ s.phase \in {"Input", "Complete"}
         /\ t.phase # "Poisoned" =>
               t = [s EXCEPT !.phase = "Cancelled", !.tree = Null, !.seq = @ + 1]
<1> DEFINE t == [s EXCEPT !.phase = "Cancelled", !.tree = Null]
<1>1. t \in StreamTypes /\ t.phase = "Cancelled"
  BY DEF StreamTypes
<1>2. Transition(s, f) = IF s.phase \in {"Input", "Complete"} THEN t ELSE Null
  BY DEF Transition
<1>3. [t EXCEPT !.seq = @ + 1] = [s EXCEPT !.phase = "Cancelled", !.tree = Null, !.seq = @ + 1]
  BY DEF StreamTypes
<1> HIDE DEF t
<1> QED
  BY <1>1, <1>2, <1>3, AcceptIs

\* When a record is taken, and the stream it leaves.
LEMMA TakesRecord ==
  ASSUME NEW s \in StreamTypes, NEW f \in Frames, f.msg.kind = "InputRecord", HasTree(s)
  PROVE  LET t == Accept(s, f)
             tree == AcceptRecord(s.tree, f.msg.index, f.msg.record)
         IN  /\ t.phase # "Poisoned" <=> Expected(s, f) /\ s.phase = "Input" /\ tree # Null
             /\ t.phase # "Poisoned" =>
                   t = [s EXCEPT !.tree = tree,
                                 !.manifest_seen = @ \/ f.msg.record.path = s.request.manifest,
                                 !.seq = @ + 1]
<1> DEFINE tree == AcceptRecord(s.tree, f.msg.index, f.msg.record)
           seen == s.manifest_seen \/ f.msg.record.path = s.request.manifest
           ok == s.phase = "Input" /\ tree # Null
           new == [s EXCEPT !.tree = tree, !.manifest_seen = seen]
           t == IF ok THEN new ELSE [s EXCEPT !.phase = "Input"]
<1>1. f.msg.index \in Nat /\ f.msg.record \in RecordTypes
  BY FrameFields, MessageFields
<1>2. ok => tree \in TreeStreamTypes
  <2> SUFFICES ASSUME ok PROVE tree \in TreeStreamTypes
    OBVIOUS
  <2>1. s.tree \in TreeStreamTypes
    BY DEF HasTree
  <2> QED
    BY <1>1, <2>1, AcceptRecordIs
<1>3. Transition(s, f) = IF ok THEN new ELSE Null
  BY Zenon DEF Transition
<1> HIDE DEF tree, seen
<1>4. seen \in BOOLEAN
  BY DEF seen, StreamTypes
<1>5. t \in StreamTypes /\ t.phase # "Poisoned"
  BY <1>2, <1>4 DEF StreamTypes
<1>6. Transition(s, f) = IF ok THEN t ELSE Null
  BY <1>3
<1>7. [new EXCEPT !.seq = @ + 1] = [s EXCEPT !.tree = tree, !.manifest_seen = seen, !.seq = @ + 1]
  BY DEF StreamTypes
<1>8. ok => t = new
  OBVIOUS
<1>9. ok \in BOOLEAN
  OBVIOUS
<1> HIDE DEF t, new, ok
<1>10. /\ Accept(s, f).phase # "Poisoned" <=> Expected(s, f) /\ ok
       /\ Accept(s, f).phase # "Poisoned" => Accept(s, f) = [t EXCEPT !.seq = @ + 1]
  BY <1>5, <1>6, <1>9, AcceptIs
<1> QED
  BY <1>7, <1>8, <1>10, Zenon DEF ok, tree, seen

\* When a chunk is taken, and the stream it leaves.
LEMMA TakesChunk ==
  ASSUME NEW s \in StreamTypes, NEW f \in Frames, f.msg.kind = "InputChunk", HasTree(s)
  PROVE  LET t == Accept(s, f)
             tree == AcceptChunk(s.tree, f.msg.index, f.msg.offset, f.msg.bytes)
         IN  /\ t.phase # "Poisoned" <=> Expected(s, f) /\ s.phase = "Input" /\ tree # Null
             /\ t.phase # "Poisoned" => t = [s EXCEPT !.tree = tree, !.seq = @ + 1]
<1> DEFINE tree == AcceptChunk(s.tree, f.msg.index, f.msg.offset, f.msg.bytes)
           ok == s.phase = "Input" /\ tree # Null
           new == [s EXCEPT !.tree = tree]
           t == IF ok THEN new ELSE [s EXCEPT !.phase = "Input"]
<1>1. f.msg.index \in Nat /\ f.msg.offset \in Nat /\ f.msg.bytes \in Content
  BY FrameFields, MessageFields
<1>2. ok => tree \in TreeStreamTypes
  <2> SUFFICES ASSUME ok PROVE tree \in TreeStreamTypes
    OBVIOUS
  <2>1. s.tree \in TreeStreamTypes
    BY DEF HasTree
  <2> QED
    BY <1>1, <2>1, AcceptChunkIs DEF ChunkLeaves
<1>3. Transition(s, f) = IF ok THEN new ELSE Null
  BY Zenon DEF Transition
<1> HIDE DEF tree
<1>5. t \in StreamTypes /\ t.phase # "Poisoned"
  BY <1>2 DEF StreamTypes
<1>6. Transition(s, f) = IF ok THEN t ELSE Null
  BY <1>3
<1>7. [new EXCEPT !.seq = @ + 1] = [s EXCEPT !.tree = tree, !.seq = @ + 1]
  BY DEF StreamTypes
<1>8. ok => t = new
  OBVIOUS
<1>9. ok \in BOOLEAN
  OBVIOUS
<1> HIDE DEF t, new, ok
<1>10. /\ Accept(s, f).phase # "Poisoned" <=> Expected(s, f) /\ ok
       /\ Accept(s, f).phase # "Poisoned" => Accept(s, f) = [t EXCEPT !.seq = @ + 1]
  BY <1>5, <1>6, <1>9, AcceptIs
<1> QED
  BY <1>7, <1>8, <1>10, Zenon DEF ok, tree

\* When the end of the input is taken, and the stream it leaves.
LEMMA TakesFinish ==
  ASSUME NEW s \in StreamTypes, NEW f \in Frames, f.msg.kind = "InputFinish"
  PROVE  LET t == Accept(s, f) IN
         /\ t.phase # "Poisoned" <=>
               Expected(s, f) /\ s.phase = "Input" /\ InputFinishes(s, f.msg.input)
         /\ t.phase # "Poisoned" =>
               t = [s EXCEPT !.phase = "Complete", !.tree = Null, !.seq = @ + 1]
<1> DEFINE t == [s EXCEPT !.phase = "Complete", !.tree = Null]
           ok == s.phase = "Input" /\ InputFinishes(s, f.msg.input)
<1>1. t \in StreamTypes /\ t.phase = "Complete"
  BY DEF StreamTypes
<1>2. Transition(s, f) = IF ok THEN t ELSE Null
  BY DEF Transition
<1>3. [t EXCEPT !.seq = @ + 1] = [s EXCEPT !.phase = "Complete", !.tree = Null, !.seq = @ + 1]
  BY DEF StreamTypes
<1>4. InputFinishes(s, f.msg.input) \in BOOLEAN
  BY DEF InputFinishes, TreeFinishes, StreamTypes
<1>5. ok \in BOOLEAN
  BY <1>4
<1> HIDE DEF t, ok
<1>6. /\ Accept(s, f).phase # "Poisoned" <=> Expected(s, f) /\ ok
      /\ Accept(s, f).phase # "Poisoned" => Accept(s, f) = [t EXCEPT !.seq = @ + 1]
  BY <1>1, <1>2, <1>5, AcceptIs
<1> QED
  BY <1>3, <1>6, Zenon DEF ok
-----------------------------------------------------------------------------
(* The steps keep the invariant                                            *)

\* What accept_request_frame does with a frame the stream takes.
Consumed(f, kind, ok) ==
    /\ Listening
    /\ f.msg.kind = kind
    /\ stream' = Accept(stream, f) /\ stream'.phase # "Poisoned"
    /\ executor' = [executor EXCEPT !.poisoned = ~ok]
    /\ started' = started
    /\ faultless' \in BOOLEAN

\* The executor before and after a frame the stream takes.
LEMMA AfterConsumed ==
  ASSUME RequestFlow, NEW f \in Frames, NEW kind, NEW ok \in BOOLEAN, Consumed(f, kind, ok)
  PROVE  /\ Sound /\ HasTree(stream) /\ stream \in StreamTypes
         /\ executor' \in [poisoned : BOOLEAN, executed : BOOLEAN, dropped : BOOLEAN]
         /\ executor'.poisoned = ~ok /\ ~executor'.dropped /\ ~executor'.executed
         /\ Sound' <=> ok
         /\ started' \in {Null, "Check", "Cancelled"} /\ started' # "Check"
         /\ faultless' \in BOOLEAN
<1>1. executor \in [poisoned : BOOLEAN, executed : BOOLEAN, dropped : BOOLEAN]
  BY DEF RequestFlow, StateTypes
<1>2. ~executor.poisoned /\ ~executor.executed /\ ~executor.dropped
  BY DEF Consumed, Listening
<1>3. executor' = [executor EXCEPT !.poisoned = ~ok]
  BY DEF Consumed
<1>4. /\ executor' \in [poisoned : BOOLEAN, executed : BOOLEAN, dropped : BOOLEAN]
      /\ executor'.poisoned = ~ok /\ ~executor'.dropped /\ ~executor'.executed
  BY <1>1, <1>2, <1>3
<1>5. started' \in {Null, "Check", "Cancelled"} /\ started' # "Check"
  BY <1>2 DEF Consumed, RequestFlow, StateTypes, PhaseFlow
<1>6. HasTree(stream) /\ stream \in StreamTypes
  BY StreamFields DEF HasTree, RequestFlow, StateTypes, PhaseFlow
<1> QED
  BY <1>2, <1>4, <1>5, <1>6 DEF Sound, Consumed

\* A sealed tree stays what it is while nothing writes to it.
LEMMA SealedStays ==
  ASSUME SealedTreeIsDeclared, sealed' = sealed, disk' = disk, stream'.request = stream.request
  PROVE  SealedTreeIsDeclared'
BY DEF SealedTreeIsDeclared

\* Every field of a stream may take every value of its type.
LEMMA StreamUpdate ==
  ASSUME NEW s \in StreamTypes, NEW q \in Nat, NEW i \in STRING \cup {Null},
         NEW ph \in {"ClientHello", "Header", "Input", "Complete", "Cancelled", "Poisoned"},
         NEW r \in Requests \cup {Null}, NEW t \in TreeStreamTypes \cup {Null}
  PROVE  /\ [s EXCEPT !.phase = ph, !.id = i, !.seq = q] \in StreamTypes
         /\ [s EXCEPT !.phase = ph, !.request = r, !.tree = t, !.seq = q] \in StreamTypes
BY DEF StreamTypes

\* A stream with another tree is a stream.
LEMMA TreeUpdate ==
  ASSUME NEW s \in StreamTypes, NEW q \in Nat, NEW b \in BOOLEAN, NEW t \in TreeStreamTypes
  PROVE  /\ [s EXCEPT !.tree = t, !.manifest_seen = b, !.seq = q] \in StreamTypes
         /\ [s EXCEPT !.tree = t, !.seq = q] \in StreamTypes
BY DEF StreamTypes

\* A stream without its tree is a stream.
LEMMA TreeClosed ==
  ASSUME NEW s \in StreamTypes, NEW q \in Nat, NEW ph \in {"Complete", "Cancelled"}
  PROVE  [s EXCEPT !.phase = ph, !.tree = Null, !.seq = q] \in StreamTypes
BY DEF StreamTypes

\* When no check has started, there is nothing to say about it.
LEMMA NoCheck ==
  ASSUME started' # "Check"
  PROVE  CheckStartsOnSealedTree'
BY DEF CheckStartsOnSealedTree

\* A refused frame keeps the invariant.
LEMMA RefuseKeeps ==
  ASSUME RequestFlow, before' = before, NEW f \in Frames, Refuse(f)
  PROVE  RequestFlow'
<1>1. /\ stream' = Poison(stream) /\ executor' = [executor EXCEPT !.poisoned = TRUE]
      /\ faultless' \in BOOLEAN
      /\ stage' = stage /\ sealed' = sealed /\ disk' = disk /\ started' = started
      /\ ~executor.poisoned /\ ~executor.executed /\ ~executor.dropped
  BY DEF Refuse, Listening
<1>2. /\ stream' \in StreamTypes /\ stream'.phase = "Poisoned"
      /\ stream'.request = stream.request /\ stream'.tree = stream.tree
  BY <1>1 DEF RequestFlow, StateTypes, Poison, StreamTypes
<1>3. /\ executor' \in [poisoned : BOOLEAN, executed : BOOLEAN, dropped : BOOLEAN]
      /\ executor'.poisoned /\ ~executor'.dropped
  BY <1>1 DEF RequestFlow, StateTypes
<1>4. started # "Check"
  BY <1>1 DEF RequestFlow, PhaseFlow
<1>5. StateTypes'
  BY <1>1, <1>2, <1>3 DEF RequestFlow, StateTypes
<1>6. PhaseFlow'
  BY <1>1, <1>2, <1>3, <1>4 DEF RequestFlow, PhaseFlow, Sound
<1>7. WithinDeclared'
  BY <1>2 DEF RequestFlow, WithinDeclared
<1>8. StagedTree'
  BY <1>1 DEF RequestFlow, StagedTree
<1>9. InStep'
  BY <1>2 DEF InStep
<1>10. SealedTreeIsDeclared' /\ CheckStartsOnSealedTree'
  BY <1>1, <1>2, <1>4, SealedStays, NoCheck DEF RequestFlow
<1> QED
  BY <1>5, <1>6, <1>7, <1>8, <1>9, <1>10 DEF RequestFlow

\* The hello keeps the invariant.
LEMMA HelloKeeps ==
  ASSUME RequestFlow, before' = before, NEW f \in Frames, Hello(f)
  PROVE  RequestFlow'
<1>1. Consumed(f, "ClientHello", TRUE)
  BY DEF Hello, Consume, Consumed
<1>2. stage' = stage /\ sealed' = sealed /\ disk' = disk
  BY DEF Hello
<1>3. /\ stream \in StreamTypes
      /\ executor' \in [poisoned : BOOLEAN, executed : BOOLEAN, dropped : BOOLEAN]
      /\ ~executor'.dropped
      /\ started' \in {Null, "Check", "Cancelled"} /\ started' # "Check" /\ faultless' \in BOOLEAN
  BY <1>1, AfterConsumed
<1>4. f.msg.trusted \in BOOLEAN /\ f.id \in STRING
  BY <1>1, FrameFields DEF Consumed, MessageTypes
<1>5. /\ stream.phase = "ClientHello"
      /\ stream' = [stream EXCEPT !.phase = "Header", !.id = f.id, !.seq = @ + 1]
  BY <1>1, <1>3, <1>4, TakesHello, ZenonT(60) DEF Consumed
<1>6. /\ stream' \in StreamTypes /\ stream'.phase = "Header" /\ stream'.tree = stream.tree
      /\ stream'.request = stream.request /\ stream'.manifest_seen = stream.manifest_seen
  <2>1. stream.seq + 1 \in Nat
    BY <1>3, StreamFields, SMTT(30)
  <2>2. stream' \in StreamTypes
    BY <1>3, <1>4, <1>5, <2>1, StreamUpdate
  <2> QED
    BY <1>3, <1>5, <2>2 DEF StreamTypes
<1>7. /\ stage = Null /\ sealed = Null /\ stream.tree = Null /\ stream.request = Null
      /\ ~stream.manifest_seen
  BY <1>5 DEF RequestFlow, PhaseFlow
<1>8. StateTypes'
  BY <1>2, <1>3, <1>6 DEF RequestFlow, StateTypes
<1>9. PhaseFlow'
  BY <1>2, <1>3, <1>6, <1>7 DEF PhaseFlow
<1>10. WithinDeclared' /\ InStep'
  BY <1>6, <1>7 DEF WithinDeclared, InStep
<1>11. StagedTree'
  BY <1>2, <1>7 DEF RequestFlow, StagedTree
<1>12. SealedTreeIsDeclared' /\ CheckStartsOnSealedTree'
  BY <1>2, <1>3, <1>6, SealedStays, NoCheck DEF RequestFlow
<1> QED
  BY <1>8, <1>9, <1>10, <1>11, <1>12 DEF RequestFlow

\* What the stream and the executor are after a header.
LEMMA AfterHeader ==
  ASSUME RequestFlow, NEW f \in Frames, NEW ok \in BOOLEAN,
         Consumed(f, "RequestHeader", ok)
  PROVE  /\ stream.phase = "Header" /\ stage = Null /\ sealed = Null
         /\ stream' \in StreamTypes /\ stream'.phase = "Input" /\ ~stream'.manifest_seen
         /\ stream'.request # Null /\ stream'.tree # Null
         /\ stream'.tree = TreeNew(stream'.request)
         /\ stream'.tree.declared = stream'.request.input
         /\ stream'.tree.next = 0 /\ stream'.tree.digest = <<>> /\ stream'.tree.active = Null
         /\ WithinDeclared'
<1> DEFINE r == f.msg.request
<1>1. stream \in StreamTypes
  BY DEF RequestFlow, StateTypes
<1>2. r \in Requests
  BY FrameFields, MessageFields DEF Consumed
<1>3. /\ stream.phase = "Header" /\ TreeNew(r) # Null
      /\ stream' = [stream EXCEPT !.phase = "Input", !.request = r, !.tree = TreeNew(r),
                                  !.seq = @ + 1]
  BY <1>1, TakesHeader DEF Consumed
<1>4. stage = Null /\ sealed = Null /\ ~stream.manifest_seen
  BY <1>3 DEF RequestFlow, PhaseFlow
<1> DEFINE t == TreeNew(r)
<1>5. /\ t \in TreeStreamTypes /\ t.declared = r.input /\ t.next = 0 /\ t.path_bytes = 0
      /\ t.content_bytes = 0 /\ t.digest = <<>> /\ t.active = Null
  <2>1. t \in TreeStreamTypes
    BY <1>2, <1>3, TreeNewType
  <2> QED
    BY <1>3, <2>1 DEF TreeNew
<1>6. r.input.records \in Nat /\ r.input.path_bytes \in Nat /\ r.input.content_bytes \in Nat
  BY <1>2, RequestFields, TreeFields
<1>7. r # Null
  BY <1>2, NullAssumption
<1> HIDE DEF r, t
<1>8. /\ stream' \in StreamTypes /\ stream'.phase = "Input" /\ stream'.request = r
      /\ stream'.tree = t /\ stream'.manifest_seen = stream.manifest_seen
  <2>1. stream.seq + 1 \in Nat
    BY <1>1, StreamFields
  <2>2. stream' = [stream EXCEPT !.phase = "Input", !.request = r, !.tree = t, !.seq = @ + 1]
    BY <1>3, SMTT(30) DEF t
  <2>3. stream' \in StreamTypes
    BY <1>1, <1>2, <1>5, <2>1, <2>2, StreamUpdate
  <2> QED
    BY <1>1, <2>2, <2>3 DEF StreamTypes
<1>9. WithinDeclared'
  BY <1>5, <1>6, <1>8 DEF WithinDeclared
<1> QED
  BY <1>3, <1>4, <1>5, <1>7, <1>8, <1>9 DEF t

\* Stage::create keeps the invariant.
LEMMA HeaderKeeps ==
  ASSUME RequestFlow, before' = before, NEW f \in Frames, Header(f)
  PROVE  RequestFlow'
<1>1. Consumed(f, "RequestHeader", TRUE)
  BY DEF Header, Consume, Consumed
<1>2. /\ stage' = StageNew /\ sealed' = sealed /\ disk' = [p \in {Root} |-> Dir]
      /\ Root \notin DOMAIN disk
  BY DEF Header, Consume
<1>3. /\ stream \in StreamTypes
      /\ executor' \in [poisoned : BOOLEAN, executed : BOOLEAN, dropped : BOOLEAN]
      /\ ~executor'.dropped /\ ~executor'.poisoned
      /\ started' \in {Null, "Check", "Cancelled"} /\ started' # "Check" /\ faultless' \in BOOLEAN
  BY <1>1, AfterConsumed
<1>4. /\ stage = Null /\ sealed = Null
      /\ stream' \in StreamTypes /\ stream'.phase = "Input" /\ ~stream'.manifest_seen
      /\ stream'.request # Null /\ stream'.tree # Null
      /\ stream'.tree.declared = stream'.request.input
      /\ stream'.tree.next = 0 /\ stream'.tree.digest = <<>> /\ stream'.tree.active = Null
      /\ WithinDeclared'
  BY <1>1, AfterHeader
<1>5. /\ stage' \in StageTypes /\ stage' # Null
      /\ stage'.entries = <<>> /\ stage'.active = Null /\ stage'.records = <<>>
  <2>1. stage' \in StageTypes
    BY <1>2 DEF StageNew, StageTypes
  <2> QED
    BY <1>2, <2>1, NullAssumption DEF StageNew
<1>6. before = <<>>
  <2>1. before \in {<<>>} \cup ForeignDisks /\ disk = before
    BY <1>4 DEF RequestFlow, StateTypes, StagedTree
  <2>2. ASSUME NEW d \in ForeignDisks PROVE Root \in DOMAIN d
    BY DEF ForeignDisks
  <2> QED
    BY <1>2, <2>1, <2>2
<1>7. IsDisk(disk') /\ Made(disk', <<>>)
  <2>1. DOMAIN disk' = {Root} /\ disk'[Root] = Dir
    BY <1>2
  <2>2. disk' \in [{Root} -> NodeTypes]
    BY <1>2 DEF NodeTypes
  <2>3. ToSet(<<>>) = {} /\ DOMAIN <<>> = {} /\ <<>> \in Seq(Paths)
    BY DEF ToSet
  <2> QED
    BY <2>1, <2>2, <2>3 DEF IsDisk, Made
<1>8. StateTypes'
  BY <1>2, <1>3, <1>4, <1>5, <1>7 DEF RequestFlow, StateTypes
<1>9. PhaseFlow'
  BY <1>2, <1>3, <1>4, <1>5 DEF PhaseFlow
<1>10. StagedTree'
  BY <1>2, <1>4, <1>5, <1>6, <1>7 DEF StagedTree
<1>11. InStep'
  <2>1. ActiveInStep'
    BY <1>4, <1>5 DEF ActiveInStep, ActiveDone
  <2>2. Len(<<>>) = 0
    OBVIOUS
  <2> QED
    BY <1>4, <1>5, <2>1, <2>2 DEF InStep
<1>12. SealedTreeIsDeclared' /\ CheckStartsOnSealedTree'
  BY <1>2, <1>3, <1>4, NoCheck DEF SealedTreeIsDeclared
<1> QED
  BY <1>4, <1>8, <1>9, <1>10, <1>11, <1>12 DEF RequestFlow

\* A failed Stage::create keeps the invariant.
LEMMA HeaderFailsKeeps ==
  ASSUME RequestFlow, before' = before, NEW f \in Frames, HeaderFails(f)
  PROVE  RequestFlow'
<1>1. Consumed(f, "RequestHeader", FALSE)
  BY DEF HeaderFails, Consume, Consumed
<1>2. stage' = stage /\ sealed' = sealed /\ disk' = disk
  BY DEF HeaderFails
<1>3. /\ executor' \in [poisoned : BOOLEAN, executed : BOOLEAN, dropped : BOOLEAN]
      /\ ~executor'.dropped /\ executor'.poisoned
      /\ started' \in {Null, "Check", "Cancelled"} /\ started' # "Check" /\ faultless' \in BOOLEAN
  BY <1>1, AfterConsumed
<1>4. /\ stage = Null /\ sealed = Null
      /\ stream' \in StreamTypes /\ stream'.phase = "Input"
      /\ stream'.request # Null /\ stream'.tree # Null
      /\ stream'.tree.declared = stream'.request.input
      /\ WithinDeclared'
  BY <1>1, AfterHeader
<1>5. StateTypes'
  BY <1>2, <1>3, <1>4 DEF RequestFlow, StateTypes
<1>6. PhaseFlow'
  BY <1>2, <1>3, <1>4 DEF PhaseFlow, Sound
<1>7. StagedTree'
  BY <1>2, <1>4 DEF RequestFlow, StagedTree
<1>8. InStep'
  BY <1>3 DEF InStep, Sound
<1>9. SealedTreeIsDeclared' /\ CheckStartsOnSealedTree'
  BY <1>2, <1>3, <1>4, NoCheck DEF SealedTreeIsDeclared
<1> QED
  BY <1>4, <1>5, <1>6, <1>7, <1>8, <1>9 DEF RequestFlow

\* The bytes of directories are a natural number.
LEMMA DirBytesIsNatural ==
  ASSUME NEW dirs \in Seq(Paths)
  PROVE  DirBytes(dirs) \in Nat
<1> DEFINE s == [i \in DOMAIN dirs |-> Len(dirs[i])]
<1>1. DOMAIN dirs = 1 .. Len(dirs) /\ Len(dirs) \in Nat
  OBVIOUS
<1>2. \A i \in DOMAIN dirs : Len(dirs[i]) \in Nat
  BY DEF Paths
<1>3. s \in [1 .. Len(dirs) -> Nat]
  BY <1>1, <1>2
<1>4. s \in Seq(Nat)
  BY <1>1, <1>3, SeqDef
<1> QED
  BY <1>4, TotalIsNatural DEF DirBytes

\* The fields of a stage.
LEMMA StageFields ==
  ASSUME NEW st \in StageTypes
  PROVE  /\ st.records \in Seq(RecordTypes) /\ st.active \in FileTypes \cup {Null}
         /\ st.entries \in Seq(Paths) /\ st.dir_bytes \in Nat
BY DEF StageTypes

\* What the missing parents are.
LEMMA MissingParentsIs ==
  ASSUME NEW p \in DOMAIN PathOrder
  PROVE  /\ MissingParents(p) # Null <=> NoFileAbove(p, disk)
         /\ MissingParents(p) # Null => MissingParents(p) = NewParents(p, DOMAIN disk)
<1>1. NewParents(p, DOMAIN disk) # Null
  BY NewParentsType, NullAssumption
<1>2. CASE NoFileAbove(p, disk)
  <2>1. MissingParents(p) = NewParents(p, DOMAIN disk)
    BY <1>2, Zenon DEF MissingParents, NoFileAbove
  <2> QED
    BY <1>1, <1>2, <2>1
<1>3. CASE ~NoFileAbove(p, disk)
  <2>1. MissingParents(p) = Null
    BY <1>3, Zenon DEF MissingParents, NoFileAbove
  <2> QED
    BY <1>3, <2>1
<1> QED
  BY <1>2, <1>3

\* The directory and the stage st once dirs, which are parents of p, are made.
ParentsKept(p, st, dirs) ==
    /\ IsDisk(DiskWithDirs(dirs))
    /\ WithDirs(st, dirs) \in StageTypes
    /\ WithDirs(st, dirs).records = st.records
    /\ WithDirs(st, dirs).entries = st.entries \o dirs
    /\ WithDirs(st, dirs).dir_bytes = st.dir_bytes + DirBytes(dirs)
    /\ Made(DiskWithDirs(dirs), st.entries \o dirs)
    /\ \A x \in DOMAIN disk : DiskWithDirs(dirs)[x] = disk[x]
    /\ DOMAIN DiskWithDirs(dirs) = DOMAIN disk \cup ToSet(dirs)
    /\ \A x \in ToSet(dirs) : \E k \in DOMAIN Parents(p) : x = Parents(p)[k]

ParentsComplete(p, dirs) ==
    \A k \in DOMAIN Parents(p) :
        Parents(p)[k] \in DOMAIN DiskWithDirs(dirs) /\ DiskWithDirs(dirs)[Parents(p)[k]] = Dir

\* create_private_parents keeps the tree, however many of the directories it
\* makes.
LEMMA ParentsKeep ==
  ASSUME NEW p \in DOMAIN PathOrder, MissingParents(p) # Null, IsDisk(disk),
         NEW st \in StageTypes, Made(disk, st.entries),
         NEW n \in 0 .. Len(MissingParents(p))
  PROVE  /\ ParentsKept(p, st, SubSeq(MissingParents(p), 1, n))
         /\ n = Len(MissingParents(p)) => ParentsComplete(p, SubSeq(MissingParents(p), 1, n))
<1> DEFINE missing == MissingParents(p)
           dirs == SubSeq(missing, 1, n)
<1>1. missing = NewParents(p, DOMAIN disk) /\ NoFileAbove(p, disk)
  BY MissingParentsIs
<1>2. missing \in Seq(Paths) /\ n \in 0 .. Len(missing) /\ n \in Nat
  BY <1>1, NewParentsType
<1>3. dirs = MadeParents(p, disk, n)
  BY <1>1 DEF MadeParents
<1>4. DiskWithDirs(dirs) = WithParents(p, disk, n)
  BY <1>3 DEF DiskWithDirs, WithParents
<1>5. n \in 0 .. Len(NewParents(p, DOMAIN disk))
  BY <1>1
<1>6. PICK m : ParentsFrom(m, p, disk, n)
  BY <1>5, MadeParentsAre
<1> HIDE DEF missing, dirs
<1>7. dirs \in Seq(Paths) /\ Len(dirs) = n
  BY <1>3, <1>6 DEF ParentsFrom
<1>8. /\ Made(WithParents(p, disk, n), st.entries \o MadeParents(p, disk, n))
      /\ n = Len(NewParents(p, DOMAIN disk)) =>
            \A k \in DOMAIN Parents(p) :
                  /\ Parents(p)[k] \in DOMAIN WithParents(p, disk, n)
                  /\ WithParents(p, disk, n)[Parents(p)[k]] = Dir
  BY <1>1, <1>5, ParentsAreMade
<1>9. Dir \in NodeTypes
  BY DEF NodeTypes
<1>10. /\ IsDisk(DiskWithDirs(dirs))
       /\ DOMAIN DiskWithDirs(dirs) = DOMAIN disk \cup ToSet(dirs)
       /\ \A x \in DOMAIN disk \ ToSet(dirs) : DiskWithDirs(dirs)[x] = disk[x]
  <2> DEFINE paths == ToSet(dirs)
  <2>1. DiskWithDirs(dirs) = Placed(disk, paths, Dir)
    BY DEF DiskWithDirs
  <2>2. /\ DOMAIN Placed(disk, paths, Dir) = DOMAIN disk \cup paths
        /\ \A x \in DOMAIN disk \ paths : Placed(disk, paths, Dir)[x] = disk[x]
    BY DEF Placed
  <2>3. IsDisk(Placed(disk, paths, Dir))
    BY <1>9, PlacedIs
  <2> QED
    BY <2>1, <2>2, <2>3
<1>11. ASSUME NEW x \in ToSet(dirs)
       PROVE  x \notin DOMAIN disk /\ \E k \in DOMAIN Parents(p) : x = Parents(p)[k]
  <2>1. PICK i \in 1 .. n : x = dirs[i]
    BY <1>7, <1>11 DEF ToSet
  <2>2. /\ m \in 0 .. Len(Parents(p)) /\ m + n <= Len(Parents(p)) /\ dirs[i] = Parents(p)[m + i]
        /\ \A k \in m + 1 .. Len(Parents(p)) : Parents(p)[k] \notin DOMAIN disk
    BY <1>3, <1>6, <2>1 DEF ParentsFrom
  <2>3. Len(Parents(p)) \in Nat /\ DOMAIN Parents(p) = 1 .. Len(Parents(p))
    BY ParentsOf
  <2>4. m \in Nat /\ m + i \in m + 1 .. Len(Parents(p)) /\ m + i \in 1 .. Len(Parents(p))
    BY <1>2, <2>1, <2>2, <2>3
  <2> QED
    BY <2>1, <2>2, <2>3, <2>4
<1>12. DirBytes(dirs) \in Nat
  BY <1>7, DirBytesIsNatural
<1>13. /\ WithDirs(st, dirs) \in StageTypes
       /\ WithDirs(st, dirs).records = st.records
       /\ WithDirs(st, dirs).entries = st.entries \o dirs
       /\ WithDirs(st, dirs).dir_bytes = st.dir_bytes + DirBytes(dirs)
  <2>1. st.entries \o dirs \in Seq(Paths) /\ st.dir_bytes + DirBytes(dirs) \in Nat
    BY <1>7, <1>12, StageFields
  <2> QED
    BY <2>1 DEF WithDirs, StageTypes
<1>15. Made(DiskWithDirs(dirs), st.entries \o dirs)
  BY <1>3, <1>4, <1>8
<1>16. n = Len(missing) =>
          \A k \in DOMAIN Parents(p) :
                  /\ Parents(p)[k] \in DOMAIN DiskWithDirs(dirs)
                  /\ DiskWithDirs(dirs)[Parents(p)[k]] = Dir
  BY <1>1, <1>4, <1>8
<1>17. \A x \in DOMAIN disk : DiskWithDirs(dirs)[x] = disk[x]
  BY <1>10, <1>11
<1>18. ParentsKept(p, st, dirs)
  BY <1>10, <1>11, <1>13, <1>15, <1>17 DEF ParentsKept
<1>19. n = Len(missing) => ParentsComplete(p, dirs)
  BY <1>16 DEF ParentsComplete
<1> QED
  BY <1>18, <1>19 DEF missing, dirs

\* What the stream is after a record.
LEMMA AfterRecord ==
  ASSUME RequestFlow, NEW f \in Frames, NEW ok \in BOOLEAN, Consumed(f, "InputRecord", ok)
  PROVE  LET rec == f.msg.record IN
         /\ f.msg.index \in Nat /\ rec \in RecordTypes
         /\ stream.phase = "Input" /\ stream.tree \in TreeStreamTypes
         /\ stage # Null /\ stage \in StageTypes /\ sealed = Null
         /\ before = <<>> /\ Made(disk, stage.entries)
         /\ stream' \in StreamTypes /\ stream'.phase = "Input" /\ stream'.tree # Null
         /\ stream'.request = stream.request /\ stream'.request # Null
         /\ stream'.tree \in TreeStreamTypes
         /\ stream'.tree.declared = stream'.request.input
         /\ stream'.manifest_seen = (stream.manifest_seen \/ rec.path = stream.request.manifest)
         /\ stream.tree.active = Null /\ f.msg.index = stream.tree.next
         /\ stream'.tree.next = stream.tree.next + 1
         /\ stream'.tree.digest = Append(stream.tree.digest, rec)
         /\ stream'.tree.active = StartedRecord(f.msg.index, rec)
         /\ rec.bytes = 0 => rec.digest = <<>>
         /\ WithinDeclared'
<1> DEFINE rec == f.msg.record
           index == f.msg.index
           tree == stream.tree
           new == AcceptRecord(tree, index, rec)
           seen == stream.manifest_seen \/ rec.path = stream.request.manifest
<1>1. index \in Nat /\ rec \in RecordTypes
  BY FrameFields, MessageFields DEF Consumed
<1>2. Sound /\ HasTree(stream) /\ stream \in StreamTypes
  BY AfterConsumed
<1>3. /\ stream.phase = "Input" /\ new # Null
      /\ stream' = [stream EXCEPT !.tree = new, !.manifest_seen = seen, !.seq = @ + 1]
  BY <1>2, TakesRecord DEF Consumed
<1>4. tree \in TreeStreamTypes
  BY <1>2, <1>3 DEF HasTree
<1>5. /\ stage # Null /\ stage \in StageTypes /\ sealed = Null /\ stream.request # Null
      /\ tree.declared = stream.request.input
      /\ before = <<>> /\ Made(disk, stage.entries)
  BY <1>2, <1>3 DEF RequestFlow, PhaseFlow, StateTypes, StagedTree
<1>6. /\ tree.active = Null /\ index = tree.next
      /\ index < tree.declared.records
      /\ RecordFits(tree, rec)
      /\ rec.bytes = 0 => rec.digest = <<>>
      /\ new \in TreeStreamTypes
      /\ new.declared = tree.declared
      /\ new.path_bytes = tree.path_bytes + PathBytes(rec.path)
      /\ new.content_bytes = tree.content_bytes + rec.bytes
      /\ new.digest = Append(tree.digest, rec)
      /\ new.next = tree.next + 1 /\ new.active = StartedRecord(index, rec)
  BY <1>1, <1>3, <1>4, AcceptRecordIs, SMTT(30)
<1>7. tree.next \in Nat /\ tree.declared.records \in Nat
  BY <1>4, TreeStreamFields, TreeFields
<1>8. stream.seq + 1 \in Nat /\ seen \in BOOLEAN
  BY <1>2, StreamFields
<1> HIDE DEF new, seen
<1>9. stream' \in StreamTypes
  BY <1>2, <1>3, <1>6, <1>8, TreeUpdate
<1>10. /\ stream'.phase = "Input" /\ stream'.tree = new /\ stream'.request = stream.request
       /\ stream'.manifest_seen = seen
  BY <1>2, <1>3 DEF StreamTypes
<1>11. /\ new.next <= new.declared.records
       /\ new.path_bytes <= new.declared.path_bytes
       /\ new.content_bytes <= new.declared.content_bytes
  BY <1>6, <1>7, SMTT(30) DEF RecordFits
<1>12. WithinDeclared'
  BY <1>10, <1>11, SMTT(30) DEF WithinDeclared
<1> QED
  BY <1>1, <1>3, <1>4, <1>5, <1>6, <1>9, <1>10, <1>12 DEF seen
\* What the stage and the directory are after a record.
LEMMA RecordStages ==
  ASSUME RequestFlow, NEW f \in Frames, Record(f)
  PROVE  LET rec == f.msg.record
             path == PathOrder[rec.path]
         IN  /\ stage' \in StageTypes /\ sealed' = sealed /\ IsDisk(disk')
             /\ Made(disk', stage'.entries)
             /\ stage'.records = Append(stage.records, rec)
             /\ stage'.active = [index |-> f.msg.index, declared |-> rec.bytes,
                                 offset |-> 0, path |-> path]
             /\ stage'.active \in FileTypes
             /\ stage'.dir_bytes = stage.dir_bytes + DirBytes(NewParents(rec.path, DOMAIN disk))
             /\ path \in DOMAIN disk' /\ disk'[path] = FileOf(<<>>)
             /\ path \notin DOMAIN disk
             /\ \A x \in DOMAIN disk : disk'[x] = disk[x]
             /\ \A x \in ToSet(NewParents(rec.path, DOMAIN disk)) : disk'[x] = Dir
             /\ DOMAIN disk' = DOMAIN disk \cup ToSet(NewParents(rec.path, DOMAIN disk)) \cup {path}
             /\ \A x \in DOMAIN disk' : disk'[x].kind = "File" =>
                   x = path \/ (x \in DOMAIN disk /\ disk'[x] = disk[x])
             /\ ToSet(NewParents(rec.path, DOMAIN disk)) \subseteq ToSet(Parents(rec.path))
             /\ \A x \in ToSet(Parents(rec.path)) : x \in DOMAIN disk' /\ disk'[x] = Dir
<1> DEFINE rec == f.msg.record
           path == PathOrder[rec.path]
           missing == MissingParents(rec.path)
           act == [index |-> f.msg.index, declared |-> rec.bytes, offset |-> 0, path |-> path]
           mid == DiskWithDirs(missing)
           st == WithDirs(stage, missing)
<1>1. Consumed(f, "InputRecord", TRUE)
  BY DEF Record, Consume, Consumed
<1>2. /\ f.msg.index \in Nat /\ rec \in RecordTypes /\ stage \in StageTypes
      /\ Made(disk, stage.entries)
  BY <1>1, AfterRecord
<1>3. rec.path \in DOMAIN PathOrder /\ rec.bytes \in Nat
  BY <1>2, RecordFields
<1>4. RecordPossible(f)
  BY DEF Record, Consume
<1>5. missing # Null /\ path \notin DOMAIN disk
  BY <1>4 DEF RecordPossible
<1>6. /\ sealed' = sealed
      /\ disk' = Placed(mid, {path}, FileOf(<<>>))
      /\ stage' = [st EXCEPT !.entries = Append(@, path), !.records = Append(@, rec),
                             !.active = act]
  BY DEF Record
<1>7. IsDisk(disk)
  BY DEF RequestFlow, StateTypes
<1>8. missing = NewParents(rec.path, DOMAIN disk)
  BY <1>3, <1>5, MissingParentsIs
<1>9. missing \in Seq(Paths) /\ Len(missing) \in 0 .. Len(missing)
  BY <1>3, <1>8, NewParentsType
<1>10. SubSeq(missing, 1, Len(missing)) = missing
  BY <1>9, SubSeqFull
<1>11. /\ IsDisk(mid) /\ st \in StageTypes /\ st.records = stage.records
       /\ st.entries = stage.entries \o missing
       /\ st.dir_bytes = stage.dir_bytes + DirBytes(missing)
       /\ Made(mid, st.entries)
       /\ DOMAIN mid = DOMAIN disk \cup ToSet(missing)
       /\ \A x \in ToSet(missing) : \E k \in DOMAIN Parents(rec.path) : x = Parents(rec.path)[k]
       /\ \A k \in DOMAIN Parents(rec.path) :
             Parents(rec.path)[k] \in DOMAIN mid /\ mid[Parents(rec.path)[k]] = Dir
       /\ \A x \in DOMAIN disk : mid[x] = disk[x]
  <2>1. /\ ParentsKept(rec.path, stage, SubSeq(missing, 1, Len(missing)))
        /\ ParentsComplete(rec.path, SubSeq(missing, 1, Len(missing)))
    BY <1>2, <1>3, <1>5, <1>7, <1>9, ParentsKeep
  <2>2. ParentsKept(rec.path, stage, missing) /\ ParentsComplete(rec.path, missing)
    BY <1>10, <2>1
  <2> HIDE DEF missing
  <2> QED
    BY <2>2 DEF ParentsKept, ParentsComplete
<1> HIDE DEF missing, mid, st
<1>12. path \in Paths /\ path # Root /\ Len(path) \in Nat \ {0}
       /\ DOMAIN Parents(rec.path) = 1 .. (Len(path) - 1)
       /\ \A k \in 1 .. (Len(path) - 1) :
             Parents(rec.path)[k] = SubSeq(path, 1, k) /\ Len(Parents(rec.path)[k]) = k
  BY <1>3, ParentsOf
<1> HIDE DEF path
<1>13. path \notin DOMAIN mid
  <2>1. ASSUME path \in ToSet(missing) PROVE FALSE
    <3>1. PICK k \in 1 .. (Len(path) - 1) : path = Parents(rec.path)[k]
      BY <1>11, <1>12, <2>1
    <3>2. Len(path) = k
      BY <1>12, <3>1
    <3> QED
      BY <1>12, <3>1, <3>2
  <2> QED
    BY <1>5, <1>11, <2>1 DEF path
<1>14. Made(disk', Append(st.entries, path))
  <2>1. \A k \in 1 .. Len(path) - 1 :
           SubSeq(path, 1, k) \in DOMAIN mid /\ mid[SubSeq(path, 1, k)] = Dir
    BY <1>11, <1>12, ZenonT(60)
  <2> QED
    BY <1>6, <1>11, <1>12, <1>13, <2>1, FileIsMade
<1>15. FileOf(<<>>) \in NodeTypes
  BY DEF FileOf, NodeTypes, Content
<1>16. IsDisk(disk')
  BY <1>6, <1>11, <1>15, PlacedIs
<1>17. act \in FileTypes
  BY <1>2, <1>3, <1>12 DEF FileTypes
<1>18. /\ stage' \in StageTypes /\ stage'.entries = Append(st.entries, path)
       /\ stage'.records = Append(st.records, rec) /\ stage'.active = act
       /\ stage'.dir_bytes = st.dir_bytes
  <2>a. st.entries \in Seq(Paths) /\ st.records \in Seq(RecordTypes)
    BY <1>11, StageFields
  <2>1. Append(st.entries, path) \in Seq(Paths) /\ Append(st.records, rec) \in Seq(RecordTypes)
    BY <1>2, <1>12, <2>a
  <2> HIDE DEF act
  <2> QED
    BY <1>6, <1>11, <1>17, <2>1 DEF StageTypes
<1>19. DOMAIN disk' = DOMAIN mid \cup {path} /\ disk'[path] = FileOf(<<>>)
       /\ \A x \in DOMAIN mid : disk'[x] = mid[x]
  BY <1>6, <1>13 DEF Placed
<1>20. ASSUME NEW x \in DOMAIN disk', disk'[x].kind = "File"
       PROVE  x = path \/ (x \in DOMAIN disk /\ disk'[x] = disk[x])
  <2>1. CASE x \in ToSet(missing)
    <3>1. PICK k \in DOMAIN Parents(rec.path) : x = Parents(rec.path)[k]
      BY <1>11, <2>1
    <3>2. disk'[x] = Dir
      BY <1>11, <1>19, <3>1
    <3> QED
      BY <1>20, <3>2 DEF Dir
  <2>2. CASE x \in DOMAIN disk
    <3>1. x \in DOMAIN mid /\ disk'[x] = mid[x]
      BY <1>11, <1>19, <2>2
    <3> QED
      BY <1>11, <2>2, <3>1
  <2> QED
    BY <1>11, <1>19, <2>1, <2>2
<1>21. \A x \in DOMAIN disk : disk'[x] = disk[x]
  BY <1>11, <1>19
<1>22. \A x \in ToSet(missing) : disk'[x] = Dir
  BY <1>11, <1>19
<1>23. DOMAIN disk' = DOMAIN disk \cup ToSet(missing) \cup {path}
  BY <1>11, <1>19
<1>24. stage'.dir_bytes = stage.dir_bytes + DirBytes(missing) /\ Made(disk', stage'.entries)
       /\ stage'.records = Append(stage.records, rec)
  BY <1>11, <1>14, <1>18
<1>25. ToSet(missing) \subseteq ToSet(Parents(rec.path))
  BY <1>11 DEF ToSet
<1>26. \A x \in ToSet(Parents(rec.path)) : x \in DOMAIN disk' /\ disk'[x] = Dir
  BY <1>11, <1>19 DEF ToSet
<1> QED
  BY <1>5, <1>6, <1>8, <1>16, <1>17, <1>18, <1>19, <1>20, <1>21, <1>22, <1>23, <1>24, <1>25,
     <1>26 DEF path

\* Stage::start_record keeps the invariant.
LEMMA RecordKeeps ==
  ASSUME RequestFlow, before' = before, NEW f \in Frames, Record(f)
  PROVE  RequestFlow'
<1> DEFINE rec == f.msg.record
           path == PathOrder[rec.path]
           recs == stream.tree.digest
           n == Len(recs)
<1>1. Consumed(f, "InputRecord", TRUE)
  BY DEF Record, Consume, Consumed
<1>2. /\ Sound
      /\ executor' \in [poisoned : BOOLEAN, executed : BOOLEAN, dropped : BOOLEAN]
      /\ ~executor'.dropped /\ ~executor'.poisoned
      /\ started' \in {Null, "Check", "Cancelled"} /\ started' # "Check" /\ faultless' \in BOOLEAN
  BY <1>1, AfterConsumed
<1>3. /\ f.msg.index \in Nat /\ rec \in RecordTypes
      /\ stream.phase = "Input" /\ stream.tree \in TreeStreamTypes
      /\ sealed = Null /\ before = <<>>
      /\ stream' \in StreamTypes /\ stream'.phase = "Input" /\ stream'.tree # Null
      /\ stream'.request = stream.request /\ stream'.request # Null
      /\ stream'.tree.declared = stream'.request.input
      /\ stream'.manifest_seen = (stream.manifest_seen \/ rec.path = stream.request.manifest)
      /\ stream.tree.active = Null /\ f.msg.index = stream.tree.next
      /\ stream'.tree.next = stream.tree.next + 1
      /\ stream'.tree.digest = Append(recs, rec)
      /\ stream'.tree.active = StartedRecord(f.msg.index, rec)
      /\ rec.bytes = 0 => rec.digest = <<>>
      /\ WithinDeclared'
  BY <1>1, AfterRecord
<1>4. /\ stage' \in StageTypes /\ sealed' = sealed /\ IsDisk(disk')
      /\ Made(disk', stage'.entries)
      /\ stage'.records = Append(stage.records, rec)
      /\ stage'.active = [index |-> f.msg.index, declared |-> rec.bytes,
                          offset |-> 0, path |-> path]
      /\ stage'.active \in FileTypes
      /\ path \in DOMAIN disk' /\ disk'[path] = FileOf(<<>>)
  BY RecordStages
<1>5. stage' # Null /\ stage'.active # Null
  BY <1>4, NullAssumption
<1>6. /\ stream.tree.next = n /\ stage.records = recs
      /\ \A i \in 1 .. n : recs[i].bytes = Len(recs[i].digest)
      /\ stream.manifest_seen => \E i \in 1 .. n : recs[i].path = stream.request.manifest
  BY <1>2, <1>3 DEF RequestFlow, InStep
<1>7. recs \in Seq(RecordTypes) /\ n \in Nat /\ rec.bytes \in Nat
  BY <1>3, TreeStreamFields, RecordFields
<1> HIDE DEF rec, path, recs, n
<1> DEFINE new == Append(recs, rec)
<1>8. /\ Len(new) = n + 1 /\ new[n + 1] = rec /\ \A i \in 1 .. n : new[i] = recs[i]
      /\ \A i \in 1 .. (n + 1) : i \in 1 .. n \/ i = n + 1
  BY <1>3, <1>7 DEF n
<1> HIDE DEF new
<1>9. StateTypes'
  BY <1>2, <1>3, <1>4 DEF RequestFlow, StateTypes
<1>10. PhaseFlow'
  BY <1>2, <1>3, <1>4, <1>5 DEF PhaseFlow
<1>11. StagedTree'
  BY <1>3, <1>4, <1>5 DEF StagedTree
<1>12. ASSUME rec.bytes = 0
       PROVE  /\ ActiveInStep'
              /\ \A i \in 1 .. (n + 1) :
                    i < n + 1 \/ stream'.tree.active = Null =>
                        new[i].bytes = Len(new[i].digest)
  <2>1. stream'.tree.active = Null /\ rec.digest = <<>>
    BY <1>3, <1>12 DEF StartedRecord
  <2>2. ActiveInStep'
    BY <1>4, <1>12, <2>1 DEF ActiveInStep, ActiveDone
  <2>3. \A i \in 1 .. (n + 1) : new[i].bytes = Len(new[i].digest)
    <3>1. Len(rec.digest) = 0
      BY <2>1
    <3> QED
      BY <1>6, <1>8, <1>12, <3>1
  <2> QED
    BY <2>2, <2>3
<1>13. ASSUME rec.bytes # 0
       PROVE  /\ ActiveInStep'
              /\ \A i \in 1 .. (n + 1) :
                    i < n + 1 \/ stream'.tree.active = Null =>
                        new[i].bytes = Len(new[i].digest)
  <2> DEFINE act == stream'.tree.active
  <2>1. act = [index |-> f.msg.index, bytes |-> rec.bytes, digest |-> rec.digest,
               offset |-> 0, data |-> <<>>]
    BY <1>3, <1>13 DEF StartedRecord
  <2>2. act # Null
    <3>1. act \in ActiveTypes
      BY <1>3, <2>1, RecordFields DEF ActiveTypes, Content
    <3> QED
      BY <3>1, NullAssumption
  <2>3. Len(<<>>) = 0 /\ 0 < rec.bytes /\ n + 1 # 0 /\ (n + 1) - 1 = n
    BY <1>7, <1>13
  <2>4. ActiveInStep'
    <3>1. /\ stream'.tree.digest = new
          /\ act.index = n /\ act.bytes = rec.bytes /\ act.digest = rec.digest
          /\ act.offset = 0 /\ act.data = <<>>
      BY <1>3, <1>6, <2>1 DEF new
    <3>2. /\ stage'.active.index = n /\ stage'.active.offset = 0
          /\ stage'.active.declared = rec.bytes /\ stage'.active.path = path
      BY <1>3, <1>4, <1>6
    <3> HIDE DEF act
    <3> QED
      BY <1>4, <1>5, <1>8, <2>2, <2>3, <3>1, <3>2 DEF ActiveInStep, act, path
  <2>5. \A i \in 1 .. (n + 1) : i < n + 1 => new[i].bytes = Len(new[i].digest)
    BY <1>6, <1>7, <1>8
  <2> QED
    BY <2>2, <2>4, <2>5
<1>14. InStep'
  <2>1. stream'.tree.next = Len(new) /\ stage'.records = new /\ stream'.tree.digest = new
    BY <1>3, <1>4, <1>6, <1>8 DEF new
  <2>2. stream'.manifest_seen =>
           \E i \in 1 .. (n + 1) : new[i].path = stream'.request.manifest
    <3>1. SUFFICES ASSUME stream'.manifest_seen
                   PROVE  \E i \in 1 .. (n + 1) : new[i].path = stream'.request.manifest
      OBVIOUS
    <3>2. CASE stream.manifest_seen
      <4>1. PICK i \in 1 .. n : recs[i].path = stream.request.manifest
        BY <1>6, <3>2
      <4>2. i \in 1 .. (n + 1)
        BY <1>7
      <4> QED
        BY <1>3, <1>8, <4>1, <4>2
    <3>3. CASE rec.path = stream.request.manifest
      <4>1. n + 1 \in 1 .. (n + 1)
        BY <1>7
      <4> QED
        BY <1>3, <1>8, <3>3, <4>1
    <3> QED
      BY <1>3, <3>1, <3>2, <3>3
  <2>3. /\ ActiveInStep'
        /\ \A i \in 1 .. (n + 1) :
              i < n + 1 \/ stream'.tree.active = Null => new[i].bytes = Len(new[i].digest)
    <3>1. CASE rec.bytes = 0
      BY <1>12, <3>1
    <3>2. CASE rec.bytes # 0
      BY <1>13, <3>2
    <3> QED
      BY <3>1, <3>2
  <2> QED
    BY <1>8, <2>1, <2>2, <2>3 DEF InStep
<1>15. SealedTreeIsDeclared' /\ CheckStartsOnSealedTree'
  BY <1>2, <1>3, <1>4, NoCheck DEF SealedTreeIsDeclared
<1> QED
  BY <1>3, <1>9, <1>10, <1>11, <1>14, <1>15 DEF RequestFlow

\* A start_record that fails, with some parents made, keeps the invariant.
LEMMA RecordFailsKeeps ==
  ASSUME RequestFlow, before' = before, NEW f \in Frames, RecordFails(f)
  PROVE  RequestFlow'
<1> DEFINE p == f.msg.record.path
           missing == IF MissingParents(p) = Null THEN <<>> ELSE MissingParents(p)
<1>1. Consumed(f, "InputRecord", FALSE)
  BY DEF RecordFails, Consume, Consumed
<1>2. /\ executor' \in [poisoned : BOOLEAN, executed : BOOLEAN, dropped : BOOLEAN]
      /\ ~executor'.dropped /\ executor'.poisoned
      /\ started' \in {Null, "Check", "Cancelled"} /\ started' # "Check" /\ faultless' \in BOOLEAN
  BY <1>1, AfterConsumed
<1>3. /\ f.msg.record \in RecordTypes
      /\ stage \in StageTypes /\ Made(disk, stage.entries)
      /\ sealed = Null /\ before = <<>>
      /\ stream' \in StreamTypes /\ stream'.phase = "Input" /\ stream'.tree # Null
      /\ stream'.request # Null
      /\ stream'.tree.declared = stream'.request.input
      /\ WithinDeclared'
  BY <1>1, AfterRecord
<1>4. p \in DOMAIN PathOrder /\ IsDisk(disk)
  BY <1>3, RecordFields DEF RequestFlow, StateTypes
<1>5. sealed' = sealed
  BY DEF RecordFails
<1>6. PICK made \in 0 .. Len(missing) :
          LET dirs == SubSeq(missing, 1, made) IN
             /\ disk' = DiskWithDirs(dirs)
             /\ stage' = [WithDirs(stage, dirs) EXCEPT !.active = Null]
  BY DEF RecordFails
<1> DEFINE dirs == SubSeq(missing, 1, made)
           st == WithDirs(stage, dirs)
<1>7. IsDisk(disk') /\ st \in StageTypes /\ Made(disk', st.entries)
  <2>1. CASE MissingParents(p) # Null
    <3>1. missing = MissingParents(p) /\ made \in 0 .. Len(MissingParents(p))
      BY <2>1
    <3>2. ParentsKept(p, stage, SubSeq(MissingParents(p), 1, made))
      BY <1>3, <1>4, <2>1, <3>1, ParentsKeep
    <3>3. ParentsKept(p, stage, dirs) /\ disk' = DiskWithDirs(dirs)
      BY <1>6, <3>1, <3>2
    <3> HIDE DEF dirs
    <3> QED
      BY <3>3 DEF ParentsKept
  <2>2. CASE MissingParents(p) = Null
    <3>1. missing = <<>>
      BY <2>2
    <3>2. made = 0
      BY <3>1
    <3>3. dirs = <<>> /\ disk' = DiskWithDirs(dirs)
      BY <1>6, <3>1, <3>2
    <3> HIDE DEF dirs, missing
    <3>4. ToSet(dirs) = {} /\ dirs \in Seq(Paths)
      BY <3>3 DEF ToSet
    <3>5. disk \in [DOMAIN disk -> NodeTypes]
      BY <1>4 DEF IsDisk
    <3>6. disk' = disk
      <4>1. disk' = [x \in DOMAIN disk |-> disk[x]]
        BY <3>3, <3>4 DEF DiskWithDirs, Placed
      <4> QED
        BY <3>5, <4>1
    <3>7. /\ stage.entries \in Seq(Paths) /\ stage.dir_bytes \in Nat /\ DirBytes(dirs) \in Nat
      BY <1>3, <3>4, StageFields, DirBytesIsNatural
    <3>8. stage.entries \o dirs = stage.entries
      BY <3>3, <3>7
    <3>a. stage.entries \o dirs \in Seq(Paths) /\ stage.dir_bytes + DirBytes(dirs) \in Nat
      BY <3>7, <3>8
    <3>9. st \in StageTypes /\ st.entries = stage.entries
      BY <1>3, <3>8, <3>a DEF WithDirs, StageTypes
    <3> HIDE DEF st
    <3> QED
      BY <1>3, <1>4, <3>6, <3>9
  <2> QED
    BY <2>1, <2>2
<1>8. stage' \in StageTypes /\ stage'.entries = st.entries
  <2>1. stage' = [st EXCEPT !.active = Null]
    BY <1>6
  <2> HIDE DEF st
  <2> QED
    BY <1>7, <2>1 DEF StageTypes
<1>9. stage' # Null
  BY <1>8, NullAssumption
<1> HIDE DEF st
<1>10. StateTypes'
  BY <1>2, <1>3, <1>5, <1>7, <1>8 DEF RequestFlow, StateTypes
<1>11. PhaseFlow'
  BY <1>2, <1>3, <1>5, <1>9 DEF PhaseFlow, Sound
<1>12. StagedTree'
  BY <1>3, <1>5, <1>7, <1>8, <1>9 DEF StagedTree
<1>13. InStep'
  BY <1>2 DEF InStep, Sound
<1>14. SealedTreeIsDeclared' /\ CheckStartsOnSealedTree'
  BY <1>2, <1>3, <1>5, NoCheck, SMTT(30) DEF SealedTreeIsDeclared
<1> QED
  BY <1>3, <1>10, <1>11, <1>12, <1>13, <1>14 DEF RequestFlow
\* What a chunk finds, and what the stream is after it.
LEMMA AfterChunk ==
  ASSUME RequestFlow, NEW f \in Frames, NEW ok \in BOOLEAN, Consumed(f, "InputChunk", ok)
  PROVE  LET tree == stream.tree
             a == tree.active
             bytes == f.msg.bytes
             next == a.offset + Len(bytes)
         IN  /\ f.msg.index \in Nat /\ f.msg.offset \in Nat /\ bytes \in Content
             /\ stream.phase = "Input" /\ tree \in TreeStreamTypes /\ a \in ActiveTypes
             /\ stage # Null /\ stage \in StageTypes /\ sealed = Null
             /\ stage.active \in FileTypes
             /\ before = <<>> /\ Made(disk, stage.entries)
             /\ stream' \in StreamTypes /\ stream'.phase = "Input"
             /\ stream'.request = stream.request /\ stream'.request # Null
             /\ stream'.manifest_seen = stream.manifest_seen
             /\ stream'.tree \in TreeStreamTypes
             /\ stream'.tree = [tree EXCEPT !.active = stream'.tree.active]
             /\ stream'.tree.declared = stream'.request.input
             /\ a # Null /\ bytes # <<>>
             /\ f.msg.index = a.index /\ f.msg.offset = a.offset
             /\ next \in Nat /\ next <= a.bytes
             /\ next = a.bytes => a.data \o bytes = a.digest /\ stream'.tree.active = Null
             /\ next # a.bytes =>
                   /\ stream'.tree.active \in ActiveTypes
                   /\ stream'.tree.active
                         = [a EXCEPT !.offset = next, !.data = a.data \o bytes]
             /\ ActiveInStep
             /\ WithinDeclared'
<1> DEFINE tree == stream.tree
           a == tree.active
           bytes == f.msg.bytes
           next == a.offset + Len(bytes)
           new == AcceptChunk(tree, f.msg.index, f.msg.offset, bytes)
<1>1. f.msg.index \in Nat /\ f.msg.offset \in Nat /\ bytes \in Content
  BY FrameFields, MessageFields DEF Consumed
<1>2. Sound /\ HasTree(stream) /\ stream \in StreamTypes
  BY AfterConsumed
<1>3. /\ stream.phase = "Input" /\ new # Null
      /\ stream' = [stream EXCEPT !.tree = new, !.seq = @ + 1]
  BY <1>2, TakesChunk DEF Consumed
<1>4. tree \in TreeStreamTypes
  BY <1>2, <1>3 DEF HasTree
<1>5. /\ stage # Null /\ stage \in StageTypes /\ sealed = Null /\ stream.request # Null
      /\ tree.declared = stream.request.input
      /\ before = <<>> /\ Made(disk, stage.entries)
  BY <1>2, <1>3 DEF RequestFlow, PhaseFlow, StateTypes, StagedTree
<1>6. /\ bytes # <<>> /\ a # Null
      /\ f.msg.index = a.index /\ f.msg.offset = a.offset /\ next <= a.bytes
      /\ next = a.bytes => a.data \o bytes = a.digest
      /\ new \in TreeStreamTypes
      /\ new = [tree EXCEPT !.active = new.active]
      /\ next = a.bytes => new.active = Null
      /\ next # a.bytes =>
            /\ new.active \in ActiveTypes
            /\ new.active = [a EXCEPT !.offset = next, !.data = a.data \o bytes]
  <2> DEFINE index == f.msg.index
             offset == f.msg.offset
  <2>1. index \in Nat /\ offset \in Nat
    BY <1>1
  <2>2. AcceptChunk(tree, index, offset, bytes) # Null
    BY <1>3
  <2> HIDE DEF tree, bytes, index, offset
  <2>3. /\ ChunkFits(tree, index, offset, bytes)
        /\ ChunkLeaves(tree, bytes, AcceptChunk(tree, index, offset, bytes))
    BY <1>1, <1>4, <2>1, <2>2, AcceptChunkIs
  <2> QED
    BY <2>3 DEF index, offset, new, ChunkFits, ChunkLeaves
<1>7. a \in ActiveTypes /\ a.offset \in Nat
  BY <1>4, <1>6, TreeStreamFields, ActiveFields
<1>8. Len(bytes) \in Nat
  BY <1>1 DEF Content
<1>9. next \in Nat
  BY <1>7, <1>8
<1>10. ActiveInStep
  BY <1>2, <1>3 DEF RequestFlow, InStep
<1>11. stage.active \in FileTypes
  <2>1. stage.active # Null
    BY <1>6, <1>10 DEF ActiveInStep
  <2> QED
    BY <1>5, <2>1, StageFields, SMTT(30)
<1>12. stream.seq + 1 \in Nat
  BY <1>2, StreamFields, SMTT(30)
<1> HIDE DEF new
<1>13. stream' \in StreamTypes
  BY <1>2, <1>3, <1>6, <1>12, TreeUpdate
<1>14. /\ stream'.phase = "Input" /\ stream'.tree = new /\ stream'.request = stream.request
       /\ stream'.manifest_seen = stream.manifest_seen
  BY <1>2, <1>3 DEF StreamTypes
<1>15. /\ new.declared = tree.declared /\ new.next = tree.next
       /\ new.path_bytes = tree.path_bytes /\ new.content_bytes = tree.content_bytes
  BY <1>4, <1>6 DEF TreeStreamTypes
<1>16. tree # Null
  BY <1>4, NullAssumption
<1>17. WithinDeclared'
  BY <1>14, <1>15, <1>16 DEF RequestFlow, WithinDeclared
<1> QED
  BY <1>1, <1>3, <1>4, <1>5, <1>6, <1>7, <1>9, <1>10, <1>11, <1>13, <1>14, <1>15, <1>17, ZenonT(60)

\* What a write to the active file leaves.
LEMMA WriteKeeps ==
  ASSUME RequestFlow, ActiveInStep, stream.tree.active # Null, NEW data \in Content,
         stream.tree.active \in ActiveTypes, Made(disk, stage.entries),
         NEW d, d = [disk EXCEPT ![stage.active.path] = FileOf(data)]
  PROVE  /\ IsDisk(d) /\ Made(d, stage.entries) /\ DOMAIN d = DOMAIN disk
         /\ stage.active.path \in DOMAIN d /\ d[stage.active.path] = FileOf(data)
         /\ \A x \in DOMAIN disk : x # stage.active.path => d[x] = disk[x]
<1>1. /\ stage.active.path \in DOMAIN disk
      /\ disk[stage.active.path] = FileOf(stream.tree.active.data)
  BY DEF ActiveInStep
<1>2. disk[stage.active.path] # Dir
  BY <1>1 DEF FileOf, Dir
<1>3. FileOf(data) \in NodeTypes
  BY DEF FileOf, NodeTypes
<1>4. IsDisk(disk)
  BY DEF RequestFlow, StateTypes
<1>5. IsDisk(d) /\ Made(d, stage.entries)
  BY <1>2, <1>3, <1>4, FileIsWritten, DiskIsWritten
<1> QED
  BY <1>1, <1>5

\* Stage::write_chunk keeps the invariant.
LEMMA ChunkKeeps ==
  ASSUME RequestFlow, before' = before, NEW f \in Frames, Chunk(f)
  PROVE  RequestFlow'
<1> DEFINE tree == stream.tree
           a == tree.active
           bytes == f.msg.bytes
           next == a.offset + Len(bytes)
           recs == tree.digest
           n == Len(recs)
           data == a.data \o bytes
<1>1. Consumed(f, "InputChunk", TRUE)
  BY DEF Chunk, Consume, Consumed
<1>2. /\ Sound
      /\ executor' \in [poisoned : BOOLEAN, executed : BOOLEAN, dropped : BOOLEAN]
      /\ ~executor'.dropped /\ ~executor'.poisoned
      /\ started' \in {Null, "Check", "Cancelled"} /\ started' # "Check" /\ faultless' \in BOOLEAN
  BY <1>1, AfterConsumed
<1>3. /\ bytes \in Content
      /\ stream.phase = "Input" /\ tree \in TreeStreamTypes /\ a \in ActiveTypes
      /\ stage \in StageTypes /\ sealed = Null /\ stage.active \in FileTypes
      /\ before = <<>> /\ Made(disk, stage.entries)
      /\ stream' \in StreamTypes /\ stream'.phase = "Input"
      /\ stream'.request = stream.request /\ stream'.request # Null
      /\ stream'.manifest_seen = stream.manifest_seen
      /\ stream'.tree \in TreeStreamTypes
      /\ stream'.tree = [tree EXCEPT !.active = stream'.tree.active]
      /\ stream'.tree.declared = stream'.request.input
      /\ a # Null
      /\ next \in Nat /\ next <= a.bytes
      /\ next = a.bytes => data = a.digest /\ stream'.tree.active = Null
      /\ next # a.bytes =>
            /\ stream'.tree.active \in ActiveTypes
            /\ stream'.tree.active = [a EXCEPT !.offset = next, !.data = data]
      /\ ActiveInStep
      /\ WithinDeclared'
  BY <1>1, AfterChunk
<1>4. /\ a.data \in Content /\ a.offset \in Nat /\ a.bytes \in Nat
      /\ recs \in Seq(RecordTypes) /\ n \in Nat
  BY <1>3, ActiveFields, TreeStreamFields, SMTT(30)
<1>5. /\ n # 0 /\ a.index = n - 1
      /\ a.bytes = recs[n].bytes /\ a.digest = recs[n].digest
      /\ a.offset = Len(a.data) /\ stage.active # Null
      /\ stage.active.index = a.index /\ stage.active.offset = a.offset
      /\ stage.active.declared = a.bytes
      /\ stage.active.path = PathOrder[recs[n].path]
      /\ disk[stage.active.path] = FileOf(a.data)
  BY <1>3 DEF ActiveInStep
<1>6. /\ data \in Content /\ Len(data) = next
  <2>1. a.data \in Seq(0 .. 255) /\ bytes \in Seq(0 .. 255)
    BY <1>3, <1>4 DEF Content
  <2>2. data \in Seq(0 .. 255) /\ Len(data) = Len(a.data) + Len(bytes)
    BY <2>1
  <2> QED
    BY <1>5, <2>2 DEF Content
<1>7. disk' = [disk EXCEPT ![stage.active.path] = FileOf(data)]
  <2>1. disk[stage.active.path].data = a.data
    BY <1>5 DEF FileOf
  <2> QED
    BY <2>1 DEF Chunk, Written
<1>8. /\ sealed' = sealed
      /\ stage' = [stage EXCEPT !.active.offset = @ + Len(bytes)]
  BY DEF Chunk, Advanced
<1>9. /\ stage' \in StageTypes /\ stage'.records = stage.records
      /\ stage'.entries = stage.entries
      /\ stage'.active \in FileTypes
      /\ stage'.active = [stage.active EXCEPT !.offset = next]
  <2>1. [stage.active EXCEPT !.offset = next] \in FileTypes
    BY <1>3, SMTT(30) DEF FileTypes
  <2>2. stage' = [stage EXCEPT !.active = [stage.active EXCEPT !.offset = next]]
    BY <1>3, <1>5, <1>8 DEF StageTypes
  <2> QED
    BY <1>3, <2>1, <2>2 DEF StageTypes
<1> HIDE DEF data, next
<1>10. /\ IsDisk(disk') /\ Made(disk', stage.entries)
       /\ stage.active.path \in DOMAIN disk' /\ disk'[stage.active.path] = FileOf(data)
  BY <1>3, <1>6, <1>7, WriteKeeps
<1>11. /\ stage' # Null /\ stage'.active # Null /\ stream'.tree # Null
       /\ stage'.active.index = stage.active.index /\ stage'.active.path = stage.active.path
       /\ stage'.active.declared = stage.active.declared /\ stage'.active.offset = next
  BY <1>3, <1>9, NullAssumption DEF FileTypes
<1>12. stream'.tree.next = tree.next /\ stream'.tree.digest = recs
  BY <1>3 DEF TreeStreamTypes
<1>13. StateTypes'
  BY <1>2, <1>3, <1>8, <1>9, <1>10 DEF RequestFlow, StateTypes
<1>14. PhaseFlow'
  BY <1>2, <1>3, <1>8, <1>11 DEF PhaseFlow
<1>15. StagedTree'
  BY <1>3, <1>8, <1>9, <1>10, <1>11 DEF StagedTree
<1>16. /\ tree.next = n /\ stage.records = recs
       /\ \A i \in 1 .. n : i < n => recs[i].bytes = Len(recs[i].digest)
       /\ stream.manifest_seen => \E i \in 1 .. n : recs[i].path = stream.request.manifest
  BY <1>2, <1>3 DEF RequestFlow, InStep
<1>17. ActiveInStep'
  <2>1. CASE next = a.bytes
    BY <1>3, <1>5, <1>11, <2>1 DEF ActiveInStep, ActiveDone
  <2>2. CASE next # a.bytes
    <3> DEFINE b == stream'.tree.active
    <3>1. /\ b # Null /\ b.index = a.index /\ b.bytes = a.bytes /\ b.digest = a.digest
          /\ b.offset = next /\ b.data = data
      BY <1>3, <2>2, NullAssumption DEF ActiveTypes
    <3>2. next < a.bytes
      BY <1>3, <1>4, <2>2
    <3> HIDE DEF b
    <3> QED
      BY <1>5, <1>6, <1>10, <1>11, <1>12, <3>1, <3>2 DEF ActiveInStep, b
  <2> QED
    BY <2>1, <2>2
<1>18. \A i \in 1 .. n : i < n \/ stream'.tree.active = Null =>
          recs[i].bytes = Len(recs[i].digest)
  <2> SUFFICES ASSUME NEW i \in 1 .. n, ~(i < n), stream'.tree.active = Null
               PROVE  recs[i].bytes = Len(recs[i].digest)
    BY <1>16
  <2>1. i = n
    BY <1>4
  <2>2. next = a.bytes
    BY <1>3, NullAssumption
  <2> QED
    BY <1>3, <1>5, <1>6, <2>1, <2>2
<1>19. InStep'
  <2> HIDE DEF tree, a, recs, n
  <2>1. /\ stream'.tree.next = Len(stream'.tree.digest)
        /\ stage'.records = stream'.tree.digest
    BY <1>9, <1>12, <1>16 DEF n
  <2>2. stream'.manifest_seen =>
          \E i \in 1 .. Len(stream'.tree.digest) :
             stream'.tree.digest[i].path = stream'.request.manifest
    BY <1>3, <1>12, <1>16 DEF n
  <2>3. \A i \in 1 .. Len(stream'.tree.digest) :
          i < Len(stream'.tree.digest) \/ stream'.tree.active = Null =>
             stream'.tree.digest[i].bytes = Len(stream'.tree.digest[i].digest)
    BY <1>12, <1>18 DEF n
  <2> QED
    BY <1>17, <2>1, <2>2, <2>3 DEF InStep
<1>20. SealedTreeIsDeclared' /\ CheckStartsOnSealedTree'
  BY <1>2, <1>3, <1>8, NoCheck DEF SealedTreeIsDeclared
<1> QED
  BY <1>3, <1>13, <1>14, <1>15, <1>19, <1>20 DEF RequestFlow

\* A beginning of a sequence is one.
LEMMA PrefixType ==
  ASSUME NEW S, NEW s \in Seq(S), NEW k \in 1 .. Len(s)
  PROVE  SubSeq(s, 1, k) \in Seq(S)
<1>1. k \in Int /\ \A i \in 1 .. k : s[i] \in S
  OBVIOUS
<1> QED
  BY <1>1, SubSeqProperties

\* A write_chunk that fails, with some bytes written, keeps the invariant.
LEMMA ChunkFailsKeeps ==
  ASSUME RequestFlow, before' = before, NEW f \in Frames, ChunkFails(f)
  PROVE  RequestFlow'
<1> DEFINE bytes == f.msg.bytes
           a == stream.tree.active
<1>1. Consumed(f, "InputChunk", FALSE)
  BY DEF ChunkFails, Consume, Consumed
<1>2. /\ executor' \in [poisoned : BOOLEAN, executed : BOOLEAN, dropped : BOOLEAN]
      /\ ~executor'.dropped /\ executor'.poisoned
      /\ started' \in {Null, "Check", "Cancelled"} /\ started' # "Check" /\ faultless' \in BOOLEAN
  BY <1>1, AfterConsumed
<1>3. /\ bytes \in Content /\ a \in ActiveTypes /\ a # Null
      /\ stage # Null /\ sealed = Null
      /\ before = <<>> /\ Made(disk, stage.entries)
      /\ stream' \in StreamTypes /\ stream'.phase = "Input"
      /\ stream'.request # Null /\ stream'.tree \in TreeStreamTypes
      /\ stream'.tree.declared = stream'.request.input
      /\ ActiveInStep
      /\ WithinDeclared'
  BY <1>1, AfterChunk
<1>4. stage' = stage /\ sealed' = sealed
  BY DEF ChunkFails
<1>5. IsDisk(disk') /\ Made(disk', stage.entries)
  <2>1. CASE disk' = disk
    BY <1>3, <2>1 DEF RequestFlow, StateTypes
  <2>2. ASSUME NEW n \in 1 .. Len(bytes),
               disk' = [disk EXCEPT ![stage.active.path] =
                            FileOf(Written(SubSeq(bytes, 1, n)))]
        PROVE  IsDisk(disk') /\ Made(disk', stage.entries)
    <3>1. disk[stage.active.path].data = a.data
      BY <1>3 DEF ActiveInStep, FileOf
    <3>2. Written(SubSeq(bytes, 1, n)) \in Content
      <4>a. a.data \in Seq(0 .. 255) /\ bytes \in Seq(0 .. 255)
        BY <1>3, ActiveFields DEF Content
      <4>1. a.data \in Seq(0 .. 255) /\ SubSeq(bytes, 1, n) \in Seq(0 .. 255)
        BY <4>a, PrefixType
      <4> QED
        BY <3>1, <4>1 DEF Written, Content
    <3> DEFINE data == Written(SubSeq(bytes, 1, n))
    <3> HIDE DEF data
    <3> QED
      BY <1>3, <2>2, <3>2, WriteKeeps DEF data
  <2> QED
    BY <2>1, <2>2 DEF ChunkFails
<1>6. stream'.tree # Null
  BY <1>3, NullAssumption
<1>7. StateTypes'
  BY <1>2, <1>3, <1>4, <1>5 DEF RequestFlow, StateTypes
<1>8. PhaseFlow'
  BY <1>2, <1>3, <1>4, <1>6 DEF PhaseFlow, Sound
<1>9. StagedTree'
  BY <1>3, <1>4, <1>5 DEF StagedTree
<1>10. InStep'
  BY <1>2 DEF InStep, Sound
<1>11. SealedTreeIsDeclared' /\ CheckStartsOnSealedTree'
  BY <1>2, <1>3, <1>4, NoCheck DEF SealedTreeIsDeclared
<1> QED
  BY <1>3, <1>7, <1>8, <1>9, <1>10, <1>11 DEF RequestFlow

\* What the stream and the executor are after InputFinish.
LEMMA AfterFinish ==
  ASSUME RequestFlow, NEW f \in Frames, NEW ok \in BOOLEAN, Consumed(f, "InputFinish", ok)
  PROVE  /\ stream.phase = "Input" /\ InputFinishes(stream, f.msg.input)
         /\ stream.tree \in TreeStreamTypes
         /\ stream.tree.declared = stream.request.input
         /\ stage # Null /\ stage \in StageTypes /\ sealed = Null
         /\ before = <<>> /\ Made(disk, stage.entries)
         /\ stream' = [stream EXCEPT !.phase = "Complete", !.tree = Null, !.seq = @ + 1]
         /\ stream' \in StreamTypes /\ stream'.phase = "Complete" /\ stream'.tree = Null
         /\ stream'.request = stream.request /\ stream.request # Null
         /\ WithinDeclared' /\ InStep'
<1>1. stream \in StreamTypes /\ Sound
  BY AfterConsumed
<1>2. /\ stream.phase = "Input" /\ InputFinishes(stream, f.msg.input)
      /\ stream' = [stream EXCEPT !.phase = "Complete", !.tree = Null, !.seq = @ + 1]
  BY <1>1, TakesFinish DEF Consumed
<1>3. /\ stream.tree # Null /\ stream.request # Null /\ sealed = Null /\ stage # Null
      /\ stream.tree.declared = stream.request.input
  BY <1>1, <1>2 DEF RequestFlow, PhaseFlow
<1>4. stage \in StageTypes /\ stream.tree \in TreeStreamTypes
  BY <1>1, <1>3, StreamFields DEF RequestFlow, StateTypes
<1>5. before = <<>> /\ Made(disk, stage.entries)
  BY <1>3, SMTT(30) DEF RequestFlow, StagedTree
<1>6. stream' \in StreamTypes
  <2>1. stream.seq + 1 \in Nat
    BY <1>1, StreamFields
  <2> QED
    BY <1>1, <1>2, <2>1, TreeClosed
<1>7. /\ stream'.phase = "Complete" /\ stream'.tree = Null
      /\ stream'.request = stream.request
  BY <1>1, <1>2 DEF StreamTypes
<1>8. WithinDeclared' /\ InStep'
  BY <1>7 DEF WithinDeclared, InStep
<1> QED
  BY <1>2, <1>3, <1>4, <1>5, <1>6, <1>7, <1>8

\* Stage::finish keeps the invariant: what it seals is what was declared.
LEMMA FinishKeeps ==
  ASSUME RequestFlow, before' = before, NEW f \in Frames, Finish(f)
  PROVE  RequestFlow'
<1> DEFINE tree == stream.tree
           r == stream.request
           recs == r.input.digest
<1>1. Consumed(f, "InputFinish", TRUE)
  BY DEF Finish, Consume, Consumed
<1>2. /\ executor' \in [poisoned : BOOLEAN, executed : BOOLEAN, dropped : BOOLEAN]
      /\ ~executor'.dropped /\ ~executor'.executed /\ Sound
      /\ started' \in {Null, "Check", "Cancelled"} /\ started' # "Check" /\ faultless' \in BOOLEAN
  BY <1>1, AfterConsumed
<1>3. /\ stream.phase = "Input" /\ InputFinishes(stream, f.msg.input)
      /\ tree \in TreeStreamTypes /\ tree.declared = r.input
      /\ stage # Null /\ stage \in StageTypes /\ sealed = Null
      /\ before = <<>> /\ Made(disk, stage.entries)
      /\ stream' \in StreamTypes /\ stream'.phase = "Complete" /\ stream'.tree = Null
      /\ stream'.request = r /\ r # Null
      /\ WithinDeclared' /\ InStep'
  BY <1>1, AfterFinish
<1>4. /\ sealed' = stage.entries /\ stage' = Null /\ disk' = disk
      /\ StageFinishes(stage, f.msg.input)
  BY DEF Finish, Consume
<1>5. stage.entries \in Seq(Paths) /\ sealed' # Null
  BY <1>3, <1>4, StageFields, NullAssumption
<1>6. /\ tree.active = Null /\ f.msg.input = r.input /\ Measured(tree) = r.input
      /\ stream.manifest_seen
  BY <1>3 DEF InputFinishes, TreeFinishes
<1>7. /\ tree.digest = recs /\ recs \in Seq(RecordTypes)
  <2>1. Measured(tree).digest = tree.digest
    BY DEF Measured
  <2>2. tree.digest \in Seq(RecordTypes)
    BY <1>3, TreeStreamFields
  <2> QED
    BY <1>6, <2>1, <2>2
<1>8. /\ stage.records = recs
      /\ \A i \in 1 .. Len(recs) : recs[i].bytes = Len(recs[i].digest)
      /\ \E i \in 1 .. Len(recs) : recs[i].path = r.manifest
  BY <1>2, <1>3, <1>6, <1>7 DEF RequestFlow, InStep
<1>9. r.input.content_bytes = Total([i \in DOMAIN recs |-> Len(recs[i].digest)])
  <2>1. MeasureTree(recs) = r.input
    BY <1>4, <1>6, <1>8 DEF StageFinishes
  <2>2. r.input.content_bytes = Total([i \in DOMAIN recs |-> recs[i].bytes])
    BY <2>1, SMTT(30) DEF MeasureTree
  <2>3. DOMAIN recs = 1 .. Len(recs)
    BY <1>7
  <2>4. [i \in DOMAIN recs |-> recs[i].bytes] = [i \in DOMAIN recs |-> Len(recs[i].digest)]
    BY <1>8, <2>3
  <2> QED
    BY <2>2, <2>4, SMTT(30)
<1>10. /\ {p \in DOMAIN disk : disk[p].kind = "File"}
              = {PathOrder[recs[i].path] : i \in DOMAIN recs}
       /\ \A i \in DOMAIN recs : disk[PathOrder[recs[i].path]].data = recs[i].digest
  BY <1>4, <1>8 DEF StageFinishes
<1>11. \E i \in DOMAIN recs : recs[i].path = r.manifest
  BY <1>7, <1>8
<1>12. SealedTreeIsDeclared'
  <2> HIDE DEF recs
  <2>1. recs = stream'.request.input.digest
    BY <1>3 DEF recs
  <2> HIDE DEF r
  <2> QED
    BY <1>3, <1>4, <1>9, <1>10, <1>11, <2>1, ZenonT(60) DEF SealedTreeIsDeclared
<1>13. StateTypes'
  BY <1>2, <1>3, <1>4, <1>5 DEF RequestFlow, StateTypes
<1>14. PhaseFlow'
  BY <1>2, <1>3, <1>4, <1>5 DEF PhaseFlow, Sound
<1>15. StagedTree'
  BY <1>3, <1>4, <1>5 DEF StagedTree
<1> QED
  BY <1>2, <1>3, <1>12, <1>13, <1>14, <1>15, NoCheck DEF RequestFlow

\* A directory that only the stage has filled is gone when the stage is dropped.
LEMMA NothingLeft ==
  ASSUME NEW d, IsDisk(d), NEW es, Made(d, es), disk' = Removed(d, es), before' = <<>>
  PROVE  disk' = before' /\ IsDisk(disk')
<1>1. disk' = <<>>
  BY RemovedIsEmpty
<1>2. IsDisk(<<>>)
  BY DEF IsDisk
<1> QED
  BY <1>1, <1>2

\* A failed Stage::finish keeps the invariant: the tree is removed.
LEMMA FinishFailsKeeps ==
  ASSUME RequestFlow, before' = before, NEW f \in Frames, FinishFails(f)
  PROVE  RequestFlow'
<1>1. Consumed(f, "InputFinish", FALSE)
  BY DEF FinishFails, Consume, Consumed
<1>2. /\ executor' \in [poisoned : BOOLEAN, executed : BOOLEAN, dropped : BOOLEAN]
      /\ executor'.poisoned /\ ~executor'.dropped
      /\ started' \in {Null, "Check", "Cancelled"} /\ started' # "Check" /\ faultless' \in BOOLEAN
  BY <1>1, AfterConsumed
<1>3. /\ stage # Null /\ stage \in StageTypes /\ sealed = Null
      /\ before = <<>> /\ Made(disk, stage.entries)
      /\ stream' \in StreamTypes /\ stream'.phase = "Complete" /\ stream'.tree = Null
      /\ WithinDeclared' /\ InStep'
  BY <1>1, AfterFinish
<1>4. stage' = Null /\ sealed' = sealed /\ disk' = Removed(disk, stage.entries)
  BY DEF FinishFails
<1>5. disk' = before' /\ IsDisk(disk')
  BY <1>3, <1>4, NothingLeft DEF RequestFlow, StateTypes
<1>6. StateTypes'
  BY <1>2, <1>3, <1>4, <1>5 DEF RequestFlow, StateTypes
<1>7. PhaseFlow'
  BY <1>2, <1>3, <1>4 DEF PhaseFlow, Sound
<1>8. StagedTree' /\ SealedTreeIsDeclared' /\ CheckStartsOnSealedTree'
  BY <1>2, <1>3, <1>4, <1>5, NoCheck DEF StagedTree, SealedTreeIsDeclared
<1> QED
  BY <1>3, <1>6, <1>7, <1>8 DEF RequestFlow

\* A cancel keeps the invariant.
LEMMA CancelKeeps ==
  ASSUME RequestFlow, before' = before, NEW f \in Frames, Cancel(f)
  PROVE  RequestFlow'
<1>1. Consumed(f, "Cancel", TRUE)
  BY DEF Cancel, Consume, Consumed
<1>2. /\ stream \in StreamTypes
      /\ executor' \in [poisoned : BOOLEAN, executed : BOOLEAN, dropped : BOOLEAN]
      /\ ~executor'.dropped
      /\ started' \in {Null, "Check", "Cancelled"} /\ started' # "Check" /\ faultless' \in BOOLEAN
  BY <1>1, AfterConsumed
<1>3. stream' = [stream EXCEPT !.phase = "Cancelled", !.tree = Null, !.seq = @ + 1]
  BY <1>1, <1>2, TakesCancel DEF Consumed
<1>4. /\ stream' \in StreamTypes /\ stream'.phase = "Cancelled" /\ stream'.tree = Null
      /\ stream'.request = stream.request
  <2>1. stream.seq + 1 \in Nat
    BY <1>2, StreamFields, SMTT(30)
  <2>2. stream' \in StreamTypes
    BY <1>2, <1>3, <2>1, TreeClosed
  <2> QED
    BY <1>2, <1>3, <2>2 DEF StreamTypes
<1>5. /\ stage' = Null /\ sealed' = sealed
      /\ disk' = IF stage = Null THEN disk ELSE Removed(disk, stage.entries)
  BY DEF Cancel
<1>6. /\ IsDisk(disk')
      /\ stage = Null => disk' = disk
      /\ stage # Null => disk' = before' /\ sealed = Null
  <2>1. CASE stage = Null
    BY <1>5, <2>1 DEF RequestFlow, StateTypes
  <2>2. CASE stage # Null
    <3>1. before = <<>> /\ Made(disk, stage.entries) /\ IsDisk(disk) /\ sealed = Null
      BY <2>2 DEF RequestFlow, StagedTree, StateTypes, PhaseFlow
    <3> QED
      BY <1>5, <2>2, <3>1, NothingLeft
  <2> QED
    BY <2>1, <2>2
<1>7. StateTypes'
  BY <1>2, <1>4, <1>5, <1>6 DEF RequestFlow, StateTypes
<1>8. PhaseFlow'
  BY <1>2, <1>4, <1>5 DEF RequestFlow, PhaseFlow
<1>9. WithinDeclared' /\ InStep'
  BY <1>4 DEF WithinDeclared, InStep
<1>10. StagedTree'
  BY <1>5, <1>6 DEF RequestFlow, StagedTree
<1>11. SealedTreeIsDeclared'
  <2>1. CASE stage = Null
    BY <1>4, <1>5, <1>6, <2>1, SealedStays, SMTT(30) DEF RequestFlow
  <2>2. CASE stage # Null
    <3>1. sealed' = Null
      BY <1>5, <1>6, <2>2
    <3> QED
      BY <3>1 DEF SealedTreeIsDeclared
  <2> QED
    BY <2>1, <2>2
<1>12. CheckStartsOnSealedTree'
  BY <1>2, NoCheck
<1> QED
  BY <1>7, <1>8, <1>9, <1>10, <1>11, <1>12 DEF RequestFlow

\* HeadlessCheckExecutor::execute keeps the invariant.
LEMMA ExecuteKeeps ==
  ASSUME RequestFlow, before' = before, NEW host \in BOOLEAN, Execute(host)
  PROVE  RequestFlow'
<1>1. /\ ~executor.poisoned /\ ~executor.dropped
      /\ CancelSeen(host) \/ sealed # Null
      /\ executor' = [executor EXCEPT !.executed = TRUE]
      /\ started' = IF stream.request = Null THEN Null
                    ELSE IF CancelSeen(host) THEN "Cancelled" ELSE "Check"
      /\ stream' = stream /\ stage' = stage /\ sealed' = sealed /\ disk' = disk
      /\ faultless' = faultless
  BY DEF Execute, Listening
<1>2. /\ executor' \in [poisoned : BOOLEAN, executed : BOOLEAN, dropped : BOOLEAN]
      /\ executor'.poisoned = executor.poisoned /\ executor'.dropped = executor.dropped
      /\ executor'.executed
  BY <1>1 DEF RequestFlow, StateTypes
<1>3. started' = "Check" => stream.phase = "Complete" /\ sealed # Null
  <2> SUFFICES ASSUME started' = "Check" PROVE stream.phase = "Complete" /\ sealed # Null
    OBVIOUS
  <2>1. ~CancelSeen(host) /\ stream.request # Null
    BY <1>1, NullAssumption
  <2>2. sealed # Null /\ stream.phase # "Cancelled"
    BY <1>1, <2>1 DEF CancelSeen
  <2>3. stream.phase \notin {"ClientHello", "Header", "Input", "Poisoned"}
    BY <1>1, <2>2 DEF RequestFlow, PhaseFlow
  <2>4. stream.phase \in {"ClientHello", "Header", "Input", "Complete", "Cancelled", "Poisoned"}
    BY StreamFields DEF RequestFlow, StateTypes
  <2> QED
    BY <2>2, <2>3, <2>4
<1>4. StateTypes'
  BY <1>1, <1>2 DEF RequestFlow, StateTypes
<1>5. PhaseFlow'
  BY <1>1, <1>2 DEF RequestFlow, PhaseFlow, Sound
<1>6. WithinDeclared' /\ StagedTree'
  BY <1>1 DEF RequestFlow, WithinDeclared, StagedTree
<1>7. InStep'
  BY <1>1, <1>2 DEF RequestFlow, InStep, ActiveInStep, ActiveDone, Sound
<1>8. SealedTreeIsDeclared'
  BY <1>1, SealedStays DEF RequestFlow
<1>9. CheckStartsOnSealedTree'
  BY <1>1, <1>2, <1>3 DEF CheckStartsOnSealedTree
<1> QED
  BY <1>4, <1>5, <1>6, <1>7, <1>8, <1>9 DEF RequestFlow

\* Drop keeps the invariant: whatever was staged or sealed is removed.
LEMMA DropKeeps ==
  ASSUME RequestFlow, before' = before, Drop
  PROVE  RequestFlow'
<1>1. /\ executor' = [executor EXCEPT !.dropped = TRUE]
      /\ stage' = Null /\ sealed' = Null
      /\ disk' = IF stage # Null THEN Removed(disk, stage.entries)
                 ELSE IF sealed # Null THEN Removed(disk, sealed)
                 ELSE disk
      /\ stream' = stream /\ started' = started /\ faultless' = faultless
  BY DEF Drop
<1>2. /\ executor' \in [poisoned : BOOLEAN, executed : BOOLEAN, dropped : BOOLEAN]
      /\ executor'.dropped /\ executor'.poisoned = executor.poisoned
      /\ executor'.executed = executor.executed
  BY <1>1 DEF RequestFlow, StateTypes
<1>3. disk' = before' /\ IsDisk(disk')
  <2>0. IsDisk(disk)
    BY DEF RequestFlow, StateTypes
  <2>1. CASE stage # Null
    <3>1. before = <<>> /\ Made(disk, stage.entries)
      BY <2>1 DEF RequestFlow, StagedTree
    <3> QED
      BY <1>1, <2>0, <2>1, <3>1, NothingLeft
  <2>2. CASE stage = Null /\ sealed # Null
    <3>1. before = <<>> /\ Made(disk, sealed)
      BY <2>2 DEF RequestFlow, StagedTree
    <3> QED
      BY <1>1, <2>0, <2>2, <3>1, NothingLeft
  <2>3. CASE stage = Null /\ sealed = Null
    BY <1>1, <2>0, <2>3 DEF RequestFlow, StagedTree
  <2> QED
    BY <2>1, <2>2, <2>3
<1>4. StateTypes'
  BY <1>1, <1>2, <1>3 DEF RequestFlow, StateTypes
<1>5. PhaseFlow'
  BY <1>1, <1>2 DEF RequestFlow, PhaseFlow, Sound
<1>6. WithinDeclared'
  BY <1>1 DEF RequestFlow, WithinDeclared
<1>7. StagedTree' /\ InStep' /\ SealedTreeIsDeclared'
  BY <1>1, <1>2, <1>3 DEF StagedTree, InStep, Sound, SealedTreeIsDeclared
<1>8. CheckStartsOnSealedTree'
  BY <1>1, <1>2 DEF RequestFlow, CheckStartsOnSealedTree
<1> QED
  BY <1>4, <1>5, <1>6, <1>7, <1>8 DEF RequestFlow

\* The new executor satisfies the invariant.
LEMMA InitFlow == Init => RequestFlow
<1> SUFFICES ASSUME Init PROVE RequestFlow
  OBVIOUS
<1>1. stream \in StreamTypes /\ stream.phase = "ClientHello" /\ stream.request = Null
      /\ stream.tree = Null /\ ~stream.manifest_seen
  BY DEF Init, StreamNew, StreamTypes
<1>2. IsDisk(disk) /\ before \in {<<>>} \cup ForeignDisks /\ disk = before
  <2>1. before \in {<<>>} \cup ForeignDisks /\ disk = before
    BY DEF Init
  <2>2. IsDisk(<<>>)
    BY DEF IsDisk
  <2>3. FileOf(<<>>) \in NodeTypes /\ Dir \in NodeTypes
    BY DEF FileOf, NodeTypes, Content
  <2>4. ASSUME before \in ForeignDisks PROVE IsDisk(before)
    BY <2>3, <2>4 DEF ForeignDisks, IsDisk
  <2> QED
    BY <2>1, <2>2, <2>4
<1>3. /\ stage = Null /\ sealed = Null /\ started = Null /\ faultless \in BOOLEAN
      /\ executor = [poisoned |-> FALSE, executed |-> FALSE, dropped |-> FALSE]
  BY DEF Init
<1>4. StateTypes
  BY <1>1, <1>2, <1>3 DEF StateTypes
<1>5. started # "Check"
  BY <1>3, NullAssumption
<1>6. PhaseFlow
  BY <1>1, <1>3, <1>5 DEF PhaseFlow
<1>7. WithinDeclared /\ StagedTree /\ InStep /\ SealedTreeIsDeclared /\ CheckStartsOnSealedTree
  BY <1>1, <1>2, <1>3, <1>5, SMTT(30)
  DEF WithinDeclared, StagedTree, InStep, SealedTreeIsDeclared, CheckStartsOnSealedTree
<1> QED
  BY <1>4, <1>6, <1>7 DEF RequestFlow

\* A step that changes nothing keeps the invariant.
LEMMA StutterKeeps ==
  ASSUME RequestFlow, UNCHANGED vars
  PROVE  RequestFlow'
<1>1. /\ stream' = stream /\ stage' = stage /\ sealed' = sealed /\ before' = before
      /\ disk' = disk /\ executor' = executor /\ started' = started /\ faultless' = faultless
  BY DEF vars
<1>2. StateTypes' /\ Sound' = Sound
  BY <1>1 DEF RequestFlow, StateTypes, Sound
<1>3. PhaseFlow'
  BY <1>1, <1>2 DEF RequestFlow, PhaseFlow
<1>4. WithinDeclared' /\ StagedTree'
  BY <1>1 DEF RequestFlow, WithinDeclared, StagedTree
<1>5. ActiveInStep' = ActiveInStep
  BY <1>1, ZenonT(60) DEF ActiveInStep, ActiveDone
<1>6. InStep'
  BY <1>1, <1>2, <1>5, SMTT(30) DEF RequestFlow, InStep
<1>7. SealedTreeIsDeclared'
  BY <1>1, SealedStays DEF RequestFlow
<1>8. CheckStartsOnSealedTree'
  BY <1>1 DEF RequestFlow, CheckStartsOnSealedTree
<1> QED
  BY <1>2, <1>3, <1>4, <1>6, <1>7, <1>8 DEF RequestFlow

\* Every step of the executor keeps the invariant.
LEMMA StepKeeps == RequestFlow /\ [Next]_vars => RequestFlow'
<1> SUFFICES ASSUME RequestFlow, [Next]_vars PROVE RequestFlow'
  OBVIOUS
<1>1. CASE UNCHANGED vars
  BY <1>1, StutterKeeps
<1>2. CASE Next
  <2>1. before' = before /\ Step
    BY <1>2 DEF Next
  <2>2. ASSUME NEW f \in Frames,
               \/ Refuse(f) \/ Hello(f) \/ Header(f) \/ HeaderFails(f)
               \/ Record(f) \/ RecordFails(f) \/ Chunk(f) \/ ChunkFails(f)
               \/ Finish(f) \/ FinishFails(f) \/ Cancel(f)
        PROVE  RequestFlow'
    BY <2>1, <2>2, RefuseKeeps, HelloKeeps, HeaderKeeps, HeaderFailsKeeps, RecordKeeps,
       RecordFailsKeeps, ChunkKeeps, ChunkFailsKeeps, FinishKeeps, FinishFailsKeeps,
       CancelKeeps, Zenon
  <2>3. ASSUME NEW host \in BOOLEAN, Execute(host) PROVE RequestFlow'
    BY <2>1, <2>3, ExecuteKeeps
  <2>4. CASE Drop
    BY <2>1, <2>4, DropKeeps
  <2> QED
    BY <2>1, <2>2, <2>3, <2>4 DEF Step
<1> QED
  BY <1>1, <1>2

\* Whatever frames arrive and whatever fails, the executor's state is one of
\* those RequestFlow describes: its inductive invariant.
THEOREM RequestInvariant == Spec => []RequestFlow
BY InitFlow, StepKeeps, PTL DEF Spec

\* The two machines that follow a request stay in step, nothing of a request is
\* left behind, and a check starts only over a sealed tree: accept_request_frame,
\* execute and Drop of HeadlessCheckExecutor.
THEOREM RequestAlwaysSound == Spec => []RequestInv
<1>1. RequestFlow => RequestInv
  <2> SUFFICES ASSUME RequestFlow PROVE RequestInv
    OBVIOUS
  <2>1. RequestTypeOK
    <3>1. stream \in StreamTypes /\ WithinDeclared
      BY DEF RequestFlow, StateTypes
    <3>2. \A p \in DOMAIN disk : disk[p].kind \in {"File", "Directory"}
      BY DEF RequestFlow, StateTypes, IsDisk, NodeTypes, Dir
    <3> QED
      BY <3>1, <3>2, StreamFields DEF RequestTypeOK, RequestFlow, StateTypes, WithinDeclared
  <2>2. StageFollowsStream
    <3> SUFFICES ASSUME stream.phase = "Input", Listening PROVE StageFollowsStream
      BY DEF StageFollowsStream
    <3>1. Sound
      BY DEF Listening, Sound
    <3> QED
      BY <3>1 DEF StageFollowsStream, RequestFlow, PhaseFlow, InStep, ActiveInStep
  <2>3. StagingLeavesNothing /\ CheckStartsOnSealedTree
    BY DEF StagingLeavesNothing, RequestFlow, StagedTree
  <2> QED
    BY <2>1, <2>2, <2>3 DEF RequestInv
<1> QED
  BY <1>1, RequestInvariant, PTL

\* A sealed tree holds exactly the files, the contents and the manifest that the
\* one request header declared: TreeStream::finish and Stage::finish.
THEOREM SealedAlwaysDeclared == Spec => []SealedTreeIsDeclared
<1>1. RequestFlow => SealedTreeIsDeclared
  BY DEF RequestFlow
<1> QED
  BY <1>1, RequestInvariant, PTL
-----------------------------------------------------------------------------
(* A well-behaved client: where its stream, the stage and the directory are. *)

PathSum(recs, n) == Total([i \in 1 .. n |-> PathBytes(recs[i].path)])
ContentSum(recs, n) == Total([i \in 1 .. n |-> recs[i].bytes])
DirCost(recs, i) == DirBytes(NewParents(recs[i].path, DirsOf(recs, i - 1)))
DirSum(recs, n) == Total([i \in 1 .. n |-> DirCost(recs, i)])

\* The stream has taken the first n files of request r and, of an active one,
\* the bytes up to its offset.
HonestStream(r) ==
    LET recs == r.input.digest
        tree == stream.tree
        n == Len(tree.digest)
    IN  /\ n <= Len(recs)
        /\ \A i \in 1 .. n : tree.digest[i] = recs[i]
        /\ tree.allowance = r.allowance
        /\ tree.path_bytes = PathSum(recs, n)
        /\ tree.content_bytes = ContentSum(recs, n)
        /\ tree.prev = IF n = 0 THEN 0 ELSE recs[n].path
        /\ \A i \in 1 .. n : recs[i].path = r.manifest => stream.manifest_seen
        /\ tree.active = Null => stream.seq = FrameOf(recs, n + 1)
        /\ tree.active # Null =>
              /\ stream.seq = FrameOf(recs, n) + 1 + tree.active.offset
              /\ \A k \in 1 .. tree.active.offset : tree.active.data[k] = recs[n].digest[k]

\* The directory holds those files and their parents, and nothing else.
HonestDisk(r) ==
    LET recs == r.input.digest
        n == Len(stream.tree.digest)
    IN  /\ stage.dir_bytes = DirSum(recs, n)
        /\ DOMAIN disk = {Root} \cup {PathOrder[recs[i].path] : i \in 1 .. n}
                                \cup DirsOf(recs, n)
        /\ \A x \in DirsOf(recs, n) : disk[x] = Dir
        /\ \A i \in 1 .. n :
              /\ disk[PathOrder[recs[i].path]].kind = "File"
              /\ i < n \/ stream.tree.active = Null =>
                    disk[PathOrder[recs[i].path]].data = recs[i].digest

HonestPlace ==
    LET r == stream.request IN
    /\ before = <<>>
    /\ stream.phase = "ClientHello" => stream.seq = 0 /\ stream.id = Null
    /\ stream.phase = "Header" => stream.seq = 1 /\ stream.id # Null
    /\ stream.phase \in {"Input", "Complete"} => Honest(r) /\ r.id = stream.id
    /\ stream.phase = "Input" => HonestStream(r) /\ HonestDisk(r)
    /\ stream.phase = "Complete" =>
          stream.seq = FrameOf(r.input.digest, Len(r.input.digest) + 1) + 1

HonestFlow == faultless => ~executor.poisoned /\ (Listening => HonestPlace)

\* The total of the first n of the numbers F.
UpTotal(F, n) == Total([i \in 1 .. n |-> F[i]])

\* How the total of the first n numbers grows.
LEMMA UpTotalIs ==
  ASSUME NEW N \in Nat, NEW F \in [1 .. N -> Nat], NEW n \in 0 .. N
  PROVE  /\ UpTotal(F, n) \in Nat
         /\ n = 0 => UpTotal(F, n) = 0
         /\ n < N => UpTotal(F, n + 1) = UpTotal(F, n) + F[n + 1]
         /\ \A m \in 0 .. n : UpTotal(F, m) <= UpTotal(F, n)
<1> DEFINE s(k) == [i \in 1 .. k |-> F[i]]
<1>1. ASSUME NEW k \in 0 .. N
      PROVE  s(k) \in Seq(Nat) /\ Len(s(k)) = k /\ \A i \in 1 .. k : s(k)[i] = F[i]
  <2>1. k \in Nat /\ \A i \in 1 .. k : F[i] \in Nat
    OBVIOUS
  <2>2. s(k) \in [1 .. k -> Nat]
    BY <2>1
  <2> QED
    BY <2>1, <2>2, SeqDef
<1>2. \A k : UpTotal(F, k) = Total(s(k))
  BY DEF UpTotal
<1> HIDE DEF s
<1>3. UpTotal(F, n) \in Nat
  BY <1>1, <1>2, TotalIsNatural
<1>4. n = 0 => UpTotal(F, n) = 0
  BY <1>1, <1>2, TotalOfNothing
<1>5. ASSUME n < N PROVE UpTotal(F, n + 1) = UpTotal(F, n) + F[n + 1]
  <2>1. n + 1 \in 0 .. N /\ n + 1 \in 1 .. n + 1 /\ \A i \in 1 .. n : i \in 1 .. n + 1
    BY <1>5
  <2>2. /\ s(n) \in Seq(Nat) /\ Len(s(n)) = n
        /\ s(n + 1) \in Seq(Nat) /\ Len(s(n + 1)) = n + 1
        /\ s(n + 1)[n + 1] = F[n + 1]
        /\ \A i \in 1 .. n : s(n)[i] = s(n + 1)[i]
    BY <1>1, <2>1
  <2>3. Total(s(n + 1)) = Total(s(n)) + s(n + 1)[n + 1]
    BY <2>2, TotalGrows
  <2> QED
    BY <1>2, <2>2, <2>3
<1>6. ASSUME NEW m \in 0 .. n PROVE UpTotal(F, m) <= UpTotal(F, n)
  <2>1. m \in 0 .. N /\ m <= n /\ \A i \in 1 .. m : i \in 1 .. n
    OBVIOUS
  <2>2. Total(s(m)) <= Total(s(n))
    <3>1. /\ s(m) \in Seq(Nat) /\ Len(s(m)) = m /\ s(n) \in Seq(Nat) /\ Len(s(n)) = n
          /\ \A i \in 1 .. m : s(m)[i] = s(n)[i]
      BY <1>1, <2>1
    <3> QED
      BY <2>1, <3>1, TotalOfBeginning
  <2> QED
    BY <1>2, <2>2
<1> QED
  BY <1>3, <1>4, <1>5, <1>6

Records == Seq(RecordTypes)

\* What a record of a tree is.
LEMMA RecordOf ==
  ASSUME NEW recs \in Records, NEW i \in 1 .. Len(recs)
  PROVE  /\ recs[i] \in RecordTypes /\ recs[i].path \in DOMAIN PathOrder
         /\ recs[i].bytes \in Nat /\ PathBytes(recs[i].path) \in Nat
         /\ DirCost(recs, i) \in Nat
<1>1. recs[i] \in RecordTypes
  BY DEF Records
<1>2. recs[i].path \in DOMAIN PathOrder /\ recs[i].bytes \in Nat /\ PathBytes(recs[i].path) \in Nat
  BY <1>1, RecordFields
<1> QED
  BY <1>1, <1>2, NewParentsType, DirBytesIsNatural DEF DirCost

\* What one more file adds to the sums of an honest tree.
LEMMA SumsGrow ==
  ASSUME NEW recs \in Records, NEW n \in 0 .. Len(recs)
  PROVE  /\ PathSum(recs, n) \in Nat /\ ContentSum(recs, n) \in Nat /\ DirSum(recs, n) \in Nat
         /\ n = 0 => PathSum(recs, n) = 0 /\ ContentSum(recs, n) = 0 /\ DirSum(recs, n) = 0
         /\ n < Len(recs) =>
               /\ PathSum(recs, n + 1) = PathSum(recs, n) + PathBytes(recs[n + 1].path)
               /\ ContentSum(recs, n + 1) = ContentSum(recs, n) + recs[n + 1].bytes
               /\ DirSum(recs, n + 1) = DirSum(recs, n) + DirCost(recs, n + 1)
         /\ PathSum(recs, n) <= PathSum(recs, Len(recs))
         /\ ContentSum(recs, n) <= ContentSum(recs, Len(recs))
         /\ DirSum(recs, n) <= DirSum(recs, Len(recs))
<1> DEFINE N == Len(recs)
           P == [i \in 1 .. N |-> PathBytes(recs[i].path)]
           C == [i \in 1 .. N |-> recs[i].bytes]
           D == [i \in 1 .. N |-> DirCost(recs, i)]
<1>1. N \in Nat
  BY DEF Records
<1>2. P \in [1 .. N -> Nat] /\ C \in [1 .. N -> Nat] /\ D \in [1 .. N -> Nat]
  BY RecordOf
<1>3. ASSUME NEW m \in 0 .. N
      PROVE  /\ PathSum(recs, m) = UpTotal(P, m) /\ ContentSum(recs, m) = UpTotal(C, m)
             /\ DirSum(recs, m) = UpTotal(D, m)
  <2>1. \A i \in 1 .. m : i \in 1 .. N
    BY <1>1
  <2>2. [i \in 1 .. m |-> PathBytes(recs[i].path)] = [i \in 1 .. m |-> P[i]]
    BY <2>1
  <2>3. [i \in 1 .. m |-> recs[i].bytes] = [i \in 1 .. m |-> C[i]]
    BY <2>1
  <2>4. [i \in 1 .. m |-> DirCost(recs, i)] = [i \in 1 .. m |-> D[i]]
    BY <2>1
  <2> QED
    BY <2>2, <2>3, <2>4, Zenon DEF PathSum, ContentSum, DirSum, UpTotal
<1>4. n \in 0 .. N /\ N \in 0 .. N
  BY <1>1
<1>5. n < N => /\ n + 1 \in 0 .. N /\ n + 1 \in 1 .. N
               /\ P[n + 1] = PathBytes(recs[n + 1].path) /\ C[n + 1] = recs[n + 1].bytes
               /\ D[n + 1] = DirCost(recs, n + 1)
  BY <1>1
<1> HIDE DEF P, C, D, N
<1>6. /\ UpTotal(P, n) \in Nat /\ UpTotal(C, n) \in Nat /\ UpTotal(D, n) \in Nat
      /\ n = 0 => UpTotal(P, n) = 0 /\ UpTotal(C, n) = 0 /\ UpTotal(D, n) = 0
      /\ n < N => /\ UpTotal(P, n + 1) = UpTotal(P, n) + P[n + 1]
                  /\ UpTotal(C, n + 1) = UpTotal(C, n) + C[n + 1]
                  /\ UpTotal(D, n + 1) = UpTotal(D, n) + D[n + 1]
  BY <1>1, <1>2, <1>4, UpTotalIs
<1>7. /\ UpTotal(P, n) <= UpTotal(P, N) /\ UpTotal(C, n) <= UpTotal(C, N)
      /\ UpTotal(D, n) <= UpTotal(D, N)
  BY <1>1, <1>2, <1>4, UpTotalIs
<1> QED
  BY <1>3, <1>4, <1>5, <1>6, <1>7 DEF N

\* What the header of an honest client declares.
LEMMA HonestIs ==
  ASSUME NEW r \in Requests, Honest(r)
  PROVE  LET recs == r.input.digest
             N == Len(recs)
         IN  /\ recs \in Records /\ N \in Nat
             /\ r.bound /\ TreeNew(r) # Null
             /\ r.input = MeasureTree(recs)
             /\ r.input.records = N /\ N <= r.allowance.records
             /\ r.input.path_bytes = PathSum(recs, N) /\ PathSum(recs, N) <= r.allowance.path_bytes
             /\ r.input.content_bytes = ContentSum(recs, N)
             /\ ContentSum(recs, N) <= r.allowance.content_bytes
             /\ \A i \in 1 .. N : recs[i].bytes = Len(recs[i].digest)
             /\ \A i, j \in 1 .. N : i < j => recs[i].path < recs[j].path
             /\ \E i \in 1 .. N : recs[i].path = r.manifest
             /\ \A i \in 1 .. N : PathOrder[recs[i].path] \notin DirsOf(recs, N)
             /\ DirSum(recs, N) <= TreePathBytes
<1> DEFINE recs == r.input.digest
           N == Len(recs)
<1>1. /\ recs \in Records /\ r.input.records \in Nat /\ r.input.path_bytes \in Nat
      /\ r.input.content_bytes \in Nat
  BY RequestFields, TreeFields DEF Records
<1>2. DOMAIN recs = 1 .. N /\ N \in Nat
  BY <1>1 DEF Records
<1>3. /\ r.bound /\ TreeNew(r) # Null /\ r.input = MeasureTree(recs)
      /\ \A i \in 1 .. N : recs[i].bytes = Len(recs[i].digest)
      /\ \A i, j \in 1 .. N : i < j => recs[i].path < recs[j].path
      /\ \E i \in 1 .. N : recs[i].path = r.manifest
      /\ \A i \in 1 .. N : PathOrder[recs[i].path] \notin DirsOf(recs, N)
  BY <1>2 DEF Honest
<1>4. DirSum(recs, N) <= TreePathBytes
  <2>1. Total([i \in DOMAIN recs |-> DirCost(recs, i)]) <= TreePathBytes
    BY Zenon DEF Honest, DirCost
  <2> QED
    BY <1>2, <2>1 DEF DirSum
<1>5. /\ r.input.records = N /\ r.input.path_bytes = PathSum(recs, N)
      /\ r.input.content_bytes = ContentSum(recs, N)
  <2>1. /\ MeasureTree(recs).records = N
        /\ MeasureTree(recs).path_bytes = Total([i \in DOMAIN recs |-> PathBytes(recs[i].path)])
        /\ MeasureTree(recs).content_bytes = Total([i \in DOMAIN recs |-> recs[i].bytes])
    BY DEF MeasureTree
  <2> HIDE DEF N, recs
  <2> QED
    BY <1>2, <1>3, <2>1 DEF PathSum, ContentSum
<1>6. /\ ~(r.input.records > r.allowance.records)
      /\ ~(r.input.path_bytes > r.allowance.path_bytes)
      /\ ~(r.input.content_bytes > r.allowance.content_bytes)
  BY <1>3 DEF TreeNew
<1>7. r.allowance.records \in Nat /\ r.allowance.path_bytes \in Nat /\ r.allowance.content_bytes \in Nat
  BY RequestFields, AllowanceFields
<1>8. N <= r.allowance.records /\ PathSum(recs, N) <= r.allowance.path_bytes
      /\ ContentSum(recs, N) <= r.allowance.content_bytes
  BY <1>1, <1>5, <1>6, <1>7
<1> QED
  BY <1>1, <1>2, <1>3, <1>4, <1>5, <1>8

\* The places of the canonical stream: every file has its own.
LEMMA FramesGrow ==
  ASSUME NEW recs \in Records
  PROVE  /\ \A i \in 1 .. Len(recs) + 1 : FrameOf(recs, i) \in Nat /\ FrameOf(recs, i) >= 2
         /\ Len(recs) + 1 \in 1 .. Len(recs) + 1
         /\ FrameOf(recs, 1) = 2
         /\ \A i \in 1 .. Len(recs) : FrameOf(recs, i + 1) = FrameOf(recs, i) + 1 + recs[i].bytes
         /\ \A i, j \in 1 .. Len(recs) + 1 :
               i < j => FrameOf(recs, i) + 1 + recs[i].bytes <= FrameOf(recs, j)
<1> DEFINE N == Len(recs)
           F == [i \in 1 .. N |-> 1 + recs[i].bytes]
<1>1. N \in Nat /\ F \in [1 .. N -> Nat]
  <2>1. N \in Nat
    BY DEF Records
  <2>2. \A i \in 1 .. N : recs[i].bytes \in Nat
    BY RecordOf
  <2> QED
    BY <2>1, <2>2
<1>2. ASSUME NEW i \in 1 .. N + 1 PROVE i - 1 \in 0 .. N /\ FrameOf(recs, i) = 2 + UpTotal(F, i - 1)
  <2>1. i - 1 \in 0 .. N /\ \A j \in 1 .. i - 1 : j \in 1 .. N
    BY <1>1
  <2>2. [j \in 1 .. i - 1 |-> 1 + recs[j].bytes] = [j \in 1 .. i - 1 |-> F[j]]
    BY <2>1
  <2> QED
    BY <2>1, <2>2 DEF FrameOf, UpTotal
<1>3. \A i \in 1 .. N : F[i] = 1 + recs[i].bytes
  OBVIOUS
<1> HIDE DEF F, N
<1>4. ASSUME NEW i \in 1 .. N + 1 PROVE FrameOf(recs, i) \in Nat /\ FrameOf(recs, i) >= 2
  <2>1. UpTotal(F, i - 1) \in Nat
    BY <1>1, <1>2, UpTotalIs
  <2> QED
    BY <1>2, <2>1
<1>5. FrameOf(recs, 1) = 2 /\ N + 1 \in 1 .. N + 1
  <2>1. 1 \in 1 .. N + 1 /\ 0 \in 0 .. N /\ N + 1 \in 1 .. N + 1
    BY <1>1
  <2>2. UpTotal(F, 0) = 0
    BY <1>1, <2>1, UpTotalIs
  <2> QED
    BY <1>2, <2>1, <2>2
<1>6. ASSUME NEW i \in 1 .. N PROVE FrameOf(recs, i + 1) = FrameOf(recs, i) + 1 + recs[i].bytes
  <2>1. i \in 1 .. N + 1 /\ i + 1 \in 1 .. N + 1 /\ i - 1 \in 0 .. N /\ i - 1 < N
        /\ (i + 1) - 1 = i /\ (i - 1) + 1 = i
    BY <1>1
  <2>2. UpTotal(F, i - 1) \in Nat /\ UpTotal(F, (i - 1) + 1) = UpTotal(F, i - 1) + F[(i - 1) + 1]
    BY <1>1, <2>1, UpTotalIs
  <2>3. recs[i].bytes \in Nat
    BY RecordOf DEF N
  <2>4. FrameOf(recs, i + 1) = 2 + UpTotal(F, i) /\ FrameOf(recs, i) = 2 + UpTotal(F, i - 1)
    BY <1>2, <2>1
  <2> QED
    BY <1>3, <2>1, <2>2, <2>3, <2>4
<1>7. ASSUME NEW i \in 1 .. N + 1, NEW j \in 1 .. N + 1, i < j
      PROVE  FrameOf(recs, i) + 1 + recs[i].bytes <= FrameOf(recs, j)
  <2>1. i \in 1 .. N /\ i + 1 \in 1 .. N + 1 /\ (i + 1) - 1 = i /\ i \in 0 .. N
        /\ j - 1 \in 0 .. N /\ i \in 0 .. j - 1
    BY <1>1, <1>7
  <2>2. UpTotal(F, i) <= UpTotal(F, j - 1) /\ UpTotal(F, i) \in Nat /\ UpTotal(F, j - 1) \in Nat
    BY <1>1, <2>1, UpTotalIs
  <2>3. FrameOf(recs, i + 1) = 2 + UpTotal(F, i) /\ FrameOf(recs, j) = 2 + UpTotal(F, j - 1)
    BY <1>2, <2>1
  <2>4. FrameOf(recs, i + 1) = FrameOf(recs, i) + 1 + recs[i].bytes
    BY <1>6, <2>1
  <2> QED
    BY <2>2, <2>3, <2>4
<1> QED
  BY <1>4, <1>5, <1>6, <1>7 DEF N

\* A place of the stream belongs to one file and one byte of it.
LEMMA OnePlace ==
  ASSUME NEW recs \in Records, NEW i \in 1 .. Len(recs) + 1, NEW j \in 1 .. Len(recs) + 1,
         NEW k \in Nat, NEW l \in Nat,
         i <= Len(recs) => k <= recs[i].bytes, j <= Len(recs) => l <= recs[j].bytes,
         FrameOf(recs, i) + k = FrameOf(recs, j) + l
  PROVE  i = j /\ k = l
<1>1. /\ FrameOf(recs, i) \in Nat /\ FrameOf(recs, j) \in Nat
      /\ i < j => FrameOf(recs, i) + 1 + recs[i].bytes <= FrameOf(recs, j)
      /\ j < i => FrameOf(recs, j) + 1 + recs[j].bytes <= FrameOf(recs, i)
  BY FramesGrow
<1>2. Len(recs) \in Nat
  BY DEF Records
<1>3. ASSUME i < j PROVE FALSE
  <2>1. i \in 1 .. Len(recs)
    BY <1>2, <1>3
  <2>2. recs[i].bytes \in Nat
    BY <2>1, RecordOf
  <2> QED
    BY <1>1, <1>3, <2>1, <2>2
<1>4. ASSUME j < i PROVE FALSE
  <2>1. j \in 1 .. Len(recs)
    BY <1>2, <1>4
  <2>2. recs[j].bytes \in Nat
    BY <2>1, RecordOf
  <2> QED
    BY <1>1, <1>4, <2>1, <2>2
<1>5. i = j
  BY <1>2, <1>3, <1>4
<1> QED
  BY <1>1, <1>5

RecordMsg(recs, i) == [kind |-> "InputRecord", index |-> i - 1, record |-> recs[i]]
ChunkMsg(recs, i, k) ==
    [kind |-> "InputChunk", index |-> i - 1, offset |-> k - 1, bytes |-> <<recs[i].digest[k]>>]
FinishMsg(r) == [kind |-> "InputFinish", input |-> r.input]

\* m is the message of the k-th place of file i, or the last one.
MessageAt(r, i, k, m) ==
    LET recs == r.input.digest IN
    /\ i <= Len(recs) => /\ k = 0 => m = RecordMsg(recs, i)
                         /\ k # 0 => m = ChunkMsg(recs, i, k)
    /\ i = Len(recs) + 1 => k = 0 /\ m = FinishMsg(r)

\* What the canonical stream has at each of its places.
LEMMA CanonicalAt ==
  ASSUME NEW r \in Requests, r.input.digest \in Records, NEW q \in Nat, NEW m, Canonical(r, q, m)
  PROVE  LET recs == r.input.digest IN
         /\ q = 0 => m = [kind |-> "ClientHello", trusted |-> TRUE]
         /\ q = 1 => m = [kind |-> "RequestHeader", request |-> r]
         /\ \A i \in 1 .. Len(recs) + 1, k \in Nat :
               q = FrameOf(recs, i) + k /\ (i <= Len(recs) => k <= recs[i].bytes) =>
                  MessageAt(r, i, k, m)
<1> DEFINE recs == r.input.digest
           N == Len(recs)
<1>1. N \in Nat /\ DOMAIN recs = 1 .. N
  BY DEF Records
<1>2. \A i \in 1 .. N + 1 : FrameOf(recs, i) \in Nat /\ FrameOf(recs, i) >= 2
  BY FramesGrow
<1>3. \/ q = 0 /\ m = [kind |-> "ClientHello", trusted |-> TRUE]
      \/ q = 1 /\ m = [kind |-> "RequestHeader", request |-> r]
      \/ \E i \in 1 .. N + 1, k \in Nat :
            /\ q = FrameOf(recs, i) + k /\ (i <= N => k <= recs[i].bytes)
            /\ MessageAt(r, i, k, m)
  <2>1. ASSUME NEW i \in 1 .. N, q = FrameOf(recs, i), m = RecordMsg(recs, i)
        PROVE  \E j \in 1 .. N + 1, k \in Nat :
            /\ q = FrameOf(recs, j) + k /\ (j <= N => k <= recs[j].bytes)
            /\ MessageAt(r, j, k, m)
    <3>1. i \in 1 .. N + 1 /\ i # N + 1 /\ recs[i].bytes \in Nat
      BY <1>1, RecordOf
    <3>2. q = FrameOf(recs, i) + 0 /\ 0 <= recs[i].bytes
      BY <1>2, <2>1, <3>1
    <3>3. MessageAt(r, i, 0, m)
      BY <2>1, <3>1 DEF MessageAt
    <3> QED
      BY <3>1, <3>2, <3>3
  <2>2. ASSUME NEW i \in 1 .. N, NEW k \in 1 .. recs[i].bytes,
               q = FrameOf(recs, i) + k, m = ChunkMsg(recs, i, k)
        PROVE  \E j \in 1 .. N + 1, l \in Nat :
            /\ q = FrameOf(recs, j) + l /\ (j <= N => l <= recs[j].bytes)
            /\ MessageAt(r, j, l, m)
    <3>1. i \in 1 .. N + 1 /\ i # N + 1 /\ recs[i].bytes \in Nat
      BY <1>1, RecordOf
    <3>2. k \in Nat /\ k # 0 /\ k <= recs[i].bytes
      BY <3>1
    <3>3. MessageAt(r, i, k, m)
      BY <2>2, <3>1, <3>2 DEF MessageAt
    <3> QED
      BY <2>2, <3>1, <3>2, <3>3
  <2>3. ASSUME q = FrameOf(recs, N + 1), m = FinishMsg(r)
        PROVE  \E j \in 1 .. N + 1, l \in Nat :
            /\ q = FrameOf(recs, j) + l /\ (j <= N => l <= recs[j].bytes)
            /\ MessageAt(r, j, l, m)
    <3>1. N + 1 \in 1 .. N + 1 /\ ~(N + 1 <= N)
      BY <1>1
    <3>2. q = FrameOf(recs, N + 1) + 0
      BY <1>2, <2>3, <3>1
    <3>3. MessageAt(r, N + 1, 0, m)
      BY <2>3, <3>1 DEF MessageAt
    <3> QED
      BY <3>1, <3>2, <3>3
  <2> QED
    BY <1>1, <2>1, <2>2, <2>3, Zenon DEF Canonical, RecordMsg, ChunkMsg, FinishMsg
<1>4. CASE q = 0 /\ m = [kind |-> "ClientHello", trusted |-> TRUE]
  BY <1>2, <1>4
<1>5. CASE q = 1 /\ m = [kind |-> "RequestHeader", request |-> r]
  BY <1>2, <1>5
<1>6. ASSUME NEW i \in 1 .. N + 1, NEW k \in Nat,
             q = FrameOf(recs, i) + k, i <= N => k <= recs[i].bytes, MessageAt(r, i, k, m)
      PROVE  /\ q # 0 /\ q # 1
             /\ \A j \in 1 .. N + 1, l \in Nat :
                   q = FrameOf(recs, j) + l /\ (j <= N => l <= recs[j].bytes) =>
                      MessageAt(r, j, l, m)
  <2>1. q # 0 /\ q # 1
    <3>1. FrameOf(recs, i) \in Nat /\ FrameOf(recs, i) >= 2
      BY <1>2
    <3> QED
      BY <1>6, <3>1
  <2>2. ASSUME NEW j \in 1 .. N + 1, NEW l \in Nat,
               q = FrameOf(recs, j) + l, j <= N => l <= recs[j].bytes
        PROVE  MessageAt(r, j, l, m)
    <3>1. i = j /\ k = l
      BY <1>6, <2>2, OnePlace, SMTT(30)
    <3> QED
      BY <1>6, <3>1
  <2> QED
    BY <2>1, <2>2
<1> QED
  BY <1>3, <1>4, <1>5, <1>6

\* While input is taken, RequestFlow and HonestPlace say this.
LEMMA HonestInput ==
  ASSUME RequestFlow, HonestPlace, Listening, stream.phase = "Input"
  PROVE  LET r == stream.request
             recs == r.input.digest
             tree == stream.tree
             n == Len(tree.digest)
             a == tree.active
         IN  /\ Sound /\ stream \in StreamTypes /\ HasTree(stream)
             /\ r \in Requests /\ Honest(r) /\ recs \in Records /\ Len(recs) \in Nat
             /\ r.id = stream.id
             /\ HonestStream(r) /\ HonestDisk(r)
             /\ tree \in TreeStreamTypes /\ tree.digest \in Records
             /\ tree.declared = r.input /\ tree.next = n
             /\ n \in 0 .. Len(recs) /\ tree.digest = SubSeq(recs, 1, n)
             /\ stage # Null /\ stage \in StageTypes /\ stage.records = tree.digest
             /\ IsDisk(disk) /\ Made(disk, stage.entries)
             /\ ActiveInStep
             /\ a # Null =>
                   /\ a \in ActiveTypes /\ n \in 1 .. Len(recs) /\ a.index = n - 1
                   /\ a.bytes = recs[n].bytes /\ a.digest = recs[n].digest
                   /\ a.offset \in Nat /\ a.offset < recs[n].bytes
                   /\ a.data \in Content /\ Len(a.data) = a.offset
<1> DEFINE r == stream.request
           recs == r.input.digest
           tree == stream.tree
           n == Len(tree.digest)
           a == tree.active
<1>1. Sound /\ stream \in StreamTypes /\ IsDisk(disk)
  BY DEF Listening, Sound, RequestFlow, StateTypes
<1>2. /\ tree # Null /\ r # Null /\ tree.declared = r.input /\ stage # Null
  BY <1>1 DEF RequestFlow, PhaseFlow
<1>3. r \in Requests /\ tree \in TreeStreamTypes /\ stage \in StageTypes
  BY <1>1, <1>2, StreamFields DEF RequestFlow, StateTypes
<1>4. Honest(r) /\ r.id = stream.id /\ HonestStream(r) /\ HonestDisk(r)
  BY DEF HonestPlace
<1>5. recs \in Records /\ Len(recs) \in Nat
  BY <1>3, RequestFields, TreeFields DEF Records
<1>6. tree.digest \in Records /\ n \in Nat /\ a \in ActiveTypes \cup {Null}
  BY <1>3, TreeStreamFields, SMTT(30) DEF Records
<1>7. n <= Len(recs) /\ \A i \in 1 .. n : tree.digest[i] = recs[i]
  BY <1>4 DEF HonestStream
<1>8. n \in 0 .. Len(recs)
  BY <1>5, <1>6, <1>7
<1>9. tree.digest = SubSeq(recs, 1, n)
  <2> DEFINE s == SubSeq(recs, 1, n)
  <2>1. s \in Seq(RecordTypes) /\ Len(s) = n /\ \A i \in 1 .. n : s[i] = recs[i]
    BY <1>5, <1>8 DEF Records
  <2> HIDE DEF s
  <2> QED
    BY <1>6, <1>7, <2>1, SeqEqual DEF Records, s
<1>10. tree.next = n /\ stage.records = tree.digest /\ ActiveInStep
  BY <1>1 DEF RequestFlow, InStep
<1>11. Made(disk, stage.entries)
  BY <1>2 DEF RequestFlow, StagedTree
<1>12. ASSUME a # Null
       PROVE  /\ a \in ActiveTypes /\ n \in 1 .. Len(recs) /\ a.index = n - 1
              /\ a.bytes = recs[n].bytes /\ a.digest = recs[n].digest
              /\ a.offset \in Nat /\ a.offset < recs[n].bytes
              /\ a.data \in Content /\ Len(a.data) = a.offset
  <2>1. /\ n # 0 /\ a.index = n - 1 /\ a.bytes = tree.digest[n].bytes
        /\ a.digest = tree.digest[n].digest /\ a.offset = Len(a.data) /\ a.offset < a.bytes
    BY <1>10, <1>12 DEF ActiveInStep
  <2>2. n \in 1 .. Len(recs) /\ n \in 1 .. n
    BY <1>5, <1>8, <2>1
  <2>3. tree.digest[n] = recs[n]
    BY <1>7, <2>2
  <2>4. a \in ActiveTypes /\ a.offset \in Nat /\ a.data \in Content
    BY <1>6, <1>12, ActiveFields
  <2> QED
    BY <2>1, <2>2, <2>3, <2>4
<1>13. HasTree(stream)
  BY <1>3 DEF HasTree
<1> QED
  BY <1>1, <1>2, <1>3, <1>4, <1>5, <1>6, <1>8, <1>9, <1>10, <1>11, <1>12, <1>13

\* What the client sends next while input is taken.
InputNext(m) ==
    LET r == stream.request
        recs == r.input.digest
        tree == stream.tree
        n == Len(tree.digest)
    IN  /\ tree.active = Null /\ n < Len(recs) => m = RecordMsg(recs, n + 1)
        /\ tree.active = Null /\ n = Len(recs) => m = FinishMsg(r)
        /\ tree.active # Null => m = ChunkMsg(recs, n, tree.active.offset + 1)

\* What the frame in order is, phase by phase.
LEMMA NextFrame ==
  ASSUME RequestFlow, HonestPlace, Listening, NEW f \in Frames, InOrder(f)
  PROVE  /\ Expected(stream, f)
         /\ stream.phase \in {"ClientHello", "Header", "Input", "Complete"}
         /\ stream.phase = "ClientHello" => f.msg = [kind |-> "ClientHello", trusted |-> TRUE]
         /\ stream.phase = "Header" =>
               \E r \in Requests : /\ Honest(r) /\ r.id = f.id /\ r.id = stream.id
                                   /\ f.msg = [kind |-> "RequestHeader", request |-> r]
         /\ stream.phase = "Input" => f.msg.kind = "Cancel" \/ InputNext(f.msg)
         /\ stream.phase = "Complete" => f.msg.kind = "Cancel"
<1>1. /\ f.seq = stream.seq /\ stream.phase # "Cancelled"
      /\ stream.phase # "Poisoned" /\ stream \in StreamTypes /\ f.seq \in Nat
  BY FrameFields DEF InOrder, Listening, RequestFlow, PhaseFlow, StateTypes
<1>2. PICK r \in Requests :
          /\ Honest(r) /\ f.id = r.id /\ stream.id \in {Null, r.id}
          /\ stream.request \in {Null, r}
          /\ \/ Canonical(r, f.seq, f.msg)
             \/ f.msg.kind = "Cancel" /\ stream.phase \in {"Input", "Complete"}
  BY DEF InOrder
<1>3. Expected(stream, f)
  BY <1>1, <1>2 DEF Expected
<1>4. stream.phase \in {"ClientHello", "Header", "Input", "Complete"}
  BY <1>1, StreamFields
<1>5. r.input.digest \in Records
  BY <1>2, RequestFields, TreeFields DEF Records
<1>6. ASSUME stream.phase = "ClientHello"
      PROVE  f.msg = [kind |-> "ClientHello", trusted |-> TRUE]
  <2>1. f.seq = 0 /\ Canonical(r, f.seq, f.msg)
    BY <1>1, <1>2, <1>6 DEF HonestPlace
  <2> QED
    BY <1>1, <1>5, <2>1, CanonicalAt
<1>7. ASSUME stream.phase = "Header"
      PROVE  \E q \in Requests : /\ Honest(q) /\ q.id = f.id /\ q.id = stream.id
                                 /\ f.msg = [kind |-> "RequestHeader", request |-> q]
  <2>1. f.seq = 1 /\ Canonical(r, f.seq, f.msg) /\ stream.id # Null
    BY <1>1, <1>2, <1>7 DEF HonestPlace
  <2>2. f.msg = [kind |-> "RequestHeader", request |-> r]
    BY <1>1, <1>5, <2>1, CanonicalAt
  <2> QED
    BY <1>2, <2>1, <2>2
<1>8. ASSUME stream.phase \in {"Input", "Complete"}, f.msg.kind # "Cancel", stream.request # Null
      PROVE  stream.request = r /\ Canonical(r, f.seq, f.msg)
  BY <1>2, <1>8
<1>9. ASSUME stream.phase = "Input", f.msg.kind # "Cancel" PROVE InputNext(f.msg)
  <2> DEFINE recs == r.input.digest
             tree == stream.tree
             n == Len(tree.digest)
             a == tree.active
  <2>1. /\ stream.request \in Requests /\ n \in 0 .. Len(stream.request.input.digest)
        /\ HonestStream(stream.request)
        /\ a # Null => /\ n \in 1 .. Len(stream.request.input.digest)
                       /\ a.offset \in Nat /\ a.offset < stream.request.input.digest[n].bytes
    BY <1>9, HonestInput
  <2>2. stream.request = r /\ Canonical(r, f.seq, f.msg)
    BY <1>8, <1>9, <2>1, NullAssumption
  <2>3. /\ n \in 0 .. Len(recs) /\ HonestStream(r)
        /\ a # Null => n \in 1 .. Len(recs) /\ a.offset \in Nat /\ a.offset < recs[n].bytes
    BY <2>1, <2>2
  <2>4. Len(recs) \in Nat
    BY <1>5 DEF Records
  <2>5. \A i \in 1 .. Len(recs) + 1, k \in Nat :
            f.seq = FrameOf(recs, i) + k /\ (i <= Len(recs) => k <= recs[i].bytes) =>
               MessageAt(r, i, k, f.msg)
    BY <1>1, <1>5, <2>2, CanonicalAt
  <2>6. /\ a = Null => stream.seq = FrameOf(recs, n + 1)
        /\ a # Null => stream.seq = FrameOf(recs, n) + 1 + a.offset
    BY <2>3 DEF HonestStream
  <2>7. \A i \in 1 .. Len(recs) + 1 : FrameOf(recs, i) \in Nat
    BY <1>5, FramesGrow
  <2>8. \A i \in 1 .. Len(recs) : recs[i].bytes \in Nat
    BY <1>5, RecordOf
  <2> HIDE DEF a, n, tree, recs
  <2>9. ASSUME a = Null
        PROVE  /\ n < Len(recs) => f.msg = RecordMsg(recs, n + 1)
               /\ n = Len(recs) => f.msg = FinishMsg(r)
    <3>1. n + 1 \in 1 .. Len(recs) + 1 /\ (n + 1 <= Len(recs) => n + 1 \in 1 .. Len(recs))
      BY <2>3, <2>4
    <3>2. f.seq = FrameOf(recs, n + 1) + 0
      BY <1>1, <2>6, <2>7, <2>9, <3>1
    <3>3. n + 1 <= Len(recs) => 0 <= recs[n + 1].bytes
      BY <2>8, <3>1
    <3>4. MessageAt(r, n + 1, 0, f.msg)
      BY <2>5, <3>1, <3>2, <3>3
    <3>5. /\ n < Len(recs) => n + 1 <= Len(recs)
          /\ n = Len(recs) => n + 1 = Len(recs) + 1
      BY <2>3, <2>4
    <3> QED
      BY <3>4, <3>5 DEF MessageAt, recs
  <2>10. ASSUME a # Null PROVE f.msg = ChunkMsg(recs, n, a.offset + 1)
    <3>1. n \in 1 .. Len(recs) + 1 /\ n <= Len(recs) /\ n \in 1 .. Len(recs)
      BY <2>3, <2>4, <2>10
    <3>2. a.offset + 1 \in Nat /\ a.offset + 1 # 0 /\ a.offset + 1 <= recs[n].bytes
      BY <2>3, <2>8, <2>10, <3>1
    <3>3. f.seq = FrameOf(recs, n) + (a.offset + 1)
      <4>1. f.seq = FrameOf(recs, n) + 1 + a.offset
        BY <1>1, <2>6, <2>10
      <4>2. FrameOf(recs, n) \in Nat
        BY <2>7, <3>1
      <4>3. a.offset \in Nat
        BY <2>3, <2>10
      <4> QED
        BY <4>1, <4>2, <4>3
    <3>4. MessageAt(r, n, a.offset + 1, f.msg)
      BY <2>5, <3>1, <3>2, <3>3
    <3> QED
      BY <3>1, <3>2, <3>4 DEF MessageAt, recs
  <2> QED
    BY <2>2, <2>9, <2>10 DEF InputNext, a, n, tree, recs
<1>10. ASSUME stream.phase = "Complete" PROVE f.msg.kind = "Cancel"
  <2> SUFFICES ASSUME f.msg.kind # "Cancel" PROVE FALSE
    OBVIOUS
  <2> DEFINE recs == r.input.digest
             N == Len(recs)
  <2>1. /\ stream.seq = FrameOf(stream.request.input.digest,
                                Len(stream.request.input.digest) + 1) + 1
        /\ stream.request # Null
    <3>1. ~executor.poisoned /\ ~executor.dropped
      BY DEF Listening
    <3>2. sealed # Null
      BY <1>10, <3>1 DEF RequestFlow, PhaseFlow, Sound
    <3> QED
      BY <1>10, <3>2 DEF HonestPlace, RequestFlow, PhaseFlow
  <2>2. stream.request = r /\ Canonical(r, f.seq, f.msg)
    BY <1>8, <1>10, <2>1
  <2>3. f.seq = FrameOf(recs, N + 1) + 1
    BY <1>1, <2>1, <2>2
  <2>4. N \in Nat /\ N + 1 \in 1 .. N + 1 /\ ~(N + 1 <= N) /\ 1 \in Nat /\ 1 # 0
    BY <1>5 DEF Records
  <2>5. MessageAt(r, N + 1, 1, f.msg)
    BY <1>1, <1>5, <2>2, <2>3, <2>4, CanonicalAt
  <2> QED
    BY <2>4, <2>5 DEF MessageAt
<1> QED
  BY <1>3, <1>4, <1>6, <1>7, <1>9, <1>10

\* The directories of one more file are added to those there are.
LEMMA DirsGrow ==
  ASSUME NEW recs \in Records, NEW n \in 0 .. Len(recs)
  PROVE  /\ n < Len(recs) =>
               DirsOf(recs, n + 1) = DirsOf(recs, n) \cup ToSet(Parents(recs[n + 1].path))
         /\ n = 0 => DirsOf(recs, n) = {}
         /\ DirsOf(recs, n) \subseteq DirsOf(recs, Len(recs))
         /\ \A i \in 1 .. n : ToSet(Parents(recs[i].path)) \subseteq DirsOf(recs, n)
<1> DEFINE D(i) == ToSet(Parents(recs[i].path))
<1>1. \A k : DirsOf(recs, k) = UNION {D(i) : i \in 1 .. k}
  BY DEF DirsOf
<1>2. Len(recs) \in Nat
  BY DEF Records
<1>3. n < Len(recs) => 1 .. n + 1 = 1 .. n \cup {n + 1}
  BY <1>2
<1>4. n = 0 => 1 .. n = {}
  BY <1>2
<1>5. 1 .. n \subseteq 1 .. Len(recs)
  BY <1>2
<1> HIDE DEF D
<1>6. ASSUME n < Len(recs) PROVE DirsOf(recs, n + 1) = DirsOf(recs, n) \cup D(n + 1)
  <2>1. \A x, k : x \in DirsOf(recs, k) <=> \E i \in 1 .. k : x \in D(i)
    BY <1>1
  <2>2. \A i : i \in 1 .. n + 1 <=> i \in 1 .. n \/ i = n + 1
    BY <1>3, <1>6
  <2>3. \A x : x \in DirsOf(recs, n + 1) <=> x \in DirsOf(recs, n) \/ x \in D(n + 1)
    BY <2>1, <2>2, Zenon
  <2> QED
    BY <2>3, Zenon
<1>7. DirsOf(recs, n) \subseteq DirsOf(recs, Len(recs))
  BY <1>1, <1>5, Zenon
<1>8. \A i \in 1 .. n : D(i) \subseteq DirsOf(recs, n)
  BY <1>1, Zenon
<1>9. n = 0 => DirsOf(recs, n) = {}
  BY <1>1, <1>4, ZenonT(60)
<1> QED
  BY <1>6, <1>7, <1>8, <1>9 DEF D

\* d holds the first n files of recs and their parents.
Holds(d, recs, n) ==
    /\ DOMAIN d = {Root} \cup {PathOrder[recs[i].path] : i \in 1 .. n} \cup DirsOf(recs, n)
    /\ \A x \in DirsOf(recs, n) : d[x] = Dir

\* The next file of an honest tree has a place in the directory, and no more
\* parents to make than the client reckoned.
LEMMA NextHasPlace ==
  ASSUME NEW r \in Requests, Honest(r), NEW n \in 0 .. Len(r.input.digest),
         n < Len(r.input.digest), NEW d, Holds(d, r.input.digest, n)
  PROVE  LET recs == r.input.digest
             p == recs[n + 1].path
         IN  /\ p \in DOMAIN PathOrder
             /\ NewParents(p, DOMAIN d) = NewParents(p, DirsOf(recs, n))
             /\ DirBytes(NewParents(p, DOMAIN d)) = DirCost(recs, n + 1)
             /\ NoFileAbove(p, d)
             /\ PathOrder[p] \notin DOMAIN d
<1> DEFINE recs == r.input.digest
           N == Len(recs)
           p == recs[n + 1].path
           t == Parents(p)
<1>1. /\ recs \in Records /\ N \in Nat
      /\ \A i, j \in 1 .. N : i < j => recs[i].path < recs[j].path
      /\ \A i \in 1 .. N : PathOrder[recs[i].path] \notin DirsOf(recs, N)
  BY HonestIs
<1>2. n + 1 \in 1 .. N /\ n + 1 \in 0 .. N /\ N \in 0 .. N /\ (n + 1) - 1 = n
      /\ \A i \in 1 .. n : i \in 1 .. N /\ i < n + 1
  BY <1>1
<1>3. p \in DOMAIN PathOrder
  BY <1>1, <1>2, RecordOf
<1>4. /\ PathOrder[p] # Root /\ DOMAIN t = 1 .. (Len(PathOrder[p]) - 1)
      /\ \A k \in DOMAIN t : Len(t[k]) = k
  BY <1>3, ParentsOf
<1>5. DirsOf(recs, n) \subseteq DirsOf(recs, N) /\ ToSet(t) \subseteq DirsOf(recs, N)
  BY <1>1, <1>2, DirsGrow
<1>6. \A k \in DOMAIN t : t[k] \in DirsOf(recs, N)
  BY <1>5 DEF ToSet
<1> HIDE DEF recs, N, p, t
<1>7. ASSUME NEW k \in DOMAIN t PROVE t[k] \in DOMAIN d <=> t[k] \in DirsOf(recs, n)
  <2>1. t[k] # Root
    <3>1. Len(t[k]) = k /\ k # 0
      BY <1>4
    <3>2. Len(Root) = 0
      BY DEF Root
    <3> QED
      BY <3>1, <3>2
  <2>2. \A i \in 1 .. n : t[k] # PathOrder[recs[i].path]
    BY <1>1, <1>2, <1>6
  <2>3. DOMAIN d = {Root} \cup {PathOrder[recs[i].path] : i \in 1 .. n} \cup DirsOf(recs, n)
    BY DEF Holds, recs
  <2> QED
    BY <2>1, <2>2, <2>3
<1>8. NewParents(p, DOMAIN d) = NewParents(p, DirsOf(recs, n))
  <2>1. {k \in DOMAIN t : t[k] \in DOMAIN d} = {k \in DOMAIN t : t[k] \in DirsOf(recs, n)}
    BY <1>7
  <2> QED
    BY <2>1, Zenon DEF NewParents, t
<1>9. DirBytes(NewParents(p, DOMAIN d)) = DirCost(recs, n + 1)
  BY <1>2, <1>8 DEF DirCost, p
<1>10. NoFileAbove(p, d)
  <2>1. \A k \in DOMAIN t : t[k] \in DOMAIN d => d[t[k]] = Dir
    BY <1>7 DEF Holds, recs
  <2> QED
    BY <2>1 DEF NoFileAbove, t
<1>11. PathOrder[p] \notin DOMAIN d
  <2>1. PathOrder[p] \notin DirsOf(recs, n)
    BY <1>1, <1>2, <1>5 DEF p
  <2>2. ASSUME NEW i \in 1 .. n PROVE PathOrder[p] # PathOrder[recs[i].path]
    <3>1. recs[i].path < recs[n + 1].path /\ i \in 1 .. N
      BY <1>1, <1>2
    <3>2. recs[i].path \in DOMAIN PathOrder
      BY <1>1, <3>1, RecordOf DEF N
    <3>3. recs[i].path # p
      <4>1. recs[i].path \in Nat /\ p \in Nat
        BY <1>3, <3>2, RequestAssumption
      <4> QED
        BY <3>1, <4>1 DEF p
    <3> QED
      BY <1>3, <3>2, <3>3, RequestAssumption
  <2> QED
    BY <1>4, <2>1, <2>2 DEF Holds, recs
<1> QED
  BY <1>3, <1>8, <1>9, <1>10, <1>11 DEF recs, p

\* The next record of an honest client is taken.
LEMMA RecordTaken ==
  ASSUME RequestFlow, HonestPlace, Listening, stream.phase = "Input", NEW f \in Frames,
         Expected(stream, f), stream.tree.active = Null,
         Len(stream.tree.digest) < Len(stream.request.input.digest),
         f.msg = RecordMsg(stream.request.input.digest, Len(stream.tree.digest) + 1)
  PROVE  Accept(stream, f).phase # "Poisoned" /\ RecordPossible(f)
<1> DEFINE r == stream.request
           recs == r.input.digest
           N == Len(recs)
           tree == stream.tree
           n == Len(tree.digest)
           rec == recs[n + 1]
<1>1. /\ stream \in StreamTypes /\ HasTree(stream)
      /\ r \in Requests /\ Honest(r) /\ recs \in Records /\ N \in Nat
      /\ HonestStream(r) /\ HonestDisk(r)
      /\ tree \in TreeStreamTypes /\ tree.declared = r.input /\ tree.next = n
      /\ n \in 0 .. N /\ stage \in StageTypes /\ stage.records = tree.digest
      /\ ActiveInStep
  BY HonestInput
<1>2. n + 1 \in 1 .. N /\ n < N /\ n \in Nat /\ (n + 1) - 1 = n /\ n + 1 \in 0 .. N
  BY <1>1, SMTT(30)
<1>3. /\ f.msg.kind = "InputRecord" /\ f.msg.index = n /\ f.msg.record = rec
  BY <1>2 DEF RecordMsg
<1>4. /\ rec \in RecordTypes /\ rec.bytes \in Nat /\ PathBytes(rec.path) \in Nat
      /\ rec.path \in DOMAIN PathOrder /\ DirCost(recs, n + 1) \in Nat /\ rec.path \in Nat
      /\ rec.digest \in Content
  BY <1>1, <1>2, RecordOf, RecordFields
<1>5. /\ r.input.records = N /\ N <= r.allowance.records
      /\ r.input.path_bytes = PathSum(recs, N) /\ PathSum(recs, N) <= r.allowance.path_bytes
      /\ r.input.content_bytes = ContentSum(recs, N)
      /\ ContentSum(recs, N) <= r.allowance.content_bytes
      /\ rec.bytes = Len(rec.digest)
      /\ \A i, j \in 1 .. N : i < j => recs[i].path < recs[j].path
      /\ DirSum(recs, N) <= TreePathBytes
  BY <1>1, <1>2, HonestIs
<1>6. /\ tree.allowance = r.allowance
      /\ tree.path_bytes = PathSum(recs, n) /\ tree.content_bytes = ContentSum(recs, n)
      /\ tree.prev = IF n = 0 THEN 0 ELSE recs[n].path
  BY <1>1 DEF HonestStream
<1>7. /\ PathSum(recs, n + 1) = PathSum(recs, n) + PathBytes(rec.path)
      /\ ContentSum(recs, n + 1) = ContentSum(recs, n) + rec.bytes
      /\ DirSum(recs, n + 1) = DirSum(recs, n) + DirCost(recs, n + 1)
      /\ PathSum(recs, n) \in Nat /\ ContentSum(recs, n) \in Nat /\ DirSum(recs, n) \in Nat
  BY <1>1, <1>2, SumsGrow
<1>8. /\ PathSum(recs, n + 1) <= PathSum(recs, N) /\ ContentSum(recs, n + 1) <= ContentSum(recs, N)
      /\ DirSum(recs, n + 1) <= DirSum(recs, N)
  BY <1>1, <1>2, SumsGrow
<1>9. /\ PathSum(recs, N) \in Nat /\ ContentSum(recs, N) \in Nat /\ DirSum(recs, N) \in Nat
  <2>1. N \in 0 .. N
    BY <1>1
  <2> QED
    BY <1>1, <2>1, SumsGrow
<1>10. r.allowance.path_bytes \in Nat /\ r.allowance.content_bytes \in Nat
       /\ r.allowance.records \in Nat /\ TreePathBytes \in Nat
  BY <1>1, RequestFields, AllowanceFields, RequestAssumption
<1> HIDE DEF rec, n, N, recs, r, tree
<1>11. RecordFits(tree, rec)
  <2>1. /\ tree.path_bytes + PathBytes(rec.path) = PathSum(recs, n + 1)
        /\ tree.content_bytes + rec.bytes = ContentSum(recs, n + 1)
    BY <1>6, <1>7
  <2>2. PathSum(recs, n + 1) \in Nat /\ ContentSum(recs, n + 1) \in Nat
    BY <1>4, <1>7, SMTT(30)
  <2>3. /\ PathSum(recs, n + 1) <= tree.allowance.path_bytes
        /\ ContentSum(recs, n + 1) <= tree.allowance.content_bytes
    BY <1>5, <1>6, <1>8, <1>9, <1>10, <2>2, SMTT(30)
  <2>4. /\ PathSum(recs, n + 1) <= tree.declared.path_bytes
        /\ ContentSum(recs, n + 1) <= tree.declared.content_bytes
    BY <1>1, <1>5, <1>8
  <2> QED
    BY <2>1, <2>3, <2>4 DEF RecordFits
<1>12. tree.prev < rec.path
  <2>1. CASE n = 0
    <3>1. rec.path \in 1 .. Len(PathOrder)
      BY <1>4, RequestAssumption
    <3> QED
      BY <1>4, <1>6, <2>1, <3>1
  <2>2. CASE n # 0
    <3>1. n \in 1 .. N /\ n < n + 1
      BY <1>1, <1>2, <2>2
    <3> QED
      BY <1>2, <1>5, <1>6, <2>2, <3>1 DEF rec
  <2> QED
    BY <2>1, <2>2
<1>13. rec.bytes = 0 => rec.digest = <<>>
  <2>1. rec.digest \in Seq(0 .. 255)
    BY <1>4 DEF Content
  <2> QED
    BY <1>5, <2>1, EmptySeq
<1>14. n < tree.declared.records /\ n < tree.allowance.records
  BY <1>1, <1>2, <1>5, <1>6, <1>10
<1>15. AcceptRecord(tree, n, rec) # Null
  <2>1. tree.active = Null /\ n = tree.next
    BY <1>1 DEF tree
  <2> QED
    BY <1>1, <1>2, <1>4, <1>11, <1>12, <1>13, <1>14, <2>1, AcceptRecordIs
<1>16. Accept(stream, f).phase # "Poisoned"
  <2>1. AcceptRecord(stream.tree, f.msg.index, f.msg.record) # Null
    BY <1>3, <1>15 DEF tree
  <2>2. stream \in StreamTypes /\ HasTree(stream) /\ f.msg.kind = "InputRecord"
    BY <1>1, <1>3
  <2>3. Accept(stream, f).phase # "Poisoned" <=>
           /\ Expected(stream, f) /\ stream.phase = "Input"
           /\ AcceptRecord(stream.tree, f.msg.index, f.msg.record) # Null
    BY <2>2, TakesRecord, ZenonT(60)
  <2> QED
    BY <2>1, <2>3
<1>17. Holds(disk, recs, n)
  BY <1>1 DEF Holds, HonestDisk, recs, n, tree
<1>18. /\ DirBytes(NewParents(rec.path, DOMAIN disk)) = DirCost(recs, n + 1)
       /\ NoFileAbove(rec.path, disk) /\ PathOrder[rec.path] \notin DOMAIN disk
  BY <1>1, <1>2, <1>17, NextHasPlace, SMTT(30) DEF rec, recs, N
<1>19. MissingParents(rec.path) # Null /\ MissingParents(rec.path) = NewParents(rec.path, DOMAIN disk)
  BY <1>4, <1>18, MissingParentsIs
<1>20. ActiveDone(stage)
  BY <1>1 DEF ActiveInStep, tree
<1>21. n = Len(stage.records)
  BY <1>1, SMTT(30) DEF n
<1>22. stage.dir_bytes = DirSum(recs, n)
  BY <1>1 DEF HonestDisk, recs, n, tree
<1>23. stage.dir_bytes + DirBytes(MissingParents(rec.path)) <= TreePathBytes
  BY <1>4, <1>5, <1>7, <1>8, <1>9, <1>10, <1>18, <1>19, <1>22
<1>24. RecordPossible(f)
  BY <1>3, <1>18, <1>19, <1>20, <1>21, <1>23 DEF RecordPossible
<1> QED
  BY <1>16, <1>24

\* One more element of the sequence that s is a beginning of.
LEMMA OneMore ==
  ASSUME NEW S, NEW s \in Seq(S), NEW t \in Seq(S), Len(s) < Len(t),
         \A k \in 1 .. Len(s) : s[k] = t[k]
  PROVE  LET u == s \o <<t[Len(s) + 1]>> IN
         /\ u \in Seq(S) /\ Len(u) = Len(s) + 1
         /\ \A k \in 1 .. Len(s) + 1 : u[k] = t[k]
         /\ Len(t) = Len(s) + 1 => u = t
<1> DEFINE x == t[Len(s) + 1]
           u == s \o <<x>>
<1>1. x \in S /\ Len(s) \in Nat /\ Len(t) \in Nat
  <2>1. Len(s) + 1 \in 1 .. Len(t)
    OBVIOUS
  <2> QED
    BY <2>1
<1> HIDE DEF x
<1>2. /\ u \in Seq(S) /\ Len(u) = Len(s) + 1 /\ u[Len(s) + 1] = x
      /\ \A k \in 1 .. Len(s) : u[k] = s[k]
  BY <1>1
<1> HIDE DEF u
<1>3. \A k \in 1 .. Len(s) + 1 : u[k] = t[k]
  <2> TAKE k \in 1 .. Len(s) + 1
  <2>1. CASE k = Len(s) + 1
    BY <1>2, <2>1 DEF x
  <2>2. CASE k # Len(s) + 1
    <3>1. k \in 1 .. Len(s)
      BY <1>1, <2>2
    <3> QED
      BY <1>2, <3>1
  <2> QED
    BY <2>1, <2>2
<1>4. Len(t) = Len(s) + 1 => u = t
  BY <1>2, <1>3, SeqEqual, SMTT(30)
<1> QED
  BY <1>2, <1>3, <1>4 DEF u, x

\* What one byte of the active file adds.
LEMMA NextByte ==
  ASSUME RequestFlow, HonestPlace, Listening, stream.phase = "Input",
         stream.tree.active # Null
  PROVE  LET a == stream.tree.active
             digest == stream.request.input.digest[Len(stream.tree.digest)].digest
             data == a.data \o <<digest[a.offset + 1]>>
         IN  /\ <<digest[a.offset + 1]>> \in Content /\ digest \in Content
             /\ Len(digest) = a.bytes /\ a.offset < Len(digest)
             /\ Len(data) = a.offset + 1
             /\ \A k \in 1 .. a.offset + 1 : data[k] = digest[k]
             /\ a.offset + 1 = a.bytes => data = digest
<1> DEFINE a == stream.tree.active
           r == stream.request
           recs == r.input.digest
           n == Len(stream.tree.digest)
           digest == recs[n].digest
<1>1. /\ r \in Requests /\ Honest(r) /\ recs \in Records /\ HonestStream(r)
      /\ a \in ActiveTypes /\ n \in 1 .. Len(recs)
      /\ a.bytes = recs[n].bytes
      /\ a.offset \in Nat /\ a.offset < recs[n].bytes
      /\ a.data \in Content /\ Len(a.data) = a.offset
  BY HonestInput, SMTT(30)
<1>2. recs[n].bytes = Len(digest)
  BY <1>1, HonestIs
<1>3. digest \in Content
  BY <1>1, RecordOf, RecordFields, SMTT(30)
<1>4. \A k \in 1 .. a.offset : a.data[k] = digest[k]
  BY <1>1 DEF HonestStream
<1> HIDE DEF a, digest
<1>5. a.offset < Len(digest) /\ Len(digest) \in Nat
  BY <1>1, <1>2, <1>3 DEF Content
<1> DEFINE data == a.data \o <<digest[Len(a.data) + 1]>>
<1>6. /\ Len(data) = Len(a.data) + 1
      /\ \A k \in 1 .. Len(a.data) + 1 : data[k] = digest[k]
      /\ Len(digest) = Len(a.data) + 1 => data = digest
  BY <1>1, <1>3, <1>4, <1>5, OneMore, SMTT(30) DEF Content
<1>7. <<digest[a.offset + 1]>> \in Content
  <2>1. a.offset + 1 \in 1 .. Len(digest)
    BY <1>1, <1>5
  <2>2. digest[a.offset + 1] \in 0 .. 255
    BY <1>3, <2>1, ElementOfSeq DEF Content
  <2> QED
    BY <2>2 DEF Content
<1> QED
  BY <1>1, <1>2, <1>3, <1>5, <1>6, <1>7 DEF a, digest

\* The next byte of an honest client is taken.
LEMMA ChunkTaken ==
  ASSUME RequestFlow, HonestPlace, Listening, stream.phase = "Input", NEW f \in Frames,
         Expected(stream, f), stream.tree.active # Null,
         f.msg = ChunkMsg(stream.request.input.digest, Len(stream.tree.digest),
                          stream.tree.active.offset + 1)
  PROVE  Accept(stream, f).phase # "Poisoned" /\ ChunkPossible(f)
<1> DEFINE a == stream.tree.active
           r == stream.request
           recs == r.input.digest
           tree == stream.tree
           n == Len(stream.tree.digest)
           digest == recs[n].digest
           bytes == <<digest[a.offset + 1]>>
<1>1. /\ stream \in StreamTypes /\ HasTree(stream) /\ tree \in TreeStreamTypes
      /\ n \in 1 .. Len(recs) /\ a.index = n - 1 /\ a.bytes = recs[n].bytes
      /\ a.digest = digest
      /\ a.offset \in Nat /\ a.offset < recs[n].bytes
      /\ ActiveInStep /\ recs \in Records
  BY HonestInput
<1>2. /\ bytes \in Content
      /\ a.offset + 1 = a.bytes => a.data \o bytes = digest
  BY NextByte, ZenonT(60)
<1>3. /\ f.msg.kind = "InputChunk" /\ f.msg.index = n - 1 /\ f.msg.offset = a.offset
      /\ f.msg.bytes = bytes
  <2>1. (a.offset + 1) - 1 = a.offset
    BY <1>1
  <2>2. /\ f.msg.kind = "InputChunk" /\ f.msg.index = n - 1
        /\ f.msg.offset = (a.offset + 1) - 1 /\ f.msg.bytes = bytes
    <3>1. f.msg = [kind |-> "InputChunk", index |-> n - 1, offset |-> (a.offset + 1) - 1,
                   bytes |-> bytes]
      BY Zenon DEF ChunkMsg
    <3> HIDE DEF bytes, a, n
    <3> QED
      BY <3>1
  <2> QED
    BY <2>1, <2>2
<1>4. Len(bytes) = 1 /\ bytes # <<>>
  OBVIOUS
<1>5. recs[n].bytes \in Nat /\ n - 1 \in Nat
  <2>1. recs[n].bytes \in Nat
    BY <1>1, RecordOf
  <2> QED
    BY <1>1, <2>1
<1> HIDE DEF bytes, digest
<1>6. ChunkFits(tree, n - 1, a.offset, bytes)
  <2>1. /\ a.offset + Len(bytes) = a.offset + 1 /\ a.offset + 1 <= a.bytes
        /\ n - 1 = a.index
    BY <1>1, <1>4, <1>5, SMTT(30)
  <2>2. a.offset + Len(bytes) = a.bytes => a.data \o bytes = a.digest
    BY <1>1, <1>2, <2>1
  <2>3. a # Null /\ a.offset + Len(bytes) <= a.bytes
    BY <2>1
  <2> QED
    BY <1>4, <2>1, <2>2, <2>3, Zenon DEF ChunkFits
<1>7. AcceptChunk(tree, n - 1, a.offset, bytes) # Null
  <2>1. AcceptChunk(tree, n - 1, a.offset, bytes) # Null <=>
           ChunkFits(tree, n - 1, a.offset, bytes)
    BY <1>1, <1>2, <1>5, AcceptChunkIs, Zenon
  <2> QED
    BY <1>6, <2>1
<1>8. Accept(stream, f).phase # "Poisoned"
  <2>1. AcceptChunk(stream.tree, f.msg.index, f.msg.offset, f.msg.bytes) # Null
    BY <1>3, <1>7
  <2>2. Accept(stream, f).phase # "Poisoned" <=>
           /\ Expected(stream, f) /\ stream.phase = "Input"
           /\ AcceptChunk(stream.tree, f.msg.index, f.msg.offset, f.msg.bytes) # Null
    BY <1>1, <1>3, TakesChunk, Zenon
  <2> QED
    BY <2>1, <2>2
<1>9. /\ stage.active # Null /\ stage.active.index = a.index
      /\ stage.active.offset = a.offset /\ stage.active.declared = a.bytes
  BY <1>1 DEF ActiveInStep
<1>10. a.offset + Len(bytes) <= a.bytes
  BY <1>1, <1>4, <1>5, SMTT(30)
<1>11. ChunkPossible(f)
  BY <1>1, <1>3, <1>9, <1>10 DEF ChunkPossible
<1> QED
  BY <1>8, <1>11

\* The last frame of an honest client seals the tree.
LEMMA FinishTaken ==
  ASSUME RequestFlow, HonestPlace, Listening, stream.phase = "Input", NEW f \in Frames,
         Expected(stream, f), stream.tree.active = Null,
         Len(stream.tree.digest) = Len(stream.request.input.digest),
         f.msg = FinishMsg(stream.request)
  PROVE  Accept(stream, f).phase # "Poisoned" /\ StageFinishes(stage, f.msg.input)
<1> DEFINE r == stream.request
           recs == r.input.digest
           tree == stream.tree
           N == Len(recs)
<1>1. /\ stream \in StreamTypes /\ tree \in TreeStreamTypes /\ tree.declared = r.input
      /\ r \in Requests /\ Honest(r) /\ recs \in Records /\ N \in Nat
      /\ HonestStream(r) /\ HonestDisk(r) /\ tree.next = N
      /\ tree.digest = SubSeq(recs, 1, N) /\ stage.records = tree.digest
      /\ Made(disk, stage.entries) /\ ActiveInStep
  BY HonestInput
<1>2. tree.digest = recs /\ DOMAIN recs = 1 .. N
  BY <1>1, SubSeqFull DEF Records
<1>3. f.msg.kind = "InputFinish" /\ f.msg.input = r.input
  BY DEF FinishMsg
<1>4. /\ r.input = MeasureTree(recs) /\ r.input.records = N
      /\ r.input.path_bytes = PathSum(recs, N) /\ r.input.content_bytes = ContentSum(recs, N)
      /\ \E i \in 1 .. N : recs[i].path = r.manifest
  BY <1>1, HonestIs
<1>5. /\ tree.path_bytes = PathSum(recs, N) /\ tree.content_bytes = ContentSum(recs, N)
      /\ \A i \in 1 .. N : recs[i].path = r.manifest => stream.manifest_seen
  BY <1>1 DEF HonestStream
<1>6. Measured(tree) = r.input
  <2>1. r.input \in TreeTypes
    BY <1>1, RequestFields
  <2>2. r.input = [digest |-> r.input.digest, records |-> r.input.records,
                   path_bytes |-> r.input.path_bytes, content_bytes |-> r.input.content_bytes]
    BY <2>1 DEF TreeTypes
  <2>3. Measured(tree) = [digest |-> tree.digest, records |-> tree.next,
                          path_bytes |-> tree.path_bytes, content_bytes |-> tree.content_bytes]
    BY DEF Measured
  <2> QED
    BY <1>1, <1>2, <1>4, <1>5, <2>2, <2>3
<1>7. InputFinishes(stream, f.msg.input)
  BY <1>1, <1>3, <1>4, <1>5, <1>6 DEF InputFinishes, TreeFinishes
<1>8. Accept(stream, f).phase # "Poisoned"
  <2>1. Accept(stream, f).phase # "Poisoned" <=>
           Expected(stream, f) /\ stream.phase = "Input" /\ InputFinishes(stream, f.msg.input)
    BY <1>1, <1>3, TakesFinish, Zenon
  <2> QED
    BY <1>7, <2>1
<1>9. ActiveDone(stage) /\ stage.records = recs
  BY <1>1, <1>2, SMTT(30) DEF ActiveInStep
<1>10. /\ DOMAIN disk = {Root} \cup {PathOrder[recs[i].path] : i \in 1 .. N} \cup DirsOf(recs, N)
       /\ \A x \in DirsOf(recs, N) : disk[x] = Dir
       /\ \A i \in 1 .. N : /\ disk[PathOrder[recs[i].path]].kind = "File"
                            /\ disk[PathOrder[recs[i].path]].data = recs[i].digest
  BY <1>1 DEF HonestDisk
<1>11. DOMAIN disk = {Root} \cup ToSet(stage.entries) /\ disk[Root] = Dir
  BY <1>1 DEF Made
<1> HIDE DEF recs, N, tree
<1>12. {p \in DOMAIN disk : disk[p].kind = "File"}
          = {PathOrder[recs[i].path] : i \in 1 .. N}
  <2>1. Dir.kind # "File"
    BY DEF Dir
  <2>2. \A p \in DOMAIN disk : disk[p].kind = "File" =>
            p \in {PathOrder[recs[i].path] : i \in 1 .. N}
    BY <1>10, <1>11, <2>1
  <2>3. \A p \in {PathOrder[recs[i].path] : i \in 1 .. N} :
            p \in DOMAIN disk /\ disk[p].kind = "File"
    BY <1>10
  <2> QED
    BY <2>2, <2>3
<1>13. {p \in DOMAIN disk : disk[p] = Dir}
          = {Root} \cup {p \in ToSet(stage.entries) : p \in DOMAIN disk /\ disk[p] = Dir}
  BY <1>11
<1>14. StageFinishes(stage, r.input)
  <2>1. {p \in DOMAIN disk : disk[p].kind = "File"}
           = {PathOrder[stage.records[i].path] : i \in DOMAIN stage.records}
    BY <1>2, <1>9, <1>12
  <2>2. \A i \in DOMAIN stage.records :
           disk[PathOrder[stage.records[i].path]].data = stage.records[i].digest
    BY <1>2, <1>9, <1>10
  <2>3. MeasureTree(stage.records) = r.input
    BY <1>4, <1>9
  <2> QED
    BY <1>9, <1>13, <2>1, <2>2, <2>3, Zenon DEF StageFinishes
<1> QED
  BY <1>3, <1>8, <1>14

\* Every frame of an honest client is taken, and nothing but an I/O failure can
\* keep its step from being done.
LEMMA HonestIsTaken ==
  ASSUME RequestFlow, HonestPlace, Listening, NEW f \in Frames, InOrder(f)
  PROVE  /\ Accept(stream, f).phase # "Poisoned"
         /\ f.msg.kind = "RequestHeader" => Root \notin DOMAIN disk
         /\ f.msg.kind = "InputRecord" => RecordPossible(f)
         /\ f.msg.kind = "InputChunk" => ChunkPossible(f)
         /\ f.msg.kind = "InputFinish" => StageFinishes(stage, f.msg.input)
<1>1. /\ Expected(stream, f)
      /\ stream.phase \in {"ClientHello", "Header", "Input", "Complete"}
      /\ stream.phase = "ClientHello" => f.msg = [kind |-> "ClientHello", trusted |-> TRUE]
      /\ stream.phase = "Header" =>
            \E r \in Requests : /\ Honest(r) /\ r.id = f.id /\ r.id = stream.id
                                /\ f.msg = [kind |-> "RequestHeader", request |-> r]
      /\ stream.phase = "Input" => f.msg.kind = "Cancel" \/ InputNext(f.msg)
      /\ stream.phase = "Complete" => f.msg.kind = "Cancel"
  BY NextFrame
<1>2. stream \in StreamTypes
  BY DEF RequestFlow, StateTypes
<1>3. CASE stream.phase = "ClientHello"
  <2>1. f.msg.kind = "ClientHello" /\ f.msg.trusted = TRUE
    BY <1>1, <1>3
  <2>2. Accept(stream, f).phase # "Poisoned" <=>
           Expected(stream, f) /\ stream.phase = "ClientHello" /\ f.msg.trusted
    BY <1>2, <2>1, TakesHello
  <2> QED
    BY <1>1, <1>3, <2>1, <2>2
<1>4. CASE stream.phase = "Header"
  <2>1. PICK r \in Requests : /\ Honest(r) /\ r.id = f.id
                              /\ f.msg = [kind |-> "RequestHeader", request |-> r]
    BY <1>1, <1>4
  <2>2. r.bound /\ TreeNew(r) # Null
    BY <2>1 DEF Honest
  <2>3. f.msg.kind = "RequestHeader" /\ f.msg.request = r
    BY <2>1
  <2>4. Accept(stream, f).phase # "Poisoned" <=>
           /\ Expected(stream, f) /\ stream.phase = "Header"
           /\ f.msg.request.bound /\ f.msg.request.id = f.id /\ TreeNew(f.msg.request) # Null
    BY <1>2, <2>3, TakesHeader, Zenon
  <2>5. Root \notin DOMAIN disk
    <3>1. stage = Null /\ sealed = Null
      BY <1>4 DEF RequestFlow, PhaseFlow
    <3>2. disk = <<>>
      BY <3>1 DEF RequestFlow, StagedTree, HonestPlace
    <3> QED
      BY <3>2
  <2> QED
    BY <1>1, <1>4, <2>1, <2>2, <2>3, <2>4, <2>5
<1>5. CASE stream.phase \in {"Input", "Complete"} /\ f.msg.kind = "Cancel"
  <2>1. Accept(stream, f).phase # "Poisoned" <=>
           Expected(stream, f) /\ stream.phase \in {"Input", "Complete"}
    BY <1>2, <1>5, TakesCancel
  <2> QED
    BY <1>1, <1>5, <2>1
<1>6. CASE stream.phase = "Input" /\ f.msg.kind # "Cancel"
  <2> DEFINE r == stream.request
             recs == r.input.digest
             tree == stream.tree
             n == Len(tree.digest)
  <2>0. n \in 0 .. Len(recs) /\ Len(recs) \in Nat
    BY <1>6, HonestInput
  <2>1. InputNext(f.msg)
    BY <1>1, <1>6
  <2>2. CASE tree.active = Null /\ n < Len(recs)
    <3>1. f.msg = RecordMsg(recs, n + 1)
      BY <2>1, <2>2 DEF InputNext
    <3>2. f.msg.kind = "InputRecord"
      BY <3>1 DEF RecordMsg
    <3>3. Accept(stream, f).phase # "Poisoned" /\ RecordPossible(f)
      BY <1>1, <1>6, <2>2, <3>1, RecordTaken
    <3> QED
      BY <3>2, <3>3
  <2>3. CASE tree.active = Null /\ n = Len(recs)
    <3>1. f.msg = FinishMsg(r)
      BY <2>1, <2>3 DEF InputNext
    <3>2. f.msg.kind = "InputFinish"
      BY <3>1 DEF FinishMsg
    <3>3. Accept(stream, f).phase # "Poisoned" /\ StageFinishes(stage, f.msg.input)
      BY <1>1, <1>6, <2>3, <3>1, FinishTaken
    <3> QED
      BY <3>2, <3>3
  <2>4. CASE tree.active # Null
    <3>1. f.msg = ChunkMsg(recs, n, tree.active.offset + 1)
      BY <2>1, <2>4, SMTT(30) DEF InputNext
    <3>2. f.msg.kind = "InputChunk"
      BY <3>1 DEF ChunkMsg
    <3>3. Accept(stream, f).phase # "Poisoned" /\ ChunkPossible(f)
      BY <1>1, <1>6, <2>4, <3>1, ChunkTaken
    <3> QED
      BY <3>2, <3>3
  <2> QED
    BY <2>0, <2>2, <2>3, <2>4
<1> QED
  BY <1>1, <1>3, <1>4, <1>5, <1>6

\* After its hello an honest client is where HonestPlace says.
LEMMA HelloPlace ==
  ASSUME RequestFlow, HonestPlace, before' = before, NEW f \in Frames, Hello(f)
  PROVE  HonestPlace'
<1>1. Consumed(f, "ClientHello", TRUE)
  BY DEF Hello, Consume, Consumed
<1>2. stream \in StreamTypes
  BY <1>1, AfterConsumed
<1>3. f.msg.trusted \in BOOLEAN /\ f.id \in STRING
  BY <1>1, FrameFields DEF Consumed, MessageTypes
<1>4. /\ stream.phase = "ClientHello"
      /\ stream' = [stream EXCEPT !.phase = "Header", !.id = f.id, !.seq = @ + 1]
  BY <1>1, <1>2, <1>3, TakesHello DEF Consumed
<1>5. stream.seq = 0 /\ before = <<>>
  BY <1>4 DEF HonestPlace
<1>6. stream'.phase = "Header" /\ stream'.id = f.id /\ stream'.seq = 1
  BY <1>2, <1>4, <1>5 DEF StreamTypes
<1>7. f.id # Null
  BY <1>3, NullAssumption
<1> QED
  BY <1>5, <1>6, <1>7 DEF HonestPlace

\* So it is after its request header, with an empty directory made.
LEMMA HeaderPlace ==
  ASSUME RequestFlow, HonestPlace, before' = before, NEW f \in Frames, Header(f), InOrder(f)
  PROVE  HonestPlace'
<1>1. Consumed(f, "RequestHeader", TRUE) /\ Listening
  BY DEF Header, Consume, Consumed
<1>2. /\ stream.phase = "Header" /\ stream' \in StreamTypes /\ stream'.phase = "Input"
      /\ stream'.tree = TreeNew(stream'.request) /\ stream'.tree # Null
      /\ stream'.tree.digest = <<>> /\ stream'.tree.active = Null
  BY <1>1, AfterHeader
<1>3. stream \in StreamTypes
  BY DEF RequestFlow, StateTypes
<1>4. PICK r \in Requests : /\ Honest(r) /\ r.id = f.id /\ r.id = stream.id
                            /\ f.msg = [kind |-> "RequestHeader", request |-> r]
  BY <1>1, <1>2, NextFrame
<1>5. f.msg.kind = "RequestHeader" /\ f.msg.request = r
  BY <1>4
<1>6. stream' = [stream EXCEPT !.phase = "Input", !.request = r, !.tree = TreeNew(r),
                               !.seq = @ + 1]
  BY <1>1, <1>3, <1>5, TakesHeader, Zenon DEF Consumed
<1>7. stream.seq = 1 /\ before = <<>>
  BY <1>2 DEF HonestPlace
<1>8. stream'.request = r /\ stream'.id = r.id /\ stream'.seq = 2 /\ stream'.tree = TreeNew(r)
  BY <1>3, <1>4, <1>6, <1>7 DEF StreamTypes
<1> DEFINE recs == r.input.digest
<1>9. recs \in Records /\ 0 \in 0 .. Len(recs)
  BY RequestFields, TreeFields DEF Records
<1>10. /\ PathSum(recs, 0) = 0 /\ ContentSum(recs, 0) = 0 /\ DirSum(recs, 0) = 0
       /\ DirsOf(recs, 0) = {} /\ FrameOf(recs, 1) = 2
  BY <1>9, SumsGrow, DirsGrow, FramesGrow
<1>11. /\ TreeNew(r).allowance = r.allowance /\ TreeNew(r).path_bytes = 0
       /\ TreeNew(r).content_bytes = 0 /\ TreeNew(r).prev = 0
       /\ TreeNew(r).digest = <<>> /\ TreeNew(r).active = Null
  BY <1>2, <1>8 DEF TreeNew
<1>12. Len(stream'.tree.digest) = 0 /\ 1 .. 0 = {} /\ 0 <= Len(recs) /\ 0 + 1 = 1
  BY <1>2, <1>9
<1>13. stage'.dir_bytes = 0 /\ disk' = [p \in {Root} |-> Dir]
  BY DEF Header, StageNew
<1> HIDE DEF recs
<1>14. HonestStream(r)'
  BY <1>8, <1>10, <1>11, <1>12 DEF HonestStream, recs
<1>15. HonestDisk(r)'
  <2>1. DOMAIN disk' = {Root}
    BY <1>13
  <2>2. {PathOrder[recs[i].path] : i \in 1 .. 0} = {}
    BY <1>12
  <2> QED
    BY <1>8, <1>10, <1>12, <1>13, <2>1, <2>2 DEF HonestDisk, recs
<1> QED
  BY <1>2, <1>4, <1>7, <1>8, <1>14, <1>15 DEF HonestPlace

\* So it is after the end of its input.
LEMMA FinishPlace ==
  ASSUME RequestFlow, HonestPlace, before' = before, NEW f \in Frames, Finish(f)
  PROVE  HonestPlace'
<1> DEFINE r == stream.request
           recs == r.input.digest
           N == Len(recs)
<1>1. Consumed(f, "InputFinish", TRUE) /\ Listening
  BY DEF Finish, Consume, Consumed
<1>2. /\ stream.phase = "Input" /\ InputFinishes(stream, f.msg.input)
      /\ stream.tree.declared = r.input
      /\ stream' = [stream EXCEPT !.phase = "Complete", !.tree = Null, !.seq = @ + 1]
      /\ stream'.phase = "Complete" /\ stream'.request = r
  BY <1>1, AfterFinish
<1>3. /\ stream \in StreamTypes /\ r \in Requests /\ Honest(r) /\ r.id = stream.id
      /\ HonestStream(r) /\ recs \in Records
  BY <1>1, <1>2, HonestInput
<1>4. stream.tree.active = Null /\ Measured(stream.tree) = r.input
  BY <1>2 DEF InputFinishes, TreeFinishes
<1>5. stream.tree.digest = recs
  <2>1. Measured(stream.tree).digest = stream.tree.digest
    BY DEF Measured
  <2> QED
    BY <1>4, <2>1
<1>6. stream.seq = FrameOf(recs, N + 1)
  BY <1>3, <1>4, <1>5 DEF HonestStream
<1>7. stream'.id = stream.id /\ stream'.seq = FrameOf(recs, N + 1) + 1
  BY <1>2, <1>3, <1>6 DEF StreamTypes
<1>8. before = <<>>
  BY DEF HonestPlace
<1> HIDE DEF recs, r, N
<1> QED
  BY <1>2, <1>3, <1>7, <1>8 DEF HonestPlace, recs, N

\* So it is after a cancel.
LEMMA CancelPlace ==
  ASSUME RequestFlow, HonestPlace, before' = before, NEW f \in Frames, Cancel(f)
  PROVE  HonestPlace'
<1>1. Consumed(f, "Cancel", TRUE)
  BY DEF Cancel, Consume, Consumed
<1>2. stream \in StreamTypes
  BY <1>1, AfterConsumed
<1>3. stream' = [stream EXCEPT !.phase = "Cancelled", !.tree = Null, !.seq = @ + 1]
  BY <1>1, <1>2, TakesCancel DEF Consumed
<1>4. stream'.phase = "Cancelled"
  BY <1>2, <1>3 DEF StreamTypes
<1> QED
  BY <1>4 DEF HonestPlace

\* So it is after a record: one more file, with its parents.
LEMMA RecordPlace ==
  ASSUME RequestFlow, HonestPlace, before' = before, NEW f \in Frames, Record(f), InOrder(f)
  PROVE  HonestPlace'
<1>0. PICK r : r = stream.request
  OBVIOUS
<1> DEFINE recs == r.input.digest
           N == Len(recs)
           tree == stream.tree
           n == Len(tree.digest)
           rec == recs[n + 1]
           path == PathOrder[rec.path]
<1>1. Consumed(f, "InputRecord", TRUE) /\ Listening
  BY DEF Record, Consume, Consumed
<1>2. /\ stream.phase = "Input" /\ stream' \in StreamTypes /\ stream'.phase = "Input"
      /\ stream'.request = r /\ tree.active = Null
      /\ before = <<>>
  BY <1>0, <1>1, AfterRecord
<1>3. /\ stream \in StreamTypes /\ HasTree(stream)
      /\ r \in Requests /\ Honest(r) /\ r.id = stream.id /\ recs \in Records /\ N \in Nat
      /\ HonestStream(r) /\ HonestDisk(r)
      /\ tree \in TreeStreamTypes /\ tree.digest \in Records
      /\ n \in 0 .. N
  BY <1>0, <1>1, <1>2, HonestInput
<1>4. f.msg = RecordMsg(recs, n + 1) /\ n < N
  <2>1. InputNext(f.msg)
    <3>1. f.msg.kind = "InputRecord"
      BY <1>1 DEF Consumed
    <3>2. f.msg.kind = "Cancel" \/ InputNext(f.msg)
      BY <1>1, <1>2, NextFrame
    <3> QED
      BY <3>1, <3>2
  <2>2. n # N
    <3>1. n = N => f.msg = FinishMsg(r)
      BY <1>0, <1>2, <2>1 DEF InputNext
    <3>2. n = N => f.msg.kind = "InputFinish"
      BY <3>1 DEF FinishMsg
    <3> QED
      BY <1>1, <3>2 DEF Consumed
  <2>3. n < N
    BY <1>3, <2>2
  <2> QED
    BY <1>0, <1>2, <2>1, <2>3 DEF InputNext
<1>5. n + 1 \in 1 .. N /\ n \in Nat /\ (n + 1) - 1 = n /\ n + 1 \in 0 .. N /\ n + 1 <= N
  BY <1>3, <1>4
<1>6. f.msg.index = n /\ f.msg.record = rec
  BY <1>4, <1>5 DEF RecordMsg
<1>7. /\ rec \in RecordTypes /\ rec.bytes \in Nat /\ rec.path \in DOMAIN PathOrder
      /\ rec.digest \in Content
  BY <1>3, <1>5, RecordOf, RecordFields
<1> DEFINE new == AcceptRecord(tree, n, rec)
<1>8. /\ new # Null
      /\ stream' = [stream EXCEPT !.tree = new,
                                  !.manifest_seen = @ \/ rec.path = r.manifest,
                                  !.seq = @ + 1]
  <2>1. f.msg.kind = "InputRecord" /\ Accept(stream, f).phase # "Poisoned"
        /\ stream' = Accept(stream, f)
    BY <1>1 DEF Consumed
  <2>2. /\ Accept(stream, f).phase # "Poisoned" <=>
              /\ Expected(stream, f) /\ stream.phase = "Input"
              /\ AcceptRecord(stream.tree, f.msg.index, f.msg.record) # Null
        /\ Accept(stream, f).phase # "Poisoned" =>
              Accept(stream, f)
                = [stream EXCEPT !.tree = AcceptRecord(stream.tree, f.msg.index, f.msg.record),
                       !.manifest_seen = @ \/ f.msg.record.path = stream.request.manifest,
                       !.seq = @ + 1]
    BY <1>3, <2>1, TakesRecord, ZenonT(60)
  <2> HIDE DEF rec, n
  <2> QED
    BY <1>0, <1>6, <2>1, <2>2
<1>9. /\ new.allowance = tree.allowance
      /\ new.path_bytes = tree.path_bytes + PathBytes(rec.path)
      /\ new.content_bytes = tree.content_bytes + rec.bytes
      /\ new.prev = rec.path /\ new.digest = Append(tree.digest, rec)
      /\ new.active = StartedRecord(n, rec)
      /\ rec.bytes = 0 => rec.digest = <<>>
  BY <1>3, <1>5, <1>7, <1>8, AcceptRecordIs
<1> HIDE DEF new
<1>10. /\ stream'.tree = new /\ stream'.seq = stream.seq + 1 /\ stream'.id = stream.id
       /\ stream'.manifest_seen = (stream.manifest_seen \/ rec.path = r.manifest)
  BY <1>3, <1>8 DEF StreamTypes
<1>11. /\ tree.allowance = r.allowance
       /\ \A i \in 1 .. n : tree.digest[i] = recs[i]
       /\ tree.path_bytes = PathSum(recs, n) /\ tree.content_bytes = ContentSum(recs, n)
       /\ \A i \in 1 .. n : recs[i].path = r.manifest => stream.manifest_seen
       /\ stream.seq = FrameOf(recs, n + 1)
  BY <1>2, <1>3 DEF HonestStream
<1>12. /\ PathSum(recs, n + 1) = PathSum(recs, n) + PathBytes(rec.path)
       /\ ContentSum(recs, n + 1) = ContentSum(recs, n) + rec.bytes
       /\ DirSum(recs, n + 1) = DirSum(recs, n) + DirCost(recs, n + 1)
  BY <1>3, <1>4, SumsGrow
<1>13. /\ FrameOf(recs, (n + 1) + 1) = FrameOf(recs, n + 1) + 1 + rec.bytes
       /\ FrameOf(recs, n + 1) \in Nat
  <2>1. n + 1 \in 1 .. N + 1
    BY <1>3, <1>5
  <2> QED
    BY <1>3, <1>5, <2>1, FramesGrow
<1>14. /\ Len(new.digest) = n + 1
       /\ \A i \in 1 .. (n + 1) : i \in 1 .. n \/ i = n + 1
       /\ \A i \in 1 .. (n + 1) : new.digest[i] = recs[i]
  <2>1. tree.digest \in Seq(RecordTypes)
    BY <1>3 DEF Records
  <2>2. \A i \in 1 .. (n + 1) : i \in 1 .. n \/ i = n + 1
    BY <1>5
  <2> HIDE DEF rec
  <2>3. /\ Len(new.digest) = n + 1 /\ new.digest[n + 1] = rec
        /\ \A i \in 1 .. n : new.digest[i] = tree.digest[i]
    BY <1>7, <1>9, <2>1
  <2> QED
    BY <1>11, <2>2, <2>3 DEF rec
<1>15. /\ rec.bytes = 0 => new.active = Null
       /\ rec.bytes # 0 => new.active # Null /\ new.active.offset = 0
  <2>1. rec.bytes = 0 => new.active = Null
    BY <1>9 DEF StartedRecord
  <2>2. ASSUME rec.bytes # 0 PROVE new.active # Null /\ new.active.offset = 0
    <3>1. new.active = [index |-> n, bytes |-> rec.bytes, digest |-> rec.digest, offset |-> 0,
                        data |-> <<>>]
      BY <1>9, <2>2, Zenon DEF StartedRecord
    <3> HIDE DEF rec, n
    <3>2. new.active \in ActiveTypes
      BY <1>5, <1>7, <3>1 DEF ActiveTypes, Content
    <3> QED
      BY <3>1, <3>2, NullAssumption
  <2> QED
    BY <2>1, <2>2
<1>16. HonestStream(r)'
  <2>1. /\ new.active = Null => stream'.seq = FrameOf(recs, (n + 1) + 1)
        /\ new.active # Null =>
              /\ stream'.seq = FrameOf(recs, n + 1) + 1 + new.active.offset
              /\ \A k \in 1 .. new.active.offset : new.active.data[k] = recs[n + 1].digest[k]
    <3> HIDE DEF rec, n, recs
    <3> QED
      BY <1>7, <1>10, <1>11, <1>13, <1>15
  <2>2. \A i \in 1 .. (n + 1) : recs[i].path = r.manifest => stream'.manifest_seen
    BY <1>10, <1>11, <1>14
  <2>3. (n + 1 = 0) = FALSE
    BY <1>5
  <2>4. new.path_bytes = PathSum(recs, n + 1) /\ new.content_bytes = ContentSum(recs, n + 1)
    BY <1>9, <1>11, <1>12
  <2>5. Len(stream'.tree.digest) = n + 1 /\ n + 1 <= N
    BY <1>5, <1>10, <1>14, SMTT(30)
  <2> DEFINE k == n + 1
  <2> HIDE DEF recs, N
  <2>6. /\ Len(stream'.tree.digest) = k /\ k <= N /\ k # 0
        /\ \A i \in 1 .. k : stream'.tree.digest[i] = recs[i]
        /\ stream'.tree.allowance = r.allowance
        /\ stream'.tree.path_bytes = PathSum(recs, k)
        /\ stream'.tree.content_bytes = ContentSum(recs, k)
        /\ stream'.tree.prev = recs[k].path
        /\ \A i \in 1 .. k : recs[i].path = r.manifest => stream'.manifest_seen
        /\ stream'.tree.active = Null => stream'.seq = FrameOf(recs, k + 1)
        /\ stream'.tree.active # Null =>
              /\ stream'.seq = FrameOf(recs, k) + 1 + stream'.tree.active.offset
              /\ \A j \in 1 .. stream'.tree.active.offset :
                    stream'.tree.active.data[j] = recs[k].digest[j]
    BY <1>9, <1>10, <1>11, <1>14, <2>1, <2>2, <2>3, <2>4, <2>5, SMTT(30)
  <2> HIDE DEF k
  <2> QED
    BY <2>6 DEF HonestStream, recs, N
<1>17. Holds(disk, recs, n)
  BY <1>3 DEF Holds, HonestDisk
<1>18. /\ DirBytes(NewParents(rec.path, DOMAIN disk)) = DirCost(recs, n + 1)
       /\ path \notin DOMAIN disk
  BY <1>3, <1>4, <1>17, NextHasPlace, SMTT(30)
<1> DEFINE fresh == ToSet(NewParents(rec.path, DOMAIN disk))
           above == ToSet(Parents(rec.path))
<1>19. /\ stage'.dir_bytes = stage.dir_bytes + DirBytes(NewParents(rec.path, DOMAIN disk))
       /\ disk'[path] = FileOf(<<>>)
       /\ \A x \in DOMAIN disk : disk'[x] = disk[x]
       /\ DOMAIN disk' = DOMAIN disk \cup fresh \cup {path}
       /\ fresh \subseteq above
       /\ \A x \in above : x \in DOMAIN disk' /\ disk'[x] = Dir
  BY <1>6, RecordStages, ZenonT(60)
<1>20. DirsOf(recs, n + 1) = DirsOf(recs, n) \cup above
  BY <1>3, <1>4, DirsGrow
<1>21. stage'.dir_bytes = DirSum(recs, n + 1)
  BY <1>3, <1>12, <1>18, <1>19 DEF HonestDisk
<1>22. path \notin DirsOf(recs, n + 1)
  <2>1. DirsOf(recs, n + 1) \subseteq DirsOf(recs, N)
    BY <1>3, <1>5, DirsGrow
  <2>2. path \notin DirsOf(recs, N)
    BY <1>3, <1>5, HonestIs, SMTT(30)
  <2> QED
    BY <2>1, <2>2
<1>23. /\ DOMAIN disk = {Root} \cup {PathOrder[recs[i].path] : i \in 1 .. n} \cup DirsOf(recs, n)
       /\ \A x \in DirsOf(recs, n) : disk[x] = Dir
       /\ \A i \in 1 .. n : /\ disk[PathOrder[recs[i].path]].kind = "File"
                            /\ disk[PathOrder[recs[i].path]].data = recs[i].digest
  BY <1>2, <1>3 DEF HonestDisk
<1>24. {PathOrder[recs[i].path] : i \in 1 .. (n + 1)}
          = {PathOrder[recs[i].path] : i \in 1 .. n} \cup {path}
  <2>1. \A i : i \in 1 .. (n + 1) <=> i \in 1 .. n \/ i = n + 1
    BY <1>5
  <2> HIDE DEF n, recs
  <2> QED
    BY <2>1, Zenon DEF rec, path
<1> HIDE DEF fresh, above, path
<1>25. DOMAIN disk' = {Root} \cup {PathOrder[recs[i].path] : i \in 1 .. (n + 1)}
                             \cup DirsOf(recs, n + 1)
  <2> DEFINE files == {PathOrder[recs[i].path] : i \in 1 .. n}
             files1 == {PathOrder[recs[i].path] : i \in 1 .. (n + 1)}
             dirs == DirsOf(recs, n)
             dirs1 == DirsOf(recs, n + 1)
  <2>1. files1 = files \cup {path} /\ dirs1 = dirs \cup above
        /\ DOMAIN disk = {Root} \cup files \cup dirs
    BY <1>20, <1>23, <1>24, SMTT(30)
  <2> HIDE DEF files, files1, dirs, dirs1
  <2>2. DOMAIN disk' = {Root} \cup files1 \cup dirs1
    BY <1>19, <2>1
  <2> QED
    BY <2>2, SMTT(30) DEF files1, dirs1
<1>26. \A x \in DirsOf(recs, n + 1) : disk'[x] = Dir
  BY <1>19, <1>20, <1>23
<1>27. ASSUME NEW i \in 1 .. (n + 1)
       PROVE  /\ disk'[PathOrder[recs[i].path]].kind = "File"
              /\ i < n + 1 \/ new.active = Null =>
                    disk'[PathOrder[recs[i].path]].data = recs[i].digest
  <2>1. CASE i \in 1 .. n
    <3>1. PathOrder[recs[i].path] \in DOMAIN disk
      BY <1>23, <2>1
    <3> QED
      BY <1>19, <1>23, <2>1, <3>1, ZenonT(60)
  <2>2. CASE i = n + 1
    <3>1. PathOrder[recs[i].path] = path
      BY <2>2 DEF path
    <3>2. disk'[path].kind = "File" /\ disk'[path].data = <<>>
      BY <1>19 DEF FileOf
    <3>3. ~(i < n + 1)
      BY <1>5, <2>2
    <3>4. new.active = Null => recs[i].digest = <<>>
      BY <1>9, <1>15, <2>2, SMTT(30)
    <3> QED
      BY <3>1, <3>2, <3>3, <3>4
  <2> QED
    BY <1>14, <2>1, <2>2, SMTT(30)
<1>28. HonestDisk(r)'
  <2>1. Len(stream'.tree.digest) = n + 1 /\ stream'.tree = new
    BY <1>10, <1>14
  <2> DEFINE k == n + 1
  <2>2. /\ Len(stream'.tree.digest) = k /\ stream'.tree = new
        /\ stage'.dir_bytes = DirSum(recs, k)
        /\ DOMAIN disk' = {Root} \cup {PathOrder[recs[i].path] : i \in 1 .. k}
                                 \cup DirsOf(recs, k)
        /\ \A x \in DirsOf(recs, k) : disk'[x] = Dir
        /\ \A i \in 1 .. k :
              /\ disk'[PathOrder[recs[i].path]].kind = "File"
              /\ i < k \/ new.active = Null =>
                    disk'[PathOrder[recs[i].path]].data = recs[i].digest
    BY <1>21, <1>25, <1>26, <1>27, <2>1, Zenon
  <2> HIDE DEF k, recs, new
  <2> QED
    BY <2>2 DEF HonestDisk, recs
<1> HIDE DEF recs
<1> QED
  BY <1>2, <1>3, <1>10, <1>16, <1>28 DEF HonestPlace, recs

\* So it is after a byte, which completes the active file or not.
LEMMA ChunkPlace ==
  ASSUME RequestFlow, HonestPlace, before' = before, NEW f \in Frames, Chunk(f), InOrder(f)
  PROVE  HonestPlace'
<1>0. PICK r : r = stream.request
  OBVIOUS
<1> DEFINE recs == r.input.digest
           N == Len(recs)
           tree == stream.tree
           n == Len(tree.digest)
           a == tree.active
           b == stream'.tree.active
           digest == recs[n].digest
           bytes == <<digest[a.offset + 1]>>
           data == a.data \o bytes
           next == a.offset + 1
           path == PathOrder[recs[n].path]
<1>1. Consumed(f, "InputChunk", TRUE) /\ Listening /\ f.msg.kind = "InputChunk"
  BY SMTT(30) DEF Chunk, Consume, Consumed
<1>2. stream.phase = "Input" /\ a # Null
  BY <1>1, AfterChunk
<1>3. /\ stream \in StreamTypes /\ HasTree(stream)
      /\ r \in Requests /\ Honest(r) /\ r.id = stream.id /\ recs \in Records /\ N \in Nat
      /\ HonestStream(r) /\ HonestDisk(r)
      /\ tree \in TreeStreamTypes /\ tree.digest \in Records
      /\ n \in 1 .. N /\ a \in ActiveTypes
      /\ a.bytes = recs[n].bytes /\ a.offset \in Nat /\ a.offset < recs[n].bytes
      /\ a.data \in Content /\ Len(a.data) = a.offset
      /\ tree.digest = SubSeq(recs, 1, n)
  BY <1>0, <1>1, <1>2, HonestInput
<1>4. f.msg = ChunkMsg(recs, n, a.offset + 1)
  <2>1. f.msg.kind = "Cancel" \/ InputNext(f.msg)
    BY <1>1, <1>2, NextFrame
  <2>2. InputNext(f.msg)
    BY <1>1, <2>1
  <2> QED
    BY <1>0, <1>2, <2>2 DEF InputNext
<1>5. f.msg.bytes = bytes
  <2>1. f.msg = [kind |-> "InputChunk", index |-> n - 1, offset |-> (a.offset + 1) - 1,
                 bytes |-> bytes]
    BY <1>4, ZenonT(60) DEF ChunkMsg
  <2> HIDE DEF bytes, a, n
  <2> QED
    BY <2>1
<1>6. /\ bytes \in Content
      /\ Len(data) = next
      /\ \A k \in 1 .. next : data[k] = digest[k]
      /\ next = a.bytes => data = digest
  BY <1>0, <1>1, <1>2, NextByte
<1>7. Len(bytes) = 1 /\ a.offset + Len(bytes) = next /\ next \in Nat
  BY <1>3, SMTT(30)
<1> HIDE DEF bytes, digest, data
<1>8. /\ stream' \in StreamTypes /\ stream'.phase = "Input" /\ before = <<>>
      /\ stream'.request = r /\ stream'.manifest_seen = stream.manifest_seen
      /\ stream'.tree = [tree EXCEPT !.active = b]
      /\ next = a.bytes => b = Null
      /\ next # a.bytes => b \in ActiveTypes /\ b = [a EXCEPT !.offset = next, !.data = data]
      /\ ActiveInStep /\ Made(disk, stage.entries) /\ stage.active \in FileTypes
      /\ stage \in StageTypes
  <2>1. /\ stream' \in StreamTypes /\ stream'.phase = "Input" /\ before = <<>>
        /\ stream'.request = stream.request /\ stream'.manifest_seen = stream.manifest_seen
        /\ stream'.tree = [tree EXCEPT !.active = b]
        /\ a.offset + Len(f.msg.bytes) = a.bytes => b = Null
        /\ a.offset + Len(f.msg.bytes) # a.bytes =>
              /\ b \in ActiveTypes
              /\ b = [a EXCEPT !.offset = a.offset + Len(f.msg.bytes),
                               !.data = a.data \o f.msg.bytes]
        /\ ActiveInStep /\ Made(disk, stage.entries) /\ stage.active \in FileTypes
        /\ stage \in StageTypes
    BY <1>1, AfterChunk
  <2> HIDE DEF a, b, tree
  <2> QED
    BY <1>0, <1>5, <1>7, <2>1, SMTT(30) DEF data
<1>9. stream'.seq = stream.seq + 1 /\ stream'.id = stream.id
  <2>1. stream' = Accept(stream, f) /\ Accept(stream, f).phase # "Poisoned"
    BY <1>1 DEF Consumed
  <2>2. Accept(stream, f).phase # "Poisoned" =>
           Accept(stream, f)
              = [stream EXCEPT !.tree = AcceptChunk(stream.tree, f.msg.index, f.msg.offset,
                                                    f.msg.bytes),
                               !.seq = @ + 1]
    BY <1>1, <1>3, TakesChunk, Zenon
  <2> QED
    BY <1>3, <2>1, <2>2 DEF StreamTypes
<1>10. /\ stream'.tree.digest = tree.digest /\ stream'.tree.allowance = tree.allowance
       /\ stream'.tree.path_bytes = tree.path_bytes
       /\ stream'.tree.content_bytes = tree.content_bytes /\ stream'.tree.prev = tree.prev
  <2> HIDE DEF b
  <2> QED
    BY <1>3, <1>8 DEF TreeStreamTypes
<1>11. next # a.bytes => b # Null /\ b.offset = next /\ b.data = data
  <2> HIDE DEF b
  <2> QED
    BY <1>3, <1>8, NullAssumption DEF ActiveTypes
<1>12. /\ n <= N /\ \A i \in 1 .. n : tree.digest[i] = recs[i]
       /\ tree.allowance = r.allowance
       /\ tree.path_bytes = PathSum(recs, n) /\ tree.content_bytes = ContentSum(recs, n)
       /\ tree.prev = IF n = 0 THEN 0 ELSE recs[n].path
       /\ \A i \in 1 .. n : recs[i].path = r.manifest => stream.manifest_seen
       /\ stream.seq = FrameOf(recs, n) + 1 + a.offset
  BY <1>2, <1>3 DEF HonestStream
<1>13. /\ FrameOf(recs, n + 1) = FrameOf(recs, n) + 1 + recs[n].bytes
       /\ FrameOf(recs, n) \in Nat /\ recs[n].bytes \in Nat
  <2>1. n \in 1 .. N + 1
    BY <1>3
  <2> QED
    BY <1>3, <2>1, FramesGrow, RecordOf
<1>14. /\ b = Null => stream'.seq = FrameOf(recs, n + 1)
       /\ b # Null =>
             /\ stream'.seq = FrameOf(recs, n) + 1 + b.offset
             /\ \A k \in 1 .. b.offset : b.data[k] = digest[k]
  <2>1. b = Null => next = a.bytes
    BY <1>11
  <2>2. b # Null => b.offset = next /\ b.data = data
    BY <1>8, <1>11
  <2>3. stream'.seq = FrameOf(recs, n) + 1 + next
    <3>1. stream'.seq = (FrameOf(recs, n) + 1 + a.offset) + 1
      BY <1>9, <1>12
    <3> HIDE DEF n, recs, a
    <3> QED
      BY <1>3, <1>13, <3>1
  <2>4. b = Null => stream'.seq = FrameOf(recs, n + 1)
    BY <1>3, <1>13, <2>1, <2>3
  <2> QED
    BY <1>6, <2>2, <2>3, <2>4
<1>15. HonestStream(r)'
  <2> HIDE DEF recs, N, a
  <2>1. /\ Len(stream'.tree.digest) = n /\ n <= N
        /\ \A i \in 1 .. n : stream'.tree.digest[i] = recs[i]
        /\ stream'.tree.allowance = r.allowance
        /\ stream'.tree.path_bytes = PathSum(recs, n)
        /\ stream'.tree.content_bytes = ContentSum(recs, n)
        /\ stream'.tree.prev = IF n = 0 THEN 0 ELSE recs[n].path
        /\ \A i \in 1 .. n : recs[i].path = r.manifest => stream'.manifest_seen
        /\ stream'.tree.active = Null => stream'.seq = FrameOf(recs, n + 1)
        /\ stream'.tree.active # Null =>
              /\ stream'.seq = FrameOf(recs, n) + 1 + stream'.tree.active.offset
              /\ \A j \in 1 .. stream'.tree.active.offset :
                    stream'.tree.active.data[j] = recs[n].digest[j]
    BY <1>8, <1>10, <1>12, <1>14, Zenon DEF digest
  <2> HIDE DEF n, tree
  <2> QED
    BY <2>1 DEF HonestStream, recs, N
<1>16. /\ stage.active.path = path /\ path \in DOMAIN disk /\ disk[path] = FileOf(a.data)
  <2>1. n \in 1 .. n /\ tree.digest[n] = recs[n]
    <3>1. n \in 1 .. n
      BY <1>3
    <3> QED
      BY <1>12, <3>1
  <2>2. /\ stage.active.path = PathOrder[tree.digest[n].path]
        /\ stage.active.path \in DOMAIN disk
        /\ disk[stage.active.path] = FileOf(a.data)
    BY <1>2, <1>8 DEF ActiveInStep
  <2> QED
    BY <2>1, <2>2
<1>17. /\ disk' = [disk EXCEPT ![path] = FileOf(data)]
       /\ stage'.dir_bytes = stage.dir_bytes
  <2>1. disk[path].data = a.data
    <3> HIDE DEF path, a
    <3>1. FileOf(a.data).data = a.data
      BY DEF FileOf
    <3> QED
      BY <1>16, <3>1
  <2>2. /\ disk' = [disk EXCEPT ![stage.active.path] = FileOf(disk[stage.active.path].data \o f.msg.bytes)]
        /\ stage' = [stage EXCEPT !.active.offset = @ + Len(f.msg.bytes)]
    BY DEF Chunk, Written, Advanced
  <2>3. stage'.dir_bytes = stage.dir_bytes
    BY <1>8, <2>2, SMTT(30) DEF StageTypes
  <2> HIDE DEF path, a
  <2> QED
    BY <1>5, <1>16, <2>1, <2>2, <2>3 DEF data
<1>18. /\ stage.dir_bytes = DirSum(recs, n)
       /\ DOMAIN disk = {Root} \cup {PathOrder[recs[i].path] : i \in 1 .. n} \cup DirsOf(recs, n)
       /\ \A x \in DirsOf(recs, n) : disk[x] = Dir
       /\ \A i \in 1 .. n :
             /\ disk[PathOrder[recs[i].path]].kind = "File"
             /\ i < n => disk[PathOrder[recs[i].path]].data = recs[i].digest
  BY <1>3 DEF HonestDisk
<1>19. \A i \in 1 .. n : i < n => PathOrder[recs[i].path] # path
  <2> TAKE i \in 1 .. n
  <2> HAVE i < n
  <2>1. i \in 1 .. N
    BY <1>3
  <2>2. recs[i].path < recs[n].path
    BY <1>3, <2>1, HonestIs
  <2>3. recs[i].path \in DOMAIN PathOrder /\ recs[n].path \in DOMAIN PathOrder
    BY <1>3, <2>1, RecordOf
  <2>4. recs[i].path \in Nat /\ recs[n].path \in Nat
    BY <2>3, RequestAssumption
  <2>5. recs[i].path # recs[n].path
    BY <2>2, <2>4
  <2> QED
    BY <2>3, <2>5, RequestAssumption
<1>20. path \notin DirsOf(recs, n)
  <2>1. DirsOf(recs, n) \subseteq DirsOf(recs, N)
    <3>1. n \in 0 .. N
      BY <1>3, SMTT(30)
    <3> QED
      BY <1>3, <3>1, DirsGrow
  <2>2. path \notin DirsOf(recs, N)
    BY <1>3, HonestIs, SMTT(30)
  <2> QED
    BY <2>1, <2>2
<1> DEFINE F == FileOf(data)
<1>21. F.kind = "File" /\ F.data = data
  BY DEF FileOf
<1> HIDE DEF F, path
<1>22. /\ DOMAIN disk' = DOMAIN disk /\ disk'[path] = F
       /\ \A x \in DOMAIN disk : x # path => disk'[x] = disk[x]
  BY <1>16, <1>17 DEF F
<1>23. \A x \in DirsOf(recs, n) : disk'[x] = Dir
  BY <1>18, <1>20, <1>22
<1>24. ASSUME NEW i \in 1 .. n
       PROVE  /\ disk'[PathOrder[recs[i].path]].kind = "File"
              /\ i < n \/ b = Null => disk'[PathOrder[recs[i].path]].data = recs[i].digest
  <2>1. CASE i < n
    <3>1. PathOrder[recs[i].path] \in DOMAIN disk /\ PathOrder[recs[i].path] # path
      BY <1>18, <1>19, <2>1
    <3> QED
      BY <1>18, <1>22, <2>1, <3>1, ZenonT(60)
  <2>2. CASE ~(i < n)
    <3>1. i = n
      BY <1>3, <2>2
    <3>2. PathOrder[recs[i].path] = path /\ recs[i].digest = digest
      BY <3>1 DEF path, digest
    <3>3. b = Null => data = digest
      BY <1>6, <1>11, SMTT(30)
    <3> QED
      BY <1>21, <1>22, <2>2, <3>2, <3>3
  <2> QED
    BY <2>1, <2>2, SMTT(30)
<1>25. HonestDisk(r)'
  <2> HIDE DEF recs, n, tree
  <2>1. /\ Len(stream'.tree.digest) = n
        /\ stage'.dir_bytes = DirSum(recs, n)
        /\ DOMAIN disk' = {Root} \cup {PathOrder[recs[i].path] : i \in 1 .. n}
                                 \cup DirsOf(recs, n)
        /\ \A x \in DirsOf(recs, n) : disk'[x] = Dir
        /\ \A i \in 1 .. n :
              /\ disk'[PathOrder[recs[i].path]].kind = "File"
              /\ i < n \/ stream'.tree.active = Null =>
                    disk'[PathOrder[recs[i].path]].data = recs[i].digest
    BY <1>10, <1>17, <1>18, <1>22, <1>23, <1>24 DEF n
  <2> QED
    BY <2>1 DEF HonestDisk, recs
<1> QED
  BY <1>3, <1>8, <1>9, <1>15, <1>25 DEF HonestPlace

\* A step that was faultless was asked for by a frame in order.
LEMMA HonestKeeps ==
  ASSUME RequestFlow, HonestFlow, before' = before, NEW f \in Frames, faultless',
         \/ Hello(f) \/ Header(f) \/ Record(f) \/ Chunk(f) \/ Finish(f) \/ Cancel(f)
  PROVE  ~executor'.poisoned /\ HonestPlace'
<1>1. faultless /\ InOrder(f) /\ Listening
  BY DEF Hello, Header, Record, Chunk, Finish, Cancel, Consume
<1>2. HonestPlace
  BY <1>1 DEF HonestFlow
<1>3. executor' = [executor EXCEPT !.poisoned = FALSE]
  BY DEF Hello, Header, Record, Chunk, Finish, Cancel, Consume
<1>4. executor \in [poisoned : BOOLEAN, executed : BOOLEAN, dropped : BOOLEAN]
  BY DEF RequestFlow, StateTypes
<1>5. ~executor'.poisoned
  BY <1>3, <1>4
<1> QED
  BY <1>1, <1>2, <1>5, HelloPlace, HeaderPlace, RecordPlace, ChunkPlace, FinishPlace,
     CancelPlace, Zenon

\* Nothing of an honest client is refused, and no step for it fails but for I/O.
LEMMA HonestNeverFails ==
  ASSUME RequestFlow, HonestFlow, NEW f \in Frames, faultless',
         \/ Refuse(f) \/ HeaderFails(f) \/ RecordFails(f) \/ ChunkFails(f) \/ FinishFails(f)
  PROVE  FALSE
<1>1. faultless /\ InOrder(f) /\ Listening
  BY DEF Refuse, HeaderFails, RecordFails, ChunkFails, FinishFails, Consume
<1>2. HonestPlace
  BY <1>1 DEF HonestFlow
<1>3. /\ Accept(stream, f).phase # "Poisoned"
      /\ f.msg.kind = "RequestHeader" => Root \notin DOMAIN disk
      /\ f.msg.kind = "InputRecord" => RecordPossible(f)
      /\ f.msg.kind = "InputChunk" => ChunkPossible(f)
      /\ f.msg.kind = "InputFinish" => StageFinishes(stage, f.msg.input)
  BY <1>1, <1>2, HonestIsTaken
<1>4. CASE Refuse(f)
  BY <1>3, <1>4 DEF Refuse
<1>5. CASE HeaderFails(f)
  BY <1>3, <1>5 DEF HeaderFails, Consume
<1>6. CASE RecordFails(f)
  BY <1>3, <1>6 DEF RecordFails, Consume
<1>7. CASE ChunkFails(f)
  BY <1>3, <1>7 DEF ChunkFails, Consume
<1>8. CASE FinishFails(f)
  BY <1>3, <1>8 DEF FinishFails, Consume
<1> QED
  BY <1>4, <1>5, <1>6, <1>7, <1>8

\* An honest client starts where HonestFlow says.
LEMMA HonestStarts == Init => HonestFlow
<1> SUFFICES ASSUME Init, faultless PROVE ~executor.poisoned /\ HonestPlace
  BY DEF HonestFlow
<1>1. before = <<>> /\ ~executor.poisoned /\ stream = StreamNew
  BY DEF Init
<1>2. stream.phase = "ClientHello" /\ stream.seq = 0 /\ stream.id = Null
  BY <1>1 DEF StreamNew
<1> QED
  BY <1>1, <1>2 DEF HonestPlace

\* HonestFlow is inductive, given RequestFlow.
LEMMA HonestStep == RequestFlow /\ HonestFlow /\ [Next]_vars => HonestFlow'
<1> SUFFICES ASSUME RequestFlow, HonestFlow, [Next]_vars, faultless'
             PROVE  ~executor'.poisoned /\ (Listening' => HonestPlace')
  BY DEF HonestFlow
<1>1. CASE UNCHANGED vars
  BY <1>1, ZenonT(60) DEF vars, HonestFlow, Listening, HonestPlace, HonestStream, HonestDisk
<1>2. CASE Next
  <2>1. before' = before /\ Step
    BY <1>2 DEF Next
  <2>2. ASSUME NEW f \in Frames,
               \/ Refuse(f) \/ Hello(f) \/ Header(f) \/ HeaderFails(f)
               \/ Record(f) \/ RecordFails(f) \/ Chunk(f) \/ ChunkFails(f)
               \/ Finish(f) \/ FinishFails(f) \/ Cancel(f)
        PROVE  ~executor'.poisoned /\ HonestPlace'
    BY <2>1, <2>2, HonestKeeps, HonestNeverFails, Zenon
  <2>3. executor \in [poisoned : BOOLEAN, executed : BOOLEAN, dropped : BOOLEAN]
    BY DEF RequestFlow, StateTypes
  <2>4. ASSUME NEW host \in BOOLEAN, Execute(host)
        PROVE  ~executor'.poisoned /\ ~Listening'
    BY <2>3, <2>4 DEF Execute, HonestFlow, Listening
  <2>5. CASE Drop
    BY <2>3, <2>5 DEF Drop, HonestFlow, Listening
  <2> QED
    BY <2>1, <2>2, <2>4, <2>5 DEF Step
<1> QED
  BY <1>1, <1>2

\* A client that describes its tree truthfully and sends its frames in order is
\* never refused when no I/O fails, and its last frame seals the tree:
\* accept_request_frame with TreeStream and Stage over the whole stream.
THEOREM HonestAlwaysTaken == Spec => []HonestStreamIsTaken
<1>1. RequestFlow /\ HonestFlow => HonestStreamIsTaken
  BY DEF RequestFlow, PhaseFlow, Sound, HonestFlow, HonestStreamIsTaken
<1>2. Spec => []HonestFlow
  BY RequestInvariant, HonestStarts, HonestStep, PTL DEF Spec
<1> QED
  BY <1>1, <1>2, RequestInvariant, PTL
=============================================================================
