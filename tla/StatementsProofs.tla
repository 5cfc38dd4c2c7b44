--------------------------- MODULE StatementsProofs --------------------------
(* Statements and Generation for every set of procedure bodies.            *)
EXTENDS Generation, WellFoundedInduction, TLAPS

---------------------------------------------------------------------------
(* Induction, in the form of sets, and functions defined by recursion.     *)

LEMMA SmallestOf ==
    ASSUME NEW S, S \subseteq Nat, S # {}
    PROVE  \E n \in S : \A m \in S : n <= m
<1> DEFINE R == OpToRel(<, Nat)
<1>1. IsWellFoundedOn(R, Nat)
  BY NatLessThanWellFounded
<1>2. \A x, y \in Nat : <<x, y>> \in R <=> x < y
  BY DEF OpToRel
<1> HIDE DEF R
<1>3. PICK n \in S : \A m \in S : ~ (<<m, n>> \in R)
  BY <1>1, WFMin
<1>4. n \in Nat /\ \A m \in S : m \in Nat /\ ~(m < n)
  BY <1>2, <1>3
<1>5. \A m \in S : n <= m
  BY <1>4
<1> QED BY <1>5

LEMMA Induction ==
    ASSUME NEW S, 0 \in S, \A n \in Nat : n \in S => n + 1 \in S
    PROVE  Nat \subseteq S
<1> SUFFICES ASSUME NEW k \in Nat, k \notin S
             PROVE  FALSE
  OBVIOUS
<1> DEFINE N == Nat \ S
<1>1. N \subseteq Nat /\ N # {}
  OBVIOUS
<1> HIDE DEF N
<1>2. PICK n \in N : \A m \in N : n <= m
  BY <1>1, SmallestOf
<1>3. n \in Nat /\ n \notin S
  BY <1>2 DEF N
<1>4. n # 0 /\ n - 1 \in Nat /\ ~(n <= n - 1) /\ (n - 1) + 1 = n
  BY <1>3
<1>5. n - 1 \in S
  BY <1>2, <1>4 DEF N
<1> QED BY <1>3, <1>4, <1>5

Before(g, n) == [i \in 0 .. n - 1 |-> g[i]]

(* A rule that gives the value at n from the values before n has a         *)
(* function that follows it.                                               *)
IsRule(H, S) == \A n \in Nat : \A g \in [0 .. n - 1 -> S] : H[n][g] \in S
Follows(f, H, S) == f \in [Nat -> S] /\ \A n \in Nat : f[n] = H[n][Before(f, n)]

LEMMA Recursion ==
    ASSUME NEW S, NEW H, IsRule(H, S)
    PROVE  \E f : Follows(f, H, S)
<1> USE DEF IsRule
<1> DEFINE Fits(g, n) == g \in [0 .. n - 1 -> S] /\ \A i \in 0 .. n - 1 : g[i] = H[i][Before(g, i)]
           Fs(n) == {g \in [0 .. n - 1 -> S] : Fits(g, n)}
<1>1. ASSUME NEW n \in Nat, NEW m \in Nat, n <= m, NEW g, NEW h, Fits(g, n), Fits(h, m)
      PROVE  \A i \in 0 .. n - 1 : g[i] = h[i]
  <2> SUFFICES ASSUME NEW k \in 0 .. n - 1, g[k] # h[k]
               PROVE  FALSE
    OBVIOUS
  <2> DEFINE N == {i \in 0 .. n - 1 : g[i] # h[i]}
  <2>1. N \subseteq Nat /\ N # {}
    OBVIOUS
  <2>2. PICK j \in N : \A i \in N : j <= i
    <3> HIDE DEF N
    <3> QED BY <2>1, SmallestOf
  <2>3. j \in 0 .. n - 1 /\ j \in 0 .. m - 1 /\ g[j] # h[j]
    BY <1>1, <2>2
  <2>4. \A i \in 0 .. j - 1 : i \in 0 .. n - 1 /\ ~(j <= i)
    BY <2>3
  <2>5. \A i \in 0 .. j - 1 : g[i] = h[i]
    BY <2>2, <2>4
  <2>6. Before(g, j) = Before(h, j)
    BY <2>5 DEF Before
  <2> QED BY <1>1, <2>3, <2>6
<1>2. \A n \in Nat : Fs(n) # {}
  <2> DEFINE T == {n \in Nat : Fs(n) # {}}
  <2>1. 0 \in T
    <3>1. <<>> \in [0 .. 0 - 1 -> S]
      OBVIOUS
    <3>2. \A i \in 0 .. 0 - 1 : FALSE
      OBVIOUS
    <3> QED BY <3>1, <3>2
  <2>2. ASSUME NEW n \in Nat, n \in T
        PROVE  n + 1 \in T
    <3>1. PICK g \in [0 .. n - 1 -> S] : Fits(g, n)
      BY <2>2
    <3> DEFINE h == [i \in 0 .. (n + 1) - 1 |-> IF i = n THEN H[n][g] ELSE g[i]]
    <3>2. \A i \in 0 .. (n + 1) - 1 : i \in Nat /\ i <= n /\ (i # n => i \in 0 .. n - 1)
      OBVIOUS
    <3>3. h \in [0 .. (n + 1) - 1 -> S]
      BY <3>1, <3>2
    <3>4. \A i \in 0 .. (n + 1) - 1 : Before(h, i) = Before(g, i)
      <4> SUFFICES ASSUME NEW i \in 0 .. (n + 1) - 1
                   PROVE  Before(h, i) = Before(g, i)
        OBVIOUS
      <4>1. \A j \in 0 .. i - 1 : j \in 0 .. (n + 1) - 1 /\ j # n
        OBVIOUS
      <4>2. \A j \in 0 .. i - 1 : h[j] = g[j]
        BY <4>1
      <4> HIDE DEF h
      <4> QED BY <4>2 DEF Before
    <3>5. Before(g, n) = g
      BY <3>1 DEF Before
    <3>6. \A i \in 0 .. (n + 1) - 1 : h[i] = H[i][Before(h, i)]
      <4> SUFFICES ASSUME NEW i \in 0 .. (n + 1) - 1
                   PROVE  h[i] = H[i][Before(g, i)]
        BY <3>4
      <4>1. CASE i = n
        BY <3>5, <4>1
      <4>2. CASE i # n
        BY <3>1, <3>2, <4>2
      <4> QED BY <4>1, <4>2
    <3>7. h \in Fs(n + 1)
      BY <3>3, <3>6
    <3> HIDE DEF h, Fs
    <3> QED BY <3>7
  <2> HIDE DEF T
  <2>3. Nat \subseteq T
    BY <2>1, <2>2, Induction
  <2> QED BY <2>3 DEF T
<1> DEFINE G(n) == CHOOSE g \in Fs(n) : TRUE
           f == [n \in Nat |-> G(n + 1)[n]]
<1>3. \A n \in Nat : Fits(G(n), n)
  <2> SUFFICES ASSUME NEW n \in Nat
               PROVE  Fits(G(n), n)
    OBVIOUS
  <2>1. G(n) \in Fs(n)
    BY <1>2
  <2> QED BY <2>1
<1> HIDE DEF Fs, G
<1>4. \A n \in Nat : n + 1 \in Nat /\ n \in 0 .. (n + 1) - 1
  OBVIOUS
<1>5. f \in [Nat -> S]
  BY <1>3, <1>4
<1>6. ASSUME NEW n \in Nat
      PROVE  f[n] = H[n][Before(f, n)]
  <2>1. \A i \in 0 .. n - 1 : i \in Nat /\ i + 1 \in Nat /\ i + 1 <= n + 1 /\ i \in 0 .. (i + 1) - 1
    OBVIOUS
  <2>2. \A i \in 0 .. n - 1 : G(i + 1)[i] = G(n + 1)[i]
    <3> HIDE DEF Fits
    <3> SUFFICES ASSUME NEW i \in 0 .. n - 1
                 PROVE  G(i + 1)[i] = G(n + 1)[i]
      OBVIOUS
    <3>1. Fits(G(i + 1), i + 1) /\ Fits(G(n + 1), n + 1)
      BY <1>3, <1>4, <2>1
    <3> QED BY <1>1, <1>4, <2>1, <3>1
  <2>3. Before(f, n) = Before(G(n + 1), n)
    BY <2>1, <2>2 DEF Before
  <2>4. G(n + 1)[n] = H[n][Before(G(n + 1), n)]
    BY <1>3, <1>4
  <2> QED BY <2>3, <2>4
<1> HIDE DEF f
<1> QED BY <1>5, <1>6 DEF Follows

---------------------------------------------------------------------------
(* Procedures.                                                             *)

LEMMA ProcFacts ==
    ASSUME proc \in Procs
    PROVE  /\ IsProc(proc)
           /\ Blocks \subseteq Nat \ {0} /\ 1 \in Blocks
           /\ Len(proc.blocks) \in Nat /\ Blocks = 1 .. Len(proc.blocks)
           /\ \A b \in Blocks : /\ proc.blocks[b] \in StmtBlock
                                /\ Stmts(b) \in Seq(Statement)
                                /\ (Kind(b) = "Proc") = (b = 1)
                                /\ Label(b) # "" => Kind(b) = "Loop"
           /\ \A b \in Blocks : \A i \in DOMAIN Stmts(b) :
                /\ Stmts(b)[i] \in Statement
                /\ Stmts(b)[i].op \in {"block", "for"} => Len(Stmts(b)[i].bodies) = 1
<1>1. IsProc(proc)
  BY StatementsAssumption
<1>2. /\ proc.blocks \in Seq(StmtBlock) /\ proc.blocks # <<>>
      /\ \A b \in DOMAIN proc.blocks :
           /\ (proc.blocks[b].kind = "Proc") = (b = 1)
           /\ proc.blocks[b].label # "" => proc.blocks[b].kind = "Loop"
           /\ \A i \in DOMAIN proc.blocks[b].stmts :
                proc.blocks[b].stmts[i].op \in {"block", "for"} => Len(proc.blocks[b].stmts[i].bodies) = 1
  BY <1>1 DEF IsProc
<1>a. ASSUME NEW S, NEW s \in Seq(S), s # <<>>
      PROVE  /\ DOMAIN s \subseteq Nat \ {0} /\ 1 \in DOMAIN s
             /\ Len(s) \in Nat /\ DOMAIN s = 1 .. Len(s) /\ \A i \in DOMAIN s : s[i] \in S
  BY <1>a
<1>b. proc.blocks \in Seq(StmtBlock) /\ proc.blocks # <<>>
  BY <1>2
<1>3. /\ Blocks \subseteq Nat \ {0} /\ 1 \in Blocks
      /\ Len(proc.blocks) \in Nat /\ Blocks = 1 .. Len(proc.blocks)
      /\ \A b \in Blocks : proc.blocks[b] \in StmtBlock
  <2> HIDE DEF StmtBlock
  <2> QED BY <1>a, <1>b DEF Blocks
<1>4. \A b \in Blocks : proc.blocks[b] \in StmtBlock
  BY <1>3
<1>5. \A b \in Blocks : Stmts(b) \in Seq(Statement)
  BY <1>4 DEF StmtBlock, Stmts
<1>6. \A b \in Blocks : \A i \in DOMAIN Stmts(b) : Stmts(b)[i] \in Statement
  BY <1>5
<1> QED BY <1>1, <1>2, <1>3, <1>4, <1>5, <1>6 DEF Kind, Label, Stmts, Blocks

(* Where block b is written: in the statement at i of block a.             *)
Within1(a, i, b) == a \in Blocks /\ i \in DOMAIN Stmts(a) /\ Holds(Stmts(a)[i], b)

LEMMA PlaceFacts ==
    ASSUME proc \in Procs, NEW a, NEW i, NEW b, Within1(a, i, b)
    PROVE  /\ b \in Blocks /\ a < b /\ Parent(b) = a /\ StmtOf(b) = Stmts(a)[i]
           /\ Kind(b) = BodyKind(Stmts(a)[i].op)
           /\ Stmts(a)[i].op \in {"defer", "block", "if", "switch", "for"}
           /\ \A c, j : Within1(c, j, b) => c = a /\ j = i
           /\ \A j, k \in DOMAIN Stmts(a)[i].bodies : Stmts(a)[i].bodies[j] = Stmts(a)[i].bodies[k] => j = k
<1>1. IsProc(proc)
  BY ProcFacts
<1> DEFINE Place(c, j, k) == c \in Blocks /\ j \in DOMAIN Stmts(c) /\ k \in DOMAIN Stmts(c)[j].bodies
<1>2. \A c, j, k : Place(c, j, k) =>
        LET x == Stmts(c)[j].bodies[k] IN
          /\ x \in Blocks /\ x > c /\ Kind(x) = BodyKind(Stmts(c)[j].op)
          /\ Stmts(c)[j].op \in {"defer", "block", "if", "switch", "for"}
          /\ \A d, l, m : Place(d, l, m) /\ Stmts(d)[l].bodies[m] = x => d = c /\ l = j /\ m = k
  <2> DEFINE In(c) == proc.blocks[c].stmts
             Places == UNION {UNION {{<<c, j, k>> : k \in DOMAIN In(c)[j].bodies} : j \in DOMAIN In(c)} :
                                c \in DOMAIN proc.blocks}
             BodyAt(x) == In(x[1])[x[2]].bodies[x[3]]
  <2>1. /\ \A x \in Places : /\ BodyAt(x) \in DOMAIN proc.blocks /\ BodyAt(x) > x[1]
                              /\ proc.blocks[BodyAt(x)].kind = BodyKind(In(x[1])[x[2]].op)
                              /\ In(x[1])[x[2]].op \in {"defer", "block", "if", "switch", "for"}
        /\ \A x, y \in Places : BodyAt(x) = BodyAt(y) => x = y
    BY <1>1 DEF IsProc
  <2>2. ASSUME NEW c, NEW j, NEW k, Place(c, j, k)
        PROVE  /\ <<c, j, k>> \in Places /\ BodyAt(<<c, j, k>>) = Stmts(c)[j].bodies[k]
               /\ <<c, j, k>>[1] = c /\ <<c, j, k>>[2] = j /\ In(c) = Stmts(c)
    <3>1. c \in DOMAIN proc.blocks /\ j \in DOMAIN In(c) /\ k \in DOMAIN In(c)[j].bodies
      BY <2>2 DEF Blocks, Stmts
    <3>2. <<c, j, k>> \in {<<c, j, l>> : l \in DOMAIN In(c)[j].bodies}
      BY <3>1
    <3>3. <<c, j, k>> \in UNION {{<<c, m, l>> : l \in DOMAIN In(c)[m].bodies} : m \in DOMAIN In(c)}
      BY <3>1, <3>2
    <3>4. <<c, j, k>> \in Places
      BY <3>1, <3>3
    <3> QED BY <3>4 DEF Stmts
  <2> HIDE DEF Places, BodyAt, Place, In
  <2> SUFFICES ASSUME NEW c, NEW j, NEW k, Place(c, j, k)
               PROVE  LET x == Stmts(c)[j].bodies[k] IN
                        /\ x \in Blocks /\ x > c /\ Kind(x) = BodyKind(Stmts(c)[j].op)
                        /\ Stmts(c)[j].op \in {"defer", "block", "if", "switch", "for"}
                        /\ \A d, l, m : Place(d, l, m) /\ Stmts(d)[l].bodies[m] = x => d = c /\ l = j /\ m = k
    OBVIOUS
  <2> DEFINE x == Stmts(c)[j].bodies[k]
  <2>3. x \in Blocks /\ x > c /\ Kind(x) = BodyKind(Stmts(c)[j].op)
        /\ Stmts(c)[j].op \in {"defer", "block", "if", "switch", "for"}
    <3>1. <<c, j, k>> \in Places /\ BodyAt(<<c, j, k>>) = x
          /\ <<c, j, k>>[1] = c /\ <<c, j, k>>[2] = j /\ In(c) = Stmts(c)
      BY <2>2
    <3> HIDE DEF x
    <3> QED BY <2>1, <3>1 DEF Blocks, Kind
  <2>4. ASSUME NEW d, NEW l, NEW m, Place(d, l, m), Stmts(d)[l].bodies[m] = x
        PROVE  d = c /\ l = j /\ m = k
    <3>1. /\ <<d, l, m>> \in Places /\ <<c, j, k>> \in Places
          /\ BodyAt(<<d, l, m>>) = BodyAt(<<c, j, k>>)
      BY <2>2, <2>4
    <3>2. <<d, l, m>> = <<c, j, k>>
      BY <2>1, <3>1
    <3> QED BY <3>2
  <2> QED BY <2>3, <2>4
<1>3. PICK k \in DOMAIN Stmts(a)[i].bodies : Stmts(a)[i].bodies[k] = b
  BY DEF Within1, Holds
<1>4. Place(a, i, k)
  BY <1>3 DEF Within1
<1>5. ASSUME NEW c, NEW j, Within1(c, j, b)
      PROVE  c = a /\ j = i
  <2>1. PICK l : Place(c, j, l) /\ Stmts(c)[j].bodies[l] = b
    BY <1>5 DEF Within1, Holds
  <2> HIDE DEF Place
  <2> QED BY <1>2, <1>3, <1>4, <2>1
<1>6. \A j, l \in DOMAIN Stmts(a)[i].bodies : Stmts(a)[i].bodies[j] = Stmts(a)[i].bodies[l] => j = l
  BY <1>2, <1>4
<1>7. b \in Blocks /\ a < b /\ Kind(b) = BodyKind(Stmts(a)[i].op)
      /\ Stmts(a)[i].op \in {"defer", "block", "if", "switch", "for"}
  <2>1. b \in Blocks /\ b > a /\ a \in Blocks
    BY <1>2, <1>3, <1>4
  <2>2. a \in Nat /\ b \in Nat
    BY <2>1, ProcFacts
  <2> QED BY <1>2, <1>3, <1>4, <2>1, <2>2
<1>8. Parent(b) = a
  <2> DEFINE in == {c \in Blocks : \E s \in StmtsOf(c) : Holds(s, b)}
  <2>1. \A c \in in : c = a
    BY <1>5 DEF Within1, StmtsOf
  <2>2. a \in in
    BY DEF Within1, StmtsOf
  <2>3. Parent(b) = IF in = {} THEN 0 ELSE CHOOSE c \in in : TRUE
    BY DEF Parent
  <2> HIDE DEF in
  <2> QED BY <2>1, <2>2, <2>3
<1>9. StmtOf(b) = Stmts(a)[i]
  <2>1. \A s \in StmtsOf(a) : Holds(s, b) => s = Stmts(a)[i]
    BY <1>5 DEF Within1, StmtsOf
  <2>2. Stmts(a)[i] \in StmtsOf(a) /\ Holds(Stmts(a)[i], b)
    BY DEF Within1, StmtsOf
  <2> QED BY <1>8, <2>1, <2>2 DEF StmtOf
<1> QED BY <1>5, <1>6, <1>7, <1>8, <1>9

LEMMA ParentFacts ==
    ASSUME proc \in Procs, NEW b \in Nat
    PROVE  /\ Parent(b) \in Nat
           /\ Parent(b) # 0 => b \in Blocks /\ Parent(b) < b /\ \E i : Within1(Parent(b), i, b)
           /\ b # 0 => Parent(b) < b
<1> DEFINE in == {c \in Blocks : \E s \in StmtsOf(c) : Holds(s, b)}
<1>1. Parent(b) = IF in = {} THEN 0 ELSE CHOOSE c \in in : TRUE
  BY DEF Parent
<1>2. CASE in = {}
  BY <1>1, <1>2
<1>3. CASE in # {}
  <2>1. PICK c \in in : TRUE
    BY <1>3
  <2>2. PICK i : Within1(c, i, b)
    BY <2>1 DEF Within1, StmtsOf
  <2>3. Parent(b) = c /\ b \in Blocks /\ c < b /\ c \in Blocks
    BY <2>2, PlaceFacts DEF Within1
  <2>4. c \in Nat \ {0}
    BY <2>3, ProcFacts
  <2> HIDE DEF in
  <2> QED BY <2>2, <2>3, <2>4
<1> QED BY <1>2, <1>3

LEMMA SameProc ==
    ASSUME UNCHANGED proc
    PROVE  /\ BlockStack' = BlockStack /\ ResolveStmtBlock' = ResolveStmtBlock /\ FirstDefer' = FirstDefer
           /\ Blocks' = Blocks
<1>1. BlockStack' = BlockStack
  BY DEF BlockStack, Parent, Blocks, StmtsOf, Stmts, Holds
<1>2. ResolveStmtBlock' = ResolveStmtBlock
  BY DEF ResolveStmtBlock, StmtReturns, Blocks, StmtsOf, Stmts
<1>3. FirstDefer' = FirstDefer
  BY DEF FirstDefer, Blocks, Stmts
<1> QED BY <1>1, <1>2, <1>3 DEF Blocks

---------------------------------------------------------------------------
(* The recursive functions of the program are what their definitions say.  *)

(* A body comes after the block it is written in, so the stack of a block  *)
(* is that of an earlier one with the block on top.                        *)
LEMMA BlockStackDef ==
    ASSUME proc \in Procs
    PROVE  /\ BlockStack \in [Nat -> Seq(Nat)]
           /\ \A b \in Nat : BlockStack[b] = IF b = 0 THEN <<>> ELSE <<b>> \o BlockStack[Parent(b)]
<1> DEFINE E(f) == [b \in Nat |-> IF b = 0 THEN <<>> ELSE <<b>> \o f[Parent(b)]]
           H == [n \in Nat |-> [g \in [0 .. n - 1 -> Seq(Nat)] |->
                    IF n = 0 THEN <<>> ELSE <<n>> \o g[Parent(n)]]]
<1>1. \A n \in Nat : n # 0 => Parent(n) \in 0 .. n - 1
  BY ParentFacts
<1>2. \A n \in Nat : \A g \in [0 .. n - 1 -> Seq(Nat)] :
        /\ H[n][g] \in Seq(Nat)
        /\ H[n][g] = IF n = 0 THEN <<>> ELSE <<n>> \o g[Parent(n)]
  BY <1>1
<1>3. PICK f : Follows(f, H, Seq(Nat))
  <2>1. IsRule(H, Seq(Nat))
    BY <1>2 DEF IsRule
  <2> HIDE DEF H
  <2>2. PICK K : K = H
    OBVIOUS
  <2> QED BY <2>1, <2>2, Recursion
<1>4. \A n \in Nat : f[n] = E(f)[n]
  <2> SUFFICES ASSUME NEW n \in Nat
               PROVE  f[n] = E(f)[n]
    OBVIOUS
  <2>1. \A i \in 0 .. n - 1 : i \in Nat
    OBVIOUS
  <2>2. Before(f, n) \in [0 .. n - 1 -> Seq(Nat)] /\ \A i \in 0 .. n - 1 : Before(f, n)[i] = f[i]
    BY <1>3, <2>1 DEF Before, Follows
  <2>3. f[n] = IF n = 0 THEN <<>> ELSE <<n>> \o Before(f, n)[Parent(n)]
    <3> HIDE DEF H
    <3> QED BY <1>2, <1>3, <2>2 DEF Follows
  <2> QED BY <1>1, <2>2, <2>3
<1>5. f = E(f)
  BY <1>3, <1>4 DEF Follows
<1>6. BlockStack = CHOOSE h : h = E(h)
  BY DEF BlockStack
<1> HIDE DEF E
<1>7. BlockStack = E(BlockStack)
  BY <1>5, <1>6
<1>8. \A b \in Nat : BlockStack[b] = IF b = 0 THEN <<>> ELSE <<b>> \o BlockStack[Parent(b)]
  BY <1>7 DEF E
<1>9. BlockStack \in [Nat -> Seq(Nat)]
  <2> DEFINE T == {n \in Nat : \A i \in 0 .. n - 1 : BlockStack[i] \in Seq(Nat)}
  <2>1. 0 \in T
    OBVIOUS
  <2>2. ASSUME NEW n \in Nat, n \in T
        PROVE  n + 1 \in T
    <3>1. \A i \in 0 .. (n + 1) - 1 : i = n \/ i \in 0 .. n - 1
      OBVIOUS
    <3>2. n # 0 => BlockStack[Parent(n)] \in Seq(Nat)
      BY <1>1, <2>2
    <3>3. BlockStack[n] = IF n = 0 THEN <<>> ELSE <<n>> \o BlockStack[Parent(n)]
      BY <1>8
    <3>5. BlockStack[n] \in Seq(Nat)
      <4>1. <<n>> \in Seq(Nat) /\ <<>> \in Seq(Nat)
        OBVIOUS
      <4>2. \A s, t \in Seq(Nat) : s \o t \in Seq(Nat)
        OBVIOUS
      <4> QED BY <3>2, <3>3, <4>1, <4>2
    <3>4. \A i \in 0 .. (n + 1) - 1 : BlockStack[i] \in Seq(Nat)
      BY <2>2, <3>1, <3>5
    <3> QED BY <3>4
  <2> HIDE DEF T
  <2>3. Nat \subseteq T
    BY <2>1, <2>2, Induction
  <2>4. \A n \in Nat : n + 1 \in T /\ n \in 0 .. (n + 1) - 1
    BY <2>3
  <2>5. \A n \in Nat : BlockStack[n] \in Seq(Nat)
    BY <2>4 DEF T
  <2> QED BY <1>7, <2>5 DEF E
<1> QED BY <1>8, <1>9

LEMMA FirstDeferDef ==
    ASSUME proc \in Procs, NEW b \in Blocks
    PROVE  /\ FirstDefer[b] \in [0 .. Len(Stmts(b)) -> Seq(Blocks)]
           /\ FirstDefer[b][0] = <<>>
           /\ \A i \in DOMAIN Stmts(b) :
                FirstDefer[b][i] = IF Stmts(b)[i].op = "defer" THEN Stmts(b)[i].bodies \o FirstDefer[b][i - 1]
                                   ELSE FirstDefer[b][i - 1]
<1> DEFINE L == Len(Stmts(b))
           E(f) == [i \in 0 .. L |-> IF i = 0 THEN <<>>
                                     ELSE IF Stmts(b)[i].op = "defer" THEN Stmts(b)[i].bodies \o f[i - 1]
                                     ELSE f[i - 1]]
           H == [n \in Nat |-> [g \in [0 .. n - 1 -> Seq(Blocks)] |->
                    IF n = 0 THEN <<>>
                    ELSE IF n <= L /\ Stmts(b)[n].op = "defer" THEN Stmts(b)[n].bodies \o g[n - 1]
                    ELSE g[n - 1]]]
<1>1. L \in Nat /\ DOMAIN Stmts(b) = 1 .. L /\ \A i \in 1 .. L : Stmts(b)[i] \in Statement
  <2>1. Stmts(b) \in Seq(Statement)
    BY ProcFacts
  <2> HIDE DEF Statement
  <2> QED BY <2>1
<1>2. \A i \in 1 .. L : Stmts(b)[i].bodies \in Seq(Blocks)
  <2> SUFFICES ASSUME NEW i \in 1 .. L
               PROVE  Stmts(b)[i].bodies \in Seq(Blocks)
    OBVIOUS
  <2>1. Stmts(b)[i].bodies \in Seq(Nat)
    BY <1>1 DEF Statement
  <2>2. ASSUME NEW k \in DOMAIN Stmts(b)[i].bodies
        PROVE  Stmts(b)[i].bodies[k] \in Blocks
    <3>1. Within1(b, i, Stmts(b)[i].bodies[k])
      BY <1>1 DEF Within1, Holds
    <3> QED BY <3>1, PlaceFacts
  <2>3. \A q \in Seq(Nat) : (\A k \in DOMAIN q : q[k] \in Blocks) => q \in Seq(Blocks)
    OBVIOUS
  <2> QED BY <2>1, <2>2, <2>3
<1> HIDE DEF L
<1>3. \A n \in Nat : \A g \in [0 .. n - 1 -> Seq(Blocks)] :
        H[n][g] = IF n = 0 THEN <<>>
                  ELSE IF n <= L /\ Stmts(b)[n].op = "defer" THEN Stmts(b)[n].bodies \o g[n - 1]
                  ELSE g[n - 1]
  OBVIOUS
<1>4. \A n \in Nat : n # 0 => n - 1 \in 0 .. n - 1
  OBVIOUS
<1>5. <<>> \in Seq(Blocks) /\ \A s, t \in Seq(Blocks) : s \o t \in Seq(Blocks)
  OBVIOUS
<1>6. IsRule(H, Seq(Blocks))
  <2> SUFFICES ASSUME NEW n \in Nat, NEW g \in [0 .. n - 1 -> Seq(Blocks)]
               PROVE  H[n][g] \in Seq(Blocks)
    BY DEF IsRule
  <2> HIDE DEF H
  <2>1. CASE n = 0
    BY <1>3, <1>5, <2>1
  <2>2. CASE n # 0
    <3>1. g[n - 1] \in Seq(Blocks)
      BY <1>4, <2>2
    <3>2. n <= L => n \in 1 .. L
      BY <1>1, <2>2
    <3> QED BY <1>2, <1>3, <1>5, <2>2, <3>1, <3>2
  <2> QED BY <2>1, <2>2
<1> HIDE DEF H
<1>7. PICK f : Follows(f, H, Seq(Blocks))
  <2>1. PICK K, S : K = H /\ S = Seq(Blocks)
    OBVIOUS
  <2> QED BY <1>6, <2>1, Recursion
<1> DEFINE h == [i \in 0 .. L |-> f[i]]
<1>8. \A i \in 0 .. L : f[i] = E(h)[i]
  <2> SUFFICES ASSUME NEW i \in 0 .. L
               PROVE  f[i] = E(h)[i]
    OBVIOUS
  <2>1. i \in Nat /\ \A j \in 0 .. i - 1 : j \in Nat /\ j \in 0 .. L
    BY <1>1
  <2>2. Before(f, i) \in [0 .. i - 1 -> Seq(Blocks)] /\ \A j \in 0 .. i - 1 : Before(f, i)[j] = f[j]
    BY <1>7, <2>1 DEF Before, Follows
  <2>3. f[i] = H[i][Before(f, i)]
    BY <1>7, <2>1 DEF Follows
  <2>4. i # 0 => Before(f, i)[i - 1] = h[i - 1]
    BY <1>4, <2>1, <2>2
  <2>5. i <= L
    BY <1>1
  <2> HIDE DEF h
  <2> QED BY <1>3, <2>1, <2>2, <2>3, <2>4, <2>5
<1>9. h = E(h)
  BY <1>8
<1>10. FirstDefer[b] = CHOOSE e : e = E(e)
  BY DEF FirstDefer, L
<1>11. FirstDefer[b] = E(FirstDefer[b])
  <2> HIDE DEF E, h
  <2> QED BY <1>9, <1>10
<1>12. FirstDefer[b][0] = <<>>
  BY <1>1, <1>11
<1>13. \A i \in 1 .. L :
         FirstDefer[b][i] = IF Stmts(b)[i].op = "defer" THEN Stmts(b)[i].bodies \o FirstDefer[b][i - 1]
                            ELSE FirstDefer[b][i - 1]
  <2>1. \A i \in 1 .. L : i \in 0 .. L /\ i # 0
    BY <1>1
  <2> QED BY <1>11, <2>1
<1>14. \A i \in 0 .. L : FirstDefer[b][i] \in Seq(Blocks)
  <2> DEFINE T == {n \in Nat : n <= L => FirstDefer[b][n] \in Seq(Blocks)}
  <2>1. 0 \in T
    BY <1>5, <1>12
  <2>2. ASSUME NEW n \in Nat, n \in T
        PROVE  n + 1 \in T
    <3> SUFFICES ASSUME n + 1 <= L
                 PROVE  FirstDefer[b][n + 1] \in Seq(Blocks)
      OBVIOUS
    <3>1. n + 1 \in 1 .. L /\ (n + 1) - 1 = n /\ n <= L
      BY <1>1
    <3>2. FirstDefer[b][n] \in Seq(Blocks)
      BY <2>2, <3>1
    <3> QED BY <1>2, <1>5, <1>13, <3>1, <3>2
  <2> HIDE DEF T
  <2>3. Nat \subseteq T
    BY <2>1, <2>2, Induction
  <2>4. \A i \in 0 .. L : i \in T /\ i <= L
    BY <1>1, <2>3
  <2> QED BY <2>4 DEF T
<1>15. FirstDefer[b] \in [0 .. L -> Seq(Blocks)]
  BY <1>11, <1>14
<1> QED BY <1>1, <1>12, <1>13, <1>15 DEF L

(* Only the blocks of a statement matter to whether it returns.            *)
LEMMA SameReturns ==
    ASSUME NEW s \in Statement, s.op \in {"block", "for"} => Len(s.bodies) = 1,
           NEW f, NEW g, \A k \in DOMAIN s.bodies : f[s.bodies[k]] = g[s.bodies[k]]
    PROVE  StmtReturns(s, f) <=> StmtReturns(s, g)
<1>1. s.op \in {"block", "for"} => 1 \in DOMAIN s.bodies
  BY DEF Statement
<1>2. s.op \in {"block", "for"} => f[s.bodies[1]] = g[s.bodies[1]]
  BY <1>1
<1> QED BY <1>2 DEF StmtReturns

LEMMA ResolveStmtBlockDef ==
    ASSUME proc \in Procs, NEW b \in Blocks
    PROVE  ResolveStmtBlock[b] <=> \E i \in DOMAIN Stmts(b) : StmtReturns(Stmts(b)[i], ResolveStmtBlock)
<1> DEFINE L == Len(proc.blocks)
           E(f) == [c \in Blocks |-> \E i \in DOMAIN Stmts(c) : StmtReturns(Stmts(c)[i], f)]
           R(g) == [c \in Blocks |-> g[L - c]]
           H == [n \in Nat |-> [g \in [0 .. n - 1 -> BOOLEAN] |->
                    \E i \in DOMAIN Stmts(L - n) : StmtReturns(Stmts(L - n)[i], R(g))]]
<1>1. L \in Nat /\ Blocks = 1 .. L
  BY ProcFacts
<1> HIDE DEF L
<1>2. IsRule(H, BOOLEAN)
  BY DEF IsRule
<1>3. \A n \in Nat : \A g \in [0 .. n - 1 -> BOOLEAN] :
        H[n][g] = \E i \in DOMAIN Stmts(L - n) : StmtReturns(Stmts(L - n)[i], R(g))
  OBVIOUS
<1> HIDE DEF H
<1>4. PICK f : Follows(f, H, BOOLEAN)
  <2>1. PICK K : K = H
    OBVIOUS
  <2> QED BY <1>2, <2>1, Recursion
<1> DEFINE h == R(f)
<1>5. ASSUME NEW c \in Blocks
      PROVE  h[c] = E(h)[c]
  <2> DEFINE n == L - c
  <2>1. n \in Nat /\ L - n = c /\ \A j \in 0 .. n - 1 : j \in Nat
    BY <1>1
  <2>2. Before(f, n) \in [0 .. n - 1 -> BOOLEAN] /\ \A j \in 0 .. n - 1 : Before(f, n)[j] = f[j]
    BY <1>4, <2>1 DEF Before, Follows
  <2>3. f[n] = H[n][Before(f, n)]
    BY <1>4, <2>1 DEF Follows
  <2>4. f[n] = \E i \in DOMAIN Stmts(c) : StmtReturns(Stmts(c)[i], R(Before(f, n)))
    <3> HIDE DEF n, R
    <3> QED BY <1>3, <2>1, <2>2, <2>3
  <2>5. ASSUME NEW i \in DOMAIN Stmts(c)
        PROVE  StmtReturns(Stmts(c)[i], R(Before(f, n))) <=> StmtReturns(Stmts(c)[i], h)
    <3>1. Stmts(c)[i] \in Statement /\ (Stmts(c)[i].op \in {"block", "for"} => Len(Stmts(c)[i].bodies) = 1)
      BY ProcFacts
    <3>2. ASSUME NEW k \in DOMAIN Stmts(c)[i].bodies
          PROVE  R(Before(f, n))[Stmts(c)[i].bodies[k]] = h[Stmts(c)[i].bodies[k]]
      <4> DEFINE d == Stmts(c)[i].bodies[k]
      <4>1. Within1(c, i, d)
        BY DEF Within1, Holds
      <4>2. d \in Blocks /\ c < d
        BY <4>1, PlaceFacts
      <4>3. L - d \in 0 .. n - 1
        BY <1>1, <4>2
      <4> HIDE DEF d, n
      <4> QED BY <2>2, <4>2, <4>3 DEF d
    <3> HIDE DEF R, h
    <3> QED BY <3>1, <3>2, SameReturns
  <2> HIDE DEF n
  <2> QED BY <2>4, <2>5 DEF n
<1>6. h = E(h)
  BY <1>5
<1>7. ResolveStmtBlock = CHOOSE e : e = E(e)
  BY DEF ResolveStmtBlock
<1>8. ResolveStmtBlock = E(ResolveStmtBlock)
  <2> HIDE DEF E, h
  <2> QED BY <1>6, <1>7
<1> QED BY <1>8

---------------------------------------------------------------------------
(* The blocks control is in.                                               *)

Frame == [b : Nat, pc : Nat, iter : Nat, reached : Seq(Nat)]

(* What a block remembers of its defers is what the resolver had collected *)
(* of them when it was at the same statement.                              *)
IsFrame(f) ==
    /\ f \in Frame /\ f.b \in Blocks /\ f.pc \in 1 .. Len(Stmts(f.b)) + 1 /\ f.iter \in 0 .. MaxIter
    /\ f.reached = FirstDefer[f.b][f.pc - 1]

(* f is where control goes on when block b ends: at the loop that b is the *)
(* body of, or behind the statement.                                       *)
StandsAt(f, i, b) ==
    /\ Within1(f.b, i, b) /\ Stmts(f.b)[i].op # "defer"
    /\ f.pc = IF Stmts(f.b)[i].op = "for" THEN i ELSE i + 1
Stands(f, b) == \E i \in DOMAIN Stmts(f.b) : StandsAt(f, i, b)

IsChain(s) ==
    /\ s \in Seq(Frame) /\ Len(s) > 0
    /\ \A k \in 1 .. Len(s) : IsFrame(s[k])
    /\ \A k \in 1 .. Len(s) - 1 : Stands(s[k + 1], s[k].b)
    /\ s[Len(s)].b = 1
BlocksOf(s) == [i \in DOMAIN s |-> s[i].b]

LEMMA ChainRest ==
    ASSUME NEW s, IsChain(s), NEW n \in 0 .. Len(s) - 1
    PROVE  /\ IsChain(SubSeq(s, n + 1, Len(s))) /\ Len(SubSeq(s, n + 1, Len(s))) = Len(s) - n
           /\ \A k \in 1 .. Len(s) - n : SubSeq(s, n + 1, Len(s))[k] = s[k + n]
<1> DEFINE r == SubSeq(s, n + 1, Len(s))
<1>1. s \in Seq(Frame) /\ Len(s) \in Nat /\ n \in Nat /\ n < Len(s)
  BY DEF IsChain
<1>2. r \in Seq(Frame) /\ Len(r) = Len(s) - n /\ \A k \in 1 .. Len(s) - n : r[k] = s[k + n]
  <2> HIDE DEF Frame
  <2> QED BY <1>1
<1> HIDE DEF r
<1>3. \A k \in 1 .. Len(r) : k + n \in 1 .. Len(s) /\ r[k] = s[k + n]
  BY <1>1, <1>2
<1>4. \A k \in 1 .. Len(r) - 1 : k + n \in 1 .. Len(s) - 1 /\ r[k] = s[k + n] /\ r[k + 1] = s[(k + n) + 1]
  BY <1>1, <1>2
<1>5. r[Len(r)] = s[Len(s)] /\ Len(r) > 0
  BY <1>1, <1>2
<1>6. IsChain(r)
  BY <1>2, <1>3, <1>4, <1>5 DEF IsChain
<1> QED BY <1>2, <1>6 DEF r

LEMMA ChainPush ==
    ASSUME NEW s, IsChain(s), NEW f, IsFrame(f), Stands(s[1], f.b)
    PROVE  /\ IsChain(<<f>> \o s) /\ (<<f>> \o s)[1] = f /\ Len(<<f>> \o s) = Len(s) + 1
           /\ \A k \in 2 .. Len(s) + 1 : (<<f>> \o s)[k] = s[k - 1]
<1> DEFINE r == <<f>> \o s
<1>1. s \in Seq(Frame) /\ Len(s) \in Nat /\ Len(s) > 0 /\ f \in Frame
  BY DEF IsChain, IsFrame
<1>2. r \in Seq(Frame) /\ Len(r) = Len(s) + 1 /\ r[1] = f /\ \A k \in 2 .. Len(s) + 1 : r[k] = s[k - 1]
  <2> HIDE DEF Frame
  <2> QED BY <1>1
<1> HIDE DEF r
<1>3. \A k \in 1 .. Len(r) : k # 1 => k \in 2 .. Len(s) + 1 /\ k - 1 \in 1 .. Len(s)
  BY <1>1, <1>2
<1>4. \A k \in 1 .. Len(r) : IsFrame(r[k])
  BY <1>2, <1>3 DEF IsChain
<1>5. \A k \in 1 .. Len(r) - 1 : Stands(r[k + 1], r[k].b)
  <2> SUFFICES ASSUME NEW k \in 1 .. Len(r) - 1
               PROVE  Stands(r[k + 1], r[k].b)
    OBVIOUS
  <2>1. k + 1 \in 2 .. Len(s) + 1 /\ (k + 1) - 1 = k
    BY <1>1, <1>2
  <2>2. r[k + 1] = s[k]
    BY <1>2, <2>1
  <2>3. CASE k = 1
    BY <1>2, <2>2, <2>3
  <2>4. CASE k # 1
    <3>1. k \in 2 .. Len(s) + 1 /\ k - 1 \in 1 .. Len(s) - 1 /\ (k - 1) + 1 = k
      BY <1>1, <1>2, <2>4
    <3>2. Stands(s[(k - 1) + 1], s[k - 1].b)
      BY <3>1 DEF IsChain
    <3> QED BY <1>2, <2>2, <3>1, <3>2
  <2> QED BY <2>3, <2>4
<1>6. r[Len(r)].b = 1
  <2>1. Len(r) \in 2 .. Len(s) + 1 /\ Len(r) - 1 = Len(s)
    BY <1>1, <1>2
  <2> QED BY <1>2, <2>1 DEF IsChain
<1>7. IsChain(r)
  BY <1>1, <1>2, <1>4, <1>5, <1>6 DEF IsChain
<1> QED BY <1>2, <1>7 DEF r

(* The innermost block moves on.                                           *)
LEMMA ChainMove ==
    ASSUME NEW s, IsChain(s), NEW f, IsFrame(f), f.b = s[1].b
    PROVE  /\ IsChain(<<f>> \o Tail(s)) /\ (<<f>> \o Tail(s))[1] = f /\ Len(<<f>> \o Tail(s)) = Len(s)
           /\ \A k \in 2 .. Len(s) : (<<f>> \o Tail(s))[k] = s[k]
<1> DEFINE r == <<f>> \o Tail(s)
<1>1. s \in Seq(Frame) /\ Len(s) \in Nat /\ Len(s) > 0 /\ f \in Frame
  BY DEF IsChain, IsFrame
<1>2. r \in Seq(Frame) /\ Len(r) = Len(s) /\ r[1] = f /\ \A k \in 2 .. Len(s) : r[k] = s[k]
  <2> HIDE DEF Frame
  <2> QED BY <1>1
<1> HIDE DEF r
<1>3. \A k \in 1 .. Len(r) : k # 1 => k \in 2 .. Len(s)
  BY <1>1, <1>2
<1>4. \A k \in 1 .. Len(r) : IsFrame(r[k]) /\ r[k].b = s[k].b
  BY <1>2, <1>3 DEF IsChain
<1>5. \A k \in 1 .. Len(r) - 1 : k \in 1 .. Len(r) /\ k + 1 \in 2 .. Len(s) /\ k \in 1 .. Len(s) - 1
  BY <1>1, <1>2
<1>6. \A k \in 1 .. Len(r) - 1 : Stands(r[k + 1], r[k].b)
  BY <1>2, <1>4, <1>5 DEF IsChain
<1>7. Len(r) \in 1 .. Len(r) /\ r[Len(r)].b = 1
  BY <1>1, <1>2, <1>4 DEF IsChain
<1>8. IsChain(r)
  BY <1>1, <1>2, <1>4, <1>6, <1>7 DEF IsChain
<1> QED BY <1>2, <1>8 DEF r

(* The generator's stack of blocks, which is that of control, is the one   *)
(* the resolver had in the same block.                                     *)
LEMMA ChainBlocks ==
    ASSUME proc \in Procs, NEW s, IsChain(s)
    PROVE  BlocksOf(s) = BlockStack[s[1].b]
<1> DEFINE T == {n \in Nat : \A r : IsChain(r) /\ Len(r) = n => BlocksOf(r) = BlockStack[r[1].b]}
<1>1. 0 \in T
  BY DEF IsChain
<1>2. ASSUME NEW n \in Nat, n \in T
      PROVE  n + 1 \in T
  <2> SUFFICES ASSUME NEW r, IsChain(r), Len(r) = n + 1
               PROVE  BlocksOf(r) = BlockStack[r[1].b]
    OBVIOUS
  <2>1. r \in Seq(Frame) /\ IsFrame(r[1]) /\ r[1].b \in Blocks
    BY DEF IsChain, IsFrame
  <2>2. r[1].b \in Nat \ {0} /\ 1 \in Nat
    BY <2>1, ProcFacts
  <2>3. BlockStack[r[1].b] = <<r[1].b>> \o BlockStack[Parent(r[1].b)]
    BY <2>2, BlockStackDef
  <2>4. DOMAIN r = 1 .. n + 1
    BY <2>1
  <2>5. CASE n = 0
    <3>1. r[1].b = 1
      BY <2>5 DEF IsChain
    <3>2. Parent(1) = 0
      <4>1. Parent(1) # 0 => Parent(1) \in Nat /\ Parent(1) < 1
        BY ParentFacts
      <4> QED BY <4>1
    <3>3. BlockStack[0] = <<>>
      BY BlockStackDef
    <3>4. BlocksOf(r) = <<1>>
      BY <2>4, <2>5, <3>1 DEF BlocksOf
    <3> QED BY <2>3, <3>1, <3>2, <3>3, <3>4
  <2>6. CASE n # 0
    <3> DEFINE q == SubSeq(r, 1 + 1, Len(r))
    <3>1. IsChain(q) /\ Len(q) = n /\ \A k \in 1 .. n : q[k] = r[k + 1]
      <4>1. 1 \in 0 .. Len(r) - 1 /\ Len(r) - 1 = n
        BY <2>6
      <4> QED BY <4>1, ChainRest
    <3> HIDE DEF q
    <3>2. BlocksOf(q) = BlockStack[q[1].b]
      BY <1>2, <3>1
    <3>3. Parent(r[1].b) = q[1].b
      <4>1. 1 \in 1 .. Len(r) - 1 /\ 1 \in 1 .. n
        BY <2>6
      <4>2. PICK i : Within1(r[1 + 1].b, i, r[1].b)
        BY <4>1 DEF IsChain, Stands, StandsAt
      <4>3. Parent(r[1].b) = r[1 + 1].b
        BY <4>2, PlaceFacts
      <4> QED BY <3>1, <4>1, <4>3
    <3>4. q \in Seq(Frame) /\ DOMAIN q = 1 .. n
      BY <3>1 DEF IsChain
    <3>5. BlocksOf(q) \in Seq(Nat) /\ Len(BlocksOf(q)) = n /\ \A k \in 1 .. n : BlocksOf(q)[k] = q[k].b
      <4>0. \A k \in 1 .. n : IsFrame(q[k])
        BY <3>1 DEF IsChain
      <4>1. \A k \in 1 .. n : q[k].b \in Nat
        BY <4>0, ProcFacts DEF IsFrame
      <4> QED BY <3>4, <4>1 DEF BlocksOf
    <3>6. BlocksOf(r) \in Seq(Nat) /\ Len(BlocksOf(r)) = n + 1 /\ \A k \in 1 .. n + 1 : BlocksOf(r)[k] = r[k].b
      <4>0. \A k \in 1 .. n + 1 : IsFrame(r[k])
        BY DEF IsChain
      <4>1. \A k \in 1 .. n + 1 : r[k].b \in Nat
        BY <4>0, ProcFacts DEF IsFrame
      <4> QED BY <2>4, <4>1 DEF BlocksOf
    <3>7. BlocksOf(r) = <<r[1].b>> \o BlocksOf(q)
      <4>1. \A k \in 2 .. n + 1 : k - 1 \in 1 .. n /\ (k - 1) + 1 = k /\ BlocksOf(r)[k] = BlocksOf(q)[k - 1]
        <5> SUFFICES ASSUME NEW k \in 2 .. n + 1
                     PROVE  k - 1 \in 1 .. n /\ (k - 1) + 1 = k /\ BlocksOf(r)[k] = BlocksOf(q)[k - 1]
          OBVIOUS
        <5>1. k - 1 \in 1 .. n /\ (k - 1) + 1 = k /\ k \in 1 .. n + 1
          OBVIOUS
        <5> QED BY <3>1, <3>5, <3>6, <5>1
      <4>2. \A x \in Nat : \A u, v \in Seq(Nat) :
              /\ Len(u) = n + 1 /\ Len(v) = n /\ u[1] = x
              /\ \A k \in 2 .. n + 1 : u[k] = v[k - 1]
              => u = <<x>> \o v
        OBVIOUS
      <4>3. BlocksOf(r)[1] = r[1].b
        BY <3>6
      <4> QED BY <2>2, <3>5, <3>6, <4>1, <4>2, <4>3
    <3> QED BY <2>3, <3>2, <3>3, <3>7
  <2> QED BY <2>5, <2>6
<1> HIDE DEF T
<1>3. Nat \subseteq T
  BY <1>1, <1>2, Induction
<1>4. Len(s) \in Nat
  BY DEF IsChain
<1> QED BY <1>3, <1>4 DEF T

(* A chain of the next state.                                              *)
LEMMA ChainNext ==
    ASSUME UNCHANGED proc, NEW t, t = stack', IsChain(t)
    PROVE  IsChain(stack)'
BY SameProc DEF IsChain, IsFrame, Stands, StandsAt, Within1, Stmts, Holds, Blocks

LEMMA ChainTail ==
    ASSUME NEW s, IsChain(s), Len(s) > 1
    PROVE  /\ IsChain(Tail(s)) /\ Len(Tail(s)) = Len(s) - 1
           /\ \A k \in 1 .. Len(s) - 1 : Tail(s)[k] = s[k + 1]
<1>1. s \in Seq(Frame) /\ Len(s) \in Nat /\ 1 \in 0 .. Len(s) - 1
  BY DEF IsChain
<1>2. Tail(s) = SubSeq(s, 1 + 1, Len(s))
  <2> HIDE DEF Frame
  <2> QED BY <1>1
<1> QED BY <1>1, <1>2, ChainRest

LEMMA FrameFields ==
    ASSUME NEW f \in Frame, NEW x
    PROVE  /\ Past(f) = [b |-> f.b, pc |-> f.pc + 1, iter |-> 0, reached |-> f.reached]
           /\ [Past(f) EXCEPT !.reached = x \o @] =
                [b |-> f.b, pc |-> f.pc + 1, iter |-> 0, reached |-> x \o f.reached]
           /\ f.b \in Nat /\ f.pc + 1 \in Nat /\ f.iter \in Nat /\ f.reached \in Seq(Nat)
<1>1. Past(f) = [f EXCEPT !.pc = f.pc + 1, !.iter = 0] /\ f.pc + 1 \in Nat
  BY DEF Frame, Past
<1>2. Past(f) = [b |-> f.b, pc |-> f.pc + 1, iter |-> 0, reached |-> f.reached]
  BY <1>1 DEF Frame
<1>3. [Past(f) EXCEPT !.reached = x \o @] =
        [b |-> f.b, pc |-> f.pc + 1, iter |-> 0, reached |-> x \o f.reached]
  <2> HIDE DEF Past
  <2>1. PICK u : u = Past(f)
    OBVIOUS
  <2>2. u = [b |-> f.b, pc |-> f.pc + 1, iter |-> 0, reached |-> f.reached] /\ u.reached = f.reached
    BY <1>2, <2>1
  <2>3. PICK y : y = x \o f.reached
    OBVIOUS
  <2>4. [u EXCEPT !.reached = y] = [b |-> f.b, pc |-> f.pc + 1, iter |-> 0, reached |-> y]
    BY <2>2
  <2> QED BY <2>1, <2>2, <2>3, <2>4
<1> QED BY <1>1, <1>2, <1>3 DEF Frame

LEMMA FrameFacts ==
    ASSUME proc \in Procs
    PROVE  /\ \A b \in Blocks : IsFrame(Activation(b)) /\ Activation(b).b = b
           /\ \A f : IsFrame(f) /\ f.pc \in DOMAIN Stmts(f.b) =>
                /\ Past(f).b = f.b /\ Past(f).pc = f.pc + 1 /\ Past(f).reached = f.reached
                /\ Stmts(f.b)[f.pc].op # "defer" => IsFrame(Past(f))
<1>1. ASSUME NEW b \in Blocks
      PROVE  IsFrame(Activation(b)) /\ Activation(b).b = b
  <2>1. b \in Nat /\ Len(Stmts(b)) \in Nat /\ 0 \in 0 .. MaxIter /\ FirstDefer[b][0] = <<>>
    <3>1. Stmts(b) \in Seq(Statement)
      BY ProcFacts
    <3>2. Len(Stmts(b)) \in Nat
      <4> HIDE DEF Statement
      <4> QED BY <3>1
    <3>3. b \in Nat
      BY ProcFacts
    <3>4. 0 \in 0 .. MaxIter
      BY StatementsAssumption
    <3> QED BY <3>2, <3>3, <3>4, FirstDeferDef
  <2> QED BY <2>1 DEF Activation, IsFrame, Frame
<1>2. ASSUME NEW f, IsFrame(f), f.pc \in DOMAIN Stmts(f.b)
      PROVE  /\ Past(f).b = f.b /\ Past(f).pc = f.pc + 1 /\ Past(f).reached = f.reached
             /\ Stmts(f.b)[f.pc].op # "defer" => IsFrame(Past(f))
  <2>1. f \in Frame /\ f.b \in Blocks
    BY <1>2 DEF IsFrame
  <2>2. /\ Past(f) \in Frame /\ Past(f).b = f.b /\ Past(f).pc = f.pc + 1 /\ Past(f).iter = 0
        /\ Past(f).reached = f.reached
    <3>2. Past(f) = [b |-> f.b, pc |-> f.pc + 1, iter |-> 0, reached |-> f.reached] /\ f.pc + 1 \in Nat
      BY <2>1, FrameFields
    <3>3. f.b \in Nat /\ f.reached \in Seq(Nat)
      BY <2>1 DEF Frame
    <3> QED BY <3>2, <3>3 DEF Frame
  <2>3. Stmts(f.b) \in Seq(Statement)
    BY <2>1, ProcFacts
  <2>4. Len(Stmts(f.b)) \in Nat /\ DOMAIN Stmts(f.b) = 1 .. Len(Stmts(f.b))
    <3> HIDE DEF Statement
    <3> QED BY <2>3
  <2>5. f.pc + 1 \in 1 .. Len(Stmts(f.b)) + 1 /\ (f.pc + 1) - 1 = f.pc /\ 0 \in 0 .. MaxIter
    BY <1>2, <2>4, StatementsAssumption
  <2>6. Stmts(f.b)[f.pc].op # "defer" => FirstDefer[f.b][f.pc] = f.reached
    BY <1>2, <2>1, FirstDeferDef DEF IsFrame
  <2> QED BY <2>1, <2>2, <2>5, <2>6 DEF IsFrame
<1> QED BY <1>1, <1>2

---------------------------------------------------------------------------
(* The invariant.                                                          *)

Inv ==
    /\ proc \in Procs
    /\ status \in {"parsed", "rejected", "running", "returned", "no value"}
    /\ IF status = "running" THEN Accepted /\ IsChain(stack) ELSE stack = <<>>
    /\ meant.blocks \in Nat /\ did.blocks \in Nat

LEMMA AtFacts ==
    ASSUME Inv, NEW op, At(op)
    PROVE  /\ proc \in Procs /\ Accepted /\ IsChain(stack) /\ IsFrame(Top) /\ Top = stack[1]
           /\ Top.b \in Blocks /\ Top.pc \in DOMAIN Stmts(Top.b)
           /\ Stmt = Stmts(Top.b)[Top.pc] /\ Stmt \in Statement /\ Stmt \in StmtsOf(Top.b) /\ Stmt.op = op
<1>1. status = "running" /\ Top.pc <= Len(Stmts(Top.b)) /\ Stmt.op = op
  BY DEF At
<1>2. proc \in Procs /\ Accepted /\ IsChain(stack) /\ IsFrame(Top) /\ Top = stack[1]
  BY <1>1 DEF Inv, Top, IsChain
<1>3. Top.b \in Blocks /\ Top.pc \in 1 .. Len(Stmts(Top.b)) + 1
  BY <1>2 DEF IsFrame
<1>4. Stmts(Top.b) \in Seq(Statement)
  BY <1>2, <1>3, ProcFacts
<1>5. Len(Stmts(Top.b)) \in Nat /\ DOMAIN Stmts(Top.b) = 1 .. Len(Stmts(Top.b))
  <2> HIDE DEF Statement
  <2> QED BY <1>4
<1>6. Top.pc \in DOMAIN Stmts(Top.b)
  BY <1>1, <1>3, <1>5
<1>7. Stmt = Stmts(Top.b)[Top.pc]
  BY DEF Stmt
<1>8. Stmt \in Statement
  BY <1>2, <1>3, <1>6, <1>7, ProcFacts
<1> QED BY <1>1, <1>2, <1>3, <1>6, <1>7, <1>8 DEF StmtsOf

LEMMA LengthFacts ==
    ASSUME NEW S, S \subseteq Nat, S # {}
    PROVE  Length(S) \in S /\ Length(S) # -1 /\ \A j \in S : Length(S) <= j
<1>1. PICK n \in S : \A m \in S : n <= m
  BY SmallestOf
<1>2. Length(S) = CHOOSE i \in S : \A j \in S : i <= j
  BY DEF Length
<1>3. Length(S) \in S /\ \A j \in S : Length(S) <= j
  BY <1>1, <1>2
<1> QED BY <1>3

(* The blocks an exit is looked for among.                                 *)
IsTarget(s, b) == IF s.label = "" THEN Kind(b) = "Loop" ELSE Label(b) = s.label

(* What the resolver accepted: the loop that a break or continue is about  *)
(* is among the blocks control is in, and it is the one whose label is     *)
(* named, so that the generator, the C statement and the source agree on   *)
(* it - but for a break without a label, which C may read as one out of a  *)
(* switch.                                                                 *)
LEMMA ExitFacts ==
    ASSUME Inv, At("break") \/ At("continue")
    PROVE  LET n == Target(Stmt, InBlocks)
               left == JumpC(Stmt, InBlocks)
           IN  /\ n = GenCDefersLoopBreak(Stmt, InBlocks) /\ n # -1
               /\ n \in 1 .. Len(stack) - 1 /\ Kind(stack[n].b) = "Loop"
               /\ left \in 1 .. Len(stack) - 1 /\ left <= n
               /\ Kind(stack[left].b) = "Loop" \/ (Stmt.op = "break" /\ IsCase(stack[left].b))
               /\ Kind(stack[left].b) = "Loop" \/ Stmt.label # "" => left = n
               /\ \A i \in 1 .. Len(stack) : IsTarget(Stmt, stack[i].b) => n <= i
<1> DEFINE s == Stmt
           Loops == {i \in 1 .. Len(stack) : IsTarget(s, stack[i].b)}
           Ways == {i \in 1 .. Len(stack) : IF s.label # "" THEN Label(stack[i].b) = s.label
                                            ELSE Kind(stack[i].b) = "Loop" \/ (s.op = "break" /\ IsCase(stack[i].b))}
           n == Target(s, InBlocks)
           left == JumpC(s, InBlocks)
<1>1. /\ proc \in Procs /\ Accepted /\ IsChain(stack) /\ Top = stack[1] /\ Top.b \in Blocks
      /\ s \in StmtsOf(Top.b) /\ s.op \in {"break", "continue"}
  BY AtFacts
<1>2. stack \in Seq(Frame) /\ Len(stack) \in Nat /\ Len(stack) > 0 /\ DOMAIN stack = 1 .. Len(stack)
  <2> HIDE DEF Frame
  <2> QED BY <1>1 DEF IsChain
<1>3. /\ InBlocks = BlockStack[Top.b] /\ DOMAIN InBlocks = 1 .. Len(stack)
      /\ \A i \in 1 .. Len(stack) : InBlocks[i] = stack[i].b
  BY <1>1, <1>2, ChainBlocks DEF InBlocks, BlocksOf
<1>4. \A i \in 1 .. Len(stack) : stack[i].b \in Blocks /\ IsFrame(stack[i])
  BY <1>1 DEF IsChain, IsFrame
<1>5. \A i \in 1 .. Len(stack) : Label(stack[i].b) # "" => Kind(stack[i].b) = "Loop"
  BY <1>1, <1>4, ProcFacts
<1>6. Loops # {}
  <2>1. MakeSureInsideLoopBlock(Top.b) /\ MatchLabeledBlock(s, Top.b)
    BY <1>1 DEF Accepted, StmtIsLegal
  <2>2. CASE s.label = ""
    BY <1>3, <2>1, <2>2 DEF MakeSureInsideLoopBlock, IsTarget
  <2>3. CASE s.label # ""
    BY <1>3, <2>1, <2>3 DEF MatchLabeledBlock, IsTarget
  <2> QED BY <2>2, <2>3
<1>7. Loops \subseteq Ways /\ Ways \subseteq Nat /\ Loops \subseteq Nat
  <2>1. \A i \in 1 .. Len(stack) : i \in Nat
    BY <1>2
  <2> HIDE DEF s
  <2> QED BY <2>1 DEF IsTarget
<1>8. n = Length(Loops)
  <2>1. {i \in DOMAIN InBlocks : IsTarget(s, InBlocks[i])} = Loops
    BY <1>3
  <2> QED BY <2>1 DEF Target, IsTarget
<1>9. GenCDefersLoopBreak(s, InBlocks) = Length(Loops)
  <2>1. {i \in DOMAIN InBlocks : Kind(InBlocks[i]) = "Loop" /\ (s.label = "" \/ Label(InBlocks[i]) = s.label)} = Loops
    BY <1>3, <1>5 DEF IsTarget
  <2> QED BY <2>1 DEF GenCDefersLoopBreak
<1>10. left = Length(Ways)
  <2>1. CASE s.label # ""
    <3>1. {i \in DOMAIN InBlocks : Label(InBlocks[i]) = s.label} = Ways
      BY <1>3, <2>1
    <3> QED BY <2>1, <3>1 DEF JumpC
  <2>2. CASE s.label = ""
    <3>1. {i \in DOMAIN InBlocks : Kind(InBlocks[i]) = "Loop" \/ (s.op = "break" /\ IsCase(InBlocks[i]))} = Ways
      BY <1>3, <2>2
    <3> QED BY <2>2, <3>1 DEF JumpC
  <2> QED BY <2>1, <2>2
<1>11. n \in Loops /\ n # -1 /\ \A j \in Loops : n <= j
  <2> HIDE DEF Loops, n
  <2> QED BY <1>6, <1>7, <1>8, LengthFacts
<1>12. left \in Ways /\ \A j \in Ways : left <= j
  <2> HIDE DEF Loops, Ways, left
  <2> QED BY <1>6, <1>7, <1>10, LengthFacts
<1>13. n \in 1 .. Len(stack) /\ IsTarget(s, stack[n].b) /\ Kind(stack[n].b) = "Loop"
  BY <1>5, <1>11 DEF IsTarget
<1>14. /\ left \in 1 .. Len(stack) /\ left <= n
       /\ Kind(stack[left].b) = "Loop" \/ (s.op = "break" /\ IsCase(stack[left].b))
  <2> HIDE DEF left, n, s
  <2> QED BY <1>5, <1>7, <1>11, <1>12
<1>15. Kind(stack[left].b) = "Loop" \/ s.label # "" => left = n
  <2>1. SUFFICES ASSUME Kind(stack[left].b) = "Loop" \/ s.label # ""
                 PROVE  left = n
    OBVIOUS
  <2>2. left \in Loops
    BY <1>12, <2>1 DEF IsTarget
  <2>3. n <= left /\ n \in Nat /\ left \in Nat
    BY <1>11, <1>13, <1>14, <2>2
  <2> HIDE DEF left, n
  <2> QED BY <1>14, <2>3
<1>16. \A i \in 1 .. Len(stack) : Kind(stack[i].b) = "Loop" \/ IsCase(stack[i].b) => i \in 1 .. Len(stack) - 1
  <2>1. stack[Len(stack)].b = 1
    BY <1>1 DEF IsChain
  <2>2. Kind(1) = "Proc" /\ Parent(1) = 0
    <3>1. 1 \in Blocks /\ 1 \in Nat
      BY <1>1, ProcFacts
    <3>2. Parent(1) # 0 => Parent(1) \in Nat /\ Parent(1) < 1
      BY <1>1, <3>1, ParentFacts
    <3>3. (Kind(1) = "Proc") = (1 = 1)
      BY <1>1, <3>1, ProcFacts
    <3> QED BY <3>2, <3>3
  <2>3. Kind(stack[Len(stack)].b) # "Loop" /\ ~ IsCase(stack[Len(stack)].b)
    BY <2>1, <2>2 DEF IsCase
  <2> QED BY <1>2, <2>3
<1>17. \A i \in 1 .. Len(stack) : IsTarget(s, stack[i].b) => n <= i
  BY <1>11
<1> HIDE DEF n, left, s
<1> QED BY <1>8, <1>9, <1>11, <1>13, <1>14, <1>15, <1>16, <1>17 DEF n, left, s

LEMMA SameAccepted ==
    ASSUME UNCHANGED proc
    PROVE  Accepted' = Accepted
BY SameProc DEF Accepted, StmtIsLegal, MakeSureNoDeferBlock, MakeSureInsideLoopBlock, MatchLabeledBlock,
                StmtsOf, Stmts, Blocks, Kind, Label

LEMMA StillRunning ==
    ASSUME Inv, UNCHANGED <<proc, status>>, status = "running", NEW t, t = stack', IsChain(t),
           meant'.blocks \in Nat /\ did'.blocks \in Nat
    PROVE  Inv'
<1>1. IsChain(stack)' /\ Accepted' = Accepted
  BY ChainNext, SameAccepted
<1> QED BY <1>1 DEF Inv

(* What each step makes of the chain.                                      *)
LEMMA SimpleChain ==
    ASSUME Inv, Simple \/ EndLoop \/ (EnterBlock /\ stack' = <<Past(Top)>> \o Below)
    PROVE  IsFrame(Past(Top)) /\ Past(Top).b = Top.b /\ IsChain(<<Past(Top)>> \o Below) /\ stack' = <<Past(Top)>> \o Below
<1>1. PICK op \in {"plain", "for", "block", "if", "switch"} : At(op)
  BY DEF Simple, EndLoop, EnterBlock
<1>2. IsFrame(Past(Top)) /\ Past(Top).b = Top.b
  BY <1>1, AtFacts, FrameFacts
<1>3. IsChain(<<Past(Top)>> \o Tail(stack))
  BY <1>1, <1>2, AtFacts, ChainMove
<1> QED BY <1>2, <1>3 DEF Below, Simple, EndLoop, Within

LEMMA DeferChain ==
    ASSUME Inv, Defer
    PROVE  IsChain(<<[Past(Top) EXCEPT !.reached = Stmt.bodies \o @]>> \o Below)
<1> DEFINE f == [Past(Top) EXCEPT !.reached = Stmt.bodies \o @]
<1>1. At("defer")
  BY DEF Defer
<1>2. /\ proc \in Procs /\ IsChain(stack) /\ IsFrame(Top) /\ Top = stack[1] /\ Top.b \in Blocks /\ Top \in Frame
      /\ Top.pc \in DOMAIN Stmts(Top.b) /\ Stmt = Stmts(Top.b)[Top.pc] /\ Stmt.op = "defer"
  BY <1>1, AtFacts DEF IsFrame
<1>3. FirstDefer[Top.b][Top.pc] = Stmt.bodies \o Top.reached
  BY <1>2, FirstDeferDef DEF IsFrame
<1>4. DOMAIN Stmts(Top.b) = 1 .. Len(Stmts(Top.b)) /\ Len(Stmts(Top.b)) \in Nat
  <2>1. Stmts(Top.b) \in Seq(Statement)
    BY <1>2, ProcFacts
  <2> HIDE DEF Statement
  <2> QED BY <2>1
<1>5. Stmt.bodies \o Top.reached \in Seq(Nat)
  <2>1. Stmt.bodies \in Seq(Nat)
    BY <1>1, AtFacts DEF Statement
  <2>2. Top.reached \in Seq(Nat)
    BY <1>2 DEF Frame
  <2> QED BY <2>1, <2>2
<1>6. f = [b |-> Top.b, pc |-> Top.pc + 1, iter |-> 0, reached |-> Stmt.bodies \o Top.reached]
  BY <1>2, FrameFields
<1> HIDE DEF f
<1>7. f.b = Top.b /\ f.pc = Top.pc + 1 /\ f.iter = 0 /\ f.reached = Stmt.bodies \o Top.reached
  BY <1>6
<1>8. f \in Frame
  <2>1. Top.b \in Nat /\ Top.pc + 1 \in Nat
    BY <1>2, FrameFields
  <2> QED BY <1>5, <1>6, <2>1 DEF Frame
<1>9. f.pc \in 1 .. Len(Stmts(f.b)) + 1 /\ f.pc - 1 = Top.pc /\ f.iter \in 0 .. MaxIter
  <2>1. Top.pc + 1 \in 1 .. Len(Stmts(Top.b)) + 1 /\ (Top.pc + 1) - 1 = Top.pc /\ 0 \in 0 .. MaxIter
    BY <1>2, <1>4, StatementsAssumption
  <2> QED BY <1>7, <2>1
<1>10. IsFrame(f)
  BY <1>2, <1>3, <1>7, <1>8, <1>9 DEF IsFrame
<1>11. IsChain(<<f>> \o Tail(stack))
  BY <1>2, <1>7, <1>10, ChainMove
<1> QED BY <1>11 DEF f, Below

LEMMA EnterChain ==
    ASSUME Inv, At("block") \/ At("if") \/ At("switch"), NEW k \in DOMAIN Stmt.bodies
    PROVE  LET c == Stmt.bodies[k]
               r == <<Past(Top)>> \o Below
           IN  IsChain(r) /\ IsChain(<<Activation(c)>> \o r) /\ c \in Blocks
<1> DEFINE c == Stmt.bodies[k]
           r == <<Past(Top)>> \o Below
<1>1. /\ proc \in Procs /\ IsChain(stack) /\ IsFrame(Top) /\ Top = stack[1] /\ Top.b \in Blocks
      /\ Top.pc \in DOMAIN Stmts(Top.b) /\ Stmt = Stmts(Top.b)[Top.pc] /\ Stmt.op \in {"block", "if", "switch"}
  BY AtFacts
<1>2. IsFrame(Past(Top)) /\ Past(Top).b = Top.b /\ Past(Top).pc = Top.pc + 1
  BY <1>1, FrameFacts
<1>3. IsChain(r) /\ r[1] = Past(Top)
  BY <1>1, <1>2, ChainMove DEF Below
<1>4. Within1(Top.b, Top.pc, c)
  BY <1>1 DEF Within1, Holds
<1>5. c \in Blocks
  BY <1>1, <1>4, PlaceFacts
<1>6. Stands(Past(Top), c)
  BY <1>1, <1>2, <1>4 DEF Stands, StandsAt
<1>7. IsFrame(Activation(c)) /\ Activation(c).b = c
  BY <1>1, <1>5, FrameFacts
<1> HIDE DEF c, r
<1>8. IsChain(<<Activation(c)>> \o r)
  BY <1>3, <1>6, <1>7, ChainPush
<1> QED BY <1>3, <1>5, <1>8 DEF c, r

LEMMA IterateChain ==
    ASSUME Inv, Iterate
    PROVE  LET c == Stmt.bodies[1]
               f == [Top EXCEPT !.iter = @ + 1]
               r == <<f>> \o Below
           IN  IsChain(r) /\ IsChain(<<Activation(c)>> \o r) /\ c \in Blocks /\ f.b = Top.b /\ f.pc = Top.pc
<1> DEFINE c == Stmt.bodies[1]
           f == [Top EXCEPT !.iter = @ + 1]
           r == <<f>> \o Below
<1>1. At("for") /\ Top.iter < MaxIter
  BY DEF Iterate
<1>2. /\ proc \in Procs /\ IsChain(stack) /\ IsFrame(Top) /\ Top = stack[1] /\ Top.b \in Blocks /\ Top \in Frame
      /\ Top.pc \in DOMAIN Stmts(Top.b) /\ Stmt = Stmts(Top.b)[Top.pc] /\ Stmt.op = "for" /\ Stmt \in Statement
  BY <1>1, AtFacts DEF IsFrame
<1>3. f = [b |-> Top.b, pc |-> Top.pc, iter |-> Top.iter + 1, reached |-> Top.reached]
  <2>1. Top = [b |-> Top.b, pc |-> Top.pc, iter |-> Top.iter, reached |-> Top.reached]
    BY <1>2 DEF Frame
  <2> QED BY <2>1
<1>4. f.b = Top.b /\ f.pc = Top.pc /\ f.iter = Top.iter + 1 /\ f.reached = Top.reached
  BY <1>3
<1>5. f \in Frame /\ f.iter \in 0 .. MaxIter
  <2>1. Top.b \in Nat /\ Top.pc \in Nat /\ Top.iter \in Nat /\ Top.reached \in Seq(Nat)
    BY <1>2 DEF Frame
  <2>2. Top.iter + 1 \in Nat /\ Top.iter + 1 \in 0 .. MaxIter
    BY <1>1, <2>1, StatementsAssumption
  <2> QED BY <1>3, <1>4, <2>1, <2>2 DEF Frame
<1> HIDE DEF f
<1>6. IsFrame(f)
  BY <1>2, <1>4, <1>5 DEF IsFrame
<1>7. IsChain(r) /\ r[1] = f
  BY <1>2, <1>4, <1>6, ChainMove DEF Below
<1>8. Within1(Top.b, Top.pc, c)
  <2>1. Len(Stmt.bodies) = 1 /\ Stmt.bodies \in Seq(Nat)
    BY <1>2, ProcFacts DEF Statement
  <2>2. 1 \in DOMAIN Stmt.bodies
    BY <2>1
  <2> QED BY <1>2, <2>2 DEF Within1, Holds
<1>9. c \in Blocks
  BY <1>2, <1>8, PlaceFacts
<1>10. Stands(f, c)
  BY <1>2, <1>4, <1>8 DEF Stands, StandsAt
<1>11. IsFrame(Activation(c)) /\ Activation(c).b = c
  BY <1>2, <1>9, FrameFacts
<1> HIDE DEF c, r
<1>12. IsChain(<<Activation(c)>> \o r)
  BY <1>7, <1>10, <1>11, ChainPush
<1> QED BY <1>4, <1>7, <1>9, <1>12 DEF c, r, f

(* A block ends: control goes on in the block below, or in the next case.  *)
LEMMA EndBlockChain ==
    ASSUME Inv, EndBlock
    PROVE  /\ IsChain(stack) /\ Top = stack[1] /\ Len(stack) > 1 /\ IsFrame(Top)
           /\ IsChain(Below) /\ Below[1] = stack[2]
           /\ \E i : /\ StandsAt(stack[2], i, Top.b)
                     /\ \/ stack' = Below
                        \/ \E c \in Blocks : /\ StandsAt(stack[2], i, c) /\ stack' = <<Activation(c)>> \o Below
                                             /\ IsChain(<<Activation(c)>> \o Below)
<1>1. /\ proc \in Procs /\ IsChain(stack) /\ Top = stack[1] /\ Len(stack) \in Nat /\ Len(stack) > 1
      /\ IsFrame(Top) /\ status = "running"
  BY DEF EndBlock, Inv, IsChain, Top
<1>2. IsChain(Below) /\ Below[1] = stack[2]
  <2>1. 1 \in 1 .. Len(stack) - 1 /\ 1 + 1 = 2
    BY <1>1
  <2> QED BY <1>1, <2>1, ChainTail DEF Below
<1>3. PICK i : StandsAt(stack[2], i, Top.b)
  <2>1. 1 \in 1 .. Len(stack) - 1 /\ 1 + 1 = 2
    BY <1>1
  <2>2. Stands(stack[1 + 1], stack[1].b)
    BY <1>1, <2>1 DEF IsChain
  <2> QED BY <1>1, <2>1, <2>2 DEF Stands
<1>4. Within1(stack[2].b, i, Top.b) /\ StmtOf(Top.b) = Stmts(stack[2].b)[i]
  <2>1. Within1(stack[2].b, i, Top.b)
    BY <1>3 DEF StandsAt
  <2> QED BY <1>1, <2>1, PlaceFacts
<1>5. CASE stack' = Below
  BY <1>1, <1>2, <1>3, <1>5
<1>6. CASE stack' # Below
  <2> DEFINE cases == StmtOf(Top.b).bodies
  <2>1. PICK k \in 2 .. Len(cases) : stack' = <<Activation(cases[k])>> \o Below
    BY <1>6 DEF EndBlock, Enter
  <2>2. k \in DOMAIN cases
    <3>1. Stmts(stack[2].b)[i] \in Statement
      BY <1>1, <1>4, ProcFacts DEF Within1
    <3>2. cases \in Seq(Nat)
      BY <1>4, <3>1 DEF Statement
    <3>3. Len(cases) \in Nat /\ DOMAIN cases = 1 .. Len(cases)
      BY <3>2
    <3> HIDE DEF cases
    <3> QED BY <3>3
  <2> DEFINE c == cases[k]
  <2>3. Within1(stack[2].b, i, c)
    BY <1>4, <2>2 DEF Within1, Holds
  <2>4. c \in Blocks
    BY <1>1, <2>3, PlaceFacts
  <2>5. StandsAt(stack[2], i, c)
    BY <1>3, <2>3 DEF StandsAt
  <2>6. Stands(Below[1], c)
    BY <1>2, <1>4, <2>5 DEF Stands, Within1
  <2>7. IsFrame(Activation(c)) /\ Activation(c).b = c
    BY <1>1, <2>4, FrameFacts
  <2>8. IsChain(<<Activation(c)>> \o Below)
    <3> HIDE DEF c
    <3> QED BY <1>2, <2>6, <2>7, ChainPush
  <2> QED BY <1>1, <1>2, <1>3, <2>1, <2>4, <2>5, <2>8
<1> QED BY <1>5, <1>6

(* A jump leaves some of the blocks; one out of a loop goes behind it.     *)
LEMMA BreakChain ==
    ASSUME Inv, Break
    PROVE  LET left == JumpC(Stmt, InBlocks)
               rest == SubSeq(stack, left + 1, Len(stack))
           IN  /\ left \in 1 .. Len(stack) - 1 /\ IsChain(rest) /\ rest[1] = stack[left + 1]
               /\ \/ stack' = rest /\ ~(Stmt.op = "break" /\ Kind(stack[left].b) = "Loop")
                  \/ /\ Stmt.op = "break" /\ Kind(stack[left].b) = "Loop"
                     /\ stack' = <<Past(rest[1])>> \o Tail(rest)
                     /\ IsFrame(Past(rest[1])) /\ Past(rest[1]).b = rest[1].b
                     /\ IsChain(<<Past(rest[1])>> \o Tail(rest))
                     /\ Within1(rest[1].b, rest[1].pc, stack[left].b)
<1> DEFINE left == JumpC(Stmt, InBlocks)
           rest == SubSeq(stack, left + 1, Len(stack))
<1>1. At("break") \/ At("continue")
  BY DEF Break
<1>2. proc \in Procs /\ IsChain(stack)
  BY <1>1, AtFacts
<1>3. left \in 1 .. Len(stack) - 1 /\ Len(stack) \in Nat
  <2> HIDE DEF left
  <2>1. left \in 1 .. Len(stack) - 1
    BY <1>1, ExitFacts DEF left
  <2> QED BY <1>2, <2>1 DEF IsChain
<1>4. IF Stmt.op = "break" /\ Kind(stack[left].b) = "Loop"
      THEN stack' = <<Past(rest[1])>> \o Tail(rest) ELSE stack' = rest
  BY DEF Break, Within
<1> HIDE DEF left
<1>5. IsChain(rest) /\ rest[1] = stack[left + 1]
  <2>1. left \in 0 .. Len(stack) - 1 /\ 1 \in 1 .. Len(stack) - left /\ 1 + left = left + 1
    BY <1>3
  <2> QED BY <1>2, <2>1, ChainRest
<1> HIDE DEF rest
<1>6. CASE Stmt.op = "break" /\ Kind(stack[left].b) = "Loop"
  <2>1. PICK i : StandsAt(rest[1], i, stack[left].b)
    BY <1>2, <1>3, <1>5 DEF IsChain, Stands
  <2>2. Within1(rest[1].b, i, stack[left].b)
    BY <2>1 DEF StandsAt
  <2>3. Kind(stack[left].b) = BodyKind(Stmts(rest[1].b)[i].op)
    BY <1>2, <2>2, PlaceFacts
  <2>4. Stmts(rest[1].b)[i].op = "for"
    BY <1>6, <2>3 DEF BodyKind
  <2>5. rest[1].pc = i /\ i \in DOMAIN Stmts(rest[1].b)
    BY <2>1, <2>2, <2>4 DEF StandsAt, Within1
  <2>6. IsFrame(rest[1])
    BY <1>5 DEF IsChain
  <2>7. IsFrame(Past(rest[1])) /\ Past(rest[1]).b = rest[1].b
    BY <1>2, <2>4, <2>5, <2>6, FrameFacts
  <2>8. IsChain(<<Past(rest[1])>> \o Tail(rest))
    BY <1>5, <2>7, ChainMove
  <2> QED BY <1>3, <1>4, <1>5, <1>6, <2>2, <2>5, <2>7, <2>8 DEF left, rest
<1>7. CASE ~(Stmt.op = "break" /\ Kind(stack[left].b) = "Loop")
  BY <1>3, <1>4, <1>5, <1>7 DEF left, rest
<1> QED BY <1>6, <1>7

LEMMA InvStep == Inv /\ [Next]_vars => Inv'
<1> SUFFICES ASSUME Inv, [Next]_vars
             PROVE  Inv'
  OBVIOUS
<1>0. proc \in Procs
  BY DEF Inv
<1>1. CASE UNCHANGED vars
  <2>1. UNCHANGED proc /\ UNCHANGED <<status, stack, meant, did>>
    BY <1>1 DEF vars
  <2>2. CASE status = "running"
    <3>1. IsChain(stack)' /\ Accepted' = Accepted
      BY <2>1, <2>2, ChainNext, SameAccepted DEF Inv
    <3> QED BY <2>1, <2>2, <3>1 DEF Inv
  <2>3. CASE status # "running"
    BY <2>1, <2>3 DEF Inv
  <2> QED BY <2>2, <2>3
<1>2. CASE ResolveProcBody
  <2>1. UNCHANGED <<proc, meant, did>> /\ status = "parsed" /\ stack = <<>>
    BY <1>2 DEF ResolveProcBody, Inv
  <2>2. CASE Accepted
    <3>1. stack' = <<Activation(1)>> \o <<>> /\ status' = "running"
      BY <1>2, <2>2 DEF ResolveProcBody, Enter
    <3>2. 1 \in Blocks /\ IsFrame(Activation(1)) /\ Activation(1).b = 1
      BY <1>0, ProcFacts, FrameFacts
    <3>3. Activation(1) \in Frame
      BY <3>2 DEF IsFrame
    <3> DEFINE t == <<Activation(1)>> \o <<>>
    <3>4. t \in Seq(Frame) /\ Len(t) = 1 /\ t[1] = Activation(1)
      <4> HIDE DEF Frame, Activation
      <4> QED BY <3>3
    <3> HIDE DEF t
    <3>5. \A k \in 1 .. Len(t) : k = 1
      BY <3>4
    <3>6. \A k \in 1 .. Len(t) - 1 : FALSE
      BY <3>4
    <3>7. IsChain(t)
      BY <3>2, <3>4, <3>5, <3>6 DEF IsChain
    <3>8. IsChain(stack)' /\ Accepted'
      BY <2>1, <2>2, <3>1, <3>7, ChainNext, SameAccepted DEF t
    <3> QED BY <2>1, <3>1, <3>8 DEF Inv
  <2>3. CASE ~Accepted
    <3>1. status' = "rejected" /\ stack' = <<>>
      BY <1>2, <2>1, <2>3 DEF ResolveProcBody
    <3> QED BY <2>1, <3>1 DEF Inv
  <2> QED BY <2>2, <2>3
<1>3. CASE Simple
  <2>1. UNCHANGED <<proc, status, meant, did>> /\ status = "running"
    BY <1>3 DEF Simple, NoExit, At
  <2>2. PICK t : t = stack'
    OBVIOUS
  <2>3. IsChain(t)
    BY <1>3, <2>2, SimpleChain
  <2> QED BY <2>1, <2>2, <2>3, StillRunning DEF Inv
<1>4. CASE Defer
  <2>1. UNCHANGED <<proc, status, meant, did>> /\ status = "running"
    BY <1>4 DEF Defer, NoExit, At
  <2>2. PICK t : t = stack'
    OBVIOUS
  <2>3. IsChain(t)
    BY <1>4, <2>2, DeferChain DEF Defer, Within
  <2> QED BY <2>1, <2>2, <2>3, StillRunning DEF Inv
<1>5. CASE EnterBlock
  <2>1. UNCHANGED <<proc, status, meant, did>> /\ status = "running"
    BY <1>5 DEF EnterBlock, NoExit, At
  <2>2. PICK t : t = stack'
    OBVIOUS
  <2>3. CASE stack' = <<Past(Top)>> \o Below
    BY <1>5, <2>1, <2>2, <2>3, SimpleChain, StillRunning DEF Inv
  <2>4. CASE stack' # <<Past(Top)>> \o Below
    <3>1. PICK k \in DOMAIN Stmt.bodies : stack' = <<Activation(Stmt.bodies[k])>> \o (<<Past(Top)>> \o Below)
      BY <1>5, <2>4 DEF EnterBlock, Enter, Within
    <3>2. IsChain(t)
      BY <1>5, <2>2, <3>1, EnterChain DEF EnterBlock
    <3> QED BY <2>1, <2>2, <3>2, StillRunning DEF Inv
  <2> QED BY <2>3, <2>4
<1>6. CASE Iterate
  <2>1. UNCHANGED <<proc, status, meant, did>> /\ status = "running"
    BY <1>6 DEF Iterate, NoExit, At
  <2>2. PICK t : t = stack'
    OBVIOUS
  <2>3. IsChain(t)
    BY <1>6, <2>2, IterateChain DEF Iterate, Enter
  <2> QED BY <2>1, <2>2, <2>3, StillRunning DEF Inv
<1>7. CASE EndLoop
  <2>1. UNCHANGED <<proc, status, meant, did>> /\ status = "running"
    BY <1>7 DEF EndLoop, NoExit, At
  <2>2. PICK t : t = stack'
    OBVIOUS
  <2>3. IsChain(t)
    BY <1>7, <2>2, SimpleChain
  <2> QED BY <2>1, <2>2, <2>3, StillRunning DEF Inv
<1>8. CASE EndBlock
  <2>1. UNCHANGED <<proc, status>> /\ status = "running" /\ meant'.blocks \in Nat /\ did'.blocks \in Nat
    BY <1>8 DEF EndBlock, Means, Does
  <2>2. PICK t : t = stack'
    OBVIOUS
  <2>3. IsChain(t)
    BY <1>8, <2>2, EndBlockChain
  <2> QED BY <2>1, <2>2, <2>3, StillRunning
<1>9. CASE EndProc
  BY <1>9 DEF EndProc, Inv, Means, Does
<1>10. CASE Return
  <2>1. Len(stack) \in Nat
    BY <1>10, AtFacts DEF Return, IsChain
  <2> QED BY <1>10, <2>1 DEF Return, Inv, Means, Does
<1>11. CASE Break
  <2>1. UNCHANGED <<proc, status>> /\ status = "running"
    BY <1>11 DEF Break, At
  <2>2. PICK t : t = stack'
    OBVIOUS
  <2>3. IsChain(t)
    BY <1>11, <2>2, BreakChain
  <2>4. Target(Stmt, InBlocks) \in Nat /\ JumpC(Stmt, InBlocks) \in Nat
    <3>1. At("break") \/ At("continue")
      BY <1>11 DEF Break
    <3>2. Len(stack) \in Nat
      BY <3>1, AtFacts DEF IsChain
    <3>3. Target(Stmt, InBlocks) \in 1 .. Len(stack) - 1 /\ JumpC(Stmt, InBlocks) \in 1 .. Len(stack) - 1
      BY <3>1, ExitFacts
    <3>4. \A n \in 1 .. Len(stack) - 1 : n \in Nat
      BY <3>2
    <3> QED BY <3>3, <3>4
  <2>5. meant'.blocks = Target(Stmt, InBlocks) /\ did'.blocks = JumpC(Stmt, InBlocks)
    BY <1>11 DEF Break, Means, Does
  <2> QED BY <2>1, <2>2, <2>3, <2>4, <2>5, StillRunning
<1> QED BY <1>1, <1>2, <1>3, <1>4, <1>5, <1>6, <1>7, <1>8, <1>9, <1>10, <1>11 DEF Next

(* Control is always in a chain of blocks of an accepted procedure.        *)
THEOREM Invariant == Spec => []Inv
<1>1. Init => Inv
  BY DEF Init, Inv, NoDefers
<1> QED BY <1>1, InvStep, PTL DEF Spec

---------------------------------------------------------------------------
(* The properties.                                                         *)

LEMMA InvTyped == Inv => TypeOK
<1> SUFFICES ASSUME Inv
             PROVE  TypeOK
  OBVIOUS
<1>1. CASE status = "running"
  <2>1. IsChain(stack) /\ proc \in Procs /\ Top = stack[1]
    BY <1>1 DEF Inv, Top
  <2>2. stack \in Seq(Frame) /\ DOMAIN stack = 1 .. Len(stack)
    <3> HIDE DEF Frame
    <3> QED BY <2>1 DEF IsChain
  <2>3. ASSUME NEW i \in DOMAIN stack
        PROVE  IsActivation(stack[i])
    <3>1. IsFrame(stack[i])
      BY <2>1, <2>2 DEF IsChain
    <3>2. stack[i].b \in Blocks /\ stack[i].pc \in 1 .. Len(Stmts(stack[i].b)) + 1
      BY <3>1 DEF IsFrame
    <3>3. Len(Stmts(stack[i].b)) \in Nat
      <4>1. Stmts(stack[i].b) \in Seq(Statement)
        BY <2>1, <3>2, ProcFacts
      <4> HIDE DEF Statement
      <4> QED BY <4>1
    <3>4. stack[i].pc - 1 \in 0 .. Len(Stmts(stack[i].b))
      BY <3>2, <3>3
    <3>5. stack[i].reached \in Seq(Blocks)
      BY <2>1, <3>1, <3>2, <3>4, FirstDeferDef DEF IsFrame
    <3>6. \A j \in DOMAIN stack[i].reached : stack[i].reached[j] \in Blocks
      BY <3>5
    <3> QED BY <3>1, <3>6 DEF IsFrame, IsActivation
  <2>4. InBlocks = BlockStack[Top.b]
    BY <2>1, ChainBlocks DEF InBlocks, BlocksOf
  <2> QED BY <2>3, <2>4 DEF TypeOK, Inv
<1>2. CASE status # "running"
  <2>1. stack = <<>> /\ DOMAIN <<>> = {}
    <3>1. DOMAIN <<>> = {}
      OBVIOUS
    <3> QED BY <1>2, <3>1 DEF Inv
  <2> QED BY <1>2, <2>1 DEF TypeOK, Inv
<1> QED BY <1>1, <1>2

(* Control is in a chain of blocks, each written in the one below it, and  *)
(* the stack of blocks the generator works with is the one the resolver    *)
(* had when it checked the statement.                                      *)
THEOREM TypeCorrect == Spec => []TypeOK
BY Invariant, InvTyped, PTL

LEMMA InvTargets == Inv => ExitsHaveATarget
<1> SUFFICES ASSUME Inv
             PROVE  ExitsHaveATarget
  OBVIOUS
<1>1. ASSUME At("break") \/ At("continue")
      PROVE  LET n == GenCDefersLoopBreak(Stmt, InBlocks)
             IN  n # -1 /\ \A i \in 1 .. n : Kind(stack[i].b) # "Proc"
  <2> DEFINE n == GenCDefersLoopBreak(Stmt, InBlocks)
  <2>1. n \in 1 .. Len(stack) - 1 /\ n # -1
    BY <1>1, ExitFacts
  <2>2. proc \in Procs /\ IsChain(stack)
    BY <1>1, AtFacts
  <2>3. Len(stack) \in Nat
    BY <2>2 DEF IsChain
  <2> HIDE DEF n
  <2>4. ASSUME NEW i \in 1 .. n
        PROVE  Kind(stack[i].b) # "Proc"
    <3>1. i \in 1 .. Len(stack) - 1 /\ i + 1 \in 1 .. Len(stack)
      BY <2>1, <2>3
    <3>2. PICK j : Within1(stack[i + 1].b, j, stack[i].b)
      BY <2>2, <3>1 DEF IsChain, Stands, StandsAt
    <3>3. stack[i].b \in Blocks /\ stack[i + 1].b \in Blocks /\ stack[i + 1].b < stack[i].b
      BY <2>2, <3>2, PlaceFacts DEF Within1
    <3>4. stack[i].b # 1
      <4>1. stack[i].b \in Nat \ {0} /\ stack[i + 1].b \in Nat \ {0}
        BY <2>2, <3>3, ProcFacts
      <4> QED BY <3>3, <4>1
    <3>5. (Kind(stack[i].b) = "Proc") = (stack[i].b = 1)
      BY <2>2, <3>3, ProcFacts
    <3> QED BY <3>4, <3>5
  <2> QED BY <2>1, <2>4 DEF n
<1>2. ASSUME At("return")
      PROVE  Kind(stack[Len(stack)].b) = "Proc"
  <2>1. proc \in Procs /\ IsChain(stack)
    BY <1>2, AtFacts
  <2>2. stack[Len(stack)].b = 1 /\ 1 \in Blocks
    BY <2>1, ProcFacts DEF IsChain
  <2>3. (Kind(1) = "Proc") = (1 = 1)
    BY <2>1, <2>2, ProcFacts
  <2> QED BY <2>2, <2>3
<1> QED BY <1>1, <1>2 DEF ExitsHaveATarget

(* The assertions of LC_GenCDefersLoopBreak and LC_GenCDefersReturn, for   *)
(* every procedure the resolver accepts.                                   *)
THEOREM TargetsExist == Spec => []ExitsHaveATarget
BY Invariant, InvTargets, PTL

---------------------------------------------------------------------------
(* Where the generated code does what the source says.                     *)

(* C reads a break without a label as one out of the nearest switch, so    *)
(* the loop it is about has to be inside of that.                          *)
BreaksLeaveLoops ==
    \A b \in Blocks : \A s \in StmtsOf(b) :
        s.op = "break" /\ s.label = "" =>
            \A c \in Blocks, j \in DOMAIN BlockStack[b] :
                BlockStack[b][j] = c /\ IsCase(c) => \E i \in 1 .. j - 1 : Kind(BlockStack[b][i]) = "Loop"

(* All of a block's defers are printed, so there must be none behind the   *)
(* statement through which control leaves the block.                       *)
Leaves(s, blocks, k) == s.op = "return" \/ \A i \in 1 .. k - 1 : ~ IsTarget(s, blocks[i])
OnTheWay(l, blocks, k, i) == IF k = 1 THEN i = l ELSE Holds(Stmts(blocks[k])[i], blocks[k - 1])
DefersComeFirst ==
    \A b \in Blocks : \A l \in DOMAIN Stmts(b) :
        Stmts(b)[l].op \in {"return", "break", "continue"} =>
            \A k \in DOMAIN BlockStack[b] :
                Leaves(Stmts(b)[l], BlockStack[b], k) =>
                    \A i, j \in DOMAIN Stmts(BlockStack[b][k]) :
                        OnTheWay(l, BlockStack[b], k, i) /\ i < j => Stmts(BlockStack[b][k])[j].op # "defer"

LEMMA SameHypotheses ==
    ASSUME UNCHANGED proc
    PROVE  (BreaksLeaveLoops' => BreaksLeaveLoops) /\ (DefersComeFirst' => DefersComeFirst)
<1>1. ASSUME BreaksLeaveLoops'
      PROVE  BreaksLeaveLoops
  <2>1. \A b : IsCase(b)' = IsCase(b)
    <3>1. \A b : Parent(b)' = Parent(b)
      BY SameProc DEF Parent, Blocks, StmtsOf, Stmts, Holds
    <3>2. \A b : StmtOf(b)' = StmtOf(b)
      BY SameProc, <3>1 DEF StmtOf, Parent, Blocks, StmtsOf, Stmts, Holds
    <3> QED BY <3>1, <3>2 DEF IsCase
  <2> SUFFICES ASSUME NEW b \in Blocks, NEW s \in StmtsOf(b), s.op = "break", s.label = "",
                      NEW c \in Blocks, NEW j \in DOMAIN BlockStack[b], BlockStack[b][j] = c, IsCase(c)
               PROVE  \E i \in 1 .. j - 1 : Kind(BlockStack[b][i]) = "Loop"
    BY DEF BreaksLeaveLoops
  <2>2. IsCase(c)' /\ b \in Blocks' /\ s \in StmtsOf(b)' /\ c \in Blocks' /\ BlockStack' = BlockStack
    BY <2>1, SameProc DEF StmtsOf, Stmts
  <2>3. \E i \in 1 .. j - 1 : proc'.blocks[BlockStack[b][i]].kind = "Loop"
    BY <1>1, <2>2 DEF BreaksLeaveLoops, Kind
  <2> QED BY <2>3 DEF Kind
<1>2. ASSUME DefersComeFirst'
      PROVE  DefersComeFirst
  <2> SUFFICES ASSUME NEW b \in Blocks, NEW l \in DOMAIN Stmts(b),
                      Stmts(b)[l].op \in {"return", "break", "continue"},
                      NEW k \in DOMAIN BlockStack[b], Leaves(Stmts(b)[l], BlockStack[b], k),
                      NEW i \in DOMAIN Stmts(BlockStack[b][k]), NEW j \in DOMAIN Stmts(BlockStack[b][k]),
                      OnTheWay(l, BlockStack[b], k, i), i < j
               PROVE  Stmts(BlockStack[b][k])[j].op # "defer"
    BY DEF DefersComeFirst
  <2> QED BY <1>2, SameProc DEF DefersComeFirst, Leaves, IsTarget, OnTheWay, Blocks, Stmts, Holds, Kind, Label
<1> QED BY <1>1, <1>2

(* A block whose remaining statements are no defers has reached them all.  *)
LEMMA AllReached ==
    ASSUME proc \in Procs, NEW f, IsFrame(f), \A j \in DOMAIN Stmts(f.b) : f.pc <= j => Stmts(f.b)[j].op # "defer"
    PROVE  f.reached = GenCDefers(f.b)
<1> DEFINE L == Len(Stmts(f.b))
           T == {n \in Nat : (f.pc - 1) + n <= L => FirstDefer[f.b][(f.pc - 1) + n] = f.reached}
<1>1. f.b \in Blocks /\ f.pc \in 1 .. L + 1 /\ f.reached = FirstDefer[f.b][f.pc - 1]
  BY DEF IsFrame
<1>2. L \in Nat /\ DOMAIN Stmts(f.b) = 1 .. L
  <2>1. Stmts(f.b) \in Seq(Statement)
    BY <1>1, ProcFacts
  <2> HIDE DEF Statement
  <2> QED BY <2>1
<1> HIDE DEF L
<1>3. 0 \in T
  <2>1. (f.pc - 1) + 0 = f.pc - 1
    BY <1>1, <1>2
  <2> QED BY <1>1, <2>1
<1>4. ASSUME NEW n \in Nat, n \in T
      PROVE  n + 1 \in T
  <2> SUFFICES ASSUME (f.pc - 1) + (n + 1) <= L
               PROVE  FirstDefer[f.b][(f.pc - 1) + (n + 1)] = f.reached
    OBVIOUS
  <2> DEFINE j == (f.pc - 1) + (n + 1)
  <2>1. j \in 1 .. L /\ j - 1 = (f.pc - 1) + n /\ f.pc <= j /\ (f.pc - 1) + n <= L
    BY <1>1, <1>2
  <2>2. FirstDefer[f.b][j - 1] = f.reached
    BY <1>4, <2>1
  <2> HIDE DEF j
  <2>3. FirstDefer[f.b][j] = f.reached
    BY <1>1, <1>2, <2>1, <2>2, FirstDeferDef
  <2> QED BY <2>3 DEF j
<1> HIDE DEF T
<1>5. Nat \subseteq T
  BY <1>3, <1>4, Induction
<1>6. L - (f.pc - 1) \in Nat /\ (f.pc - 1) + (L - (f.pc - 1)) = L /\ L <= L
  BY <1>1, <1>2
<1>7. FirstDefer[f.b][L] = f.reached
  BY <1>5, <1>6 DEF T
<1> QED BY <1>7 DEF L, GenCDefers

(* The generated code goes through the defers it should, when it leaves    *)
(* the right blocks and all of their defers have been reached.             *)
LEMMA ExitAgrees ==
    ASSUME Inv, status = "running", NEW n \in 1 .. Len(stack),
           \A k \in 1 .. n : stack[k].reached = GenCDefers(stack[k].b),
           Means(n), Does(n, n)
    PROVE  meant' = did'
<1> DEFINE B == SubSeq(InBlocks, 1, n)
<1>1. IsChain(stack) /\ proc \in Procs
  BY DEF Inv
<1>2. stack \in Seq(Frame) /\ Len(stack) \in Nat /\ DOMAIN stack = 1 .. Len(stack)
  <2> HIDE DEF Frame
  <2> QED BY <1>1 DEF IsChain
<1>3. \A k \in 1 .. Len(stack) : stack[k].b \in Nat
  <2>1. \A k \in 1 .. Len(stack) : IsFrame(stack[k])
    BY <1>1 DEF IsChain
  <2> QED BY <1>1, <2>1, ProcFacts DEF IsFrame
<1>4. InBlocks \in Seq(Nat) /\ Len(InBlocks) = Len(stack) /\ \A k \in 1 .. Len(stack) : InBlocks[k] = stack[k].b
  BY <1>2, <1>3 DEF InBlocks
<1>5. DOMAIN B = 1 .. n /\ \A k \in 1 .. n : B[k] = stack[k].b
  <2>1. n \in Nat /\ n <= Len(stack) /\ 1 \in Nat
    BY <1>2
  <2>2. \A k \in 1 .. n : k \in 1 .. Len(stack)
    BY <1>2
  <2>3. B \in Seq(Nat) /\ Len(B) = n /\ \A k \in 1 .. n : B[k] = InBlocks[k]
    BY <1>4, <2>1
  <2> HIDE DEF B
  <2>4. DOMAIN B = 1 .. n
    BY <2>3
  <2> QED BY <1>4, <2>2, <2>3, <2>4
<1> HIDE DEF B
<1>6. [k \in 1 .. n |-> stack[k].reached] = [k \in DOMAIN B |-> GenCDefers(B[k])]
  BY <1>5
<1>7. meant' = [blocks |-> n, defers |-> FlattenSeq([k \in 1 .. n |-> stack[k].reached])]
  BY DEF Means
<1>8. did' = [blocks |-> n, defers |-> FlattenSeq([k \in DOMAIN B |-> GenCDefers(B[k])])]
  BY DEF Does, DefersOf, B
<1> QED BY <1>6, <1>7, <1>8

(* Where defers come first, those of every block that an exit leaves have  *)
(* been reached.                                                           *)
LEMMA ReachedOnExit ==
    ASSUME Inv, DefersComeFirst, NEW op \in {"return", "break", "continue"}, At(op),
           NEW k \in 1 .. Len(stack), Leaves(Stmt, InBlocks, k)
    PROVE  stack[k].reached = GenCDefers(stack[k].b)
<1>1. /\ proc \in Procs /\ IsChain(stack) /\ Top = stack[1] /\ Top.b \in Blocks
      /\ Top.pc \in DOMAIN Stmts(Top.b) /\ Stmt = Stmts(Top.b)[Top.pc] /\ Stmt.op = op
  BY AtFacts
<1>2. stack \in Seq(Frame) /\ Len(stack) \in Nat /\ DOMAIN stack = 1 .. Len(stack)
  <2> HIDE DEF Frame
  <2> QED BY <1>1 DEF IsChain
<1>3. k \in 1 .. Len(stack)
  OBVIOUS
<1>4. InBlocks = BlockStack[Top.b] /\ DOMAIN InBlocks = 1 .. Len(stack) /\ \A i \in 1 .. Len(stack) : InBlocks[i] = stack[i].b
  BY <1>1, <1>2, ChainBlocks DEF InBlocks, BlocksOf
<1>5. IsFrame(stack[k]) /\ stack[k].b \in Blocks /\ stack[k].pc \in Nat
  BY <1>1, <1>3 DEF IsChain, IsFrame, Frame
<1>6. \A i, j \in DOMAIN Stmts(stack[k].b) :
        OnTheWay(Top.pc, InBlocks, k, i) /\ i < j => Stmts(stack[k].b)[j].op # "defer"
  BY <1>1, <1>3, <1>4 DEF DefersComeFirst
<1>7. PICK i \in DOMAIN Stmts(stack[k].b) :
        /\ OnTheWay(Top.pc, InBlocks, k, i) /\ Stmts(stack[k].b)[i].op # "defer"
        /\ stack[k].pc = i \/ stack[k].pc = i + 1
  <2>1. CASE k = 1
    BY <1>1, <2>1 DEF OnTheWay
  <2>2. CASE k # 1
    <3>1. k - 1 \in 1 .. Len(stack) - 1 /\ (k - 1) + 1 = k /\ k - 1 \in 1 .. Len(stack)
      BY <1>2, <1>3, <2>2
    <3>2. PICK i \in DOMAIN Stmts(stack[k].b) : StandsAt(stack[k], i, stack[k - 1].b)
      BY <1>1, <3>1 DEF IsChain, Stands
    <3>3. OnTheWay(Top.pc, InBlocks, k, i)
      BY <1>3, <1>4, <2>2, <3>1, <3>2 DEF OnTheWay, StandsAt, Within1
    <3> QED BY <3>2, <3>3 DEF StandsAt
  <2> QED BY <2>1, <2>2
<1>8. \A j \in DOMAIN Stmts(stack[k].b) : j \in Nat
  <2>1. Stmts(stack[k].b) \in Seq(Statement)
    BY <1>1, <1>5, ProcFacts
  <2> HIDE DEF Statement
  <2> QED BY <2>1
<1>9. \A j \in DOMAIN Stmts(stack[k].b) : stack[k].pc <= j => j = i \/ i < j
  BY <1>5, <1>7, <1>8
<1> QED BY <1>1, <1>5, <1>6, <1>7, <1>9, AllReached

LEMMA ExitsStep == Inv /\ BreaksLeaveLoops /\ DefersComeFirst /\ ExitsAsWritten /\ [Next]_vars => ExitsAsWritten'
<1> SUFFICES ASSUME Inv, BreaksLeaveLoops, DefersComeFirst, ExitsAsWritten, [Next]_vars
             PROVE  meant' = did'
  BY DEF ExitsAsWritten
<1>1. CASE UNCHANGED vars \/ ResolveProcBody \/ Simple \/ Defer \/ EnterBlock \/ Iterate \/ EndLoop
  BY <1>1 DEF vars, ResolveProcBody, Simple, Defer, EnterBlock, Iterate, EndLoop, NoExit, ExitsAsWritten
<1>2. CASE EndBlock \/ EndProc
  <2>1. status = "running" /\ Top.pc > Len(Stmts(Top.b)) /\ Len(stack) >= 1 /\ Means(1) /\ Does(1, 1)
    <3>1. IsChain(stack)
      BY <1>2 DEF EndBlock, EndProc, Inv
    <3>2. Len(stack) \in Nat /\ Len(stack) > 0
      BY <3>1 DEF IsChain
    <3>3. CASE EndBlock
      BY <3>2, <3>3 DEF EndBlock
    <3>4. CASE EndProc
      <4>1. status = "running" /\ Top.pc > Len(Stmts(Top.b)) /\ Len(stack) = 1
        BY <3>4 DEF EndProc
      <4>2. Means(1) /\ Does(1, 1)
        BY <3>4 DEF EndProc
      <4> QED BY <3>2, <4>1, <4>2
    <3> QED BY <1>2, <3>3, <3>4
  <2>2. proc \in Procs /\ IsChain(stack) /\ IsFrame(Top) /\ Top = stack[1] /\ Len(stack) \in Nat
    BY <2>1 DEF Inv, IsChain, Top
  <2>3. Top.b \in Blocks /\ Top.pc \in Nat
    BY <2>2 DEF IsFrame, Frame
  <2>4. Len(Stmts(Top.b)) \in Nat /\ DOMAIN Stmts(Top.b) = 1 .. Len(Stmts(Top.b))
    <3>1. Stmts(Top.b) \in Seq(Statement)
      BY <2>2, <2>3, ProcFacts
    <3> HIDE DEF Statement
    <3> QED BY <3>1
  <2>5. \A j \in DOMAIN Stmts(Top.b) : ~(Top.pc <= j)
    BY <2>1, <2>3, <2>4
  <2>6. Top.reached = GenCDefers(Top.b)
    BY <2>2, <2>5, AllReached
  <2>7. 1 \in 1 .. Len(stack) /\ \A k \in 1 .. 1 : k = 1
    BY <2>1, <2>2
  <2> QED BY <2>1, <2>2, <2>6, <2>7, ExitAgrees
<1>3. CASE Return
  <2>1. At("return") /\ status = "running" /\ Means(Len(stack)) /\ Does(Len(stack), Len(stack))
    BY <1>3 DEF Return, At
  <2>2. IsChain(stack) /\ Stmt.op = "return"
    BY <2>1, AtFacts
  <2>3. stack \in Seq(Frame) /\ Len(stack) \in Nat /\ Len(stack) \in 1 .. Len(stack) /\ DOMAIN stack = 1 .. Len(stack)
    <3> HIDE DEF Frame
    <3> QED BY <2>2 DEF IsChain
  <2>4. \A k : Leaves(Stmt, InBlocks, k)
    BY <2>2 DEF Leaves
  <2>5. \A k \in 1 .. Len(stack) : stack[k].reached = GenCDefers(stack[k].b)
    BY <2>1, <2>3, <2>4, ReachedOnExit
  <2> QED BY <2>1, <2>3, <2>5, ExitAgrees
<1>4. CASE Break
  <2> DEFINE n == Target(Stmt, InBlocks)
             left == JumpC(Stmt, InBlocks)
  <2>1. (At("break") \/ At("continue")) /\ status = "running"
    BY <1>4 DEF Break, At
  <2>2. Means(n) /\ Does(GenCDefersLoopBreak(Stmt, InBlocks), left)
    BY <1>4 DEF Break
  <2>3. /\ n = GenCDefersLoopBreak(Stmt, InBlocks) /\ n \in 1 .. Len(stack) - 1 /\ left \in 1 .. Len(stack) - 1 /\ left <= n
        /\ Kind(stack[left].b) = "Loop" \/ (Stmt.op = "break" /\ IsCase(stack[left].b))
        /\ Kind(stack[left].b) = "Loop" \/ Stmt.label # "" => left = n
        /\ \A i \in 1 .. Len(stack) : IsTarget(Stmt, stack[i].b) => n <= i
    BY <2>1, ExitFacts
  <2> HIDE DEF n, left
  <2>4. proc \in Procs /\ IsChain(stack) /\ Top = stack[1] /\ Top.b \in Blocks /\ Stmt \in StmtsOf(Top.b)
        /\ Stmt.op \in {"break", "continue"}
    BY <2>1, AtFacts
  <2>5. stack \in Seq(Frame) /\ Len(stack) \in Nat /\ DOMAIN stack = 1 .. Len(stack)
    <3> HIDE DEF Frame
    <3> QED BY <2>4 DEF IsChain
  <2>6. InBlocks = BlockStack[Top.b] /\ DOMAIN InBlocks = 1 .. Len(stack)
        /\ \A i \in 1 .. Len(stack) : InBlocks[i] = stack[i].b
    BY <2>4, <2>5, ChainBlocks DEF InBlocks, BlocksOf
  <2>7. left \in 1 .. Len(stack) /\ n \in 1 .. Len(stack) /\ \A i \in 1 .. left - 1 : i \in 1 .. Len(stack) /\ ~(n <= i)
    <3>1. n \in 1 .. Len(stack) - 1 /\ left \in 1 .. Len(stack) - 1 /\ left <= n
      BY <2>3
    <3>2. Len(stack) \in Nat
      BY <2>5
    <3> HIDE DEF IsTarget
    <3> QED BY <3>1, <3>2
  <2>8. left = n
    <3> SUFFICES ASSUME left # n
                 PROVE  FALSE
      OBVIOUS
    <3>1. Stmt.op = "break" /\ Stmt.label = "" /\ IsCase(stack[left].b)
      BY <2>3
    <3>2. BlockStack[Top.b][left] = stack[left].b /\ left \in DOMAIN BlockStack[Top.b] /\ stack[left].b \in Blocks
      BY <2>4, <2>6, <2>7 DEF IsChain, IsFrame
    <3>3. PICK i \in 1 .. left - 1 : Kind(BlockStack[Top.b][i]) = "Loop"
      BY <2>4, <3>1, <3>2 DEF BreaksLeaveLoops
    <3>4. IsTarget(Stmt, stack[i].b)
      BY <2>6, <2>7, <3>1, <3>3 DEF IsTarget
    <3> QED BY <2>3, <2>7, <3>3, <3>4
  <2>9. \A k \in 1 .. n : k \in 1 .. Len(stack) /\ Leaves(Stmt, InBlocks, k)
    <3>1. \A k \in 1 .. n : k \in 1 .. Len(stack) /\ \A i \in 1 .. k - 1 : i \in 1 .. Len(stack) /\ ~(n <= i)
      BY <2>5, <2>7
    <3> QED BY <2>3, <2>6, <3>1 DEF Leaves
  <2>10. \A k \in 1 .. n : stack[k].reached = GenCDefers(stack[k].b)
    BY <2>1, <2>7, <2>9, ReachedOnExit
  <2> QED BY <2>1, <2>2, <2>3, <2>7, <2>8, <2>10, ExitAgrees
<1> QED BY <1>1, <1>2, <1>3, <1>4 DEF Next

(* GenCDefers and the jumps: when defers come before the statements that   *)
(* leave their block and breaks are not inside a switch, every exit of     *)
(* every accepted procedure leaves the blocks the source says and runs the *)
(* defers that were reached in them, inner blocks first.                   *)
THEOREM ExitsAreAsWritten ==
    Spec => [](BreaksLeaveLoops /\ DefersComeFirst => ExitsAsWritten)
<1> DEFINE E == BreaksLeaveLoops /\ DefersComeFirst => ExitsAsWritten
<1>1. Init => E
  BY DEF Init, ExitsAsWritten
<1>2. Inv /\ E /\ [Next]_vars => E'
  <2>1. [Next]_vars => UNCHANGED proc
    BY DEF Next, vars, ResolveProcBody, Simple, Defer, EnterBlock, Iterate, EndLoop, EndBlock, EndProc, Return, Break
  <2> QED BY <2>1, SameHypotheses, ExitsStep
<1> HIDE DEF E
<1>3. Spec => []E
  BY <1>1, <1>2, Invariant, PTL DEF Spec
<1> QED BY <1>3 DEF E

---------------------------------------------------------------------------
(* Where a procedure with a result has one.                                *)

(* A loop counts as returning when its body does, although it may not run; *)
(* and no break is held against the statement it leaves.                   *)
ReturnsAreFinal ==
    /\ \A a \in Blocks : \A i \in DOMAIN Stmts(a) :
         Stmts(a)[i].op = "for" /\ StmtReturns(Stmts(a)[i], ResolveStmtBlock) => Stmts(a)[i].last
    /\ \A b \in Blocks : \A s \in StmtsOf(b) : s.op = "break" =>
         \A k \in DOMAIN BlockStack[b] : \A a \in Blocks : \A i \in DOMAIN Stmts(a) :
           /\ Leaves(s, BlockStack[b], k) /\ Holds(Stmts(a)[i], BlockStack[b][k])
           /\ Stmts(a)[i].op \in {"for", "switch"}
           => ~ StmtReturns(Stmts(a)[i], ResolveStmtBlock)

LEMMA SameFinal ==
    ASSUME UNCHANGED proc
    PROVE  ReturnsAreFinal' => ReturnsAreFinal
<1> SUFFICES ASSUME ReturnsAreFinal'
             PROVE  ReturnsAreFinal
  OBVIOUS
<1>1. ASSUME NEW a \in Blocks, NEW i \in DOMAIN Stmts(a),
             Stmts(a)[i].op = "for", StmtReturns(Stmts(a)[i], ResolveStmtBlock)
      PROVE  Stmts(a)[i].last
  BY <1>1, SameProc DEF ReturnsAreFinal, StmtReturns, Blocks, Stmts
<1>2. ASSUME NEW b \in Blocks, NEW s \in StmtsOf(b), s.op = "break",
             NEW k \in DOMAIN BlockStack[b], NEW a \in Blocks, NEW i \in DOMAIN Stmts(a),
             Leaves(s, BlockStack[b], k), Holds(Stmts(a)[i], BlockStack[b][k]),
             Stmts(a)[i].op \in {"for", "switch"}
      PROVE  ~ StmtReturns(Stmts(a)[i], ResolveStmtBlock)
  <2>1. b \in Blocks' /\ s \in StmtsOf(b)' /\ k \in DOMAIN BlockStack'[b] /\ a \in Blocks' /\ i \in DOMAIN Stmts(a)'
    BY <1>2, SameProc DEF StmtsOf, Stmts
  <2>2. Leaves(s, BlockStack[b], k)'
    BY <1>2, SameProc DEF Leaves, IsTarget, Kind, Label
  <2>3. Holds(Stmts(a)[i], BlockStack[b][k])' /\ Stmts(a)'[i].op \in {"for", "switch"}
    BY <1>2, SameProc DEF Holds, Stmts
  <2>4. ~ StmtReturns(Stmts(a)[i], ResolveStmtBlock)'
    BY <1>2, <2>1, <2>2, <2>3 DEF ReturnsAreFinal
  <2> QED BY <2>4, SameProc DEF StmtReturns, Stmts
<1> QED BY <1>1, <1>2 DEF ReturnsAreFinal

(* Control has passed no statement of block a before n that counts as      *)
(* returning, unless it is in block c of that statement.                   *)
NoneReturned(a, n, c) ==
    \A i \in DOMAIN Stmts(a) :
        i < n /\ StmtReturns(Stmts(a)[i], ResolveStmtBlock) => Holds(Stmts(a)[i], c)
CoversBelow(s) == \A k \in 1 .. Len(s) - 1 : NoneReturned(s[k + 1].b, s[k + 1].pc, s[k].b)
Covers(s) == NoneReturned(s[1].b, s[1].pc, 0) /\ CoversBelow(s)

LEMMA CoversNext ==
    ASSUME UNCHANGED proc, NEW t, t = stack', Covers(t)
    PROVE  Covers(stack)'
<1>1. \A k \in 1 .. Len(t) - 1 : NoneReturned(t[k + 1].b, t[k + 1].pc, t[k].b)
  BY DEF Covers, CoversBelow
<1>2. NoneReturned(stack[1].b, stack[1].pc, 0)'
  <2>1. NoneReturned(t[1].b, t[1].pc, 0)
    BY DEF Covers
  <2> SUFFICES ASSUME NEW i \in DOMAIN Stmts(t[1].b)', i < t[1].pc,
                      StmtReturns(Stmts(t[1].b)[i], ResolveStmtBlock)'
               PROVE  Holds(Stmts(t[1].b)[i], 0)'
    BY SameProc DEF NoneReturned, Stmts
  <2>2. i \in DOMAIN Stmts(t[1].b) /\ StmtReturns(Stmts(t[1].b)[i], ResolveStmtBlock)
    BY SameProc DEF StmtReturns, Stmts
  <2>3. Holds(Stmts(t[1].b)[i], 0)
    BY <2>1, <2>2 DEF NoneReturned
  <2> QED BY <2>3 DEF Holds, Stmts
<1>3. CoversBelow(stack)'
  <2> SUFFICES ASSUME NEW k \in 1 .. Len(t) - 1
               PROVE  NoneReturned(stack[k + 1].b, stack[k + 1].pc, stack[k].b)'
    BY DEF CoversBelow
  <2>1. NoneReturned(t[k + 1].b, t[k + 1].pc, t[k].b)
    BY <1>1
  <2> QED BY <2>1, SameProc DEF NoneReturned, StmtReturns, Stmts, Holds
<1> QED BY <1>2, <1>3 DEF Covers

LEMMA CoversRest ==
    ASSUME NEW s, IsChain(s), CoversBelow(s), NEW n \in 0 .. Len(s) - 1
    PROVE  CoversBelow(SubSeq(s, n + 1, Len(s)))
<1> DEFINE r == SubSeq(s, n + 1, Len(s))
<1>1. Len(s) \in Nat
  BY DEF IsChain
<1>2. Len(r) = Len(s) - n /\ \A k \in 1 .. Len(s) - n : r[k] = s[k + n]
  BY ChainRest
<1> HIDE DEF r
<1>3. \A k \in 1 .. Len(r) - 1 : k + n \in 1 .. Len(s) - 1 /\ r[k] = s[k + n] /\ r[k + 1] = s[(k + n) + 1]
  <2> SUFFICES ASSUME NEW k \in 1 .. Len(r) - 1
               PROVE  k + n \in 1 .. Len(s) - 1 /\ r[k] = s[k + n] /\ r[k + 1] = s[(k + n) + 1]
    OBVIOUS
  <2>1. /\ k + n \in 1 .. Len(s) - 1 /\ k \in 1 .. Len(s) - n /\ k + 1 \in 1 .. Len(s) - n
        /\ (k + 1) + n = (k + n) + 1
    BY <1>1, <1>2
  <2> QED BY <1>2, <2>1
<1>4. CoversBelow(r)
  BY <1>3 DEF CoversBelow
<1> QED BY <1>4 DEF r

LEMMA CoversMove ==
    ASSUME NEW s, IsChain(s), CoversBelow(s), NEW f, IsFrame(f), f.b = s[1].b, NoneReturned(f.b, f.pc, 0)
    PROVE  Covers(<<f>> \o Tail(s))
<1> DEFINE r == <<f>> \o Tail(s)
<1>1. Len(s) \in Nat
  BY DEF IsChain
<1>2. r[1] = f /\ Len(r) = Len(s) /\ \A k \in 2 .. Len(s) : r[k] = s[k]
  BY ChainMove
<1> HIDE DEF r
<1>3. \A k \in 1 .. Len(r) - 1 : k \in 1 .. Len(s) - 1 /\ r[k].b = s[k].b /\ r[k + 1] = s[k + 1]
  <2> SUFFICES ASSUME NEW k \in 1 .. Len(r) - 1
               PROVE  k \in 1 .. Len(s) - 1 /\ r[k].b = s[k].b /\ r[k + 1] = s[k + 1]
    OBVIOUS
  <2>1. k \in 1 .. Len(s) - 1 /\ k + 1 \in 2 .. Len(s) /\ (k # 1 => k \in 2 .. Len(s))
    BY <1>1, <1>2
  <2> QED BY <1>2, <2>1
<1>4. Covers(r)
  BY <1>2, <1>3 DEF CoversBelow, Covers
<1> QED BY <1>4 DEF r

LEMMA CoversPush ==
    ASSUME proc \in Procs, NEW s, IsChain(s), CoversBelow(s), NEW c \in Blocks, NoneReturned(s[1].b, s[1].pc, c),
           Stands(s[1], c)
    PROVE  Covers(<<Activation(c)>> \o s)
<1> DEFINE f == Activation(c)
           r == <<f>> \o s
<1>1. Len(s) \in Nat
  BY DEF IsChain
<1>2. IsFrame(f) /\ f.b = c /\ f.pc = 1
  BY FrameFacts DEF Activation
<1> HIDE DEF f
<1>3. r[1] = f /\ Len(r) = Len(s) + 1 /\ \A k \in 2 .. Len(s) + 1 : r[k] = s[k - 1]
  BY <1>2, ChainPush
<1> HIDE DEF r
<1>4. NoneReturned(c, 1, 0)
  <2>1. \A i \in DOMAIN Stmts(c) : ~(i < 1)
    <3>1. Stmts(c) \in Seq(Statement)
      BY ProcFacts
    <3> HIDE DEF Statement
    <3> QED BY <3>1
  <2> QED BY <2>1 DEF NoneReturned
<1>5. ASSUME NEW k \in 1 .. Len(r) - 1
      PROVE  NoneReturned(r[k + 1].b, r[k + 1].pc, r[k].b)
  <2>1. k + 1 \in 2 .. Len(s) + 1 /\ (k + 1) - 1 = k /\ r[k + 1] = s[k]
    BY <1>1, <1>3
  <2>2. CASE k = 1
    BY <1>2, <1>3, <2>1, <2>2
  <2>3. CASE k # 1
    <3>1. k \in 2 .. Len(s) + 1 /\ k - 1 \in 1 .. Len(s) - 1 /\ (k - 1) + 1 = k
      BY <1>1, <1>3, <2>3
    <3>2. NoneReturned(s[(k - 1) + 1].b, s[(k - 1) + 1].pc, s[k - 1].b)
      BY <3>1 DEF CoversBelow
    <3> QED BY <1>3, <2>1, <3>1, <3>2
  <2> QED BY <2>2, <2>3
<1>6. Covers(r)
  BY <1>2, <1>3, <1>4, <1>5 DEF Covers, CoversBelow
<1> QED BY <1>6 DEF r, f

(* Control has passed one statement more.                                  *)
LEMMA PassedOne ==
    ASSUME proc \in Procs, NEW f, IsFrame(f), f.pc \in DOMAIN Stmts(f.b), NEW c,
           NoneReturned(f.b, f.pc, c), StmtReturns(Stmts(f.b)[f.pc], ResolveStmtBlock) => Holds(Stmts(f.b)[f.pc], c)
    PROVE  NoneReturned(f.b, f.pc + 1, c)
<1>1. \A i \in DOMAIN Stmts(f.b) : i \in Nat
  <2>1. Stmts(f.b) \in Seq(Statement)
    BY ProcFacts DEF IsFrame
  <2> HIDE DEF Statement
  <2> QED BY <2>1
<1>2. \A i \in DOMAIN Stmts(f.b) : i < f.pc + 1 => i < f.pc \/ i = f.pc
  BY <1>1
<1> QED BY <1>2 DEF NoneReturned

LEMMA NoneHeld ==
    ASSUME proc \in Procs, NEW a \in Blocks, NEW n, NEW c
    PROVE  NoneReturned(a, n, 0) => NoneReturned(a, n, c)
<1>1. \A i \in DOMAIN Stmts(a) : ~ Holds(Stmts(a)[i], 0)
  <2> SUFFICES ASSUME NEW i \in DOMAIN Stmts(a), Holds(Stmts(a)[i], 0)
               PROVE  FALSE
    OBVIOUS
  <2>1. 0 \in Blocks
    BY PlaceFacts DEF Within1
  <2> QED BY <2>1, ProcFacts
<1> QED BY <1>1 DEF NoneReturned

(* A block whose end is reached does not count as returning, and so its    *)
(* statement does not either.                                              *)
LEMMA EndedBlock ==
    ASSUME proc \in Procs, NEW b \in Blocks, NEW n, n > Len(Stmts(b)), n \in Nat, NoneReturned(b, n, 0)
    PROVE  ~ ResolveStmtBlock[b]
<1>1. \A i \in DOMAIN Stmts(b) : i < n
  <2>1. Stmts(b) \in Seq(Statement)
    BY ProcFacts
  <2>2. Len(Stmts(b)) \in Nat /\ DOMAIN Stmts(b) = 1 .. Len(Stmts(b))
    <3> HIDE DEF Statement
    <3> QED BY <2>1
  <2> QED BY <2>2
<1>2. \A i \in DOMAIN Stmts(b) : ~ Holds(Stmts(b)[i], 0)
  <2> SUFFICES ASSUME NEW i \in DOMAIN Stmts(b), Holds(Stmts(b)[i], 0)
               PROVE  FALSE
    OBVIOUS
  <2>1. 0 \in Blocks
    BY PlaceFacts DEF Within1
  <2> QED BY <2>1, ProcFacts
<1>3. \A i \in DOMAIN Stmts(b) : ~ StmtReturns(Stmts(b)[i], ResolveStmtBlock)
  BY <1>1, <1>2 DEF NoneReturned
<1> QED BY <1>3, ResolveStmtBlockDef

LEMMA EndedStmt ==
    ASSUME proc \in Procs, NEW f, NEW i, NEW b, IsFrame(f), StandsAt(f, i, b),
           NoneReturned(f.b, f.pc, b), ~ ResolveStmtBlock[b]
    PROVE  NoneReturned(f.b, f.pc, 0)
<1> SUFFICES ASSUME NEW j \in DOMAIN Stmts(f.b), j < f.pc, StmtReturns(Stmts(f.b)[j], ResolveStmtBlock)
             PROVE  FALSE
  BY DEF NoneReturned
<1>1. Within1(f.b, i, b) /\ f.b \in Blocks /\ i \in DOMAIN Stmts(f.b)
  BY DEF StandsAt, Within1
<1>2. Holds(Stmts(f.b)[j], b)
  BY DEF NoneReturned
<1>3. j = i
  BY <1>1, <1>2, PlaceFacts DEF Within1
<1>4. j \in Nat /\ f.pc \in Nat
  <2>1. Stmts(f.b) \in Seq(Statement)
    BY <1>1, ProcFacts
  <2>2. j \in Nat
    <3> HIDE DEF Statement
    <3> QED BY <2>1
  <2> QED BY <2>2 DEF IsFrame, Frame
<1>5. Stmts(f.b)[i].op # "for"
  BY <1>3, <1>4 DEF StandsAt
<1>6. Stmts(f.b)[i].op \in {"defer", "block", "if", "switch", "for"}
  BY <1>1, PlaceFacts
<1>7. PICK k \in DOMAIN Stmts(f.b)[i].bodies : Stmts(f.b)[i].bodies[k] = b
  BY <1>2, <1>3 DEF Holds
<1>8. Stmts(f.b)[i].op = "block" => k = 1
  <2>1. Stmts(f.b)[i] \in Statement /\ (Stmts(f.b)[i].op = "block" => Len(Stmts(f.b)[i].bodies) = 1)
    BY <1>1, ProcFacts
  <2>2. Stmts(f.b)[i].bodies \in Seq(Nat)
    BY <2>1 DEF Statement
  <2> QED BY <1>7, <2>1, <2>2
<1> QED BY <1>3, <1>5, <1>6, <1>7, <1>8 DEF StmtReturns

CoversInv ==
    /\ status = "running" => Covers(stack)
    /\ status # "no value"

LEMMA CoversStep == Inv /\ ReturnsAreFinal /\ CoversInv /\ [Next]_vars => CoversInv'
<1> SUFFICES ASSUME Inv, ReturnsAreFinal, CoversInv, [Next]_vars
             PROVE  CoversInv'
  OBVIOUS
<1>0. /\ proc \in Procs
      /\ status = "running" => /\ IsChain(stack) /\ Top = stack[1] /\ IsFrame(Top) /\ Top.b \in Blocks /\ Accepted
                               /\ NoneReturned(Top.b, Top.pc, 0) /\ CoversBelow(stack) /\ Len(stack) \in Nat
  <2>1. proc \in Procs
    BY DEF Inv
  <2>2. ASSUME status = "running"
        PROVE  /\ IsChain(stack) /\ Top = stack[1] /\ IsFrame(Top) /\ Top.b \in Blocks /\ Accepted
               /\ NoneReturned(Top.b, Top.pc, 0) /\ CoversBelow(stack) /\ Len(stack) \in Nat
    <3>1. IsChain(stack) /\ Accepted /\ Covers(stack)
      BY <2>2 DEF Inv, CoversInv
    <3>2. Len(stack) \in Nat /\ Len(stack) > 0 /\ Top = stack[1]
      BY <3>1 DEF IsChain, Top
    <3>3. 1 \in 1 .. Len(stack)
      BY <3>2
    <3>4. IsFrame(Top)
      BY <3>1, <3>2, <3>3 DEF IsChain
    <3> QED BY <3>1, <3>2, <3>4 DEF IsFrame, Covers
  <2> QED BY <2>1, <2>2
<1>a. ASSUME UNCHANGED <<proc, status>>, NEW t, t = stack', Covers(t)
      PROVE  CoversInv'
  BY <1>a, CoversNext DEF CoversInv
<1>b. ASSUME NEW op \in {"plain", "for", "if", "switch"}, At(op), UNCHANGED <<proc, status>>,
             ~ StmtReturns(Stmt, ResolveStmtBlock), stack' = <<Past(Top)>> \o Below
      PROVE  CoversInv'
  <2>1. /\ status = "running" /\ Top.pc \in DOMAIN Stmts(Top.b) /\ Stmt = Stmts(Top.b)[Top.pc] /\ Stmt.op = op
    BY <1>b, AtFacts DEF At
  <2>2. IsFrame(Past(Top)) /\ Past(Top).b = Top.b /\ Past(Top).pc = Top.pc + 1
    BY <1>0, <1>b, <2>1, FrameFacts
  <2>3. NoneReturned(Top.b, Top.pc + 1, 0)
    BY <1>0, <1>b, <2>1, PassedOne
  <2>4. Covers(<<Past(Top)>> \o Tail(stack))
    BY <1>0, <2>1, <2>2, <2>3, CoversMove
  <2>5. PICK t : t = stack'
    OBVIOUS
  <2>6. Covers(t)
    BY <1>b, <2>4, <2>5 DEF Below
  <2> QED BY <1>a, <1>b, <2>5, <2>6
<1>1. CASE UNCHANGED vars
  <2>1. PICK t : t = stack'
    OBVIOUS
  <2>2. UNCHANGED <<proc, status>> /\ t = stack
    BY <1>1, <2>1 DEF vars
  <2>3. CASE status = "running"
    BY <1>a, <2>1, <2>2, <2>3 DEF CoversInv
  <2>4. CASE status # "running"
    BY <2>2, <2>4 DEF CoversInv
  <2> QED BY <2>3, <2>4
<1>2. CASE ResolveProcBody
  <2>1. CASE Accepted
    <3>1. stack' = <<Activation(1)>> \o <<>> /\ status' = "running" /\ UNCHANGED proc
      BY <1>2, <2>1 DEF ResolveProcBody, Enter
    <3>2. 1 \in Blocks /\ IsFrame(Activation(1)) /\ Activation(1).b = 1 /\ Activation(1).pc = 1
      BY <1>0, ProcFacts, FrameFacts DEF Activation
    <3> DEFINE t == <<Activation(1)>> \o <<>>
    <3>3. Len(t) = 1 /\ t[1] = Activation(1)
      <4> HIDE DEF Activation
      <4> QED OBVIOUS
    <3> HIDE DEF t
    <3>4. \A i \in DOMAIN Stmts(1) : ~(i < 1)
      <4>1. Stmts(1) \in Seq(Statement)
        BY <1>0, <3>2, ProcFacts
      <4> HIDE DEF Statement
      <4> QED BY <4>1
    <3>5. NoneReturned(1, 1, 0)
      BY <3>4 DEF NoneReturned
    <3>6. \A k \in 1 .. Len(t) - 1 : FALSE
      BY <3>3
    <3>7. Covers(t)
      BY <3>2, <3>3, <3>5, <3>6 DEF Covers, CoversBelow
    <3> QED BY <3>1, <3>7, CoversNext DEF CoversInv, t
  <2>2. CASE ~Accepted
    BY <1>2, <2>2 DEF ResolveProcBody, CoversInv
  <2> QED BY <2>1, <2>2
<1>3. CASE Simple
  <2>1. At("plain") /\ UNCHANGED <<proc, status>> /\ stack' = <<Past(Top)>> \o Below
    BY <1>3 DEF Simple, Within
  <2>2. Stmt.op = "plain"
    BY <2>1, AtFacts
  <2> QED BY <1>b, <2>1, <2>2 DEF StmtReturns
<1>4. CASE Defer
  <2> DEFINE f == [Past(Top) EXCEPT !.reached = Stmt.bodies \o @]
  <2>1. At("defer") /\ UNCHANGED <<proc, status>> /\ stack' = <<f>> \o Below
    BY <1>4 DEF Defer, Within
  <2>2. /\ status = "running" /\ Top.pc \in DOMAIN Stmts(Top.b) /\ Stmt = Stmts(Top.b)[Top.pc] /\ Stmt.op = "defer"
        /\ Top \in Frame
    BY <1>0, <2>1, AtFacts DEF At, IsFrame
  <2>3. f.b = Top.b /\ f.pc = Top.pc + 1
    <3>1. f = [b |-> Top.b, pc |-> Top.pc + 1, iter |-> 0, reached |-> Stmt.bodies \o Top.reached]
      BY <2>2, FrameFields
    <3> QED BY <3>1
  <2>4. IsChain(<<f>> \o Tail(stack))
    BY <1>4, DeferChain DEF Below
  <2> HIDE DEF f
  <2>5. IsFrame(f)
    <3> DEFINE r == <<f>> \o Tail(stack)
    <3>1. stack \in Seq(Frame) /\ Len(stack) \in Nat /\ Len(stack) > 0
      BY <1>0, <2>2 DEF IsChain
    <3>2. r[1] = f /\ Len(r) = Len(stack)
      <4> HIDE DEF Frame
      <4> QED BY <3>1
    <3> HIDE DEF r
    <3>3. 1 \in 1 .. Len(r)
      BY <3>1, <3>2
    <3> QED BY <2>4, <3>2, <3>3 DEF IsChain, r
  <2>6. NoneReturned(Top.b, Top.pc + 1, 0)
    BY <1>0, <2>2, PassedOne DEF StmtReturns
  <2>7. Covers(<<f>> \o Tail(stack))
    BY <1>0, <2>2, <2>3, <2>5, <2>6, CoversMove
  <2>8. PICK t : t = stack'
    OBVIOUS
  <2> QED BY <1>a, <2>1, <2>7, <2>8 DEF Below
<1>5. CASE EnterBlock
  <2>1. (At("block") \/ At("if") \/ At("switch")) /\ UNCHANGED <<proc, status>>
    BY <1>5 DEF EnterBlock
  <2>2. /\ status = "running" /\ Top.pc \in DOMAIN Stmts(Top.b) /\ Stmt = Stmts(Top.b)[Top.pc]
        /\ Stmt.op \in {"block", "if", "switch"}
    BY <2>1, AtFacts DEF At
  <2>3. CASE Stmt.op # "block" /\ ~Stmt.last /\ stack' = <<Past(Top)>> \o Below
    <3>1. ~ StmtReturns(Stmt, ResolveStmtBlock)
      BY <2>2, <2>3 DEF StmtReturns
    <3>2. At("if") \/ At("switch")
      BY <2>1, <2>3 DEF At
    <3> QED BY <1>b, <2>1, <2>3, <3>1, <3>2
  <2>4. ASSUME NEW k \in DOMAIN Stmt.bodies, stack' = <<Activation(Stmt.bodies[k])>> \o (<<Past(Top)>> \o Below)
        PROVE  CoversInv'
    <3> DEFINE c == Stmt.bodies[k]
               r == <<Past(Top)>> \o Below
    <3>1. IsChain(r) /\ c \in Blocks
      BY <2>1, EnterChain
    <3>2. IsFrame(Past(Top)) /\ Past(Top).b = Top.b /\ Past(Top).pc = Top.pc + 1
      BY <1>0, <2>2, FrameFacts
    <3>3. r[1] = Past(Top)
      BY <1>0, <2>2, <3>2, ChainMove DEF Below
    <3>4. NoneReturned(Top.b, Top.pc + 1, c)
      <4>1. NoneReturned(Top.b, Top.pc, c)
        BY <1>0, <2>2, NoneHeld
      <4>2. Holds(Stmts(Top.b)[Top.pc], c)
        BY <2>2 DEF Holds
      <4> HIDE DEF c
      <4> QED BY <1>0, <2>2, <4>1, <4>2, PassedOne
    <3>5. CoversBelow(r)
      <4> DEFINE m == Len(stack)
      <4>1. r[1] = Past(Top) /\ Len(r) = m /\ \A j \in 2 .. m : r[j] = stack[j]
        BY <1>0, <2>2, <3>2, ChainMove DEF Below
      <4> HIDE DEF r
      <4> SUFFICES ASSUME NEW j \in 1 .. Len(r) - 1
                   PROVE  NoneReturned(r[j + 1].b, r[j + 1].pc, r[j].b)
        BY DEF CoversBelow
      <4>2. j \in 1 .. m - 1 /\ j + 1 \in 2 .. m /\ (j # 1 => j \in 2 .. m)
        BY <1>0, <2>2, <4>1
      <4>3. r[j + 1] = stack[j + 1] /\ r[j].b = stack[j].b
        BY <1>0, <2>2, <3>2, <4>1, <4>2
      <4> QED BY <1>0, <2>2, <4>2, <4>3 DEF CoversBelow
    <3>6. Stands(r[1], c)
      <4>1. Within1(Top.b, Top.pc, c)
        BY <1>0, <2>2 DEF Within1, Holds
      <4> HIDE DEF c, r
      <4> QED BY <2>2, <3>2, <3>3, <4>1 DEF Stands, StandsAt
    <3> HIDE DEF c, r
    <3>7. Covers(<<Activation(c)>> \o r)
      BY <1>0, <3>1, <3>2, <3>3, <3>4, <3>5, <3>6, CoversPush
    <3>8. PICK t : t = stack'
      OBVIOUS
    <3> QED BY <1>a, <2>1, <2>4, <3>7, <3>8 DEF c, r
  <2> QED BY <1>5, <2>3, <2>4 DEF EnterBlock, Enter, Within
<1>6. CASE Iterate
  <2> DEFINE c == Stmt.bodies[1]
             f == [Top EXCEPT !.iter = @ + 1]
             r == <<f>> \o Below
  <2>1. At("for") /\ UNCHANGED <<proc, status>> /\ stack' = <<Activation(c)>> \o r
    BY <1>6 DEF Iterate, Enter
  <2>2. /\ status = "running" /\ Top.pc \in DOMAIN Stmts(Top.b) /\ Stmt = Stmts(Top.b)[Top.pc] /\ Stmt.op = "for"
        /\ Stmt \in Statement
    BY <2>1, AtFacts DEF At
  <2>3. IsChain(r) /\ IsChain(<<Activation(c)>> \o r) /\ c \in Blocks /\ f.b = Top.b /\ f.pc = Top.pc
    BY <1>6, IterateChain
  <2> HIDE DEF f
  <2>4. r[1] = f /\ Len(r) = Len(stack) /\ IsFrame(f)
    <3>1. stack \in Seq(Frame) /\ Len(stack) \in Nat /\ Len(stack) > 0
      BY <1>0, <2>2 DEF IsChain
    <3>2. r[1] = f /\ Len(r) = Len(stack)
      <4> HIDE DEF Frame
      <4> QED BY <3>1 DEF Below
    <3> HIDE DEF r
    <3>3. 1 \in 1 .. Len(r)
      BY <3>1, <3>2
    <3> QED BY <2>3, <3>2, <3>3 DEF IsChain
  <2>5. CoversBelow(r)
    <3>1. Covers(<<f>> \o Tail(stack))
      BY <1>0, <2>2, <2>3, <2>4, CoversMove
    <3> QED BY <3>1 DEF Covers, Below
  <2>6. Within1(Top.b, Top.pc, c)
    <3>1. Len(Stmt.bodies) = 1 /\ Stmt.bodies \in Seq(Nat)
      BY <1>0, <2>2, ProcFacts DEF Statement
    <3>2. 1 \in DOMAIN Stmt.bodies
      BY <3>1
    <3> QED BY <1>0, <2>2, <3>2 DEF Within1, Holds
  <2> HIDE DEF c, r
  <2>7. Stands(r[1], c)
    BY <2>2, <2>3, <2>4, <2>6 DEF Stands, StandsAt
  <2>8. NoneReturned(r[1].b, r[1].pc, c)
    BY <1>0, <2>2, <2>3, <2>4, NoneHeld
  <2>9. Covers(<<Activation(c)>> \o r)
    BY <1>0, <2>3, <2>5, <2>7, <2>8, CoversPush
  <2>10. PICK t : t = stack'
    OBVIOUS
  <2> QED BY <1>a, <2>1, <2>9, <2>10
<1>7. CASE EndLoop
  <2>1. At("for") /\ ~Stmt.last /\ UNCHANGED <<proc, status>> /\ stack' = <<Past(Top)>> \o Below
    BY <1>7 DEF EndLoop, Within
  <2>2. Top.b \in Blocks /\ Top.pc \in DOMAIN Stmts(Top.b) /\ Stmt = Stmts(Top.b)[Top.pc] /\ Stmt.op = "for"
    BY <2>1, AtFacts
  <2>3. ~ StmtReturns(Stmt, ResolveStmtBlock)
    BY <2>1, <2>2 DEF ReturnsAreFinal
  <2> QED BY <1>b, <2>1, <2>3
<1>8. CASE EndBlock
  <2>1. UNCHANGED <<proc, status>> /\ status = "running" /\ Top.pc > Len(Stmts(Top.b))
    BY <1>8 DEF EndBlock
  <2>2. /\ Len(stack) > 1 /\ IsChain(Below) /\ Below[1] = stack[2]
        /\ \E i : /\ StandsAt(stack[2], i, Top.b)
                  /\ \/ stack' = Below
                     \/ \E c \in Blocks : /\ StandsAt(stack[2], i, c) /\ stack' = <<Activation(c)>> \o Below
                                          /\ IsChain(<<Activation(c)>> \o Below)
    BY <1>8, EndBlockChain
  <2>3. CoversBelow(Below)
    <3>1. 1 \in 0 .. Len(stack) - 1
      BY <1>0, <2>1, <2>2
    <3>2. Tail(stack) = SubSeq(stack, 1 + 1, Len(stack))
      <4>1. stack \in Seq(Frame)
        BY <1>0, <2>1 DEF IsChain
      <4> HIDE DEF Frame
      <4> QED BY <4>1
    <3> QED BY <1>0, <2>1, <3>1, <3>2, CoversRest DEF Below
  <2>4. PICK i : /\ StandsAt(stack[2], i, Top.b)
                 /\ \/ stack' = Below
                    \/ \E c \in Blocks : /\ StandsAt(stack[2], i, c) /\ stack' = <<Activation(c)>> \o Below
                                         /\ IsChain(<<Activation(c)>> \o Below)
    BY <2>2
  <2>5. ~ ResolveStmtBlock[Top.b]
    <3>1. Top.pc \in Nat
      BY <1>0, <2>1 DEF IsFrame, Frame
    <3> QED BY <1>0, <2>1, <3>1, EndedBlock
  <2>6. IsFrame(stack[2]) /\ NoneReturned(stack[2].b, stack[2].pc, Top.b)
    <3>1. 1 \in 1 .. Len(stack) - 1 /\ 1 + 1 = 2 /\ 2 \in 1 .. Len(stack)
      BY <1>0, <2>1, <2>2
    <3> QED BY <1>0, <2>1, <3>1 DEF IsChain, CoversBelow
  <2>7. NoneReturned(stack[2].b, stack[2].pc, 0)
    BY <1>0, <2>4, <2>5, <2>6, EndedStmt
  <2>8. PICK t : t = stack'
    OBVIOUS
  <2>9. CASE stack' = Below
    <3>1. Covers(Below)
      BY <2>2, <2>3, <2>7 DEF Covers
    <3> QED BY <1>a, <2>1, <2>8, <2>9, <3>1
  <2>10. CASE stack' # Below
    <3>1. PICK c \in Blocks : StandsAt(stack[2], i, c) /\ stack' = <<Activation(c)>> \o Below
      BY <2>4, <2>10
    <3>2. Stands(Below[1], c)
      BY <2>2, <3>1 DEF Stands, StandsAt, Within1
    <3>3. stack[2].b \in Blocks
      BY <2>6 DEF IsFrame
    <3>4. NoneReturned(Below[1].b, Below[1].pc, c)
      BY <1>0, <2>2, <2>7, <3>3, NoneHeld
    <3>5. Covers(<<Activation(c)>> \o Below)
      BY <1>0, <2>2, <2>3, <3>2, <3>4, CoversPush
    <3> QED BY <1>a, <2>1, <2>8, <3>1, <3>5
  <2> QED BY <2>9, <2>10
<1>9. CASE EndProc
  <2>1. /\ status = "running" /\ Top.pc > Len(Stmts(Top.b)) /\ Len(stack) = 1
        /\ status' = IF proc.returns THEN "no value" ELSE "returned"
    BY <1>9 DEF EndProc
  <2>2. Top.b = 1 /\ Top.pc \in Nat
    BY <1>0, <2>1 DEF IsChain, IsFrame, Frame
  <2>3. ~ ResolveStmtBlock[1]
    BY <1>0, <2>1, <2>2, EndedBlock
  <2>4. ~ proc.returns
    BY <1>0, <2>1, <2>3 DEF Accepted
  <2> QED BY <2>1, <2>4 DEF CoversInv
<1>10. CASE Return
  BY <1>10 DEF Return, CoversInv
<1>11. CASE Break
  <2> DEFINE n == Target(Stmt, InBlocks)
             left == JumpC(Stmt, InBlocks)
             rest == SubSeq(stack, left + 1, Len(stack))
  <2>1. (At("break") \/ At("continue")) /\ status = "running" /\ UNCHANGED <<proc, status>>
    BY <1>11 DEF Break, At
  <2>2. Stmt \in StmtsOf(Top.b) /\ Stmt.op \in {"break", "continue"}
    BY <2>1, AtFacts
  <2>3. /\ left \in 1 .. Len(stack) - 1 /\ IsChain(rest) /\ rest[1] = stack[left + 1]
        /\ \/ stack' = rest /\ ~(Stmt.op = "break" /\ Kind(stack[left].b) = "Loop")
           \/ /\ Stmt.op = "break" /\ Kind(stack[left].b) = "Loop"
              /\ stack' = <<Past(rest[1])>> \o Tail(rest)
              /\ IsFrame(Past(rest[1])) /\ Past(rest[1]).b = rest[1].b
              /\ IsChain(<<Past(rest[1])>> \o Tail(rest))
              /\ Within1(rest[1].b, rest[1].pc, stack[left].b)
    BY <1>11, BreakChain
  <2>4. /\ n \in 1 .. Len(stack) - 1 /\ left <= n
        /\ Kind(stack[left].b) = "Loop" \/ (Stmt.op = "break" /\ IsCase(stack[left].b))
        /\ \A i \in 1 .. Len(stack) : IsTarget(Stmt, stack[i].b) => n <= i
    BY <2>1, ExitFacts
  <2> HIDE DEF n, left
  <2>5. left \in 0 .. Len(stack) - 1 /\ left + 1 \in 1 .. Len(stack) /\ left \in 1 .. Len(stack) /\ left \in Nat /\ n \in Nat
    <3>1. n \in 1 .. Len(stack) - 1 /\ left \in 1 .. Len(stack) - 1 /\ Len(stack) \in Nat
      BY <1>0, <2>1, <2>3, <2>4
    <3> QED BY <3>1
  <2>6. CoversBelow(rest)
    BY <1>0, <2>1, <2>5, CoversRest
  <2> HIDE DEF rest
  <2>7. IsFrame(rest[1]) /\ rest[1].b \in Blocks /\ stack[left].b \in Blocks
    BY <1>0, <2>1, <2>3, <2>5 DEF IsChain, IsFrame
  <2>8. PICK i : StandsAt(rest[1], i, stack[left].b)
    BY <1>0, <2>1, <2>3 DEF IsChain, Stands
  <2>9. /\ Within1(rest[1].b, i, stack[left].b) /\ i \in DOMAIN Stmts(rest[1].b) /\ Holds(Stmts(rest[1].b)[i], stack[left].b)
        /\ Kind(stack[left].b) = BodyKind(Stmts(rest[1].b)[i].op) /\ StmtOf(stack[left].b) = Stmts(rest[1].b)[i]
        /\ \A j : Within1(rest[1].b, j, stack[left].b) => j = i
    <3>1. Within1(rest[1].b, i, stack[left].b)
      BY <2>8 DEF StandsAt
    <3> QED BY <1>0, <3>1, PlaceFacts DEF Within1
  <2>10. InBlocks = BlockStack[Top.b] /\ DOMAIN InBlocks = 1 .. Len(stack)
         /\ \A j \in 1 .. Len(stack) : InBlocks[j] = stack[j].b
    <3>1. stack \in Seq(Frame) /\ DOMAIN stack = 1 .. Len(stack)
      <4> HIDE DEF Frame
      <4> QED BY <1>0, <2>1 DEF IsChain
    <3> QED BY <1>0, <2>1, <3>1, ChainBlocks DEF InBlocks, BlocksOf
  <2>11. Stmt.op = "break" /\ Stmts(rest[1].b)[i].op \in {"for", "switch"}
           => ~ StmtReturns(Stmts(rest[1].b)[i], ResolveStmtBlock)
    <3>1. \A j \in 1 .. left - 1 : j \in 1 .. Len(stack) /\ ~(n <= j)
      BY <1>0, <2>1, <2>4, <2>5
    <3>2. Leaves(Stmt, InBlocks, left)
      BY <2>4, <2>10, <3>1 DEF Leaves
    <3> QED BY <1>0, <2>1, <2>2, <2>5, <2>7, <2>9, <2>10, <3>2 DEF ReturnsAreFinal
  <2>12. NoneReturned(rest[1].b, rest[1].pc, stack[left].b)
    BY <1>0, <2>1, <2>3 DEF CoversBelow
  <2>13. Stmts(rest[1].b)[i].op = "for" => rest[1].pc = i
    BY <2>8 DEF StandsAt
  <2>14. Stmts(rest[1].b)[i].op = "for" \/ (Stmt.op = "break" /\ Stmts(rest[1].b)[i].op = "switch")
    BY <2>4, <2>9 DEF IsCase, BodyKind
  <2>15. NoneReturned(rest[1].b, rest[1].pc, 0)
    <3> SUFFICES ASSUME NEW j \in DOMAIN Stmts(rest[1].b), j < rest[1].pc,
                        StmtReturns(Stmts(rest[1].b)[j], ResolveStmtBlock)
                 PROVE  FALSE
      BY DEF NoneReturned
    <3>1. j = i
      BY <2>7, <2>9, <2>12 DEF NoneReturned, Within1
    <3>2. j \in Nat
      <4>1. Stmts(rest[1].b) \in Seq(Statement)
        BY <1>0, <2>7, ProcFacts
      <4> HIDE DEF Statement
      <4> QED BY <4>1
    <3> QED BY <2>11, <2>13, <2>14, <3>1, <3>2
  <2>16. PICK t : t = stack'
    OBVIOUS
  <2>17. CASE stack' = rest /\ ~(Stmt.op = "break" /\ Kind(stack[left].b) = "Loop")
    <3>1. Covers(rest)
      BY <2>6, <2>15 DEF Covers
    <3> QED BY <1>a, <2>1, <2>16, <2>17, <3>1
  <2>18. CASE Stmt.op = "break" /\ Kind(stack[left].b) = "Loop" /\ stack' = <<Past(rest[1])>> \o Tail(rest)
    <3>1. Stmts(rest[1].b)[i].op = "for" /\ rest[1].pc = i
      BY <2>9, <2>13, <2>18 DEF BodyKind
    <3>2. NoneReturned(rest[1].b, rest[1].pc + 1, 0)
      BY <1>0, <2>7, <2>9, <2>11, <2>15, <2>18, <3>1, PassedOne
    <3>3. IsFrame(Past(rest[1])) /\ Past(rest[1]).b = rest[1].b
      BY <2>3, <2>18
    <3>4. Past(rest[1]).pc = rest[1].pc + 1
      BY <1>0, <2>7, <2>9, <3>1, FrameFacts
    <3>5. Covers(<<Past(rest[1])>> \o Tail(rest))
      BY <2>3, <2>6, <3>2, <3>3, <3>4, CoversMove
    <3> QED BY <1>a, <2>1, <2>16, <2>18, <3>5
  <2> QED BY <2>3, <2>17, <2>18
<1> QED BY <1>1, <1>2, <1>3, <1>4, <1>5, <1>6, <1>7, <1>8, <1>9, <1>10, <1>11 DEF Next

(* LC_ResolveProcBody: where no loop that may not run, and no statement a  *)
(* break leaves, is counted as returning, an accepted procedure with a     *)
(* result never reaches the end of its body.                               *)
THEOREM PathsReturn == Spec => [](ReturnsAreFinal => AllPathsReturn)
<1> DEFINE E == ReturnsAreFinal => CoversInv
<1>1. Init => E
  BY DEF Init, CoversInv
<1>2. Inv /\ E /\ [Next]_vars => E'
  <2>1. [Next]_vars => UNCHANGED proc
    BY DEF Next, vars, ResolveProcBody, Simple, Defer, EnterBlock, Iterate, EndLoop, EndBlock, EndProc, Return, Break
  <2> QED BY <2>1, SameFinal, CoversStep
<1>3. E => (ReturnsAreFinal => AllPathsReturn)
  BY DEF CoversInv, AllPathsReturn
<1> HIDE DEF E
<1> QED BY <1>1, <1>2, <1>3, Invariant, PTL DEF Spec

---------------------------------------------------------------------------
(* The generator: Generation for every set of procedure bodies and every   *)
(* bound on its recursion.                                                 *)

LEMMA FlattenIn ==
    ASSUME NEW T, NEW ss \in Seq(Seq(T))
    PROVE  FlattenSeq(ss) \in Seq(T)
<1> DEFINE L == Len(ss)
           E(f) == [i \in 1 .. L |-> IF i = 1 THEN ss[i] ELSE f[i - 1] \o ss[i]]
           H == [n \in Nat |-> [g \in [0 .. n - 1 -> Seq(T)] |->
                    IF n = 0 \/ n > L THEN <<>> ELSE IF n = 1 THEN ss[n] ELSE g[n - 1] \o ss[n]]]
<1>1. L \in Nat /\ \A i \in 1 .. L : ss[i] \in Seq(T)
  OBVIOUS
<1> HIDE DEF L
<1>2. \A n \in Nat : \A g \in [0 .. n - 1 -> Seq(T)] :
        H[n][g] = IF n = 0 \/ n > L THEN <<>> ELSE IF n = 1 THEN ss[n] ELSE g[n - 1] \o ss[n]
  OBVIOUS
<1>3. <<>> \in Seq(T) /\ \A s, t \in Seq(T) : s \o t \in Seq(T)
  OBVIOUS
<1>4. \A n \in Nat : n # 0 => n - 1 \in 0 .. n - 1
  OBVIOUS
<1>5. IsRule(H, Seq(T))
  <2> SUFFICES ASSUME NEW n \in Nat, NEW g \in [0 .. n - 1 -> Seq(T)]
               PROVE  H[n][g] \in Seq(T)
    BY DEF IsRule
  <2> HIDE DEF H
  <2>1. CASE n = 0 \/ n > L
    BY <1>2, <1>3, <2>1
  <2>2. CASE ~(n = 0 \/ n > L)
    <3>1. g[n - 1] \in Seq(T) /\ n \in 1 .. L
      BY <1>1, <1>4, <2>2
    <3>2. ss[n] \in Seq(T) /\ g[n - 1] \o ss[n] \in Seq(T)
      BY <1>1, <1>3, <3>1
    <3>3. H[n][g] = IF n = 1 THEN ss[n] ELSE g[n - 1] \o ss[n]
      BY <1>2, <2>2
    <3> QED BY <3>2, <3>3
  <2> QED BY <2>1, <2>2
<1> HIDE DEF H
<1>6. PICK f : Follows(f, H, Seq(T))
  <2>1. PICK K, S : K = H /\ S = Seq(T)
    OBVIOUS
  <2> QED BY <1>5, <2>1, Recursion
<1> DEFINE h == [i \in 1 .. L |-> f[i]]
<1>7. \A i \in 1 .. L : f[i] = E(h)[i]
  <2> SUFFICES ASSUME NEW i \in 1 .. L
               PROVE  f[i] = E(h)[i]
    OBVIOUS
  <2>1. i \in Nat /\ i # 0 /\ ~(i > L) /\ i - 1 \in 0 .. i - 1 /\ \A j \in 0 .. i - 1 : j \in Nat
    BY <1>1
  <2>2. Before(f, i) \in [0 .. i - 1 -> Seq(T)] /\ \A j \in 0 .. i - 1 : Before(f, i)[j] = f[j]
    BY <1>6, <2>1 DEF Before, Follows
  <2>3. f[i] = H[i][Before(f, i)]
    BY <1>6, <2>1 DEF Follows
  <2>4. i # 1 => i - 1 \in 1 .. L /\ Before(f, i)[i - 1] = h[i - 1]
    BY <1>1, <2>1, <2>2
  <2> HIDE DEF h
  <2> QED BY <1>2, <2>1, <2>2, <2>3, <2>4
<1>8. h = E(h)
  BY <1>7
<1> DEFINE F == CHOOSE e : e = E(e)
<1>9. F = E(F)
  <2> HIDE DEF E, h
  <2> QED BY <1>8
<1>10. FlattenSeq(ss) = IF L = 0 THEN ss ELSE F[L]
  BY DEF FlattenSeq, L
<1> HIDE DEF F
<1>11. \A i \in 1 .. L : F[i] = IF i = 1 THEN ss[i] ELSE F[i - 1] \o ss[i]
  BY <1>9
<1> DEFINE G == {n \in Nat : n \in 1 .. L => F[n] \in Seq(T)}
<1>12. 0 \in G
  OBVIOUS
<1>13. ASSUME NEW n \in Nat, n \in G
       PROVE  n + 1 \in G
  <2> SUFFICES ASSUME n + 1 \in 1 .. L
               PROVE  F[n + 1] \in Seq(T)
    OBVIOUS
  <2>1. (n + 1) - 1 = n /\ (n + 1 # 1 => n \in 1 .. L) /\ ss[n + 1] \in Seq(T)
    BY <1>1
  <2>2. n + 1 # 1 => F[n] \in Seq(T)
    BY <1>13, <2>1
  <2>3. F[n + 1] = IF n + 1 = 1 THEN ss[n + 1] ELSE F[n] \o ss[n + 1]
    BY <1>11, <2>1
  <2> QED BY <1>3, <2>1, <2>2, <2>3
<1> HIDE DEF G
<1>14. Nat \subseteq G
  BY <1>12, <1>13, Induction
<1>15. L # 0 => F[L] \in Seq(T)
  <2>1. L # 0 => L \in 1 .. L
    BY <1>1
  <2> QED BY <1>1, <1>14, <2>1 DEF G
<1>16. L = 0 => ss \in Seq(T)
  <2>1. L = 0 => ss = <<>>
    BY DEF L
  <2> QED BY <1>3, <2>1
<1> QED BY <1>10, <1>15, <1>16

(* What LC_GenCDefers prints are deferred blocks, written in the block.    *)
DefersIn(b) == {t \in Blocks : Kind(t) = "Defer" /\ Parent(t) = b}

LEMMA DefersOfBlock ==
    ASSUME proc \in Procs, NEW b \in Blocks
    PROVE  GenCDefers(b) \in Seq(DefersIn(b))
<1> DEFINE L == Len(Stmts(b))
           T == {n \in Nat : n <= L => FirstDefer[b][n] \in Seq(DefersIn(b))}
<1>1. L \in Nat /\ DOMAIN Stmts(b) = 1 .. L
  <2>1. Stmts(b) \in Seq(Statement)
    BY ProcFacts
  <2> HIDE DEF Statement
  <2> QED BY <2>1
<1>2. /\ FirstDefer[b][0] = <<>>
      /\ \A i \in 1 .. L :
           FirstDefer[b][i] = IF Stmts(b)[i].op = "defer" THEN Stmts(b)[i].bodies \o FirstDefer[b][i - 1]
                              ELSE FirstDefer[b][i - 1]
  BY <1>1, FirstDeferDef
<1>3. ASSUME NEW i \in 1 .. L, Stmts(b)[i].op = "defer"
      PROVE  Stmts(b)[i].bodies \in Seq(DefersIn(b))
  <2>1. Stmts(b)[i].bodies \in Seq(Nat)
    BY <1>1, ProcFacts DEF Statement
  <2>2. ASSUME NEW k \in DOMAIN Stmts(b)[i].bodies
        PROVE  Stmts(b)[i].bodies[k] \in DefersIn(b)
    <3>1. Within1(b, i, Stmts(b)[i].bodies[k])
      BY <1>1 DEF Within1, Holds
    <3> QED BY <1>3, <3>1, PlaceFacts DEF BodyKind, DefersIn
  <2>3. \A S : \A q \in Seq(Nat) : (\A k \in DOMAIN q : q[k] \in S) => q \in Seq(S)
    OBVIOUS
  <2> QED BY <2>1, <2>2, <2>3
<1>4. \A S : <<>> \in Seq(S) /\ \A s, t \in Seq(S) : s \o t \in Seq(S)
  OBVIOUS
<1> HIDE DEF L
<1>5. 0 \in T
  BY <1>2, <1>4
<1>6. ASSUME NEW n \in Nat, n \in T
      PROVE  n + 1 \in T
  <2> SUFFICES ASSUME n + 1 <= L
               PROVE  FirstDefer[b][n + 1] \in Seq(DefersIn(b))
    OBVIOUS
  <2>1. n + 1 \in 1 .. L /\ (n + 1) - 1 = n /\ n <= L
    BY <1>1
  <2>2. FirstDefer[b][n] \in Seq(DefersIn(b))
    BY <1>6, <2>1
  <2>3. FirstDefer[b][n + 1] = IF Stmts(b)[n + 1].op = "defer"
                               THEN Stmts(b)[n + 1].bodies \o FirstDefer[b][n] ELSE FirstDefer[b][n]
    BY <1>2, <2>1
  <2> QED BY <1>3, <1>4, <2>1, <2>2, <2>3
<1> HIDE DEF T
<1>7. Nat \subseteq T
  BY <1>5, <1>6, Induction
<1>8. FirstDefer[b][L] \in Seq(DefersIn(b))
  BY <1>1, <1>7 DEF T
<1> QED BY <1>8 DEF GenCDefers, L

LEMMA DefersAreDeferred ==
    ASSUME proc \in Procs, NEW bs \in Seq(Blocks)
    PROVE  DefersOf(bs) \in Seq({t \in Blocks : Kind(t) = "Defer"})
<1> DEFINE D == {t \in Blocks : Kind(t) = "Defer"}
           ss == [i \in DOMAIN bs |-> GenCDefers(bs[i])]
<1>1. \A b \in Blocks : GenCDefers(b) \in Seq(D)
  <2> SUFFICES ASSUME NEW b \in Blocks
               PROVE  GenCDefers(b) \in Seq(D)
    OBVIOUS
  <2>1. GenCDefers(b) \in Seq(DefersIn(b)) /\ DefersIn(b) \subseteq D
    BY DefersOfBlock DEF DefersIn
  <2>2. \A S : \A q \in Seq(S) : \A R : S \subseteq R => q \in Seq(R)
    OBVIOUS
  <2> QED BY <2>1, <2>2
<1>2. Len(bs) \in Nat /\ DOMAIN bs = 1 .. Len(bs) /\ \A i \in 1 .. Len(bs) : bs[i] \in Blocks
  OBVIOUS
<1> HIDE DEF D
<1>3. ss \in Seq(Seq(D))
  BY <1>1, <1>2
<1> HIDE DEF ss
<1>4. FlattenSeq(ss) \in Seq(D)
  BY <1>3, FlattenIn
<1> QED BY <1>4 DEF DefersOf, ss, D

(* A block is outside of every deferred block if it is not one and the     *)
(* block it is written in is outside.                                      *)
Outside(b) == MakeSureNoDeferBlock(b)

LEMMA OutsideFacts ==
    ASSUME proc \in Procs, NEW b \in Blocks
    PROVE  /\ BlockStack[b] = <<b>> \o BlockStack[Parent(b)] /\ BlockStack[Parent(b)] \in Seq(Nat)
           /\ Outside(b) <=> Kind(b) # "Defer" /\ (Parent(b) # 0 => Outside(Parent(b)))
<1>1. b \in Nat /\ b # 0 /\ Parent(b) \in Nat
  BY ProcFacts, ParentFacts
<1>2. BlockStack[b] = <<b>> \o BlockStack[Parent(b)] /\ BlockStack[Parent(b)] \in Seq(Nat)
  BY <1>1, BlockStackDef
<1>3. BlockStack[0] = <<>>
  BY BlockStackDef
<1> DEFINE s == BlockStack[Parent(b)]
           t == BlockStack[b]
<1>4. s \in Seq(Nat) /\ t = <<b>> \o s /\ (Parent(b) = 0 => s = <<>>)
  BY <1>2, <1>3
<1> HIDE DEF s, t
<1>5. /\ 1 \in DOMAIN t /\ t[1] = b
      /\ \A i \in DOMAIN s : i + 1 \in DOMAIN t /\ t[i + 1] = s[i]
      /\ \A i \in DOMAIN t : i = 1 \/ (i - 1 \in DOMAIN s /\ t[i] = s[i - 1])
  BY <1>1, <1>4
<1>6. (\A i \in DOMAIN t : Kind(t[i]) # "Defer") <=>
      Kind(b) # "Defer" /\ (Parent(b) # 0 => \A i \in DOMAIN s : Kind(s[i]) # "Defer")
  <2>1. ASSUME \A i \in DOMAIN t : Kind(t[i]) # "Defer"
        PROVE  Kind(b) # "Defer" /\ \A i \in DOMAIN s : Kind(s[i]) # "Defer"
    BY <1>5, <2>1
  <2>2. ASSUME Kind(b) # "Defer", \A i \in DOMAIN s : Kind(s[i]) # "Defer", NEW i \in DOMAIN t
        PROVE  Kind(t[i]) # "Defer"
    BY <1>5, <2>2
  <2>3. Parent(b) = 0 => DOMAIN s = {}
    BY <1>4
  <2> QED BY <2>1, <2>2, <2>3
<1> QED BY <1>2, <1>6 DEF Outside, MakeSureNoDeferBlock, s, t

(* Blocks count up on the way in, those inside of a deferred block after   *)
(* all others: what may be printed from a block is further on.             *)
Rank(b) == IF Outside(b) THEN b ELSE Len(proc.blocks) + b
MayFollow(t, b) == t \in Blocks /\ (Parent(t) = b \/ (Kind(t) = "Defer" /\ Outside(b)))

LEMMA FurtherOn ==
    ASSUME proc \in Procs, NEW b \in Blocks, NEW t, MayFollow(t, b)
    PROVE  Rank(b) < Rank(t) /\ Rank(b) \in Nat /\ Rank(t) \in Nat
<1>1. t \in Blocks /\ Len(proc.blocks) \in Nat /\ Blocks = 1 .. Len(proc.blocks)
  BY ProcFacts DEF MayFollow
<1>2. CASE Parent(t) = b
  <2>1. b # 0 /\ b < t
    BY <1>1, <1>2, ParentFacts
  <2>2. Outside(t) => Outside(b)
    BY <1>1, <1>2, <2>1, OutsideFacts
  <2> QED BY <1>1, <2>1, <2>2 DEF Rank
<1>3. CASE Kind(t) = "Defer" /\ Outside(b)
  <2>1. ~Outside(t)
    BY <1>1, <1>3, OutsideFacts
  <2> QED BY <1>1, <1>3, <2>1 DEF Rank
<1> QED BY <1>2, <1>3 DEF MayFollow

OutFrame == [b : Nat, next : Nat \ {0}, todo : Seq(Nat)]
IsOutFrame(f) == f \in OutFrame /\ f.b \in Blocks /\ \A k \in DOMAIN f.todo : MayFollow(f.todo[k], f.b)

(* At i and below are the blocks that the block at i is written in.        *)
Sees(s, i) ==
    LET bs == BlockStack[s[i].b]
    IN  Len(bs) = Len(s) - i + 1 /\ \A k \in 1 .. Len(bs) : s[i + k - 1].b = bs[k]

IsOutStack(s) ==
    /\ s \in Seq(OutFrame) /\ \A i \in 1 .. Len(s) : IsOutFrame(s[i])
    /\ \A i, j \in 1 .. Len(s) : i < j => Rank(s[j].b) < Rank(s[i].b)
    /\ \A i \in 1 .. Len(s) : Outside(s[i].b) => Sees(s, i)

GenInv == proc \in Procs /\ IsOutStack(out_block_stack) /\ (out_block_stack # <<>> => Accepted)

LEMMA OutMove ==
    ASSUME proc \in Procs, NEW s, IsOutStack(s), Len(s) > 0,
           NEW f, IsOutFrame(f), f.b = s[1].b
    PROVE  IsOutStack(<<f>> \o Tail(s))
<1> DEFINE r == <<f>> \o Tail(s)
<1>1. s \in Seq(OutFrame) /\ Len(s) \in Nat /\ f \in OutFrame
  BY DEF IsOutStack, IsOutFrame
<1>2. /\ r \in Seq(OutFrame) /\ Len(r) = Len(s) /\ r[1] = f
      /\ \A k \in 2 .. Len(s) : r[k] = s[k]
  <2> HIDE DEF OutFrame
  <2> QED BY <1>1
<1> HIDE DEF r
<1>3. \A k \in 1 .. Len(s) : r[k].b = s[k].b /\ IsOutFrame(r[k])
  <2> SUFFICES ASSUME NEW k \in 1 .. Len(s)
               PROVE  r[k].b = s[k].b /\ IsOutFrame(r[k])
    OBVIOUS
  <2>1. k = 1 \/ k \in 2 .. Len(s)
    BY <1>1
  <2> QED BY <1>2, <2>1 DEF IsOutStack
<1>4. ASSUME NEW i \in 1 .. Len(s), Outside(r[i].b)
      PROVE  Sees(r, i)
  <2> DEFINE bs == BlockStack[s[i].b]
  <2>1. Len(bs) = Len(s) - i + 1 /\ \A k \in 1 .. Len(bs) : s[i + k - 1].b = bs[k]
    BY <1>3, <1>4 DEF IsOutStack, Sees
  <2>2. r[i].b = s[i].b
    BY <1>3
  <2> HIDE DEF bs
  <2>3. \A k \in 1 .. Len(bs) : i + k - 1 \in 1 .. Len(s)
    BY <1>1, <2>1
  <2>4. \A k \in 1 .. Len(bs) : r[i + k - 1].b = bs[k]
    BY <1>3, <2>1, <2>3
  <2> QED BY <1>2, <2>1, <2>2, <2>4 DEF Sees, bs
<1>5. \A i, j \in 1 .. Len(r) : i < j => Rank(r[j].b) < Rank(r[i].b)
  BY <1>2, <1>3 DEF IsOutStack
<1> QED BY <1>2, <1>3, <1>4, <1>5 DEF IsOutStack, r

LEMMA OutPush ==
    ASSUME proc \in Procs, NEW s, IsOutStack(s), Len(s) > 0,
           NEW f, IsOutFrame(f), MayFollow(f.b, s[1].b)
    PROVE  IsOutStack(<<f>> \o s)
<1> DEFINE r == <<f>> \o s
<1>1. s \in Seq(OutFrame) /\ Len(s) \in Nat /\ f \in OutFrame /\ 1 \in 1 .. Len(s)
  BY DEF IsOutStack, IsOutFrame
<1>2. /\ r \in Seq(OutFrame) /\ Len(r) = Len(s) + 1 /\ r[1] = f
      /\ \A k \in 2 .. Len(r) : r[k] = s[k - 1]
  <2> HIDE DEF OutFrame
  <2> QED BY <1>1
<1> HIDE DEF r
<1>3. \A k \in 1 .. Len(r) : k = 1 \/ (k \in 2 .. Len(r) /\ k - 1 \in 1 .. Len(s))
  BY <1>1, <1>2
<1>4. \A k \in 1 .. Len(r) : IsOutFrame(r[k])
  BY <1>2, <1>3 DEF IsOutStack
<1>5. \A k \in 1 .. Len(s) : s[k].b \in Blocks /\ Rank(s[k].b) \in Nat
  <2> SUFFICES ASSUME NEW k \in 1 .. Len(s)
               PROVE  s[k].b \in Blocks /\ Rank(s[k].b) \in Nat
    OBVIOUS
  <2>1. s[k].b \in Blocks
    BY DEF IsOutStack, IsOutFrame
  <2>2. s[k].b \in Nat /\ Len(proc.blocks) \in Nat
    BY <2>1, ProcFacts
  <2> QED BY <2>1, <2>2 DEF Rank
<1>6. Rank(s[1].b) < Rank(f.b) /\ Rank(f.b) \in Nat
  BY <1>1, <1>5, FurtherOn
<1>7. ASSUME NEW i \in 1 .. Len(r), NEW j \in 1 .. Len(r), i < j
      PROVE  Rank(r[j].b) < Rank(r[i].b)
  <2>1. j \in 2 .. Len(r) /\ j - 1 \in 1 .. Len(s) /\ r[j] = s[j - 1]
    BY <1>2, <1>3, <1>7
  <2>2. CASE i = 1
    <3>1. Rank(s[j - 1].b) <= Rank(s[1].b)
      <4>1. j - 1 = 1 \/ 1 < j - 1
        BY <2>1
      <4> QED BY <1>1, <1>5, <2>1, <4>1 DEF IsOutStack
    <3> QED BY <1>1, <1>2, <1>5, <1>6, <2>1, <2>2, <3>1
  <2>3. CASE i # 1
    <3>1. i - 1 \in 1 .. Len(s) /\ i - 1 < j - 1 /\ r[i] = s[i - 1]
      BY <1>2, <1>3, <1>7, <2>3
    <3> QED BY <2>1, <3>1 DEF IsOutStack
  <2> QED BY <2>2, <2>3
<1>8. ASSUME NEW i \in 1 .. Len(r), Outside(r[i].b)
      PROVE  Sees(r, i)
  <2>1. CASE i = 1
    <3>1. f.b \in Blocks /\ Outside(f.b) /\ s[1].b \in Nat \ {0}
      BY <1>1, <1>2, <1>5, <1>8, <2>1, ProcFacts DEF IsOutFrame
    <3>2. Parent(f.b) = s[1].b /\ Outside(s[1].b)
      BY <3>1, OutsideFacts DEF MayFollow
    <3> DEFINE bs == BlockStack[s[1].b]
               cs == BlockStack[f.b]
    <3>3. cs = <<f.b>> \o bs /\ bs \in Seq(Nat) /\ f.b \in Nat
      BY <3>1, <3>2, OutsideFacts, ProcFacts
    <3>4. Len(bs) = Len(s) - 1 + 1 /\ \A k \in 1 .. Len(bs) : s[1 + k - 1].b = bs[k]
      BY <1>1, <3>2 DEF IsOutStack, Sees
    <3> HIDE DEF bs, cs
    <3>5. Len(bs) = Len(s) /\ \A k \in 1 .. Len(bs) : s[k].b = bs[k]
      BY <1>1, <3>4
    <3>6. /\ Len(cs) = Len(bs) + 1 /\ cs[1] = f.b
          /\ \A k \in 2 .. Len(cs) : cs[k] = bs[k - 1] /\ k - 1 \in 1 .. Len(bs)
      BY <3>3
    <3>7. \A k \in 1 .. Len(cs) : r[k].b = cs[k]
      <4> SUFFICES ASSUME NEW k \in 1 .. Len(cs)
                   PROVE  r[k].b = cs[k]
        OBVIOUS
      <4>1. CASE k = 1
        BY <1>2, <3>6, <4>1
      <4>2. CASE k # 1
        <5>1. k \in 2 .. Len(cs) /\ k \in 2 .. Len(r) /\ k - 1 \in 1 .. Len(bs)
          BY <1>1, <1>2, <3>5, <3>6, <4>2
        <5> QED BY <1>2, <3>5, <3>6, <5>1
      <4> QED BY <4>1, <4>2
    <3>8. \A k \in 1 .. Len(cs) : 1 + k - 1 = k
      OBVIOUS
    <3>9. Len(cs) = Len(r) - 1 + 1 /\ \A k \in 1 .. Len(cs) : r[1 + k - 1].b = cs[k]
      BY <1>1, <1>2, <3>5, <3>6, <3>7, <3>8
    <3> QED BY <1>2, <2>1, <3>9 DEF Sees, cs
  <2>2. CASE i # 1
    <3>1. i \in 2 .. Len(r) /\ i - 1 \in 1 .. Len(s) /\ r[i] = s[i - 1]
      BY <1>2, <1>3, <2>2
    <3> DEFINE bs == BlockStack[s[i - 1].b]
    <3>2. Len(bs) = Len(s) - (i - 1) + 1 /\ \A k \in 1 .. Len(bs) : s[(i - 1) + k - 1].b = bs[k]
      BY <1>8, <3>1 DEF IsOutStack, Sees
    <3> HIDE DEF bs
    <3>3. \A k \in 1 .. Len(bs) : i + k - 1 \in 2 .. Len(r) /\ (i + k - 1) - 1 = (i - 1) + k - 1
      BY <1>1, <1>2, <3>1, <3>2
    <3>4. \A k \in 1 .. Len(bs) : r[i + k - 1].b = bs[k]
      BY <1>2, <3>2, <3>3
    <3>5. Len(bs) = Len(r) - i + 1
      BY <1>1, <1>2, <3>1, <3>2
    <3> QED BY <3>1, <3>4, <3>5 DEF Sees, bs
  <2> QED BY <2>1, <2>2
<1> QED BY <1>2, <1>4, <1>7, <1>8 DEF IsOutStack, r

LEMMA OutPop ==
    ASSUME NEW s, IsOutStack(s), Len(s) > 0
    PROVE  IsOutStack(Tail(s))
<1> DEFINE r == Tail(s)
<1>1. s \in Seq(OutFrame) /\ Len(s) \in Nat
  BY DEF IsOutStack
<1>2. r \in Seq(OutFrame) /\ Len(r) = Len(s) - 1 /\ \A k \in 1 .. Len(r) : r[k] = s[k + 1]
  <2> HIDE DEF OutFrame
  <2> QED BY <1>1
<1> HIDE DEF r
<1>3. \A k \in 1 .. Len(r) : k + 1 \in 1 .. Len(s)
  BY <1>1, <1>2
<1>4. \A k \in 1 .. Len(r) : IsOutFrame(r[k])
  BY <1>2, <1>3 DEF IsOutStack
<1>5. ASSUME NEW i \in 1 .. Len(r), NEW j \in 1 .. Len(r), i < j
      PROVE  Rank(r[j].b) < Rank(r[i].b)
  <2>1. i + 1 < j + 1 /\ i + 1 \in 1 .. Len(s) /\ j + 1 \in 1 .. Len(s)
    BY <1>3, <1>5
  <2> QED BY <1>2, <2>1 DEF IsOutStack
<1>6. ASSUME NEW i \in 1 .. Len(r), Outside(r[i].b)
      PROVE  Sees(r, i)
  <2> DEFINE bs == BlockStack[s[i + 1].b]
  <2>1. Len(bs) = Len(s) - (i + 1) + 1 /\ \A k \in 1 .. Len(bs) : s[(i + 1) + k - 1].b = bs[k]
    BY <1>2, <1>3, <1>6 DEF IsOutStack, Sees
  <2> HIDE DEF bs
  <2>2. \A k \in 1 .. Len(bs) : i + k - 1 \in 1 .. Len(r) /\ (i + k - 1) + 1 = (i + 1) + k - 1
    BY <1>1, <1>2, <2>1
  <2>3. \A k \in 1 .. Len(bs) : r[i + k - 1].b = bs[k]
    BY <1>2, <2>1, <2>2
  <2>4. Len(bs) = Len(r) - i + 1
    BY <1>1, <1>2, <2>1
  <2> QED BY <1>2, <2>3, <2>4 DEF Sees, bs
<1> QED BY <1>2, <1>4, <1>5, <1>6 DEF IsOutStack, r

LEMMA OutNext ==
    ASSUME UNCHANGED proc, NEW t, t = out_block_stack', IsOutStack(t)
    PROVE  IsOutStack(out_block_stack)'
<1>1. \A b : Outside(b)' = Outside(b) /\ Parent(b)' = Parent(b) /\ Kind(b)' = Kind(b)
  BY SameProc DEF Outside, MakeSureNoDeferBlock, Kind, Parent, Blocks, StmtsOf, Stmts, Holds
<1>2. \A b : Rank(b)' = Rank(b)
  BY <1>1 DEF Rank
<1>3. \A x, b : MayFollow(x, b)' = MayFollow(x, b)
  BY <1>1, SameProc DEF MayFollow
<1>4. \A f : IsOutFrame(f)' = IsOutFrame(f)
  BY <1>3, SameProc DEF IsOutFrame
<1>5. \A s, i : Sees(s, i)' = Sees(s, i)
  BY SameProc DEF Sees
<1> QED BY <1>1, <1>2, <1>4, <1>5 DEF IsOutStack

LEMMA BegunFacts ==
    ASSUME proc \in Procs, NEW b \in Blocks
    PROVE  Begun(b) \in OutFrame /\ Begun(b).b = b /\ Begun(b).todo = <<>> /\ IsOutFrame(Begun(b))
<1>0. <<>> \in Seq(Nat) /\ DOMAIN <<>> = {}
  OBVIOUS
<1>1. b \in Nat
  BY ProcFacts
<1>2. Begun(b) = [b |-> b, next |-> 1, todo |-> <<>>]
  BY DEF Begun
<1>3. Begun(b) \in OutFrame /\ Begun(b).b = b /\ Begun(b).todo = <<>>
  BY <1>0, <1>1, <1>2 DEF OutFrame
<1> QED BY <1>0, <1>3 DEF IsOutFrame

LEMMA InnermostFacts ==
    ASSUME GenInv, out_block_stack # <<>>
    PROVE  /\ proc \in Procs /\ Accepted /\ IsOutStack(out_block_stack) /\ Len(out_block_stack) \in Nat
           /\ Len(out_block_stack) > 0 /\ Innermost = out_block_stack[1] /\ IsOutFrame(Innermost)
           /\ Innermost \in OutFrame /\ Innermost.b \in Blocks
<1>1. out_block_stack \in Seq(OutFrame)
  BY DEF GenInv, IsOutStack
<1>2. Len(out_block_stack) \in Nat /\ Len(out_block_stack) > 0
  <2> HIDE DEF OutFrame
  <2> QED BY <1>1
<1> QED BY <1>2 DEF GenInv, IsOutStack, IsOutFrame, Innermost

LEMMA PrintsFacts ==
    ASSUME GenInv, NEW ops, Prints(ops)
    PROVE  /\ Innermost.next \in DOMAIN Stmts(Innermost.b) /\ Current \in Statement
           /\ Current \in StmtsOf(Innermost.b) /\ Current.op \in ops
<1>1. /\ proc \in Procs /\ Innermost \in OutFrame /\ Innermost.b \in Blocks
      /\ Innermost.next < End /\ Current.op \in ops
  BY InnermostFacts DEF Prints, Idle
<1>2. Innermost.next \in Nat \ {0}
  BY <1>1 DEF OutFrame
<1>3. Stmts(Innermost.b) \in Seq(Statement)
  BY <1>1, ProcFacts
<1>4. Innermost.next \in DOMAIN Stmts(Innermost.b)
  <2> HIDE DEF Statement
  <2> QED BY <1>1, <1>2, <1>3 DEF End
<1>5. Current \in Statement
  BY <1>1, <1>4, ProcFacts DEF Current
<1> QED BY <1>1, <1>4, <1>5 DEF StmtsOf, Current

(* An exit that is printed was written there: it is in no deferred block.  *)
LEMMA ExitIsOutside ==
    ASSUME GenInv, Prints({"return", "break", "continue"})
    PROVE  Outside(Innermost.b) /\ Sees(out_block_stack, 1)
<1>1. /\ Innermost = out_block_stack[1] /\ Innermost.b \in Blocks /\ Accepted
      /\ IsOutStack(out_block_stack) /\ 1 \in 1 .. Len(out_block_stack)
  BY InnermostFacts DEF Prints, Idle
<1>2. Current \in StmtsOf(Innermost.b) /\ Current.op \in {"return", "break", "continue"}
  BY PrintsFacts
<1>3. Outside(Innermost.b)
  BY <1>1, <1>2 DEF Accepted, StmtIsLegal, Outside
<1> QED BY <1>1, <1>3 DEF IsOutStack

LEMMA GoOnFacts ==
    ASSUME GenInv, out_block_stack # <<>>, NEW blocks \in Seq(Nat), GoOnWith(blocks), UNCHANGED proc,
           \A k \in DOMAIN blocks : MayFollow(blocks[k], Innermost.b)
    PROVE  IsOutStack(out_block_stack)'
<1> DEFINE f == [b |-> Innermost.b, next |-> Innermost.next + 1, todo |-> blocks]
<1>1. /\ proc \in Procs /\ IsOutStack(out_block_stack) /\ Len(out_block_stack) > 0
      /\ Innermost = out_block_stack[1] /\ Innermost \in OutFrame /\ Innermost.b \in Blocks
  BY InnermostFacts
<1>2. f \in OutFrame /\ f.b = Innermost.b /\ f.todo = blocks
  BY <1>1 DEF OutFrame
<1>3. out_block_stack' = <<f>> \o Tail(out_block_stack)
  BY DEF GoOnWith, Replace, Outer
<1> HIDE DEF f
<1>4. IsOutFrame(f)
  BY <1>1, <1>2 DEF IsOutFrame
<1>5. IsOutStack(<<f>> \o Tail(out_block_stack))
  BY <1>1, <1>2, <1>4, OutMove
<1> QED BY <1>3, <1>5, OutNext

LEMMA GenInvStep == GenInv /\ [GenNext]_gvars => GenInv'
<1> SUFFICES ASSUME GenInv, [GenNext]_gvars
             PROVE  GenInv'
  OBVIOUS
<1>0. proc \in Procs /\ UNCHANGED proc
  <2>1. [Next]_vars => UNCHANGED proc
    BY DEF Next, vars, ResolveProcBody, Simple, Defer, EnterBlock, Iterate, EndLoop, EndBlock, EndProc, Return, Break
  <2>2. Compile => UNCHANGED proc
    BY DEF Compile, ResolveProcBody
  <2>3. Run => UNCHANGED proc
    BY <2>1 DEF Run
  <2> QED BY <2>2, <2>3 DEF GenInv, GenNext, gvars, vars
<1>a. Accepted' = Accepted /\ proc' \in Procs
  BY <1>0, SameAccepted
<1>b. \A S : \A q \in Seq(S) : \A R : S \subseteq R => q \in Seq(R) /\ \A k \in DOMAIN q : q[k] \in S
  OBVIOUS
<1>c. Blocks \subseteq Nat
  BY <1>0, ProcFacts
<1>1. CASE Compile
  <2>1. CASE Accepted
    <3> DEFINE t == <<Begun(1)>>
    <3>1. 1 \in Blocks
      BY <1>0, ProcFacts
    <3>2. Begun(1) \in OutFrame /\ Begun(1).b = 1 /\ IsOutFrame(Begun(1))
      BY <1>0, <3>1, BegunFacts
    <3>3. t \in Seq(OutFrame) /\ Len(t) = 1 /\ t[1] = Begun(1)
      <4> HIDE DEF OutFrame, Begun
      <4> QED BY <3>2
    <3> HIDE DEF t
    <3>4. \A k \in 1 .. Len(t) : k = 1
      BY <3>3
    <3>5. Sees(t, 1)
      <4>1. Parent(1) = 0
        <5>1. Parent(1) # 0 => Parent(1) \in Nat /\ Parent(1) < 1
          BY <1>0, ParentFacts
        <5> QED BY <5>1
      <4>2. BlockStack[0] = <<>> /\ BlockStack[1] = <<1>> \o BlockStack[Parent(1)]
        BY <1>0, <3>1, BlockStackDef, OutsideFacts
      <4> DEFINE bs == BlockStack[1]
      <4>3. bs = <<1>>
        <5>1. bs = <<1>> \o <<>>
          BY <4>1, <4>2
        <5> HIDE DEF bs
        <5> QED BY <5>1
      <4> HIDE DEF bs
      <4>4. Len(bs) = Len(t) - 1 + 1 /\ \A k \in 1 .. Len(bs) : t[1 + k - 1].b = bs[k]
        BY <3>2, <3>3, <4>3
      <4> QED BY <3>2, <3>3, <4>4 DEF Sees, bs
    <3>6. IsOutStack(t)
      BY <3>2, <3>3, <3>4, <3>5 DEF IsOutStack
    <3>7. out_block_stack' = t
      BY <1>1, <2>1 DEF Compile, t
    <3>8. IsOutStack(out_block_stack)'
      BY <1>0, <3>6, <3>7, OutNext
    <3> QED BY <1>a, <2>1, <3>8 DEF GenInv
  <2>2. CASE ~Accepted
    <3>1. out_block_stack' = <<>>
      BY <1>1, <2>2 DEF Compile
    <3>2. IsOutStack(<<>>)
      BY DEF IsOutStack
    <3>3. IsOutStack(out_block_stack)'
      BY <1>0, <3>1, <3>2, OutNext
    <3> QED BY <1>a, <3>1, <3>3 DEF GenInv
  <2> QED BY <2>1, <2>2
<1>2. CASE GenPlain
  <2>1. out_block_stack # <<>> /\ GoOnWith(<<>>) /\ <<>> \in Seq(Nat)
    BY <1>2 DEF GenPlain, Prints, Idle
  <2>2. \A k \in DOMAIN <<>> : MayFollow(<<>>[k], Innermost.b)
    OBVIOUS
  <2>3. IsOutStack(out_block_stack)'
    BY <1>0, <2>1, <2>2, GoOnFacts
  <2> QED BY <1>a, <2>1, <2>3 DEF GenInv
<1>3. CASE GenCompound
  <2>1. out_block_stack # <<>> /\ GoOnWith(Current.bodies) /\ Prints({"block", "if", "switch", "for"})
    BY <1>3 DEF GenCompound, Prints, Idle
  <2>2. Current \in Statement /\ Innermost.next \in DOMAIN Stmts(Innermost.b) /\ Innermost.b \in Blocks
    BY <2>1, PrintsFacts, InnermostFacts
  <2>3. Current.bodies \in Seq(Nat)
    BY <2>2 DEF Statement
  <2>4. \A k \in DOMAIN Current.bodies : MayFollow(Current.bodies[k], Innermost.b)
    <3> SUFFICES ASSUME NEW k \in DOMAIN Current.bodies
                 PROVE  MayFollow(Current.bodies[k], Innermost.b)
      OBVIOUS
    <3>1. Within1(Innermost.b, Innermost.next, Current.bodies[k])
      BY <2>2 DEF Within1, Holds, Current
    <3> QED BY <1>0, <3>1, PlaceFacts DEF MayFollow
  <2>5. IsOutStack(out_block_stack)'
    BY <1>0, <2>1, <2>3, <2>4, GoOnFacts
  <2> QED BY <1>a, <2>1, <2>5 DEF GenInv
<1>4. CASE GenExit
  <2> DEFINE n == IF Current.op = "return" THEN GenCDefersReturn(OutBlocks)
                  ELSE GenCDefersLoopBreak(Current, OutBlocks)
             ds == DefersOf(SubSeq(OutBlocks, 1, n))
  <2>1. out_block_stack # <<>> /\ n # -1 /\ GoOnWith(ds) /\ Prints({"return", "break", "continue"})
    BY <1>4 DEF GenExit, Prints, Idle
  <2>2. /\ Outside(Innermost.b) /\ IsOutStack(out_block_stack) /\ Len(out_block_stack) \in Nat
    BY <2>1, ExitIsOutside, InnermostFacts
  <2>3. OutBlocks \in Seq(Blocks) /\ Len(OutBlocks) = Len(out_block_stack)
    <3>1. \A i \in 1 .. Len(out_block_stack) : out_block_stack[i].b \in Blocks
      BY <2>2 DEF IsOutStack, IsOutFrame
    <3>2. DOMAIN out_block_stack = 1 .. Len(out_block_stack)
      <4>1. out_block_stack \in Seq(OutFrame)
        BY <2>2 DEF IsOutStack
      <4> HIDE DEF OutFrame
      <4> QED BY <4>1
    <3> QED BY <2>2, <3>1, <3>2 DEF OutBlocks
  <2>4. n \in 1 .. Len(OutBlocks)
    <3>1. \A S : S \subseteq DOMAIN OutBlocks /\ Length(S) # -1 => Length(S) \in DOMAIN OutBlocks
      <4> SUFFICES ASSUME NEW S, S \subseteq DOMAIN OutBlocks, Length(S) # -1
                   PROVE  Length(S) \in DOMAIN OutBlocks
        OBVIOUS
      <4>1. S # {}
        BY DEF Length
      <4>2. S \subseteq Nat
        BY <2>3
      <4> QED BY <4>1, <4>2, LengthFacts
    <3>2. DOMAIN OutBlocks = 1 .. Len(OutBlocks)
      BY <2>3
    <3>3. CASE Current.op = "return"
      <4> DEFINE S == {i \in DOMAIN OutBlocks : Kind(OutBlocks[i]) = "Proc"}
      <4>1. n = Length(S) /\ S \subseteq DOMAIN OutBlocks
        BY <3>3 DEF GenCDefersReturn
      <4> HIDE DEF S, n
      <4> QED BY <2>1, <3>1, <3>2, <4>1
    <3>4. CASE Current.op # "return"
      <4> DEFINE S == {i \in DOMAIN OutBlocks : /\ Kind(OutBlocks[i]) = "Loop"
                                                /\ Current.label = "" \/ Label(OutBlocks[i]) = Current.label}
      <4>1. n = Length(S) /\ S \subseteq DOMAIN OutBlocks
        BY <3>4 DEF GenCDefersLoopBreak
      <4> HIDE DEF S, n
      <4> QED BY <2>1, <3>1, <3>2, <4>1
    <3> QED BY <3>3, <3>4
  <2> HIDE DEF n
  <2>5. SubSeq(OutBlocks, 1, n) \in Seq(Blocks)
    BY <2>3, <2>4
  <2>6. ds \in Seq({t \in Blocks : Kind(t) = "Defer"})
    BY <1>0, <2>5, DefersAreDeferred
  <2> HIDE DEF ds
  <2>7. ds \in Seq(Nat) /\ \A k \in DOMAIN ds : MayFollow(ds[k], Innermost.b)
    <3>1. {t \in Blocks : Kind(t) = "Defer"} \subseteq Nat
      BY <1>c
    <3>2. ds \in Seq(Nat) /\ \A k \in DOMAIN ds : ds[k] \in {t \in Blocks : Kind(t) = "Defer"}
      BY <1>b, <2>6, <3>1
    <3> QED BY <2>2, <3>2 DEF MayFollow
  <2>8. IsOutStack(out_block_stack)'
    BY <1>0, <2>1, <2>7, GoOnFacts
  <2> QED BY <1>a, <2>1, <2>8 DEF GenInv
<1>5. CASE GenBlock
  <2> DEFINE f == [Innermost EXCEPT !.todo = Tail(@)]
             g == Begun(Head(Innermost.todo))
             r == <<f>> \o Tail(out_block_stack)
  <2>1. /\ out_block_stack # <<>> /\ Innermost.todo # <<>>
        /\ out_block_stack' = <<g, f>> \o Tail(out_block_stack)
    BY <1>5 DEF GenBlock, Idle, Outer
  <2>2. /\ IsOutStack(out_block_stack) /\ Len(out_block_stack) > 0
        /\ Innermost = out_block_stack[1] /\ IsOutFrame(Innermost) /\ Innermost \in OutFrame
        /\ out_block_stack \in Seq(OutFrame)
    BY <2>1, InnermostFacts DEF IsOutStack
  <2>3. Innermost.todo \in Seq(Nat) /\ \A k \in DOMAIN Innermost.todo : MayFollow(Innermost.todo[k], Innermost.b)
    BY <2>2 DEF IsOutFrame, OutFrame
  <2>4. /\ Head(Innermost.todo) = Innermost.todo[1] /\ 1 \in DOMAIN Innermost.todo
        /\ Tail(Innermost.todo) \in Seq(Nat)
        /\ \A k \in DOMAIN Tail(Innermost.todo) :
             k + 1 \in DOMAIN Innermost.todo /\ Tail(Innermost.todo)[k] = Innermost.todo[k + 1]
    BY <2>1, <2>3
  <2>5. f \in OutFrame /\ f.b = Innermost.b /\ f.todo = Tail(Innermost.todo)
    BY <2>2, <2>4 DEF OutFrame
  <2>6. IsOutFrame(f)
    <3> HIDE DEF f
    <3> QED BY <2>2, <2>3, <2>4, <2>5 DEF IsOutFrame
  <2>7. MayFollow(Head(Innermost.todo), Innermost.b) /\ Head(Innermost.todo) \in Blocks
    BY <2>3, <2>4 DEF MayFollow
  <2>8. g \in OutFrame /\ g.b = Head(Innermost.todo) /\ IsOutFrame(g)
    BY <1>0, <2>7, BegunFacts
  <2> HIDE DEF f, g
  <2>9. IsOutStack(r)
    BY <1>0, <2>2, <2>5, <2>6, OutMove
  <2>10. Len(r) > 0 /\ r[1] = f /\ <<g>> \o r = <<g, f>> \o Tail(out_block_stack)
    <3> DEFINE w == Tail(out_block_stack)
    <3>1. w \in Seq(OutFrame) /\ f \in OutFrame /\ g \in OutFrame
      <4> HIDE DEF OutFrame
      <4> QED BY <2>2, <2>5, <2>8
    <3> HIDE DEF w, OutFrame
    <3>2. Len(<<f>> \o w) > 0 /\ (<<f>> \o w)[1] = f
      BY <3>1
    <3> DEFINE u == <<g>> \o (<<f>> \o w)
               v == <<g, f>> \o w
    <3>3. /\ u \in Seq(OutFrame) /\ v \in Seq(OutFrame)
          /\ Len(u) = Len(w) + 2 /\ Len(v) = Len(w) + 2 /\ Len(w) \in Nat
      BY <3>1
    <3>4. \A k \in 1 .. Len(u) : u[k] = v[k]
      <4>1. u[1] = g /\ u[2] = f /\ v[1] = g /\ v[2] = f
        BY <3>1
      <4>2. \A k \in 3 .. Len(w) + 2 : u[k] = w[k - 2] /\ v[k] = w[k - 2]
        BY <3>1
      <4>3. \A k \in 1 .. Len(w) + 2 : k = 1 \/ k = 2 \/ k \in 3 .. Len(w) + 2
        BY <3>3
      <4> QED BY <3>3, <4>1, <4>2, <4>3
    <3> HIDE DEF u, v
    <3>5. u = v
      BY <3>3, <3>4
    <3> QED BY <3>2, <3>5 DEF u, v, w, r
  <2> HIDE DEF r
  <2>11. IsOutStack(<<g>> \o r)
    BY <1>0, <2>5, <2>7, <2>8, <2>9, <2>10, OutPush
  <2>12. IsOutStack(out_block_stack)'
    BY <1>0, <2>1, <2>10, <2>11, OutNext
  <2> QED BY <1>a, <2>1, <2>12 DEF GenInv
<1>6. CASE GenDefers
  <2>1. out_block_stack # <<>> /\ GoOnWith(GenCDefers(Innermost.b)) /\ Innermost.b \in Blocks
    BY <1>6, InnermostFacts DEF GenDefers, Idle
  <2>2. GenCDefers(Innermost.b) \in Seq(DefersIn(Innermost.b))
    BY <1>0, <2>1, DefersOfBlock
  <2>3. /\ GenCDefers(Innermost.b) \in Seq(Nat)
        /\ \A k \in DOMAIN GenCDefers(Innermost.b) : MayFollow(GenCDefers(Innermost.b)[k], Innermost.b)
    <3> DEFINE ds == GenCDefers(Innermost.b)
    <3>1. DefersIn(Innermost.b) \subseteq Nat
      BY <1>c DEF DefersIn
    <3>2. ds \in Seq(Nat) /\ \A k \in DOMAIN ds : ds[k] \in DefersIn(Innermost.b)
      BY <1>b, <2>2, <3>1
    <3> HIDE DEF ds
    <3>3. ds \in Seq(Nat) /\ \A k \in DOMAIN ds : MayFollow(ds[k], Innermost.b)
      BY <3>2 DEF MayFollow, DefersIn
    <3> QED BY <3>3 DEF ds
  <2>4. IsOutStack(out_block_stack)'
    BY <1>0, <2>1, <2>3, GoOnFacts
  <2> QED BY <1>a, <2>1, <2>4 DEF GenInv
<1>7. CASE PopBlock
  <2>1. out_block_stack # <<>> /\ out_block_stack' = Tail(out_block_stack)
    BY <1>7 DEF PopBlock, Idle, Outer
  <2>2. IsOutStack(Tail(out_block_stack))
    BY <2>1, InnermostFacts, OutPop
  <2>3. IsOutStack(out_block_stack)'
    BY <1>0, <2>1, <2>2, OutNext
  <2> QED BY <1>a, <2>1, <2>3 DEF GenInv
<1>8. CASE UNCHANGED gvars
  <2>1. UNCHANGED out_block_stack /\ IsOutStack(out_block_stack)
    BY <1>8 DEF gvars, GenInv
  <2>2. IsOutStack(out_block_stack)'
    BY <1>0, <2>1, OutNext
  <2> QED BY <1>a, <2>1, <2>2 DEF GenInv
<1>9. CASE Run
  <2>1. UNCHANGED out_block_stack /\ IsOutStack(out_block_stack)
    BY <1>9 DEF Run, GenInv
  <2>2. IsOutStack(out_block_stack)'
    BY <1>0, <2>1, OutNext
  <2> QED BY <1>a, <2>1, <2>2 DEF GenInv
<1> QED BY <1>1, <1>2, <1>3, <1>4, <1>5, <1>6, <1>7, <1>8, <1>9 DEF GenNext

LEMMA GenInvariant == GenSpec => []GenInv
<1>1. GenInit => GenInv
  <2>1. IsOutStack(<<>>)
    BY DEF IsOutStack
  <2> QED BY <2>1 DEF GenInit, Init, GenInv
<1> QED BY <1>1, GenInvStep, PTL DEF GenSpec

(* LC_GenCStmtBlock: no block of an accepted procedure is printed from     *)
(* inside itself, so that the recursion of the generator is no deeper than *)
(* the procedure has blocks.  Outside of the deferred blocks it follows    *)
(* the nesting of the source; from there on it is in one deferred block,   *)
(* which holds no exit that would print another.                           *)
THEOREM GeneratorNests == GenSpec => []NothingPrintsItself
<1>1. ASSUME GenInv
      PROVE  NothingPrintsItself
  <2> DEFINE s == out_block_stack
  <2>1. IsOutStack(s) /\ proc \in Procs
    BY <1>1 DEF GenInv
  <2>2. Len(s) \in Nat /\ DOMAIN s = 1 .. Len(s)
    <3>1. s \in Seq(OutFrame)
      BY <2>1 DEF IsOutStack
    <3> HIDE DEF OutFrame, s
    <3> QED BY <3>1
  <2>3. \A i \in 1 .. Len(s) : Rank(s[i].b) \in Nat
    <3>1. \A b \in Blocks : b \in Nat /\ Len(proc.blocks) \in Nat
      BY <2>1, ProcFacts
    <3> QED BY <2>1, <3>1 DEF IsOutStack, IsOutFrame, Rank
  <2>4. ASSUME NEW i \in 1 .. Len(s), NEW j \in 1 .. Len(s), s[i].b = s[j].b, i # j
        PROVE  FALSE
    <3>1. Rank(s[i].b) \in Nat /\ Rank(s[j].b) = Rank(s[i].b)
      BY <2>3, <2>4
    <3>2. i < j \/ j < i
      BY <2>2, <2>4
    <3>3. Rank(s[j].b) < Rank(s[i].b) \/ Rank(s[i].b) < Rank(s[j].b)
      BY <2>1, <2>4, <3>2 DEF IsOutStack
    <3> QED BY <3>1, <3>3
  <2> QED BY <2>2, <2>4 DEF NothingPrintsItself
<1> QED BY <1>1, GenInvariant, PTL

(* LC_GenCDefersLoopBreak and LC_GenCDefersReturn: wherever the generator  *)
(* prints an exit, its stack is the one the resolver had at that exit.     *)
THEOREM GeneratorSeesBlocks == GenSpec => []ExitsSeeTheirBlocks
<1>1. ASSUME GenInv, Prints({"return", "break", "continue"})
      PROVE  OutBlocks = BlockStack[Innermost.b]
  <2> DEFINE s == out_block_stack
             bs == BlockStack[Innermost.b]
  <2>1. s # <<>> /\ Sees(s, 1) /\ Innermost = s[1] /\ Innermost.b \in Nat /\ proc \in Procs
    BY <1>1, ExitIsOutside, InnermostFacts, ProcFacts DEF Prints, Idle
  <2>2. Len(s) \in Nat /\ DOMAIN s = 1 .. Len(s)
    <3>1. s \in Seq(OutFrame)
      BY <1>1 DEF GenInv, IsOutStack
    <3> HIDE DEF OutFrame, s
    <3> QED BY <3>1
  <2>3. bs \in Seq(Nat)
    BY <2>1, BlockStackDef
  <2>4. Len(bs) = Len(s) - 1 + 1 /\ \A k \in 1 .. Len(bs) : s[1 + k - 1].b = bs[k]
    BY <2>1 DEF Sees
  <2> HIDE DEF bs
  <2>5. Len(bs) = Len(s) /\ \A k \in 1 .. Len(s) : s[k].b = bs[k]
    <3>1. \A k \in 1 .. Len(bs) : 1 + k - 1 = k
      BY <2>3
    <3> QED BY <2>2, <2>4, <3>1
  <2>6. OutBlocks = [k \in 1 .. Len(s) |-> s[k].b]
    BY <2>2 DEF OutBlocks
  <2>7. bs = [k \in 1 .. Len(bs) |-> bs[k]]
    BY <2>3
  <2> QED BY <2>5, <2>6, <2>7 DEF bs
<1>2. GenInv => ExitsSeeTheirBlocks
  BY <1>1 DEF ExitsSeeTheirBlocks
<1> QED BY <1>2, GenInvariant, PTL

=============================================================================
