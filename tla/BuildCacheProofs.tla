-------------------------- MODULE BuildCacheProofs ---------------------------
(***************************************************************************)
(* BuildCache for every set of files, projects and worlds: what runs is    *)
(* current unless a kill or an edit meets files that are put back, and     *)
(* what has not changed is not compiled again.                             *)
(***************************************************************************)
EXTENDS BuildCache, FiniteSetTheorems, WellFoundedInduction, TLAPS

Disk == [Files -> Nat]
AtMost(d, e) == \A f \in Files : d[f] <= e[f]
Totals(cache) == {cache[i].total : i \in DOMAIN cache}

LEMMA SmallestOf ==
  ASSUME NEW S, S \subseteq Nat, S # {}
  PROVE  \E n \in S : \A m \in S : n <= m
<1> DEFINE R == OpToRel(<, Nat)
<1>1. IsWellFoundedOn(R, Nat)
  BY NatLessThanWellFounded
<1>2. \A x, y \in Nat : <<x, y>> \in R <=> x < y
  BY DEF OpToRel
<1> HIDE DEF R
<1>3. PICK n \in S : \A m \in S : ~ (<<m, n>> \in R)
  BY <1>1, WFMin
<1>4. n \in Nat /\ \A m \in S : m \in Nat /\ ~(m < n)
  BY <1>2, <1>3
<1> QED BY <1>4
-----------------------------------------------------------------------------
(* What a hash says of the files.                                          *)

(* inc has an entry for each of the first n names, in order, but for some  *)
(* that are absent from d.                                                 *)
Places(pos, inc, names, n, d) ==
  /\ pos \in [1..Len(inc) -> 1..n]
  /\ \A i, j \in 1..Len(inc) : i < j => pos[i] < pos[j]
  /\ \A i \in 1..Len(inc) : inc[i][1] = names[pos[i]]
  /\ \A m \in 1..n : d[names[m]] = 0 \/ \E i \in 1..Len(inc) : pos[i] = m
Gathered(inc, names, n, d) == \E pos : Places(pos, inc, names, n, d)

(* The first n includes of file f were hashed when f had version v, on a   *)
(* disk that was between lo and hi.                                        *)
HashedAs(f, v, inc, n, M, lo, hi) ==
  /\ f \in Files /\ v \in DOMAIN project[f] /\ lo[f] <= v /\ v <= hi[f]
  /\ n \in 0..Len(Includes(f, v))
  /\ inc \in Seq(M)
  /\ Gathered(inc, Includes(f, v), n, lo)
ReadAs(t, M, lo, hi) ==
  /\ t = <<t[1], t[2], t[3]>>
  /\ HashedAs(t[1], t[2], t[3], Len(Includes(t[1], t[2])), M, lo, hi)
Reads(M, lo, hi) == \A t \in M : ReadAs(t, M, lo, hi)
Describes(M, d) == Reads(M, d, d)

(* M has the hashes of the includes of its hashes.                         *)
Closed(M) == \A t \in M : t[3] \in Seq(M)

LEMMA GatheredNone ==
  ASSUME NEW names, NEW d
  PROVE  Gathered(<<>>, names, 0, d)
<1>1. Places(<<>>, <<>>, names, 0, d)
  BY DEF Places
<1> QED BY <1>1 DEF Gathered

LEMMA GatheredSkip ==
  ASSUME NEW M, NEW inc \in Seq(M), NEW names, NEW d, NEW n \in Nat,
         Gathered(inc, names, n, d), d[names[n + 1]] = 0
  PROVE  Gathered(inc, names, n + 1, d)
<1>1. PICK pos : Places(pos, inc, names, n, d)
  BY DEF Gathered
<1>2. Len(inc) \in Nat
  OBVIOUS
<1>3. \A i \in 1..Len(inc) : pos[i] \in 1..n
  BY <1>1 DEF Places
<1>4. pos \in [1..Len(inc) -> 1..(n + 1)]
  BY <1>1, <1>3 DEF Places
<1>5. \A m \in 1..(n + 1) : d[names[m]] = 0 \/ \E i \in 1..Len(inc) : pos[i] = m
  BY <1>1 DEF Places
<1>6. Places(pos, inc, names, n + 1, d)
  BY <1>1, <1>4, <1>5 DEF Places
<1> QED BY <1>6 DEF Gathered

LEMMA GatheredTake ==
  ASSUME NEW M, NEW inc \in Seq(M), NEW names, NEW d, NEW n \in Nat, NEW u \in M,
         Gathered(inc, names, n, d), u[1] = names[n + 1]
  PROVE  Gathered(Append(inc, u), names, n + 1, d)
<1>1. PICK pos : Places(pos, inc, names, n, d)
  BY DEF Gathered
<1> DEFINE L == Len(inc)
           new == Append(inc, u)
           q == [i \in 1..(L + 1) |-> IF i = L + 1 THEN n + 1 ELSE pos[i]]
<1>2. L \in Nat /\ Len(new) = L + 1 /\ new[L + 1] = u /\ \A i \in 1..L : new[i] = inc[i]
  OBVIOUS
<1>3. \A i \in 1..L : pos[i] \in 1..n
  BY <1>1 DEF Places
<1> HIDE DEF L, new
<1>4. q[L + 1] = n + 1 /\ \A i \in 1..L : q[i] = pos[i]
  BY <1>2
<1>5. q \in [1..(L + 1) -> 1..(n + 1)]
  BY <1>2, <1>3
<1>6. \A i, j \in 1..(L + 1) : i < j => q[i] < q[j]
  <2> SUFFICES ASSUME NEW i \in 1..(L + 1), NEW j \in 1..(L + 1), i < j
               PROVE  q[i] < q[j]
    OBVIOUS
  <2>1. i \in 1..L /\ q[i] = pos[i] /\ pos[i] \in 1..n
    BY <1>2, <1>3, <1>4
  <2>2. CASE j = L + 1
    BY <2>1, <2>2, <1>4
  <2>3. CASE j # L + 1
    <3>1. j \in 1..L /\ q[j] = pos[j]
      BY <2>3, <1>2, <1>4
    <3>2. pos[i] < pos[j]
      BY <2>1, <3>1, <1>1 DEF Places, L
    <3> QED BY <2>1, <3>1, <3>2
  <2> QED BY <2>2, <2>3
<1>7. \A i \in 1..(L + 1) : new[i][1] = names[q[i]]
  BY <1>1, <1>2, <1>4 DEF Places, L
<1>8. \A m \in 1..(n + 1) : d[names[m]] = 0 \/ \E i \in 1..(L + 1) : q[i] = m
  <2> SUFFICES ASSUME NEW m \in 1..(n + 1), d[names[m]] # 0
               PROVE  \E i \in 1..(L + 1) : q[i] = m
    OBVIOUS
  <2>1. CASE m = n + 1
    BY <2>1, <1>2, <1>4
  <2>2. CASE m # n + 1
    <3>1. PICK i \in 1..L : pos[i] = m
      BY <2>2, <1>1 DEF Places, L
    <3> QED BY <3>1, <1>2, <1>4
  <2> QED BY <2>1, <2>2
<1> HIDE DEF q
<1>9. Places(q, new, names, n + 1, d)
  BY <1>2, <1>5, <1>6, <1>7, <1>8 DEF Places
<1> QED BY <1>9 DEF Gathered, new

SamePlaces(p, q, n) == \A i \in 1..n : p[i] = q[i]

(* Two such lists that have hashes of present files only are of the same   *)
(* files.                                                                  *)
LEMMA GatheredPlaces ==
  ASSUME NEW a, NEW b, NEW names, NEW n \in Nat, NEW d,
         NEW p, Places(p, a, names, n, d), NEW q, Places(q, b, names, n, d),
         Len(a) \in Nat, Len(b) \in Nat,
         \A i \in 1..Len(a) : d[a[i][1]] # 0, \A i \in 1..Len(b) : d[b[i][1]] # 0
  PROVE  Len(a) <= Len(b) /\ SamePlaces(p, q, Len(a))
<1>1. /\ \A i \in 1..Len(a) : p[i] \in 1..n /\ p[i] \in Int
      /\ \A j \in 1..Len(b) : q[j] \in 1..n /\ q[j] \in Int
  <2>1. p \in [1..Len(a) -> 1..n] /\ q \in [1..Len(b) -> 1..n]
    BY DEF Places
  <2>2. \A i \in 1..Len(a) : p[i] \in 1..n
    BY <2>1
  <2>3. \A i \in 1..Len(b) : q[i] \in 1..n
    BY <2>1
  <2> QED BY <2>2, <2>3
<1>2. /\ \A i, j \in 1..Len(a) : i < j => p[i] < p[j]
      /\ \A i, j \in 1..Len(b) : i < j => q[i] < q[j]
  BY DEF Places
<1>a. ASSUME NEW i \in 1..Len(a)
      PROVE  \E j \in 1..Len(b) : q[j] = p[i]
  <2>1. p[i] \in 1..n /\ d[names[p[i]]] # 0
    BY <1>1 DEF Places
  <2> QED BY <2>1 DEF Places
<1>b. ASSUME NEW j \in 1..Len(b)
      PROVE  \E i \in 1..Len(a) : p[i] = q[j]
  <2>1. q[j] \in 1..n /\ d[names[q[j]]] # 0
    BY <1>1 DEF Places
  <2> QED BY <2>1 DEF Places
<1> SUFFICES ASSUME NEW k \in 1..Len(a), ~(k <= Len(b) /\ p[k] = q[k])
             PROVE  FALSE
  <2>1. \A i \in 1..Len(a) : i <= Len(b) /\ p[i] = q[i]
    OBVIOUS
  <2>4. SamePlaces(p, q, Len(a))
    BY <2>1 DEF SamePlaces
  <2>2. CASE Len(a) = 0
    BY <2>2, <2>4
  <2>3. CASE Len(a) # 0
    <3>1. Len(a) \in 1..Len(a)
      BY <2>3
    <3> QED BY <2>1, <2>4, <3>1
  <2> QED BY <2>2, <2>3, <2>4
<1> DEFINE D == {i \in 1..Len(a) : ~(i <= Len(b) /\ p[i] = q[i])}
<1>3. PICK m \in D : \A i \in D : m <= i
  <2>1. D \subseteq Nat /\ D # {}
    OBVIOUS
  <2> HIDE DEF D
  <2> QED BY <2>1, SmallestOf
<1>4. m \in 1..Len(a) /\ ~(m <= Len(b) /\ p[m] = q[m])
  BY <1>3
<1>5. \A i \in 1..(m - 1) : i \in 1..Len(a) /\ i <= Len(b) /\ p[i] = q[i]
  <2> SUFFICES ASSUME NEW i \in 1..(m - 1)
               PROVE  i \in 1..Len(a) /\ i <= Len(b) /\ p[i] = q[i]
    OBVIOUS
  <2>1. i \in 1..Len(a) /\ ~(m <= i)
    BY <1>4
  <2> QED BY <2>1, <1>3
<1>6. PICK j \in 1..Len(b) : q[j] = p[m]
  BY <1>a, <1>4
<1>7. ~(j < m)
  <2> SUFFICES ASSUME j < m
               PROVE  FALSE
    OBVIOUS
  <2>1. j \in 1..(m - 1) /\ j \in 1..Len(a) /\ p[j] = q[j]
    BY <1>4, <1>5
  <2>2. p[j] < p[m] /\ p[j] \in Int /\ p[m] \in Int
    BY <2>1, <1>1, <1>2, <1>4
  <2> QED BY <2>1, <2>2, <1>6
<1>8. m < j /\ m \in 1..Len(b)
  BY <1>4, <1>6, <1>7
<1>9. q[m] < q[j] /\ q[m] \in Int /\ q[j] \in Int
  BY <1>1, <1>2, <1>8
<1>10. PICK i \in 1..Len(a) : p[i] = q[m]
  BY <1>b, <1>8
<1>11. i < m
  <2>1. p[i] < p[m]
    BY <1>6, <1>9, <1>10
  <2>2. CASE m < i
    <3>1. p[m] < p[i] /\ p[m] \in Int /\ p[i] \in Int
      BY <2>2, <1>1, <1>2, <1>4
    <3> QED BY <2>1, <3>1
  <2>3. CASE m = i
    BY <2>1, <2>3, <1>1, <1>4
  <2> QED BY <2>2, <2>3, <1>4
<1>12. p[i] = q[i] /\ i \in 1..Len(b) /\ q[i] < q[m] /\ q[i] \in Int
  <2>1. i \in 1..(m - 1)
    BY <1>4, <1>11
  <2>2. i \in 1..Len(b) /\ p[i] = q[i]
    BY <2>1, <1>5
  <2> QED BY <2>2, <1>1, <1>2, <1>8, <1>11
<1> QED BY <1>9, <1>10, <1>12
-----------------------------------------------------------------------------
(* Sets of hashes that describe a disk.                                    *)

ProjectOK == project \in [Files -> Seq(Seq(Files))]

LEMMA SeqOf ==
  ASSUME NEW M, NEW N, NEW s \in Seq(M), \A i \in 1..Len(s) : s[i] \in N
  PROVE  s \in Seq(N)
<1>1. s \in [1..Len(s) -> M] /\ Len(s) \in Nat
  OBVIOUS
<1>2. s \in [1..Len(s) -> N]
  BY <1>1
<1> QED BY <1>1, <1>2

LEMMA ReadFacts ==
  ASSUME ProjectOK, NEW lo \in Disk, NEW hi \in Disk, NEW M, Reads(M, lo, hi), NEW t \in M
  PROVE  /\ t = <<t[1], t[2], t[3]>> /\ t[1] \in Files
         /\ t[2] \in Nat /\ t[2] # 0 /\ lo[t[1]] <= t[2] /\ t[2] <= hi[t[1]]
         /\ Includes(t[1], t[2]) \in Seq(Files)
         /\ Len(Includes(t[1], t[2])) \in Nat
         /\ t[3] \in Seq(M) /\ Len(t[3]) \in Nat /\ DOMAIN t[3] = 1..Len(t[3])
         /\ \A k \in 1..Len(t[3]) : t[3][k] \in M
         /\ Gathered(t[3], Includes(t[1], t[2]), Len(Includes(t[1], t[2])), lo)
<1>1. /\ t = <<t[1], t[2], t[3]>>
      /\ HashedAs(t[1], t[2], t[3], Len(Includes(t[1], t[2])), M, lo, hi)
  BY DEF Reads, ReadAs
<1> DEFINE f == t[1]
           v == t[2]
           inc == t[3]
<1>2. /\ f \in Files /\ v \in DOMAIN project[f] /\ lo[f] <= v /\ v <= hi[f] /\ inc \in Seq(M)
      /\ Gathered(inc, Includes(f, v), Len(Includes(f, v)), lo)
  BY <1>1 DEF HashedAs
<1> HIDE DEF f, v, inc
<1>3. project[f] \in Seq(Seq(Files))
  BY <1>2 DEF ProjectOK
<1>4. v \in 1..Len(project[f]) /\ Len(project[f]) \in Nat
  BY <1>2, <1>3
<1>5. Includes(f, v) \in Seq(Files)
  BY <1>3, <1>4 DEF Includes
<1>6. Len(Includes(f, v)) \in Nat /\ Len(inc) \in Nat /\ DOMAIN inc = 1..Len(inc)
  BY <1>2, <1>5
<1>7. \A k \in 1..Len(inc) : inc[k] \in M
  BY <1>2
<1>8. v \in Nat /\ v # 0
  BY <1>4
<1> QED BY <1>1, <1>2, <1>5, <1>6, <1>7, <1>8 DEF f, v, inc

LEMMA DescribeFacts ==
  ASSUME ProjectOK, NEW d \in Disk, NEW M, Describes(M, d), NEW t \in M
  PROVE  /\ t[1] \in Files /\ t[2] = d[t[1]] /\ d[t[1]] # 0 /\ d[t[1]] \in Nat
         /\ \A k \in 1..Len(Includes(t[1], t[2])) :
              d[Includes(t[1], t[2])[k]] # 0 =>
                \E u \in M : u[1] = Includes(t[1], t[2])[k] /\ u \in Named(t[3])
         /\ \A k \in 1..Len(t[3]) : d[t[3][k][1]] # 0
<1>1. Reads(M, d, d)
  BY DEF Describes
<1>2. /\ t[1] \in Files /\ t[2] \in Nat /\ t[2] # 0 /\ d[t[1]] <= t[2] /\ t[2] <= d[t[1]]
      /\ \A k \in 1..Len(t[3]) : t[3][k] \in M
      /\ DOMAIN t[3] = 1..Len(t[3])
      /\ Gathered(t[3], Includes(t[1], t[2]), Len(Includes(t[1], t[2])), d)
  BY <1>1, ReadFacts
<1>3. \A f \in Files : d[f] \in Nat
  BY DEF Disk
<1>4. t[2] = d[t[1]] /\ d[t[1]] # 0 /\ d[t[1]] \in Nat
  BY <1>2, <1>3
<1>5. ASSUME NEW k \in 1..Len(Includes(t[1], t[2])), d[Includes(t[1], t[2])[k]] # 0
      PROVE  \E u \in M : u[1] = Includes(t[1], t[2])[k] /\ u \in Named(t[3])
  <2>1. PICK pos : Places(pos, t[3], Includes(t[1], t[2]), Len(Includes(t[1], t[2])), d)
    BY <1>2 DEF Gathered
  <2>2. PICK i \in 1..Len(t[3]) : pos[i] = k
    BY <1>5, <2>1 DEF Places
  <2>3. t[3][i][1] = Includes(t[1], t[2])[k]
    BY <2>1, <2>2 DEF Places
  <2>4. t[3][i] \in M /\ t[3][i] \in Named(t[3])
    BY <1>2, <2>2 DEF Named
  <2> QED BY <2>3, <2>4
<1>6. ASSUME NEW k \in 1..Len(t[3])
      PROVE  d[t[3][k][1]] # 0
  <2>1. t[3][k] \in M
    BY <1>2
  <2> DEFINE u == t[3][k]
  <2>2. u[1] \in Files /\ u[2] \in Nat /\ u[2] # 0 /\ u[2] <= d[u[1]] /\ d[u[1]] <= u[2]
    <3> HIDE DEF u
    <3>1. u \in M
      BY <2>1 DEF u
    <3> QED BY <3>1, <1>1, ReadFacts
  <2>3. d[u[1]] \in Nat
    BY <2>2, <1>3
  <2> HIDE DEF u
  <2>4. d[u[1]] # 0
    BY <2>2, <2>3
  <2> QED BY <2>4 DEF u
<1> QED BY <1>2, <1>4, <1>5, <1>6

LEMMA Both ==
  ASSUME NEW M, NEW N, NEW lo, NEW hi, Reads(M, lo, hi), Closed(N)
  PROVE  Reads(M \cap N, lo, hi)
<1> SUFFICES ASSUME NEW t \in M \cap N
             PROVE  ReadAs(t, M \cap N, lo, hi)
  BY DEF Reads
<1>1. ReadAs(t, M, lo, hi)
  BY DEF Reads
<1>2. t[3] \in Seq(M) /\ t[3] \in Seq(N)
  BY <1>1 DEF ReadAs, HashedAs, Closed
<1>3. t[3] \in Seq(M \cap N)
  <2> DEFINE s == t[3]
  <2>1. s \in Seq(M) /\ s \in Seq(N)
    BY <1>2
  <2> HIDE DEF s
  <2>2. \A i \in 1..Len(s) : s[i] \in M \cap N
    BY <2>1
  <2>3. s \in Seq(M \cap N)
    BY <2>1, <2>2, SeqOf
  <2> QED BY <2>3 DEF s
<1> QED BY <1>1, <1>3 DEF ReadAs, HashedAs

LEMMA ReadsClosed ==
  ASSUME NEW M, NEW lo, NEW hi, Reads(M, lo, hi)
  PROVE  Closed(M)
BY DEF Reads, ReadAs, HashedAs, Closed

(* Of a set of hashes with the root's, the files are all that is reached.  *)
LEMMA AllReached ==
  ASSUME ProjectOK, NEW d \in Disk, NEW M, Describes(M, d)
  PROVE  LET F == {u[1] : u \in M} IN
         /\ F \subseteq Present(d) /\ HasIncluded(F, d)
         /\ (Root \in F => Reached(d) \subseteq F)
<1> DEFINE F == {u[1] : u \in M}
<1>1. F \subseteq Present(d)
  BY DescribeFacts DEF Present
<1>2. HasIncluded(F, d)
  <2> SUFFICES ASSUME NEW t \in M, NEW g \in Named(Includes(t[1], d[t[1]])), d[g] # 0
               PROVE  g \in F
    BY DEF HasIncluded
  <2>1. t[2] = d[t[1]] /\ Includes(t[1], t[2]) \in Seq(Files)
    BY DescribeFacts, ReadFacts DEF Describes
  <2>2. PICK k \in 1..Len(Includes(t[1], t[2])) : g = Includes(t[1], t[2])[k]
    BY <2>1 DEF Named
  <2>3. PICK u \in M : u[1] = g
    BY <2>2, DescribeFacts
  <2> QED BY <2>3
<1>3. Root \in F => Reached(d) \subseteq F
  <2> HIDE DEF F
  <2> QED BY <1>1, <1>2 DEF Reached
<1> QED BY <1>1, <1>2, <1>3

LEMMA ReachedWithin ==
  ASSUME ProjectOK, NEW d \in Disk, NEW e \in Disk, NEW M, Describes(M, d), Describes(M, e),
         NEW t \in M, t[1] = Root
  PROVE  Reached(d) \subseteq Reached(e)
<1> DEFINE N == {u[1] : u \in M}
<1>1. /\ N \subseteq Present(d) /\ HasIncluded(N, d) /\ Reached(d) \subseteq N
      /\ N \subseteq Present(e)
  <2>1. Root \in N
    OBVIOUS
  <2> QED BY <2>1, AllReached
<1>2. \A g \in N : d[g] = e[g]
  BY DescribeFacts
<1>3. Root \in N
  OBVIOUS
<1> HIDE DEF N
<1> SUFFICES ASSUME NEW f \in Reached(d), NEW F \in SUBSET Present(e), Root \in F,
                    HasIncluded(F, e)
             PROVE  f \in F
  BY <1>1 DEF Reached
<1>4. F \cap N \in SUBSET Present(d) /\ Root \in F \cap N
  BY <1>1, <1>3
<1>5. HasIncluded(F \cap N, d)
  <2> SUFFICES ASSUME NEW g \in F \cap N, NEW h \in Named(Includes(g, d[g])), d[h] # 0
               PROVE  h \in F \cap N
    BY DEF HasIncluded
  <2>1. h \in N
    BY <1>1 DEF HasIncluded
  <2>2. e[h] # 0 /\ h \in Named(Includes(g, e[g]))
    BY <2>1, <1>2
  <2> QED BY <2>1, <2>2 DEF HasIncluded
<1>6. f \in F \cap N
  BY <1>4, <1>5 DEF Reached
<1> QED BY <1>6

(* A hash of the root says what a compiler reads.                          *)
LEMMA HashIsExact ==
  ASSUME ProjectOK, NEW d \in Disk, NEW e \in Disk, NEW M, NEW N, Describes(M, d),
         Describes(N, e), NEW t \in M \cap N, t[1] = Root
  PROVE  Sources(d) = Sources(e)
<1>1. Describes(M \cap N, d) /\ Describes(N \cap M, e)
  BY Both, ReadsClosed DEF Describes
<1>2. M \cap N = N \cap M
  OBVIOUS
<1> DEFINE K == M \cap N
<1>3. Describes(K, d) /\ Describes(K, e) /\ t \in K
  BY <1>1, <1>2
<1> HIDE DEF K
<1>4. Reached(d) = Reached(e)
  BY <1>3, ReachedWithin
<1>5. Root \in {u[1] : u \in K}
  BY <1>3
<1>6. Reached(d) \subseteq {u[1] : u \in K}
  BY <1>3, <1>5, AllReached
<1>7. \A f \in Reached(d) : d[f] = e[f]
  <2> SUFFICES ASSUME NEW f \in Reached(d)
               PROVE  d[f] = e[f]
    OBVIOUS
  <2>1. PICK u \in K : u[1] = f
    BY <1>6
  <2> QED BY <2>1, <1>3, DescribeFacts
<1>8. d[Root] # 0 /\ e[Root] # 0
  BY <1>3, DescribeFacts
<1>9. [f \in Reached(d) |-> d[f]] = [f \in Reached(e) |-> e[f]]
  BY <1>4, <1>7
<1> QED BY <1>8, <1>9 DEF Sources

(* Versions that are no later than those of the hashes of a later disk are *)
(* the same.                                                               *)
LEMMA Sandwich ==
  ASSUME ProjectOK, NEW d \in Disk, NEW e \in Disk, NEW M, Describes(M, d), AtMost(e, d),
         \A t \in M : t[2] <= e[t[1]]
  PROVE  Describes(M, e)
<1> SUFFICES ASSUME NEW t \in M
             PROVE  ReadAs(t, M, e, e)
  BY DEF Describes, Reads
<1>1. ReadAs(t, M, d, d)
  BY DEF Describes, Reads
<1>2. t[1] \in Files /\ t[2] = d[t[1]] /\ e[t[1]] <= d[t[1]] /\ t[2] <= e[t[1]]
  BY DescribeFacts DEF AtMost
<1>3. e[t[1]] \in Nat /\ d[t[1]] \in Nat
  BY <1>2 DEF Disk
<1>4. e[t[1]] = t[2]
  BY <1>2, <1>3
<1>5. Includes(t[1], t[2]) \in Seq(Files) /\ Len(Includes(t[1], t[2])) \in Nat
  BY ReadFacts DEF Describes
<1>6. ASSUME NEW names \in Seq(Files), NEW n \in 0..Len(names), NEW inc, Gathered(inc, names, n, d)
      PROVE  Gathered(inc, names, n, e)
  <2>1. PICK pos : Places(pos, inc, names, n, d)
    BY <1>6 DEF Gathered
  <2>2. ASSUME NEW m \in 1..n, d[names[m]] = 0
        PROVE  e[names[m]] = 0
    <3>1. names[m] \in Files
      BY <1>6
    <3>2. e[names[m]] \in Nat /\ e[names[m]] <= 0
      BY <2>2, <3>1 DEF Disk, AtMost
    <3> QED BY <3>2
  <2>3. Places(pos, inc, names, n, e)
    BY <2>1, <2>2 DEF Places
  <2> QED BY <2>3 DEF Gathered
<1>7. Gathered(t[3], Includes(t[1], t[2]), Len(Includes(t[1], t[2])), e)
  BY <1>1, <1>5, <1>6 DEF ReadAs, HashedAs
<1> QED BY <1>1, <1>3, <1>4, <1>7 DEF ReadAs, HashedAs

(* The includes of a hash come before it.                                  *)
Ordered(cache) ==
  \A i \in DOMAIN cache : \A t \in Named(cache[i].total[3]) :
    \E j \in DOMAIN cache : j < i /\ cache[j].total = t

(* A disk gives a file one hash.                                           *)
LEMMA HashIsUnique ==
  ASSUME ProjectOK, NEW d \in Disk, NEW c, DOMAIN c \subseteq Nat, Ordered(c),
         NEW M, M \subseteq Totals(c), NEW N, Describes(M, d), Describes(N, d),
         NEW t \in M, NEW u \in N, t[1] = u[1]
  PROVE  t = u
<1> DEFINE D == {i \in DOMAIN c : \E x \in M, y \in N : c[i].total = x /\ x[1] = y[1] /\ x # y}
<1> SUFFICES ASSUME t # u
             PROVE  FALSE
  OBVIOUS
<1>1. PICK i0 \in DOMAIN c : c[i0].total = t
  BY DEF Totals
<1>2. i0 \in D
  BY <1>1
<1>3. D \subseteq Nat
  OBVIOUS
<1>4. PICK i \in D : \A j \in D : i <= j
  <2> HIDE DEF D
  <2> QED BY <1>2, <1>3, SmallestOf
<1>5. PICK x \in M, y \in N : c[i].total = x /\ x[1] = y[1] /\ x # y
  BY <1>4
<1>6. i \in DOMAIN c /\ i \in Nat
  BY <1>4
<1>7. ASSUME NEW v \in Named(x[3]), NEW w \in N, v \in M, v[1] = w[1]
      PROVE  v = w
  <2>1. PICK j \in DOMAIN c : j < i /\ c[j].total = v
    BY <1>5, <1>6 DEF Ordered
  <2>2. j \in Nat /\ ~(i <= j)
    BY <1>6, <2>1
  <2>3. j \notin D
    BY <1>4, <2>2
  <2> QED BY <2>1, <2>3, <1>7
<1> HIDE DEF D
<1> DEFINE names == Includes(x[1], x[2])
<1>8. x[2] = y[2] /\ x = <<x[1], x[2], x[3]>> /\ y = <<y[1], y[2], y[3]>>
  <2>1. x[2] = d[x[1]] /\ y[2] = d[y[1]]
    BY DescribeFacts
  <2>2. x = <<x[1], x[2], x[3]>> /\ y = <<y[1], y[2], y[3]>>
    BY DEF Describes, Reads, ReadAs
  <2> QED BY <2>1, <2>2, <1>5
<1>9. /\ Len(x[3]) \in Nat /\ DOMAIN x[3] = 1..Len(x[3]) /\ x[3] \in Seq(M) /\ Len(names) \in Nat
      /\ \A k \in 1..Len(x[3]) : x[3][k] \in M
      /\ Gathered(x[3], names, Len(names), d)
  BY ReadFacts DEF Describes
<1>10. /\ Len(y[3]) \in Nat /\ DOMAIN y[3] = 1..Len(y[3]) /\ y[3] \in Seq(N)
       /\ \A k \in 1..Len(y[3]) : y[3][k] \in N
       /\ Gathered(y[3], names, Len(names), d)
  BY <1>5, <1>8, ReadFacts DEF Describes
<1>11. /\ \A k \in 1..Len(x[3]) : d[x[3][k][1]] # 0
       /\ \A k \in 1..Len(y[3]) : d[y[3][k][1]] # 0
  BY DescribeFacts
<1> HIDE DEF names
<1>12. PICK p : Places(p, x[3], names, Len(names), d)
  BY <1>9 DEF Gathered
<1>13. PICK q : Places(q, y[3], names, Len(names), d)
  BY <1>10 DEF Gathered
<1>14. Len(x[3]) <= Len(y[3]) /\ \A k \in 1..Len(x[3]) : p[k] = q[k]
  <2> DEFINE a == x[3]
             b == y[3]
  <2>1. /\ Places(p, a, names, Len(names), d) /\ Places(q, b, names, Len(names), d)
        /\ Len(a) \in Nat /\ Len(b) \in Nat /\ Len(names) \in Nat
        /\ \A k \in 1..Len(a) : d[a[k][1]] # 0
        /\ \A k \in 1..Len(b) : d[b[k][1]] # 0
    BY <1>9, <1>10, <1>11, <1>12, <1>13
  <2> HIDE DEF a, b
  <2>2. Len(a) <= Len(b)
    BY <2>1, GatheredPlaces
  <2>3. SamePlaces(p, q, Len(a))
    BY <2>1, GatheredPlaces
  <2> QED BY <2>2, <2>3 DEF SamePlaces, a, b
<1>15. Len(y[3]) <= Len(x[3])
  <2> DEFINE a == x[3]
             b == y[3]
  <2>1. /\ Places(p, a, names, Len(names), d) /\ Places(q, b, names, Len(names), d)
        /\ Len(a) \in Nat /\ Len(b) \in Nat /\ Len(names) \in Nat
        /\ \A k \in 1..Len(a) : d[a[k][1]] # 0
        /\ \A k \in 1..Len(b) : d[b[k][1]] # 0
    BY <1>9, <1>10, <1>11, <1>12, <1>13
  <2> HIDE DEF a, b
  <2>2. Len(b) <= Len(a)
    BY <2>1, GatheredPlaces
  <2> QED BY <2>2 DEF a, b
<1>16. Len(x[3]) = Len(y[3])
  BY <1>9, <1>10, <1>14, <1>15
<1>17. ASSUME NEW k \in 1..Len(x[3])
       PROVE  x[3][k] = y[3][k]
  <2>1. x[3][k][1] = names[p[k]] /\ y[3][k][1] = names[q[k]] /\ p[k] = q[k]
    BY <1>12, <1>13, <1>14, <1>16 DEF Places
  <2>2. x[3][k] \in Named(x[3]) /\ x[3][k] \in M /\ y[3][k] \in N
    BY <1>9, <1>10, <1>16 DEF Named
  <2> QED BY <2>1, <2>2, <1>7
<1>18. x[3] = y[3]
  <2> DEFINE a == x[3]
             b == y[3]
  <2>1. a \in Seq(M) /\ b \in Seq(N) /\ Len(a) = Len(b) /\ \A k \in 1..Len(a) : a[k] = b[k]
    BY <1>9, <1>10, <1>16, <1>17
  <2> HIDE DEF a, b
  <2>2. a = b
    BY <2>1
  <2> QED BY <2>2 DEF a, b
<1> QED BY <1>5, <1>8, <1>18

(* The sources as a disk on which there is nothing else.                   *)
OnlySources(s) == [f \in Files |-> IF f \in DOMAIN s THEN s[f] ELSE 0]

OnlyReached(e, d) ==
  /\ e \in Disk
  /\ \A f \in Files : e[f] # 0 => e[f] = d[f] /\ f \in Reached(d) /\ d[Root] # 0
  /\ d[Root] # 0 => Root \in Reached(d) /\ \A f \in Reached(d) : e[f] = d[f]
  /\ \A f \in Reached(d) : \A g \in Named(Includes(f, d[f])) :
       d[g] # 0 /\ g \in Files => g \in Reached(d)

LEMMA SourcesFacts ==
  ASSUME NEW d \in Disk
  PROVE  OnlyReached(OnlySources(Sources(d)), d)
<1>1. Reached(d) \subseteq Files /\ \A f \in Files : d[f] \in Nat
  BY DEF Reached, Present, Disk
<1>2. \A f \in Reached(d) : \A g \in Named(Includes(f, d[f])) :
        d[g] # 0 /\ g \in Files => g \in Reached(d)
  BY DEF Reached, HasIncluded, Present
<1>3. CASE d[Root] = 0
  <2>1. DOMAIN Sources(d) = {}
    BY <1>3 DEF Sources, NoExe
  <2>2. OnlySources(Sources(d)) = [f \in Files |-> 0]
    BY <2>1 DEF OnlySources
  <2> QED BY <2>2, <1>2, <1>3 DEF OnlyReached, Disk
<1>4. CASE d[Root] # 0
  <2>1. Sources(d) = [f \in Reached(d) |-> d[f]]
    BY <1>4 DEF Sources
  <2>2. OnlySources(Sources(d)) = [f \in Files |-> IF f \in Reached(d) THEN d[f] ELSE 0]
    BY <2>1 DEF OnlySources
  <2> DEFINE e == OnlySources(Sources(d))
  <2>3. \A f \in Files : e[f] = IF f \in Reached(d) THEN d[f] ELSE 0
    BY <2>2
  <2>4. e \in Disk
    BY <1>1, <2>2 DEF Disk
  <2>5. Root \in Reached(d)
    BY <1>4, BuildAssumption DEF Reached, Present
  <2> HIDE DEF e
  <2>6. OnlyReached(e, d)
    BY <1>1, <1>2, <1>4, <2>3, <2>4, <2>5 DEF OnlyReached
  <2> QED BY <2>6 DEF e
<1> QED BY <1>3, <1>4

(* Hashes of the sources of a disk describe the disk.                      *)
LEMMA Widen ==
  ASSUME ProjectOK, NEW d \in Disk, NEW M, Describes(M, OnlySources(Sources(d)))
  PROVE  Describes(M, d)
<1> DEFINE e == OnlySources(Sources(d))
<1>1. e \in Disk /\ Describes(M, e) /\ OnlyReached(e, d)
  BY SourcesFacts DEF OnlyReached
<1> HIDE DEF e
<1> SUFFICES ASSUME NEW t \in M
             PROVE  ReadAs(t, M, d, d)
  BY DEF Describes, Reads
<1>3. ReadAs(t, M, e, e)
  BY <1>1 DEF Describes, Reads
<1>4. /\ t[1] \in Files /\ t[2] = e[t[1]] /\ e[t[1]] # 0 /\ t[2] \in Nat
      /\ Includes(t[1], t[2]) \in Seq(Files) /\ Len(Includes(t[1], t[2])) \in Nat
  BY <1>1, DescribeFacts, ReadFacts DEF Describes
<1>5. t[2] = d[t[1]] /\ t[1] \in Reached(d) /\ d[Root] # 0
  BY <1>1, <1>4 DEF OnlyReached
<1>6. \A m \in 1..Len(Includes(t[1], t[2])) :
         e[Includes(t[1], t[2])[m]] = 0 => d[Includes(t[1], t[2])[m]] = 0
  <2> SUFFICES ASSUME NEW m \in 1..Len(Includes(t[1], t[2])), d[Includes(t[1], t[2])[m]] # 0
               PROVE  e[Includes(t[1], t[2])[m]] # 0
    OBVIOUS
  <2> DEFINE g == Includes(t[1], t[2])[m]
  <2>1. g \in Files /\ g \in Named(Includes(t[1], d[t[1]]))
    BY <1>4, <1>5 DEF Named
  <2>2. g \in Reached(d)
    BY <2>1, <1>1, <1>5 DEF OnlyReached
  <2> QED BY <2>2, <1>1, <1>5 DEF OnlyReached
<1>7. Gathered(t[3], Includes(t[1], t[2]), Len(Includes(t[1], t[2])), d)
  <2>1. Gathered(t[3], Includes(t[1], t[2]), Len(Includes(t[1], t[2])), e)
    BY <1>3 DEF ReadAs, HashedAs
  <2> QED BY <2>1, <1>6 DEF Gathered, Places
<1>8. d[t[1]] <= t[2] /\ t[2] <= d[t[1]]
  BY <1>4, <1>5
<1> QED BY <1>3, <1>7, <1>8 DEF ReadAs, HashedAs
-----------------------------------------------------------------------------
(* Caches.                                                                 *)

Entry(M) == [file : Files, total : M]
IsCache(c) ==
  /\ c \in Seq(Entry(Totals(c)))
  /\ \A i \in DOMAIN c : /\ c[i].total = <<c[i].file, c[i].total[2], c[i].total[3]>>
                         /\ c[i].total[3] \in Seq(Totals(c))
  /\ Ordered(c)

LEMMA CacheFacts ==
  ASSUME NEW c, IsCache(c)
  PROVE  /\ Len(c) \in Nat /\ DOMAIN c = 1..Len(c) /\ DOMAIN c \subseteq Nat
         /\ Ordered(c) /\ Closed(Totals(c))
         /\ \A i \in 1..Len(c) : /\ c[i].file \in Files /\ c[i].total \in Totals(c)
                                 /\ c[i].total[1] = c[i].file
                                 /\ c[i].total # <<>>
<1>1. c \in Seq(Entry(Totals(c)))
  BY DEF IsCache
<1>2. Len(c) \in Nat /\ DOMAIN c = 1..Len(c)
  BY <1>1
<1>3. \A i \in 1..Len(c) : c[i] \in Entry(Totals(c))
  BY <1>1
<1>4. \A i \in 1..Len(c) : c[i].file \in Files /\ c[i].total \in Totals(c)
  BY <1>3 DEF Entry
<1>5. \A i \in 1..Len(c) : c[i].total[1] = c[i].file /\ c[i].total # <<>>
  <2> SUFFICES ASSUME NEW i \in 1..Len(c)
               PROVE  c[i].total[1] = c[i].file /\ c[i].total # <<>>
    OBVIOUS
  <2>1. c[i].total = <<c[i].file, c[i].total[2], c[i].total[3]>>
    BY <1>2 DEF IsCache
  <2> DEFINE x == c[i].total
             y == c[i].file
  <2>2. x = <<y, x[2], x[3]>>
    BY <2>1
  <2> HIDE DEF x, y
  <2>3. x[1] = y /\ x # <<>>
    BY <2>2
  <2> QED BY <2>3 DEF x, y
<1>6. Closed(Totals(c))
  BY DEF IsCache, Closed, Totals
<1> QED BY <1>2, <1>4, <1>5, <1>6 DEF IsCache

LEMMA FindFacts ==
  ASSUME NEW c, IsCache(c), NEW f
  PROVE  /\ Find(c, f) # <<>> => Find(c, f) \in Totals(c) /\ Find(c, f)[1] = f /\ f \in Files
         /\ \A i \in DOMAIN c : c[i].file = f => Find(c, f) # <<>>
<1> DEFINE at == {i \in DOMAIN c : c[i].file = f}
           least == CHOOSE i \in at : \A j \in at : i <= j
<1>1. CASE at = {}
  BY <1>1 DEF Find
<1>2. CASE at # {}
  <2>1. at \subseteq Nat
    BY CacheFacts
  <2>2. \E i \in at : \A j \in at : i <= j
    <3> HIDE DEF at
    <3> QED BY <1>2, <2>1, SmallestOf
  <2>3. least \in at
    BY <2>2
  <2>4. Find(c, f) = c[least].total
    BY <1>2 DEF Find
  <2> HIDE DEF least
  <2>5. least \in 1..Len(c) /\ c[least].file = f
    BY <2>3, CacheFacts
  <2>6. c[least].total # <<>> /\ c[least].total \in Totals(c) /\ c[least].total[1] = f /\ f \in Files
    BY <2>5, CacheFacts
  <2> QED BY <2>4, <2>6
<1> QED BY <1>1, <1>2

LEMMA CacheOfNone == IsCache(<<>>) /\ Find(<<>>, Root) = <<>> /\ Totals(<<>>) = {}
<1>1. DOMAIN <<>> = {}
  OBVIOUS
<1> QED BY <1>1 DEF IsCache, Totals, Ordered, Find

(* A cache that was written in part.                                       *)
LEMMA CachePrefix ==
  ASSUME NEW c, IsCache(c), NEW n \in 0..Len(c)
  PROVE  LET p == SubSeq(c, 1, n) IN
         /\ IsCache(p) /\ Totals(p) \subseteq Totals(c)
         /\ Find(p, Root) \in {<<>>, Find(c, Root)}
<1> DEFINE p == SubSeq(c, 1, n)
<1>1. Len(c) \in Nat /\ DOMAIN c = 1..Len(c) /\ c \in Seq(Entry(Totals(c)))
  BY CacheFacts DEF IsCache
<1>2. p \in Seq(Entry(Totals(c))) /\ Len(p) = n /\ DOMAIN p = 1..n /\ \A i \in 1..n : p[i] = c[i]
  BY <1>1
<1> HIDE DEF p
<1>3. Totals(p) \subseteq Totals(c)
  BY <1>1, <1>2 DEF Totals
<1>4. \A i \in 1..n : p[i] \in Entry(Totals(c)) /\ p[i].total \in Totals(p)
  BY <1>2 DEF Totals
<1>5. \A i \in 1..n : p[i] \in Entry(Totals(p))
  BY <1>4 DEF Entry
<1>6. p \in Seq(Entry(Totals(p)))
  BY <1>2, <1>5, SeqOf
<1>7. Ordered(p)
  <2>a. DOMAIN p = 1..n /\ (\A i \in 1..n : p[i] = c[i]) /\ DOMAIN c = 1..Len(c) /\ Ordered(c)
    BY <1>1, <1>2 DEF IsCache
  <2>b. \A i \in 1..n : i \in 1..Len(c) /\ \A j \in 1..Len(c) : j < i => j \in 1..n
    BY <1>1
  <2>c. ASSUME NEW i \in 1..n, NEW t \in Named(c[i].total[3])
        PROVE  \E j \in 1..n : j < i /\ c[j].total = t
    <3>1. PICK j \in 1..Len(c) : j < i /\ c[j].total = t
      BY <2>a, <2>b DEF Ordered
    <3> QED BY <3>1, <2>b
  <2>d. \A i \in 1..n : \A t \in Named(p[i].total[3]) : \E j \in 1..n : j < i /\ p[j].total = t
    BY <2>a, <2>c
  <2> QED BY <2>a, <2>d DEF Ordered
<1>8. ASSUME NEW i \in 1..n
      PROVE  /\ p[i].total = <<p[i].file, p[i].total[2], p[i].total[3]>>
             /\ p[i].total[3] \in Seq(Totals(p))
  <2>1. p[i] = c[i] /\ i \in DOMAIN c
    BY <1>1, <1>2
  <2>2. /\ p[i].total = <<p[i].file, p[i].total[2], p[i].total[3]>>
        /\ p[i].total[3] \in Seq(Totals(c))
    BY <2>1 DEF IsCache
  <2> DEFINE s == p[i].total[3]
  <2>3. \A k \in 1..Len(s) : s[k] \in Totals(p)
    <3> SUFFICES ASSUME NEW k \in 1..Len(s)
                 PROVE  s[k] \in Totals(p)
      OBVIOUS
    <3>1. s[k] \in Named(s)
      BY <2>2 DEF Named
    <3>2. PICK j \in 1..n : p[j].total = s[k]
      BY <3>1, <1>2, <1>7 DEF Ordered
    <3> QED BY <3>2, <1>2 DEF Totals
  <2> HIDE DEF s
  <2>4. s \in Seq(Totals(p))
    BY <2>2, <2>3, SeqOf DEF s
  <2> QED BY <2>2, <2>4 DEF s
<1>9. IsCache(p)
  BY <1>2, <1>6, <1>7, <1>8 DEF IsCache
<1>10. Find(p, Root) \in {<<>>, Find(c, Root)}
  <2> DEFINE at(x) == {i \in DOMAIN x : x[i].file = Root}
             least(x) == CHOOSE i \in at(x) : \A j \in at(x) : i <= j
  <2>1. CASE at(p) = {}
    BY <2>1 DEF Find
  <2>2. CASE at(p) # {}
    <3>1. at(p) \subseteq at(c) /\ at(c) \subseteq Nat
      BY <1>1, <1>2
    <3>2. PICK i \in at(p) : \A j \in at(p) : i <= j
      <4>1. at(p) \subseteq Nat
        BY <3>1
      <4> HIDE DEF at
      <4> QED BY <2>2, <4>1, SmallestOf
    <3>3. i \in Nat /\ i \in 1..n /\ i \in at(c)
      BY <1>2, <3>1, <3>2
    <3>4. ASSUME NEW j \in at(c)
          PROVE  i <= j
      <4>1. CASE j \in 1..n
        <5>1. j \in at(p)
          BY <4>1, <1>1, <1>2
        <5> QED BY <5>1, <3>2
      <4>2. CASE j \notin 1..n
        BY <4>2, <1>1, <3>3
      <4> QED BY <4>1, <4>2
    <3>5. at(p) \subseteq Nat /\ at(c) \subseteq Nat
      BY <3>1
    <3> HIDE DEF at
    <3>6. least(p) = i
      <4>1. least(p) \in at(p) /\ \A j \in at(p) : least(p) <= j
        BY <3>2
      <4> HIDE DEF least
      <4>2. least(p) <= i /\ i <= least(p) /\ least(p) \in Nat
        BY <4>1, <3>2, <3>5
      <4> QED BY <4>2, <3>3
    <3>7. least(c) = i
      <4>1. least(c) \in at(c) /\ \A j \in at(c) : least(c) <= j
        BY <3>3, <3>4
      <4> HIDE DEF least
      <4>2. least(c) <= i /\ i <= least(c) /\ least(c) \in Nat
        BY <4>1, <3>3, <3>4, <3>5
      <4> QED BY <4>2, <3>3
    <3>8. Find(p, Root) = p[least(p)].total /\ Find(c, Root) = c[least(c)].total
      BY <2>2, <3>3 DEF Find, at
    <3> HIDE DEF least
    <3> QED BY <3>6, <3>7, <3>8, <3>3, <1>2
  <2> QED BY <2>1, <2>2
<1> QED BY <1>3, <1>9, <1>10 DEF p

LEMMA CacheAppend ==
  ASSUME NEW c, IsCache(c), NEW f \in Files, NEW v, NEW inc \in Seq(Totals(c))
  PROVE  LET t == <<f, v, inc>>
             a == Append(c, [file |-> f, total |-> t]) IN
         /\ IsCache(a) /\ Totals(a) = Totals(c) \cup {t} /\ Find(a, f) # <<>>
<1> DEFINE t == <<f, v, inc>>
           e == [file |-> f, total |-> t]
           a == Append(c, e)
           n == Len(c)
<1>1. n \in Nat /\ DOMAIN c = 1..n /\ c \in Seq(Entry(Totals(c))) /\ Ordered(c)
  BY CacheFacts DEF IsCache
<1>2. t[1] = f /\ t[2] = v /\ t[3] = inc /\ e.file = f /\ e.total = t
  OBVIOUS
<1>3. e \in Entry({t})
  BY DEF Entry
<1> HIDE DEF t, e
<1>4. Len(a) = n + 1 /\ DOMAIN a = 1..(n + 1) /\ a[n + 1] = e /\ \A i \in 1..n : a[i] = c[i]
  BY <1>1
<1> HIDE DEF a, n
<1>5. Totals(a) = Totals(c) \cup {t}
  <2>1. \A i \in 1..(n + 1) : i \in 1..n \/ i = n + 1
    BY <1>1
  <2>2. n + 1 \in 1..(n + 1) /\ \A i \in 1..n : i \in 1..(n + 1)
    BY <1>1
  <2>3. Totals(a) \subseteq Totals(c) \cup {t}
    BY <1>1, <1>2, <1>4, <2>1 DEF Totals
  <2>4. t \in Totals(a)
    BY <1>2, <1>4, <2>2 DEF Totals
  <2>5. Totals(c) \subseteq Totals(a)
    BY <1>1, <1>4, <2>2 DEF Totals
  <2> QED BY <2>3, <2>4, <2>5
<1>6. a \in Seq(Entry(Totals(a)))
  <2>1. Entry(Totals(c)) \subseteq Entry(Totals(a)) /\ e \in Entry(Totals(a))
    BY <1>3, <1>5 DEF Entry
  <2>2. c \in Seq(Entry(Totals(a)))
    <3>1. \A i \in 1..Len(c) : c[i] \in Entry(Totals(a))
      <4>1. \A i \in 1..Len(c) : c[i] \in Entry(Totals(c))
        BY <1>1
      <4> QED BY <4>1, <2>1
    <3> QED BY <1>1, <3>1, SeqOf
  <2> QED BY <2>1, <2>2 DEF a
<1>7. Ordered(a)
  <2> SUFFICES ASSUME NEW i \in 1..(n + 1), NEW u \in Named(a[i].total[3])
               PROVE  \E j \in 1..(n + 1) : j < i /\ a[j].total = u
    BY <1>4 DEF Ordered
  <2>1. CASE i = n + 1
    <3>1. u \in Named(inc)
      BY <2>1, <1>2, <1>4
    <3>2. u \in Totals(c)
      BY <3>1 DEF Named
    <3>3. PICK j \in 1..n : c[j].total = u
      BY <3>2, <1>1 DEF Totals
    <3> QED BY <3>3, <2>1, <1>1, <1>4
  <2>2. CASE i # n + 1
    <3>1. i \in 1..n /\ a[i] = c[i]
      BY <2>2, <1>1, <1>4
    <3>2. PICK j \in 1..n : j < i /\ c[j].total = u
      BY <3>1, <1>1 DEF Ordered
    <3> QED BY <3>2, <1>1, <1>4
  <2> QED BY <2>1, <2>2
<1>8. ASSUME NEW i \in 1..(n + 1)
      PROVE  /\ a[i].total = <<a[i].file, a[i].total[2], a[i].total[3]>>
             /\ a[i].total[3] \in Seq(Totals(a))
  <2>1. CASE i = n + 1
    <3>1. inc \in Seq(Totals(a))
      <4>1. \A k \in 1..Len(inc) : inc[k] \in Totals(a)
        BY <1>5
      <4> QED BY <4>1, SeqOf
    <3>2. a[i] = e
      BY <2>1, <1>4
    <3> QED BY <3>1, <3>2, <1>2 DEF t
  <2>2. CASE i # n + 1
    <3>1. i \in 1..n /\ a[i] = c[i]
      BY <2>2, <1>1, <1>4
    <3>2. /\ c[i].total = <<c[i].file, c[i].total[2], c[i].total[3]>>
          /\ c[i].total[3] \in Seq(Totals(c))
      BY <3>1, <1>1 DEF IsCache
    <3> DEFINE s == c[i].total[3]
    <3>3. s \in Seq(Totals(c))
      BY <3>2
    <3> HIDE DEF s
    <3>4. \A k \in 1..Len(s) : s[k] \in Totals(a)
      BY <1>5, <3>3
    <3>5. s \in Seq(Totals(a))
      BY <3>3, <3>4, SeqOf
    <3> QED BY <3>1, <3>2, <3>5 DEF s
  <2> QED BY <2>1, <2>2
<1>9. IsCache(a)
  BY <1>4, <1>6, <1>7, <1>8 DEF IsCache
<1>10. Find(a, f) # <<>>
  <2>1. n + 1 \in DOMAIN a /\ a[n + 1].file = f
    BY <1>1, <1>2, <1>4
  <2> QED BY <2>1, <1>9, FindFacts
<1> QED BY <1>5, <1>9, <1>10 DEF a, e, t
-----------------------------------------------------------------------------
(* The calls of SRC_HashFile.                                              *)

FrameOf(f, v, n, inc) == [file |-> f, ver |-> v, at |-> n, includes |-> inc]
FrameSet(M) == [file : Files, ver : Nat, at : Nat, includes : Seq(M)]
Names(fr) == Includes(fr.file, fr.ver)
FrameOK(fr) == /\ fr.ver \in DOMAIN project[fr.file]
               /\ fr.at \in 1..(Len(Names(fr)) + 1)
Waits(fr, f) == fr.at \in 1..Len(Names(fr)) /\ Names(fr)[fr.at] = f

Chain(st) ==
  /\ \A k \in 1..Len(st) : FrameOK(st[k])
  /\ \A k \in 1..(Len(st) - 1) : Waits(st[k], st[k + 1].file)
  /\ Len(st) > 0 => st[1].file = Root

(* Whatever has been hashed is on its way into the hash of the root.       *)
Rooted(m, st) ==
  Len(st) > 0 =>
    \A M : Closed(M) /\ (\A k \in 1..Len(st) : st[k].includes \in Seq(M)) => Totals(m) \subseteq M

Struct(m, st) ==
  /\ IsCache(m)
  /\ st \in Seq(FrameSet(Totals(m)))
  /\ Chain(st)
  /\ Rooted(m, st)

FrameReads(fr, M, lo, hi) == HashedAs(fr.file, fr.ver, fr.includes, fr.at - 1, M, lo, hi)
Between(m, st, lo, hi) ==
  /\ Reads(Totals(m), lo, hi)
  /\ \A k \in 1..Len(st) : FrameReads(st[k], Totals(m), lo, hi)

LEMMA FrameFacts ==
  ASSUME NEW M, NEW fr \in FrameSet(M)
  PROVE  /\ fr = FrameOf(fr.file, fr.ver, fr.at, fr.includes)
         /\ fr.file \in Files /\ fr.ver \in Nat /\ fr.at \in Nat /\ fr.includes \in Seq(M)
         /\ [fr EXCEPT !.at = @ + 1] = FrameOf(fr.file, fr.ver, fr.at + 1, fr.includes)
         /\ \A u : Took(fr, u) = FrameOf(fr.file, fr.ver, fr.at + 1, Append(fr.includes, u))
<1>1. /\ fr = FrameOf(fr.file, fr.ver, fr.at, fr.includes)
      /\ fr.file \in Files /\ fr.ver \in Nat /\ fr.at \in Nat /\ fr.includes \in Seq(M)
  BY DEF FrameSet, FrameOf
<1>2. PICK f, v, n, inc : fr = FrameOf(f, v, n, inc) /\ fr.file = f /\ fr.ver = v /\ fr.at = n /\ fr.includes = inc
  BY <1>1
<1>3. [FrameOf(f, v, n, inc) EXCEPT !.at = @ + 1] = FrameOf(f, v, n + 1, inc)
  BY DEF FrameOf
<1>4. ASSUME NEW u
      PROVE  Took(FrameOf(f, v, n, inc), u) = FrameOf(f, v, n + 1, Append(inc, u))
  <2> DEFINE F == FrameOf(f, v, n, inc)
             T == Took(F, u)
  <2>1. F.file = f /\ F.ver = v /\ F.at = n /\ F.includes = inc /\ DOMAIN F = {"file", "ver", "at", "includes"}
    BY DEF FrameOf
  <2>2. T = [x \in DOMAIN F |-> IF x = "includes" THEN Append(F.includes, u)
                                ELSE IF x = "at" THEN F.at + 1 ELSE F[x]]
    BY <2>1 DEF Took
  <2>3. T = [x \in {"file", "ver", "at", "includes"} |->
               IF x = "includes" THEN Append(inc, u)
               ELSE IF x = "at" THEN n + 1 ELSE F[x]]
    BY <2>1, <2>2
  <2> HIDE DEF T, F
  <2>4. T = FrameOf(f, v, n + 1, Append(inc, u))
    BY <2>1, <2>3 DEF FrameOf
  <2> QED BY <2>4 DEF T, F
<1> QED BY <1>1, <1>2, <1>3, <1>4

LEMMA FrameIs ==
  ASSUME NEW M, NEW f \in Files, NEW v \in Nat, NEW n \in Nat, NEW inc \in Seq(M)
  PROVE  LET fr == FrameOf(f, v, n, inc) IN
         fr \in FrameSet(M) /\ fr.file = f /\ fr.ver = v /\ fr.at = n /\ fr.includes = inc
BY DEF FrameOf, FrameSet

LEMMA FrameGrows ==
  ASSUME NEW M, NEW N, M \subseteq N
  PROVE  /\ FrameSet(M) \subseteq FrameSet(N) /\ Seq(M) \subseteq Seq(N)
         /\ Seq(FrameSet(M)) \subseteq Seq(FrameSet(N))
<1>1. \A s \in Seq(M) : s \in Seq(N)
  <2> TAKE s \in Seq(M)
  <2>1. \A i \in 1..Len(s) : s[i] \in N
    OBVIOUS
  <2> QED BY <2>1, SeqOf
<1>2. FrameSet(M) \subseteq FrameSet(N)
  BY <1>1 DEF FrameSet
<1>3. \A s \in Seq(FrameSet(M)) : s \in Seq(FrameSet(N))
  <2> TAKE s \in Seq(FrameSet(M))
  <2>1. \A i \in 1..Len(s) : s[i] \in FrameSet(N)
    BY <1>2
  <2> QED BY <2>1, SeqOf
<1> QED BY <1>1, <1>2, <1>3

LEMMA NamesFacts ==
  ASSUME ProjectOK, NEW f \in Files, NEW v \in DOMAIN project[f]
  PROVE  Includes(f, v) \in Seq(Files) /\ Len(Includes(f, v)) \in Nat /\ v \in Nat
         /\ DOMAIN Includes(f, v) = 1..Len(Includes(f, v))
         /\ \A k \in 1..Len(Includes(f, v)) : Includes(f, v)[k] \in Files
<1>1. project[f] \in Seq(Seq(Files))
  BY DEF ProjectOK
<1>2. v \in 1..Len(project[f])
  BY <1>1
<1>3. Includes(f, v) \in Seq(Files) /\ v \in Nat
  BY <1>1, <1>2 DEF Includes
<1> QED BY <1>3

LEMMA ReadsGrow ==
  ASSUME NEW M, NEW N, M \subseteq N, NEW lo, NEW hi
  PROVE  /\ \A fr : FrameReads(fr, M, lo, hi) => FrameReads(fr, N, lo, hi)
         /\ \A t : ReadAs(t, M, lo, hi) => ReadAs(t, N, lo, hi)
<1>1. Seq(M) \subseteq Seq(N)
  BY FrameGrows
<1> QED BY <1>1 DEF FrameReads, ReadAs, HashedAs

(* How a stack changes.                                                    *)
LEMMA TopReplaced ==
  ASSUME NEW S, NEW st \in Seq(S), Len(st) > 0, NEW x \in S
  PROVE  LET t == [st EXCEPT ![Len(st)] = x] IN
         /\ t \in Seq(S) /\ Len(t) = Len(st) /\ t[Len(st)] = x
         /\ \A k \in 1..(Len(st) - 1) : t[k] = st[k]
<1>1. Len(st) \in 1..Len(st)
  OBVIOUS
<1> QED BY <1>1

LEMMA TopRemoved ==
  ASSUME NEW S, NEW st \in Seq(S), Len(st) > 0
  PROVE  LET t == SubSeq(st, 1, Len(st) - 1) IN
         /\ t \in Seq(S) /\ Len(t) = Len(st) - 1
         /\ \A k \in 1..(Len(st) - 1) : t[k] = st[k]
<1>1. Len(st) \in Nat /\ Len(st) - 1 \in Nat /\ \A k \in 1..(Len(st) - 1) : k \in 1..Len(st)
  OBVIOUS
<1>2. SubSeq(st, 1, Len(st) - 1) = [k \in 1..(Len(st) - 1) |-> st[k]]
  BY <1>1
<1>3. \A k \in 1..(Len(st) - 1) : st[k] \in S
  BY <1>1
<1> DEFINE t == SubSeq(st, 1, Len(st) - 1)
           n == Len(st) - 1
<1>4. t = [k \in 1..n |-> st[k]] /\ n \in Nat /\ \A k \in 1..n : st[k] \in S
  BY <1>1, <1>2, <1>3
<1> HIDE DEF t, n
<1>5. t \in Seq(S) /\ Len(t) = n /\ \A k \in 1..n : t[k] = st[k]
  BY <1>4
<1> QED BY <1>5 DEF t, n

LEMMA TopAdded ==
  ASSUME NEW S, NEW st \in Seq(S), NEW x \in S
  PROVE  LET t == Append(st, x) IN
         /\ t \in Seq(S) /\ Len(t) = Len(st) + 1 /\ t[Len(st) + 1] = x
         /\ \A k \in 1..Len(st) : t[k] = st[k]
OBVIOUS

(* A call comes past an include, with its hash or without.                 *)
Advanced(fr, inc) == FrameOf(fr.file, fr.ver, fr.at + 1, inc)

LEMMA AdvancedFacts ==
  ASSUME ProjectOK, NEW M, NEW fr \in FrameSet(M), FrameOK(fr), fr.at <= Len(Names(fr)),
         NEW inc \in Seq(M)
  PROVE  LET x == Advanced(fr, inc) IN
         /\ x \in FrameSet(M) /\ FrameOK(x) /\ x.file = fr.file /\ x.includes = inc
         /\ Names(x) = Names(fr) /\ x.at = fr.at + 1 /\ x.ver = fr.ver
         /\ \A lo, hi : FrameReads(fr, M, lo, hi) =>
              \/ ~Gathered(inc, Names(fr), fr.at, lo)
              \/ FrameReads(x, M, lo, hi)
<1>1. fr.file \in Files /\ fr.ver \in Nat /\ fr.at \in Nat
  BY FrameFacts
<1> DEFINE x == Advanced(fr, inc)
<1>2. x \in FrameSet(M) /\ x.file = fr.file /\ x.ver = fr.ver /\ x.at = fr.at + 1 /\ x.includes = inc
  BY <1>1, FrameIs DEF Advanced
<1> HIDE DEF x
<1>3. Names(x) = Names(fr) /\ Len(Names(fr)) \in Nat
  BY <1>1, <1>2, NamesFacts DEF Names, FrameOK
<1>4. FrameOK(x)
  BY <1>1, <1>2, <1>3 DEF FrameOK
<1>5. x.at - 1 = fr.at /\ fr.at \in 0..Len(Names(fr))
  BY <1>1, <1>2, <1>3
<1>6. ASSUME NEW lo, NEW hi, FrameReads(fr, M, lo, hi), Gathered(inc, Names(fr), fr.at, lo)
      PROVE  FrameReads(x, M, lo, hi)
  BY <1>2, <1>3, <1>5, <1>6 DEF FrameReads, HashedAs, Names
<1> QED BY <1>2, <1>3, <1>4, <1>6 DEF x

LEMMA SameBetween ==
  ASSUME project' = project, NEW m, m = mem', NEW st, st = stack', NEW lo, NEW hi
  PROVE  Between(m, st, lo, hi) => Between(mem, stack, lo, hi)'
BY DEF Between, Reads, ReadAs, FrameReads, HashedAs, Includes

LEMMA SameStruct ==
  ASSUME project' = project, NEW m, m = mem', NEW st, st = stack', Struct(m, st)
  PROVE  Struct(mem, stack)'
<1>1. IsCache(mem)'
  <2>1. IsCache(m)
    BY DEF Struct
  <2>2. (mem \in Seq(Entry(Totals(mem))))'
    BY <2>1 DEF IsCache, Totals, Entry
  <2>3. Ordered(mem)'
    BY <2>1 DEF IsCache, Ordered
  <2>4. (\A i \in DOMAIN mem : /\ mem[i].total = <<mem[i].file, mem[i].total[2], mem[i].total[3]>>
                               /\ mem[i].total[3] \in Seq(Totals(mem)))'
    BY <2>1 DEF IsCache, Totals
  <2> QED BY <2>2, <2>3, <2>4 DEF IsCache
<1>2. (stack \in Seq(FrameSet(Totals(mem))))'
  BY DEF Struct, FrameSet, Totals
<1>3. Chain(stack)'
  BY DEF Struct, Chain, FrameOK, Waits, Names, Includes
<1>4. Rooted(mem, stack)'
  BY DEF Struct, Rooted, Totals
<1> QED BY <1>1, <1>2, <1>3, <1>4 DEF Struct

IsAdvanced(t, st, M, inc) ==
  LET n == Len(st) IN
  /\ t \in Seq(FrameSet(M)) /\ Len(t) = n /\ Chain(t)
  /\ t[n].includes = inc /\ \A k \in 1..(n - 1) : t[k] = st[k]
ReadsOn(st, M, lo, hi) == \A k \in 1..Len(st) : FrameReads(st[k], M, lo, hi)

LEMMA AdvanceChain ==
  ASSUME ProjectOK, NEW M, NEW st \in Seq(FrameSet(M)), Chain(st), Len(st) > 0,
         st[Len(st)].at <= Len(Names(st[Len(st)])), NEW inc \in Seq(M),
         NEW t, t = [st EXCEPT ![Len(st)] = Advanced(st[Len(st)], inc)]
  PROVE  /\ IsAdvanced(t, st, M, inc)
         /\ \A lo, hi : /\ ReadsOn(st, M, lo, hi)
                        /\ Gathered(inc, Names(st[Len(st)]), st[Len(st)].at, lo)
                        => ReadsOn(t, M, lo, hi)
<1> DEFINE n == Len(st)
           top == st[n]
           x == Advanced(top, inc)
<1>1. n \in Nat /\ n \in 1..n /\ top \in FrameSet(M) /\ FrameOK(top)
      /\ \A k \in 1..n : FrameOK(st[k])
  BY DEF Chain
<1>2. /\ x \in FrameSet(M) /\ FrameOK(x) /\ x.file = top.file /\ x.includes = inc
      /\ \A lo, hi : FrameReads(top, M, lo, hi) =>
           \/ ~Gathered(inc, Names(top), top.at, lo)
           \/ FrameReads(x, M, lo, hi)
  <2> HIDE DEF x, top
  <2>1. top.at <= Len(Names(top))
    BY DEF top, n
  <2> QED BY <1>1, <2>1, AdvancedFacts DEF x
<1> HIDE DEF x
<1>3. t \in Seq(FrameSet(M)) /\ Len(t) = n /\ t[n] = x /\ \A k \in 1..(n - 1) : t[k] = st[k]
  BY <1>2, TopReplaced DEF x
<1>4. \A k \in 1..n : k \in 1..(n - 1) \/ k = n
  BY <1>1
<1>5. Chain(t)
  <2>1. \A k \in 1..n : FrameOK(t[k])
    BY <1>1, <1>2, <1>3, <1>4
  <2>2. \A k \in 1..n : t[k].file = st[k].file
    BY <1>2, <1>3, <1>4 DEF top
  <2>3. \A k \in 1..(n - 1) : k \in 1..n /\ k + 1 \in 1..n
    BY <1>1
  <2>4. \A k \in 1..(n - 1) : Waits(t[k], t[k + 1].file)
    BY <1>3, <2>2, <2>3 DEF Chain, n
  <2>5. t[1].file = Root
    BY <2>2, <1>1 DEF Chain, n
  <2> QED BY <1>3, <2>1, <2>4, <2>5 DEF Chain
<1>6. ASSUME NEW lo, NEW hi, ReadsOn(st, M, lo, hi), Gathered(inc, Names(top), top.at, lo)
      PROVE  ReadsOn(t, M, lo, hi)
  <2>1. FrameReads(x, M, lo, hi)
    BY <1>1, <1>2, <1>6 DEF top, ReadsOn
  <2>2. ASSUME NEW k \in 1..(n - 1)
        PROVE  FrameReads(t[k], M, lo, hi)
    <3>0. k \in 1..Len(st)
      BY <1>1
    <3>1. k \in 1..Len(st) /\ t[k] = st[k]
      BY <3>0, <1>3
    <3>2. FrameReads(st[k], M, lo, hi)
      BY <3>1, <1>6 DEF ReadsOn
    <3> QED BY <3>1, <3>2
  <2> QED BY <2>1, <2>2, <1>3, <1>4 DEF ReadsOn
<1>7. IsAdvanced(t, st, M, inc)
  BY <1>2, <1>3, <1>5 DEF IsAdvanced
<1> QED BY <1>6, <1>7 DEF top, n

LEMMA AppendedSeq ==
  ASSUME NEW M, NEW a \in Seq(M), NEW u
  PROVE  /\ u \in M => Append(a, u) \in Seq(M)
         /\ \A N : Append(a, u) \in Seq(N) => a \in Seq(N) /\ u \in N
<1>1. ASSUME NEW N, Append(a, u) \in Seq(N)
      PROVE  a \in Seq(N) /\ u \in N
  <2> DEFINE b == Append(a, u)
  <2>1. Len(b) = Len(a) + 1 /\ Len(a) \in Nat /\ b[Len(a) + 1] = u /\ \A i \in 1..Len(a) : b[i] = a[i]
    OBVIOUS
  <2>2. b \in Seq(N)
    BY <1>1
  <2> HIDE DEF b
  <2>3. u \in N /\ \A i \in 1..Len(a) : a[i] \in N
    <3>1. \A i \in 1..(Len(a) + 1) : b[i] \in N
      BY <2>1, <2>2
    <3>2. Len(a) + 1 \in 1..(Len(a) + 1) /\ \A i \in 1..Len(a) : i \in 1..(Len(a) + 1)
      BY <2>1
    <3> QED BY <2>1, <3>1, <3>2
  <2> QED BY <2>3, SeqOf
<1> QED BY <1>1

Basics ==
  /\ ProjectOK /\ disk \in Disk /\ \A f \in Files : disk[f] <= Len(project[f])
  /\ pc = "hash" /\ Struct(mem, stack) /\ stack # <<>>

(* What the disk has of an include that is looked at is within lo and hi.  *)
Sees(lo, hi) ==
  HasInclude => lo[NextInclude] <= disk[NextInclude] /\ disk[NextInclude] <= hi[NextInclude]

LEMMA BasicFacts ==
  ASSUME Basics
  PROVE  LET n == Len(stack) IN
         /\ n \in Nat /\ n > 0 /\ n \in 1..n /\ Top = stack[n] /\ Top \in FrameSet(Totals(mem))
         /\ FrameOK(Top) /\ Top = FrameOf(Top.file, Top.ver, Top.at, Top.includes)
         /\ Top.file \in Files /\ Top.at \in Nat /\ Top.ver \in Nat
         /\ Top.includes \in Seq(Totals(mem))
         /\ Names(Top) \in Seq(Files) /\ Len(Names(Top)) \in Nat
         /\ (HasInclude <=> Top.at <= Len(Names(Top)))
         /\ NextInclude = Names(Top)[Top.at]
         /\ HasInclude => NextInclude \in Files /\ NextInclude \in Named(Names(Top))
         /\ ~HasInclude => Top.at - 1 = Len(Names(Top))
         /\ IsCache(mem) /\ Chain(stack) /\ Rooted(mem, stack) /\ stack \in Seq(FrameSet(Totals(mem)))
<1>1. stack \in Seq(FrameSet(Totals(mem))) /\ IsCache(mem) /\ Chain(stack) /\ Rooted(mem, stack)
  BY DEF Basics, Struct
<1> DEFINE n == Len(stack)
<1>2. n \in Nat /\ n > 0 /\ n \in 1..n /\ Top = stack[n]
  BY <1>1 DEF Basics, Top
<1>3. Top \in FrameSet(Totals(mem)) /\ FrameOK(Top)
  BY <1>1, <1>2 DEF Chain
<1>4. /\ Top = FrameOf(Top.file, Top.ver, Top.at, Top.includes)
      /\ Top.file \in Files /\ Top.at \in Nat /\ Top.ver \in Nat
      /\ Top.includes \in Seq(Totals(mem))
  BY <1>3, FrameFacts
<1>5. Names(Top) \in Seq(Files) /\ Len(Names(Top)) \in Nat
  BY <1>3, <1>4, NamesFacts DEF Names, FrameOK, Basics
<1>6. /\ (HasInclude <=> Top.at <= Len(Names(Top)))
      /\ NextInclude = Names(Top)[Top.at]
  BY DEF HasInclude, NextInclude, Names
<1>7. Top.at \in 1..(Len(Names(Top)) + 1)
  BY <1>3 DEF FrameOK
<1>8. HasInclude => NextInclude \in Files /\ NextInclude \in Named(Names(Top))
  <2> DEFINE s == Names(Top)
             i == Top.at
  <2>1. s \in Seq(Files) /\ Len(s) \in Nat /\ i \in 1..(Len(s) + 1)
    BY <1>5, <1>7
  <2> HIDE DEF s, i
  <2>2. i <= Len(s) => s[i] \in Files /\ s[i] \in Named(s)
    BY <2>1 DEF Named
  <2> QED BY <2>2, <1>6 DEF s, i
<1>9. ~HasInclude => Top.at - 1 = Len(Names(Top))
  <2> DEFINE L == Len(Names(Top))
             i == Top.at
  <2>1. L \in Nat /\ i \in 1..(L + 1) /\ (HasInclude <=> i <= L)
    BY <1>5, <1>6, <1>7
  <2> HIDE DEF L, i
  <2>2. ~HasInclude => i - 1 = L
    BY <2>1
  <2> QED BY <2>2 DEF L, i
<1> QED BY <1>1, <1>2, <1>3, <1>4, <1>5, <1>6, <1>8, <1>9

(* Each step of the hashing keeps the stack and cache in order, and what   *)
(* was read within what it was within.                                     *)
Kept(m, st) == \A lo, hi \in Disk : Between(mem, stack, lo, hi) /\ Sees(lo, hi) => Between(m, st, lo, hi)

LEMMA SkipKeeps ==
  ASSUME Basics, SkipInclude
  PROVE  Struct(mem', stack') /\ Kept(mem', stack') /\ stack' # <<>>
<1> DEFINE n == Len(stack)
           inc == Top.includes
           t == [stack EXCEPT ![n] = Advanced(stack[n], inc)]
           M == Totals(mem)
<1>1. /\ n \in Nat /\ n > 0 /\ Top = stack[n] /\ Top \in FrameSet(M) /\ HasInclude
      /\ Top.at <= Len(Names(Top)) /\ inc \in Seq(M) /\ Top.at \in Nat
      /\ NextInclude \in Files /\ disk[NextInclude] = 0 /\ NextInclude = Names(Top)[Top.at]
      /\ IsCache(mem) /\ Chain(stack) /\ Rooted(mem, stack) /\ stack \in Seq(FrameSet(M))
      /\ FrameOK(Top)
  BY BasicFacts DEF SkipInclude
<1>2. mem' = mem /\ stack' = t
  <2>1. [Top EXCEPT !.at = @ + 1] = Advanced(Top, inc)
    BY <1>1, FrameFacts DEF Advanced
  <2>2. stack' = [stack EXCEPT ![n] = [stack[n] EXCEPT !.at = @ + 1]]
    BY DEF SkipInclude
  <2> QED BY <2>1, <2>2, <1>1 DEF SkipInclude
<1>a. /\ IsAdvanced(t, stack, M, inc)
      /\ \A lo, hi : ReadsOn(stack, M, lo, hi) /\ Gathered(inc, Names(Top), Top.at, lo)
                     => ReadsOn(t, M, lo, hi)
  <2>1. ProjectOK /\ stack[Len(stack)].at <= Len(Names(stack[Len(stack)])) /\ Len(stack) > 0
    BY <1>1 DEF Basics
  <2> HIDE DEF inc
  <2> QED BY <2>1, <1>1, AdvanceChain
<1> HIDE DEF t
<1>3. /\ t \in Seq(FrameSet(M)) /\ Len(t) = n /\ Chain(t)
      /\ t[n].includes = inc /\ \A k \in 1..(n - 1) : t[k] = stack[k]
  BY <1>a DEF IsAdvanced
<1>4. Rooted(mem, t)
  <2>1. \A k \in 1..n : t[k].includes = stack[k].includes
    BY <1>1, <1>3
  <2> QED BY <2>1, <1>1, <1>3 DEF Rooted
<1>5. ASSUME NEW lo \in Disk, NEW hi \in Disk, Between(mem, stack, lo, hi), Sees(lo, hi)
      PROVE  Between(mem, t, lo, hi)
  <2>1. ReadsOn(stack, M, lo, hi)
    BY <1>5 DEF Between, ReadsOn
  <2>2. FrameReads(Top, M, lo, hi)
    BY <1>1, <2>1 DEF ReadsOn
  <2>3. Gathered(inc, Names(Top), Top.at - 1, lo)
    BY <2>2 DEF FrameReads, HashedAs, Names
  <2>4. lo[Names(Top)[Top.at]] = 0
    <3>1. lo[NextInclude] <= 0 /\ lo[NextInclude] \in Nat
      BY <1>1, <1>5 DEF Sees, Disk
    <3> QED BY <3>1, <1>1
  <2>5. Gathered(inc, Names(Top), Top.at, lo)
    <3> DEFINE j == Top.at - 1
               names == Names(Top)
    <3>1. j \in Nat /\ j + 1 = Top.at
      BY <1>1 DEF FrameOK
    <3> HIDE DEF j, names, inc
    <3>2. inc \in Seq(M) /\ Gathered(inc, names, j, lo) /\ lo[names[j + 1]] = 0
      BY <1>1, <2>3, <2>4, <3>1 DEF j, names
    <3>3. Gathered(inc, names, j + 1, lo)
      BY <3>1, <3>2, GatheredSkip
    <3> QED BY <3>1, <3>3 DEF names
  <2>6. ReadsOn(t, M, lo, hi)
    BY <1>a, <2>1, <2>5
  <2> QED BY <1>5, <2>6 DEF Between, ReadsOn
<1>6. t # <<>>
  BY <1>1, <1>3
<1> QED BY <1>1, <1>2, <1>3, <1>4, <1>5, <1>6 DEF Struct, Kept

(* A hash is taken by the call that waits for it.                          *)
LEMMA TakenKeeps ==
  ASSUME ProjectOK, NEW m, IsCache(m), NEW st \in Seq(FrameSet(Totals(m))), Chain(st), Len(st) > 0,
         NEW u \in Totals(m), Waits(st[Len(st)], u[1])
  PROVE  LET t == [st EXCEPT ![Len(st)] = Took(@, u)] IN
         /\ IsAdvanced(t, st, Totals(m), Append(st[Len(st)].includes, u))
         /\ \A lo, hi : ReadsOn(st, Totals(m), lo, hi) => ReadsOn(t, Totals(m), lo, hi)
<1> DEFINE n == Len(st)
           top == st[n]
           inc == Append(top.includes, u)
           M == Totals(m)
           t == [st EXCEPT ![n] = Advanced(st[n], inc)]
<1>1. n \in Nat /\ n \in 1..n /\ top \in FrameSet(M) /\ FrameOK(top)
  BY DEF Chain
<1>2. top.includes \in Seq(M) /\ Took(top, u) = Advanced(top, inc)
  <2>1. \A v : Took(top, v) = FrameOf(top.file, top.ver, top.at + 1, Append(top.includes, v))
    BY <1>1, FrameFacts
  <2> QED BY <1>1, <2>1, FrameFacts DEF Advanced
<1>3. [st EXCEPT ![n] = Took(@, u)] = t
  BY <1>2
<1>4. inc \in Seq(M)
  BY <1>2, AppendedSeq
<1>5. top.at <= Len(Names(top)) /\ Names(top)[top.at] = u[1] /\ top.at \in Nat /\ top.at # 0
  <2>1. top.at \in Nat
    BY <1>1, FrameFacts
  <2>2. top.at \in 1..Len(Names(top)) /\ Names(top)[top.at] = u[1]
    BY DEF Waits
  <2> QED BY <2>1, <2>2
<1>6. /\ IsAdvanced(t, st, M, inc)
      /\ \A lo, hi : ReadsOn(st, M, lo, hi) /\ Gathered(inc, Names(top), top.at, lo)
                     => ReadsOn(t, M, lo, hi)
  <2>1. st[Len(st)].at <= Len(Names(st[Len(st)]))
    BY <1>5
  <2> HIDE DEF inc
  <2> QED BY <2>1, <1>4, AdvanceChain
<1>7. ASSUME NEW lo, NEW hi, ReadsOn(st, M, lo, hi)
      PROVE  Gathered(inc, Names(top), top.at, lo)
  <2>1. FrameReads(top, M, lo, hi)
    BY <1>1, <1>7 DEF ReadsOn
  <2> DEFINE j == top.at - 1
             names == Names(top)
             a == top.includes
  <2>2. Gathered(a, names, j, lo)
    BY <2>1 DEF FrameReads, HashedAs, Names
  <2>3. j \in Nat /\ j + 1 = top.at /\ names[j + 1] = u[1] /\ a \in Seq(M)
    BY <1>2, <1>5
  <2> HIDE DEF j, names, a
  <2>4. Gathered(Append(a, u), names, j + 1, lo)
    BY <2>2, <2>3, GatheredTake
  <2> QED BY <2>3, <2>4 DEF a, names
<1> HIDE DEF t
<1> QED BY <1>3, <1>6, <1>7

LEMMA KnownKeeps ==
  ASSUME Basics, KnownInclude
  PROVE  Struct(mem', stack') /\ Kept(mem', stack') /\ stack' # <<>>
<1> DEFINE n == Len(stack)
           u == Find(mem, NextInclude)
           t == [stack EXCEPT ![n] = Took(@, u)]
           M == Totals(mem)
<1>1. /\ n \in Nat /\ n > 0 /\ Top = stack[n] /\ HasInclude
      /\ Top.at <= Len(Names(Top)) /\ Top.at \in Nat /\ Top.includes \in Seq(M)
      /\ NextInclude = Names(Top)[Top.at]
      /\ IsCache(mem) /\ Chain(stack) /\ Rooted(mem, stack) /\ stack \in Seq(FrameSet(M))
      /\ FrameOK(Top)
  BY BasicFacts DEF KnownInclude
<1>2. mem' = mem /\ stack' = t /\ u # <<>>
  BY DEF KnownInclude, Known
<1>3. u \in M /\ u[1] = NextInclude
  BY <1>1, <1>2, FindFacts
<1>4. Waits(stack[n], u[1])
  BY <1>1, <1>3 DEF Waits, FrameOK
<1> HIDE DEF u
<1>a. /\ IsAdvanced(t, stack, M, Append(stack[n].includes, u))
      /\ \A lo, hi : ReadsOn(stack, M, lo, hi) => ReadsOn(t, M, lo, hi)
  BY <1>1, <1>3, <1>4, TakenKeeps DEF Basics
<1> HIDE DEF t
<1>5. /\ t \in Seq(FrameSet(M)) /\ Len(t) = n /\ Chain(t)
      /\ t[n].includes = Append(stack[n].includes, u)
      /\ \A k \in 1..(n - 1) : t[k] = stack[k]
  BY <1>a DEF IsAdvanced
<1>6. Rooted(mem, t)
  <2> SUFFICES ASSUME NEW N, Closed(N), \A k \in 1..n : t[k].includes \in Seq(N)
               PROVE  M \subseteq N
    BY <1>1, <1>5 DEF Rooted
  <2>1. stack[n].includes \in Seq(N)
    <3>1. n \in 1..n
      BY <1>1
    <3>2. Append(stack[n].includes, u) \in Seq(N)
      BY <3>1, <1>5
    <3> QED BY <3>2, <1>1, AppendedSeq
  <2>2. \A k \in 1..n : stack[k].includes \in Seq(N)
    BY <2>1, <1>1, <1>5
  <2> QED BY <2>2, <1>1 DEF Rooted
<1>7. ASSUME NEW lo \in Disk, NEW hi \in Disk, Between(mem, stack, lo, hi)
      PROVE  Between(mem, t, lo, hi)
  BY <1>a, <1>7 DEF Between, ReadsOn
<1>8. t # <<>>
  BY <1>1, <1>5
<1> QED BY <1>1, <1>2, <1>5, <1>6, <1>7, <1>8 DEF Struct, Kept

LEMMA EnterKeeps ==
  ASSUME Basics, EnterInclude
  PROVE  Struct(mem', stack') /\ Kept(mem', stack') /\ stack' # <<>>
<1> DEFINE n == Len(stack)
           g == NextInclude
           x == Frame(g)
           t == Append(stack, x)
           M == Totals(mem)
<1>1. /\ n \in Nat /\ n > 0 /\ Top = stack[n] /\ HasInclude
      /\ Top.at <= Len(Names(Top)) /\ Top.at \in Nat
      /\ g = Names(Top)[Top.at] /\ g \in Files /\ disk[g] # 0
      /\ IsCache(mem) /\ Chain(stack) /\ Rooted(mem, stack) /\ stack \in Seq(FrameSet(M))
      /\ FrameOK(Top)
  BY BasicFacts DEF EnterInclude
<1>2. mem' = mem /\ stack' = t
  BY DEF EnterInclude
<1> HIDE DEF g
<1>3. disk[g] \in Nat /\ disk[g] \in DOMAIN project[g]
  <2>1. disk[g] \in Nat /\ disk[g] <= Len(project[g])
    BY <1>1 DEF Basics, Disk
  <2>2. project[g] \in Seq(Seq(Files))
    BY <1>1 DEF Basics, ProjectOK
  <2> QED BY <2>1, <2>2, <1>1
<1>4. <<>> \in Seq(M) /\ Len(<<>>) = 0
  OBVIOUS
<1>5. /\ x \in FrameSet(M) /\ x.file = g /\ x.ver = disk[g] /\ x.at = 1 /\ x.includes = <<>>
  <2>1. x = FrameOf(g, disk[g], 1, <<>>)
    BY DEF Frame, FrameOf
  <2> DEFINE w == disk[g]
  <2>2. w \in Nat /\ g \in Files /\ x = FrameOf(g, w, 1, <<>>)
    BY <2>1, <1>1, <1>3
  <2> HIDE DEF x, w
  <2>3. x \in FrameSet(M) /\ x.file = g /\ x.ver = w /\ x.at = 1 /\ x.includes = <<>>
    BY <2>2, <1>4 DEF FrameOf, FrameSet
  <2> QED BY <2>3 DEF w
<1> HIDE DEF x
<1>6. Includes(g, disk[g]) \in Seq(Files) /\ Len(Includes(g, disk[g])) \in Nat
  BY <1>1, <1>3, NamesFacts DEF Basics
<1>7. FrameOK(x) /\ Names(x) = Includes(g, disk[g])
  BY <1>3, <1>5, <1>6 DEF FrameOK, Names
<1>8. t \in Seq(FrameSet(M)) /\ Len(t) = n + 1 /\ t[n + 1] = x /\ \A k \in 1..n : t[k] = stack[k]
  BY <1>1, <1>5, TopAdded
<1> HIDE DEF t
<1>9. Chain(t)
  <2>1. \A k \in 1..(n + 1) : FrameOK(t[k])
    BY <1>1, <1>7, <1>8 DEF Chain
  <2>2. ASSUME NEW k \in 1..n
        PROVE  Waits(t[k], t[k + 1].file)
    <3>1. CASE k = n
      <4>1. t[k] = Top /\ t[k + 1].file = g
        BY <3>1, <1>1, <1>5, <1>8
      <4> QED BY <4>1, <1>1 DEF Waits, FrameOK
    <3>2. CASE k # n
      <4>1. k \in 1..(n - 1) /\ t[k] = stack[k] /\ t[k + 1] = stack[k + 1]
        BY <3>2, <1>1, <1>8
      <4> QED BY <4>1, <1>1 DEF Chain
    <3> QED BY <3>1, <3>2
  <2>3. t[1].file = Root
    BY <1>1, <1>8 DEF Chain
  <2> QED BY <2>1, <2>2, <2>3, <1>1, <1>8 DEF Chain
<1>10. Rooted(mem, t)
  <2> SUFFICES ASSUME NEW N, Closed(N), \A k \in 1..(n + 1) : t[k].includes \in Seq(N)
               PROVE  M \subseteq N
    BY <1>8 DEF Rooted
  <2>1. \A k \in 1..n : stack[k].includes \in Seq(N)
    BY <1>1, <1>8
  <2> QED BY <2>1, <1>1 DEF Rooted
<1>11. ASSUME NEW lo \in Disk, NEW hi \in Disk, Between(mem, stack, lo, hi), Sees(lo, hi)
       PROVE  Between(mem, t, lo, hi)
  <2>1. Gathered(<<>>, Names(x), 0, lo)
    BY GatheredNone
  <2>2. lo[g] <= disk[g] /\ disk[g] <= hi[g]
    BY <1>1, <1>11 DEF Sees, g
  <2>3. 0 \in 0..Len(Includes(g, disk[g])) /\ x.at - 1 = 0
    BY <1>5, <1>6
  <2>4. FrameReads(x, M, lo, hi)
    BY <2>1, <2>2, <2>3, <1>1, <1>3, <1>4, <1>5, <1>7 DEF FrameReads, HashedAs
  <2>5. \A k \in 1..n : FrameReads(t[k], M, lo, hi)
    BY <1>1, <1>8, <1>11 DEF Between
  <2>6. \A k \in 1..(n + 1) : k \in 1..n \/ k = n + 1
    BY <1>1
  <2>7. \A k \in 1..(n + 1) : FrameReads(t[k], M, lo, hi)
    BY <2>4, <2>5, <2>6, <1>8
  <2> QED BY <2>7, <1>8, <1>11 DEF Between
<1>12. t # <<>>
  BY <1>1, <1>8
<1> QED BY <1>1, <1>2, <1>8, <1>9, <1>10, <1>11, <1>12 DEF Struct, Kept

(* The hash that is finished; at the end of the root's call all the others *)
(* are on their way into it.                                               *)
LEMMA FinishKeeps ==
  ASSUME Basics, Finish
  PROVE  LET T == Total(Top) IN
         /\ Struct(mem', stack') /\ Kept(mem', stack')
         /\ T \in Totals(mem') /\ T[1] = Top.file
         /\ Len(stack) > 1 => stack' # <<>>
         /\ Len(stack) = 1 =>
              /\ Top.file = Root /\ Find(mem', Root) # <<>>
              /\ \A N : Closed(N) /\ T \in N => Totals(mem') \subseteq N
<1> DEFINE n == Len(stack)
           f == Top.file
           v == Top.ver
           inc == Top.includes
           T == <<f, v, inc>>
           m == Append(mem, [file |-> f, total |-> T])
           M == Totals(mem)
<1>1. /\ n \in Nat /\ n > 0 /\ n \in 1..n /\ Top = stack[n] /\ Top \in FrameSet(M) /\ ~HasInclude
      /\ f \in Files /\ inc \in Seq(M) /\ Top.at - 1 = Len(Names(Top))
      /\ IsCache(mem) /\ Chain(stack) /\ Rooted(mem, stack) /\ stack \in Seq(FrameSet(M))
  BY BasicFacts DEF Finish
<1>2. mem' = m /\ Total(Top) = T
  BY DEF Finish, Total
<1>3. IsCache(m) /\ Totals(m) = M \cup {T} /\ Find(m, f) # <<>>
  <2> HIDE DEF f, v, inc
  <2> QED BY <1>1, CacheAppend
<1>4. T[1] = f /\ T[2] = v /\ T[3] = inc /\ T = <<T[1], T[2], T[3]>>
  OBVIOUS
<1>5. stack \in Seq(FrameSet(Totals(m)))
  BY <1>1, <1>3, FrameGrows
<1> HIDE DEF T, m, f, v, inc
<1>6. ASSUME NEW lo \in Disk, NEW hi \in Disk, Between(mem, stack, lo, hi)
      PROVE  Reads(Totals(m), lo, hi) /\ ReadsOn(stack, Totals(m), lo, hi)
  <2>1. /\ \A fr : FrameReads(fr, M, lo, hi) => FrameReads(fr, Totals(m), lo, hi)
        /\ \A t : ReadAs(t, M, lo, hi) => ReadAs(t, Totals(m), lo, hi)
    BY <1>3, ReadsGrow
  <2>2. ReadsOn(stack, Totals(m), lo, hi)
    BY <2>1, <1>6 DEF Between, ReadsOn
  <2>3. FrameReads(Top, Totals(m), lo, hi)
    BY <2>2, <1>1 DEF ReadsOn
  <2>4. ReadAs(T, Totals(m), lo, hi)
    BY <2>3, <1>1, <1>4 DEF FrameReads, ReadAs, Names, f, v, inc
  <2> QED BY <2>1, <2>2, <2>4, <1>3, <1>6 DEF Between, Reads
<1>7. ASSUME NEW N, Closed(N), T \in N, \A k \in 1..(n - 1) : stack[k].includes \in Seq(N)
      PROVE  Totals(m) \subseteq N
  <2>1. inc \in Seq(N)
    BY <1>4, <1>7 DEF Closed
  <2>2. \A k \in 1..n : stack[k].includes \in Seq(N)
    <3>1. \A k \in 1..n : k \in 1..(n - 1) \/ k = n
      BY <1>1
    <3> QED BY <2>1, <3>1, <1>1, <1>7 DEF inc
  <2>3. M \subseteq N
    BY <2>2, <1>1, <1>7 DEF Rooted
  <2> QED BY <2>3, <1>3, <1>7
<1>8. CASE n = 1
  <2>1. stack' = <<>>
    BY <1>8 DEF Finish
  <2>2. f = Root
    BY <1>1, <1>8 DEF Chain, f
  <2>3. Len(<<>>) = 0 /\ <<>> \in Seq(FrameSet(Totals(m)))
    OBVIOUS
  <2>4. Struct(m, <<>>)
    BY <1>3, <2>3 DEF Struct, Chain, Rooted
  <2>5. Kept(m, <<>>)
    BY <1>6, <2>3 DEF Kept, Between
  <2>6. \A N : Closed(N) /\ T \in N => Totals(m) \subseteq N
    BY <1>7, <1>8
  <2> QED BY <2>1, <2>2, <2>4, <2>5, <2>6, <1>2, <1>3, <1>4, <1>8 DEF f
<1>9. CASE n > 1
  <2> DEFINE b == Below
             p == n - 1
             t == [b EXCEPT ![p] = Took(@, T)]
  <2>1. b \in Seq(FrameSet(Totals(m))) /\ Len(b) = p /\ \A k \in 1..p : b[k] = stack[k]
    BY <1>1, <1>5, TopRemoved DEF Below
  <2>2. stack' = t
    BY <1>2, <1>9, <2>1 DEF Finish
  <2>3. p \in Nat /\ p > 0 /\ p \in 1..p /\ p + 1 = n
    BY <1>1, <1>9
  <2> HIDE DEF b, p
  <2>4. Chain(b) /\ Waits(b[p], T[1])
    <3>1. \A k \in 1..p : FrameOK(b[k])
      BY <1>1, <2>1, <2>3 DEF Chain
    <3>2. \A k \in 1..(p - 1) : Waits(b[k], b[k + 1].file)
      BY <1>1, <2>1, <2>3 DEF Chain
    <3>3. b[1].file = Root
      BY <1>1, <2>1, <2>3 DEF Chain
    <3>4. Waits(stack[p], stack[p + 1].file)
      <4>1. p \in 1..(Len(stack) - 1)
        BY <1>1, <2>3
      <4> QED BY <4>1, <1>1 DEF Chain
    <3>5. Waits(b[p], T[1])
      BY <3>4, <1>1, <1>4, <2>1, <2>3 DEF f
    <3> QED BY <3>1, <3>2, <3>3, <3>5, <2>1 DEF Chain
  <2>5. /\ IsAdvanced(t, b, Totals(m), Append(b[p].includes, T))
        /\ \A lo, hi : ReadsOn(b, Totals(m), lo, hi) => ReadsOn(t, Totals(m), lo, hi)
    BY <1>3, <2>1, <2>3, <2>4, TakenKeeps DEF Basics
  <2> HIDE DEF t
  <2>6. /\ t \in Seq(FrameSet(Totals(m))) /\ Len(t) = p /\ Chain(t)
        /\ t[p].includes = Append(b[p].includes, T)
        /\ \A k \in 1..(p - 1) : t[k] = b[k]
    BY <2>1, <2>5 DEF IsAdvanced
  <2>7. Rooted(m, t)
    <3> SUFFICES ASSUME NEW N, Closed(N), \A k \in 1..p : t[k].includes \in Seq(N)
                 PROVE  Totals(m) \subseteq N
      BY <2>6 DEF Rooted
    <3>a. b[p] \in FrameSet(Totals(m))
      BY <2>1, <2>3
    <3>b. t[p].includes \in Seq(N)
      BY <2>3
    <3>1. b[p] \in FrameSet(Totals(m)) /\ Append(b[p].includes, T) \in Seq(N)
      BY <3>a, <3>b, <2>6
    <3>2. b[p].includes \in Seq(Totals(m))
      BY <3>1, FrameFacts
    <3>3. b[p].includes \in Seq(N) /\ T \in N
      BY <3>1, <3>2, AppendedSeq
    <3>4. \A k \in 1..p : k \in 1..(p - 1) \/ k = p
      BY <2>3
    <3>5. \A k \in 1..p : stack[k].includes \in Seq(N)
      BY <3>3, <3>4, <2>1, <2>6
    <3> QED BY <3>3, <3>5, <1>7 DEF p
  <2>8. Kept(m, t)
    <3> SUFFICES ASSUME NEW lo \in Disk, NEW hi \in Disk, Between(mem, stack, lo, hi)
                 PROVE  Between(m, t, lo, hi)
      BY DEF Kept
    <3>1. ReadsOn(b, Totals(m), lo, hi)
      <4>1. ReadsOn(stack, Totals(m), lo, hi)
        BY <1>6
      <4>2. \A k \in 1..p : k \in 1..n
        BY <2>3
      <4> QED BY <4>1, <4>2, <2>1 DEF ReadsOn
    <3> QED BY <3>1, <1>6, <2>5 DEF Between, ReadsOn
  <2>9. t # <<>>
    BY <2>3, <2>6
  <2>10. Struct(m, t)
    BY <1>3, <2>6, <2>7 DEF Struct
  <2>11. Struct(mem', stack') /\ Kept(mem', stack') /\ stack' # <<>>
    BY <2>2, <2>8, <2>9, <2>10, <1>2
  <2>12. T \in Totals(mem') /\ T[1] = Top.file /\ Total(Top) = T
    BY <1>2, <1>3, <1>4 DEF f
  <2>13. Len(stack) # 1
    BY <1>1, <1>9
  <2> HIDE DEF n
  <2> QED BY <2>11, <2>12, <2>13
<1>10. n = 1 \/ n > 1
  <2>1. n \in Nat /\ n > 0
    BY <1>1
  <2> HIDE DEF n
  <2> QED BY <2>1
<1> HIDE DEF n
<1> QED BY <1>8, <1>9, <1>10
-----------------------------------------------------------------------------
(* The invariant of every world.                                           *)

Typed ==
  /\ world \in World /\ project \in Projects
  /\ disk \in Disk /\ \A f \in Files : disk[f] <= Len(project[f])
  /\ pc \in {"idle", "hash", "compile", "run", "failed", "save"}
  /\ (pc = "hash" <=> stack # <<>>)
  /\ exe \in {NoExe, Broken} \/ (Root \in DOMAIN exe /\ DOMAIN exe \subseteq Files)
  /\ IsCache(cacheFile) /\ Struct(mem, stack)
  /\ IF pc = "idle" THEN fromFile = <<>> ELSE fromFile = cacheFile
  /\ pc \in {"compile", "run", "save"} => Find(mem, Root) # <<>>
  /\ pc \in {"run", "save"} => exe # NoExe

(* While there has been one thing to compile, that is what was read.       *)
Steady ==
  pc # "idle" =>
    /\ IsFiniteSet(since) /\ Sources(disk) \in since /\ \E s \in since : s # NoExe
    /\ \A s : since = {s} => Between(mem, stack, OnlySources(s), OnlySources(s))

Settled ==
  settled # NoExe =>
    /\ exe # NoExe /\ Find(cacheFile, Root) # <<>>
    /\ OnlySources(settled) \in Disk /\ Describes(Totals(cacheFile), OnlySources(settled))

Inv == Typed /\ Steady /\ Settled /\ OnlyIfChanged

HashStep == SkipInclude \/ KnownInclude \/ EnterInclude \/ Finish

LEMMA ProjectFacts ==
  ASSUME Typed
  PROVE  ProjectOK
BY BuildAssumption DEF Typed, ProjectOK

LEMMA SourcesOfRoot ==
  ASSUME NEW d \in Disk, d[Root] # 0
  PROVE  Sources(d) # NoExe /\ Root \in DOMAIN Sources(d) /\ DOMAIN Sources(d) \subseteq Files
<1>1. Sources(d) = [f \in Reached(d) |-> d[f]]
  BY DEF Sources
<1>2. Root \in Reached(d)
  BY SourcesFacts DEF OnlyReached
<1>3. DOMAIN Sources(d) = Reached(d) /\ Reached(d) \subseteq Files
  BY <1>1 DEF Reached, Present
<1>4. DOMAIN NoExe = {}
  BY DEF NoExe
<1> QED BY <1>2, <1>3, <1>4

(* Only a state of the hashing has a step of it.                           *)
LEMMA HashKeeps ==
  ASSUME Typed, HashStep
  PROVE  /\ Basics /\ Struct(mem', stack') /\ Kept(mem', stack')
         /\ \/ pc' = "hash" /\ stack' # <<>>
            \/ /\ Finish /\ Len(stack) = 1 /\ stack' = <<>> /\ Top.file = Root
               /\ pc' = IF Modified(Total(Top)) THEN "compile" ELSE "run"
               /\ Find(mem', Root) # <<>>
         /\ UNCHANGED <<world, project, disk, edits, cacheFile, exe, fromFile, since, settled>>
<1>1. Hashing
  BY DEF HashStep, SkipInclude, KnownInclude, EnterInclude, Finish
<1>2. Basics
  BY <1>1, ProjectFacts DEF Basics, Hashing, Typed
<1>3. CASE SkipInclude
  <2>1. pc' = "hash"
    BY <1>3 DEF SkipInclude, Hashing
  <2> QED BY <2>1, <1>1, <1>2, <1>3, SkipKeeps DEF Hashing
<1>4. CASE KnownInclude
  <2>1. pc' = "hash"
    BY <1>4 DEF KnownInclude, Hashing
  <2> QED BY <2>1, <1>1, <1>2, <1>4, KnownKeeps DEF Hashing
<1>5. CASE EnterInclude
  <2>1. pc' = "hash"
    BY <1>5 DEF EnterInclude, Hashing
  <2> QED BY <2>1, <1>1, <1>2, <1>5, EnterKeeps DEF Hashing
<1>6. CASE Finish
  <2>1. Struct(mem', stack') /\ Kept(mem', stack')
    BY <1>2, <1>6, FinishKeeps
  <2>2. CASE Len(stack) > 1
    <3>1. pc' = "hash" /\ stack' # <<>>
      BY <1>2, <1>6, <2>2, FinishKeeps DEF Finish, Hashing
    <3> QED BY <3>1, <2>1, <1>1, <1>2 DEF Hashing
  <2>3. CASE ~(Len(stack) > 1)
    <3>1. Len(stack) = 1
      <4>1. Len(stack) \in Nat /\ Len(stack) > 0
        BY <1>2, BasicFacts
      <4> QED BY <4>1, <2>3
    <3>2. stack' = <<>> /\ pc' = IF Modified(Total(Top)) THEN "compile" ELSE "run"
      BY <1>6, <2>3 DEF Finish
    <3>3. Top.file = Root /\ Find(mem', Root) # <<>>
      BY <1>2, <1>6, <3>1, FinishKeeps
    <3> QED BY <3>1, <3>2, <3>3, <2>1, <1>1, <1>2, <1>6 DEF Hashing
  <2> QED BY <2>2, <2>3
<1> QED BY <1>3, <1>4, <1>5, <1>6 DEF HashStep

LEMMA StartKeeps ==
  ASSUME Typed, Invoke
  PROVE  /\ Struct(mem', stack') /\ stack' # <<>>
         /\ \A lo, hi \in Disk : lo[Root] <= disk[Root] /\ disk[Root] <= hi[Root] =>
              Between(mem', stack', lo, hi)
<1> DEFINE x == Frame(Root)
           w == disk[Root]
           t == <<x>>
<1>1. mem' = <<>> /\ stack' = t /\ w # 0 /\ Root \in Files
  BY BuildAssumption DEF Invoke
<1>2. ProjectOK
  BY ProjectFacts
<1>3. w \in Nat /\ w \in DOMAIN project[Root]
  <2>1. w \in Nat /\ w <= Len(project[Root])
    BY <1>1 DEF Typed, Disk
  <2>2. project[Root] \in Seq(Seq(Files))
    BY <1>1, <1>2 DEF ProjectOK
  <2> HIDE DEF w
  <2> QED BY <2>1, <2>2, <1>1
<1>4. IsCache(<<>>) /\ Totals(<<>>) = {}
  BY CacheOfNone
<1>5. <<>> \in Seq({}) /\ Len(<<>>) = 0
  OBVIOUS
<1>6. x = FrameOf(Root, w, 1, <<>>)
  BY DEF Frame, FrameOf
<1> HIDE DEF x, w
<1>7. x \in FrameSet({}) /\ x.file = Root /\ x.ver = w /\ x.at = 1 /\ x.includes = <<>>
  BY <1>1, <1>3, <1>5, <1>6 DEF FrameOf, FrameSet
<1>8. Includes(Root, w) \in Seq(Files) /\ Len(Includes(Root, w)) \in Nat
  BY <1>1, <1>2, <1>3, NamesFacts
<1>9. FrameOK(x)
  BY <1>3, <1>7, <1>8 DEF FrameOK, Names
<1>10. t \in Seq(FrameSet({})) /\ Len(t) = 1 /\ t[1] = x /\ \A k \in 1..1 : k = 1
  BY <1>7
<1> HIDE DEF t
<1>11. Chain(t)
  BY <1>7, <1>9, <1>10 DEF Chain
<1>12. Rooted(<<>>, t)
  BY <1>4 DEF Rooted
<1>13. Struct(<<>>, t)
  BY <1>4, <1>10, <1>11, <1>12 DEF Struct
<1>14. ASSUME NEW lo \in Disk, NEW hi \in Disk, lo[Root] <= w, w <= hi[Root]
       PROVE  Between(<<>>, t, lo, hi)
  <2>1. Gathered(<<>>, Includes(Root, w), 0, lo)
    BY GatheredNone
  <2>2. 0 \in 0..Len(Includes(Root, w)) /\ x.at - 1 = 0
    BY <1>7, <1>8
  <2>3. FrameReads(x, {}, lo, hi)
    BY <2>1, <2>2, <1>1, <1>3, <1>5, <1>7, <1>14 DEF FrameReads, HashedAs
  <2> QED BY <2>3, <1>4, <1>10 DEF Between, Reads
<1>15. t # <<>>
  BY <1>10
<1> QED BY <1>1, <1>13, <1>14, <1>15 DEF w

LEMMA StructNone == Struct(<<>>, <<>>)
<1>1. Len(<<>>) = 0 /\ <<>> \in Seq(FrameSet({}))
  OBVIOUS
<1> QED BY <1>1, CacheOfNone DEF Struct, Chain, Rooted

LEMMA StructNext ==
  ASSUME project' = project, Struct(mem', stack')
  PROVE  Struct(mem, stack)'
<1>1. PICK m : m = mem'
  OBVIOUS
<1>2. PICK st : st = stack'
  OBVIOUS
<1> QED BY <1>1, <1>2, SameStruct

LEMMA BetweenNext ==
  ASSUME project' = project, NEW lo, NEW hi, Between(mem', stack', lo, hi)
  PROVE  Between(mem, stack, lo, hi)'
<1>1. PICK m : m = mem'
  OBVIOUS
<1>2. PICK st : st = stack'
  OBVIOUS
<1> QED BY <1>1, <1>2, SameBetween

LEMMA CacheNext ==
  ASSUME IsCache(cacheFile')
  PROVE  IsCache(cacheFile)'
<1>1. PICK c : c = cacheFile'
  OBVIOUS
<1>2. IsCache(c)
  BY <1>1
<1>3. (cacheFile \in Seq(Entry(Totals(cacheFile))))'
  BY <1>1, <1>2 DEF IsCache, Totals, Entry
<1>4. Ordered(cacheFile)'
  BY <1>1, <1>2 DEF IsCache, Ordered
<1>5. (\A i \in DOMAIN cacheFile :
         /\ cacheFile[i].total = <<cacheFile[i].file, cacheFile[i].total[2], cacheFile[i].total[3]>>
         /\ cacheFile[i].total[3] \in Seq(Totals(cacheFile)))'
  BY <1>1, <1>2 DEF IsCache, Totals
<1> QED BY <1>3, <1>4, <1>5 DEF IsCache

LEMMA TypedStep ==
  ASSUME Typed, Next
  PROVE  Typed'
<1> USE DEF Typed
<1>1. CASE HashStep
  <2>1. /\ Struct(mem', stack')
        /\ \/ pc' = "hash" /\ stack' # <<>>
           \/ /\ Finish /\ Len(stack) = 1 /\ stack' = <<>> /\ Top.file = Root
              /\ pc' = IF Modified(Total(Top)) THEN "compile" ELSE "run"
              /\ Find(mem', Root) # <<>>
        /\ UNCHANGED <<world, project, disk, edits, cacheFile, exe, fromFile, since, settled>>
        /\ pc = "hash"
    BY <1>1, HashKeeps DEF Basics
  <2>2. Struct(mem, stack)' /\ IsCache(cacheFile)'
    BY <2>1, StructNext, CacheNext
  <2>3. pc' # "hash" => Find(mem, Root)' # <<>>
    BY <2>1 DEF Find
  <2>4. pc' = "run" => exe # NoExe
    BY <2>1 DEF Modified
  <2>5. pc' \in {"hash", "compile", "run"} /\ (pc' = "hash" <=> stack' # <<>>)
    BY <2>1
  <2> QED BY <2>1, <2>2, <2>3, <2>4, <2>5
<1>2. CASE Stop /\ UNCHANGED <<world, project, disk>> /\ IsCache(cacheFile')
           /\ exe' \in {exe, NoExe, Broken}
  <2>1. pc' = "idle" /\ fromFile' = <<>> /\ mem' = <<>> /\ stack' = <<>>
    BY <1>2 DEF Stop
  <2>2. Struct(mem, stack)' /\ IsCache(cacheFile)'
    BY <1>2, <2>1, StructNone, StructNext, CacheNext
  <2> QED BY <1>2, <2>1, <2>2
<1>3. CASE Abort
  BY <1>2, <1>3 DEF Abort
<1>4. CASE FailedBuild
  BY <1>2, <1>4, CacheOfNone DEF FailedBuild
<1>5. CASE SaveCache
  BY <1>2, <1>5 DEF SaveCache, Struct
<1>6. CASE Kill
  <2>1. IsCache(cacheFile')
    <3>1. \A n \in 0..Len(mem) : IsCache(SubSeq(mem, 1, n))
      BY CachePrefix DEF Struct
    <3> QED BY <3>1, <1>6 DEF Kill
  <2> QED BY <1>2, <1>6, <2>1 DEF Kill
<1>7. CASE Invoke
  <2>1. Struct(mem', stack') /\ stack' # <<>>
    BY <1>7, StartKeeps
  <2>2. UNCHANGED <<world, project, disk, cacheFile, exe>> /\ pc' = "hash" /\ fromFile' = cacheFile
    BY <1>7 DEF Invoke
  <2>3. Struct(mem, stack)' /\ IsCache(cacheFile)'
    BY <2>1, <2>2, StructNext, CacheNext
  <2> QED BY <2>1, <2>2, <2>3
<1>8. CASE UNCHANGED <<project, cacheFile, mem, stack>>
  <2>1. Struct(mem, stack)' /\ IsCache(cacheFile)' /\ Find(mem, Root)' = Find(mem, Root)
    BY <1>8, StructNext, CacheNext DEF Find
  <2>2. CASE \E f \in Files : Edit(f)
    <3>1. PICK f \in Files : Edit(f)
      BY <2>2
    <3>2. PICK v \in 0..Len(project[f]) : disk' = [disk EXCEPT ![f] = v]
      BY <3>1 DEF Edit
    <3>3. project[f] \in Seq(Seq(Files)) /\ v \in Nat /\ v <= Len(project[f])
      BY <3>2, ProjectFacts DEF ProjectOK
    <3>4. disk' \in Disk /\ \A g \in Files : disk'[g] <= Len(project[g])
      BY <3>2, <3>3 DEF Disk
    <3>5. UNCHANGED <<world, project, pc, exe, fromFile, cacheFile, mem, stack>>
      BY <3>1 DEF Edit, Quiet
    <3> QED BY <3>4, <3>5, <2>1
  <2>3. CASE Clean
    BY <2>1, <2>3 DEF Clean
  <2>4. CASE Compile
    <3>1. UNCHANGED <<world, project, disk, cacheFile, fromFile, mem, stack>> /\ pc = "compile"
      BY <2>4 DEF Compile
    <3>2. CASE pc' = "run" /\ exe' = Sources(disk) /\ disk[Root] # 0
      <4>1. exe' # NoExe /\ Root \in DOMAIN exe' /\ DOMAIN exe' \subseteq Files
        BY <3>2, SourcesOfRoot
      <4> QED BY <3>1, <3>2, <4>1, <2>1
    <3>3. CASE pc' = "failed" /\ exe' \in {exe, NoExe}
      BY <3>1, <3>3, <2>1
    <3> QED BY <2>4, <3>2, <3>3 DEF Compile
  <2>5. CASE Run
    BY <2>1, <2>5 DEF Run, Quiet
  <2> QED BY <2>2, <2>3, <2>4, <2>5, <1>1, <1>3, <1>4, <1>5, <1>6, <1>7 DEF Next, Tool, HashStep
<1>9. CASE (\E f \in Files : Edit(f)) \/ Clean \/ Compile \/ Run
  BY <1>8, <1>9 DEF Edit, Clean, Compile, Run, Quiet
<1> QED BY <1>1, <1>3, <1>4, <1>5, <1>6, <1>7, <1>9 DEF Next, Tool, HashStep

(* While the sources stay as they are, what is read is a part of them.     *)
LEMMA SeesSources ==
  ASSUME Typed, Basics, NEW e \in Disk, OnlyReached(e, disk), Between(mem, stack, e, e)
  PROVE  Sees(e, e)
<1> SUFFICES ASSUME HasInclude
             PROVE  e[NextInclude] <= disk[NextInclude] /\ disk[NextInclude] <= e[NextInclude]
  BY DEF Sees
<1> DEFINE f == Top.file
           v == Top.ver
           g == NextInclude
<1>1. Top = stack[Len(stack)] /\ Len(stack) \in 1..Len(stack) /\ f \in Files
      /\ g \in Files /\ g \in Named(Includes(f, v))
  BY BasicFacts DEF Names
<1>2. FrameReads(Top, Totals(mem), e, e)
  BY <1>1 DEF Between
<1>3. e[f] <= v /\ v <= e[f] /\ v \in DOMAIN project[f]
  BY <1>2 DEF FrameReads, HashedAs
<1>4. v \in Nat /\ v # 0 /\ e[f] \in Nat
  <2>1. project[f] \in Seq(Seq(Files))
    BY <1>1, ProjectFacts DEF ProjectOK
  <2> HIDE DEF f, v
  <2>2. v \in 1..Len(project[f])
    BY <1>3, <2>1
  <2>3. e[f] \in Nat
    BY <1>1 DEF Disk
  <2> QED BY <2>2, <2>3
<1> HIDE DEF f, v, g
<1>5. v = e[f]
  BY <1>3, <1>4
<1>6. f \in Reached(disk) /\ v = disk[f] /\ disk[Root] # 0
  BY <1>1, <1>4, <1>5 DEF OnlyReached
<1>7. e[g] = disk[g]
  <2>1. CASE disk[g] = 0
    BY <1>1, <2>1 DEF OnlyReached
  <2>2. CASE disk[g] # 0
    <3>1. g \in Reached(disk)
      BY <1>1, <1>6, <2>2 DEF OnlyReached
    <3> QED BY <3>1, <1>6 DEF OnlyReached
  <2> QED BY <2>1, <2>2
<1>8. disk[g] \in Nat
  BY <1>1 DEF Typed, Disk
<1> QED BY <1>7, <1>8 DEF g

LEMMA SteadyStep ==
  ASSUME Typed, Steady, Next
  PROVE  Steady'
<1> USE DEF Steady
<1>1. project' = project
  BY DEF Next, Tool, SkipInclude, KnownInclude, EnterInclude, Finish, Hashing, Abort, Compile, Run,
         FailedBuild, SaveCache, Invoke, Edit, Clean, Kill
<1>2. ASSUME pc' = "idle"
      PROVE  Steady'
  BY <1>2
<1>3. CASE HashStep
  <2>1. /\ Basics /\ Kept(mem', stack') /\ UNCHANGED <<disk, since>> /\ pc = "hash"
    BY <1>3, HashKeeps DEF Basics
  <2>2. Sources(disk)' = Sources(disk)
    BY <1>1, <2>1 DEF Sources, Reached, Present, HasIncluded, Includes
  <2>3. ASSUME NEW s, since' = {s}
        PROVE  Between(mem, stack, OnlySources(s), OnlySources(s))'
    <3> DEFINE e == OnlySources(s)
    <3>1. s = Sources(disk) /\ Between(mem, stack, e, e)
      BY <2>1, <2>3
    <3>2. disk \in Disk
      BY DEF Typed
    <3>3. OnlyReached(e, disk) /\ e \in Disk
      BY <3>1, <3>2, SourcesFacts DEF OnlyReached
    <3> HIDE DEF e
    <3>4. Sees(e, e)
      BY <2>1, <3>1, <3>3, SeesSources
    <3>5. Between(mem', stack', e, e)
      BY <2>1, <3>1, <3>3, <3>4 DEF Kept
    <3>6. Between(mem, stack, e, e)'
      BY <1>1, <3>5, BetweenNext
    <3> QED BY <3>6 DEF e
  <2>4. \A s : since' = {s} => Between(mem, stack, OnlySources(s), OnlySources(s))'
    BY <2>3
  <2>5. IsFiniteSet(since)' /\ (Sources(disk) \in since)' /\ (\E s \in since : s # NoExe)'
    BY <2>1, <2>2
  <2> QED BY <2>4, <2>5
<1>4. CASE Invoke
  <2>1. since' = {Sources(disk)} /\ disk' = disk /\ disk[Root] # 0
    BY <1>4 DEF Invoke
  <2>2. Sources(disk)' = Sources(disk)
    BY <1>1, <2>1 DEF Sources, Reached, Present, HasIncluded, Includes
  <2>3. disk \in Disk
    BY DEF Typed
  <2>4. IsFiniteSet(since)' /\ (Sources(disk) \in since)' /\ (\E s \in since : s # NoExe)'
    BY <2>1, <2>2, <2>3, SourcesOfRoot, FS_Singleton
  <2>5. ASSUME NEW s, since' = {s}
        PROVE  Between(mem, stack, OnlySources(s), OnlySources(s))'
    <3> DEFINE e == OnlySources(s)
    <3>1. s = Sources(disk)
      BY <2>1, <2>5
    <3>2. OnlyReached(e, disk) /\ e \in Disk
      BY <2>3, <3>1, SourcesFacts DEF OnlyReached
    <3> HIDE DEF e
    <3>3. e[Root] = disk[Root] /\ disk[Root] \in Nat
      BY <2>1, <2>3, <3>2, BuildAssumption DEF OnlyReached, Disk
    <3>4. e[Root] <= disk[Root] /\ disk[Root] <= e[Root]
      BY <3>3
    <3>5. Between(mem', stack', e, e)
      BY <1>4, <3>2, <3>4, StartKeeps
    <3>6. Between(mem, stack, e, e)'
      BY <1>1, <3>5, BetweenNext
    <3> QED BY <3>6 DEF e
  <2>6. \A s : since' = {s} => Between(mem, stack, OnlySources(s), OnlySources(s))'
    BY <2>5
  <2> QED BY <2>4, <2>6
<1>5. ASSUME UNCHANGED <<mem, stack>>, pc # "idle", since \subseteq since', IsFiniteSet(since'),
             Sources(disk)' \in since'
      PROVE  Steady'
  <2>1. ASSUME NEW s, since' = {s}
        PROVE  Between(mem, stack, OnlySources(s), OnlySources(s))'
    <3>1. since = {s}
      BY <1>5, <2>1
    <3>2. Between(mem', stack', OnlySources(s), OnlySources(s))
      BY <1>5, <3>1
    <3> QED BY <1>1, <3>2, BetweenNext
  <2>2. \A s : since' = {s} => Between(mem, stack, OnlySources(s), OnlySources(s))'
    BY <2>1
  <2>3. IsFiniteSet(since)' /\ (Sources(disk) \in since)' /\ (\E s \in since : s # NoExe)'
    BY <1>5
  <2> QED BY <2>2, <2>3
<1>6. CASE \E f \in Files : Edit(f)
  <2>1. UNCHANGED <<mem, stack, pc>>
        /\ since' = IF pc = "idle" THEN {} ELSE since \cup {Sources(disk')}
    BY <1>6 DEF Edit, Quiet
  <2>2. CASE pc = "idle"
    BY <2>1, <2>2, <1>2
  <2>3. CASE pc # "idle"
    <3>1. Sources(disk)' = Sources(disk')
      BY <1>1 DEF Sources, Reached, Present, HasIncluded, Includes
    <3>2. IsFiniteSet(since')
      BY <2>1, <2>3, FS_AddElement
    <3> QED BY <2>1, <2>3, <3>1, <3>2, <1>5
  <2> QED BY <2>2, <2>3
<1>7. CASE Compile \/ Run
  <2>1. UNCHANGED <<mem, stack, since, disk>> /\ pc # "idle"
    BY <1>7 DEF Compile, Run, Quiet
  <2>2. Sources(disk)' = Sources(disk)
    BY <1>1, <2>1 DEF Sources, Reached, Present, HasIncluded, Includes
  <2> QED BY <1>5, <2>1, <2>2
<1>8. CASE Abort \/ FailedBuild \/ SaveCache \/ Kill \/ Clean
  BY <1>2, <1>8 DEF Abort, FailedBuild, SaveCache, Kill, Clean, Stop
<1> QED BY <1>3, <1>4, <1>6, <1>7, <1>8 DEF Next, Tool, HashStep

LEMMA BetweenEnds ==
  ASSUME NEW m, NEW st, NEW d, Between(m, st, d, d)
  PROVE  Describes(Totals(m), d)
BY DEF Between, Describes

LEMMA DescribesNext ==
  ASSUME project' = project, NEW c, c = cacheFile', NEW d, Describes(Totals(c), d)
  PROVE  Describes(Totals(cacheFile), d)'
BY DEF Describes, Reads, ReadAs, HashedAs, Includes, Totals

LEMMA SettledStep ==
  ASSUME Typed, Steady, Settled, Next
  PROVE  Settled'
<1> USE DEF Settled
<1>1. project' = project
  BY DEF Next, Tool, SkipInclude, KnownInclude, EnterInclude, Finish, Hashing, Abort, Compile, Run,
         FailedBuild, SaveCache, Invoke, Edit, Clean, Kill
<1>2. ASSUME UNCHANGED <<settled, exe, cacheFile>>
      PROVE  Settled'
  BY <1>1, <1>2 DEF Find, Describes, Reads, ReadAs, HashedAs, Includes, Totals
<1>3. ASSUME settled' = NoExe
      PROVE  Settled'
  BY <1>3
<1>4. CASE HashStep \/ Abort \/ Invoke \/ Run
  <2>1. UNCHANGED <<settled, exe, cacheFile>>
    BY <1>4 DEF HashStep, SkipInclude, KnownInclude, EnterInclude, Finish, Hashing, Abort, Invoke, Run, Quiet
  <2> QED BY <1>2, <2>1
<1>5. CASE \E f \in Files : Edit(f)
  <2>1. UNCHANGED <<settled, exe, cacheFile>>
    BY <1>5 DEF Edit, Quiet
  <2> QED BY <1>2, <2>1
<1>6. CASE Clean \/ Kill \/ Compile \/ FailedBuild
  BY <1>3, <1>6 DEF Clean, Kill, Compile, FailedBuild
<1>7. CASE SaveCache
  <2> SUFFICES ASSUME settled' # NoExe
               PROVE  Settled'
    OBVIOUS
  <2>1. /\ pc = "save" /\ cacheFile' = mem /\ exe' = exe
        /\ settled' = IF Cardinality(since) = 1 THEN CHOOSE s \in since : TRUE ELSE NoExe
    BY <1>7 DEF SaveCache
  <2>2. IsFiniteSet(since) /\ Sources(disk) \in since /\ exe # NoExe /\ Find(mem, Root) # <<>>
    BY <2>1 DEF Steady, Typed
  <2>3. Cardinality(since) = 1 /\ settled' \in since
    BY <2>1, <2>2
  <2>4. since = {settled'}
    BY <2>2, <2>3, FS_Singleton
  <2>5. settled' = Sources(disk)
    BY <2>2, <2>4
  <2> DEFINE e == OnlySources(Sources(disk))
  <2>6. since = {Sources(disk)}
    BY <2>4, <2>5
  <2>7. Between(mem, stack, e, e)
    BY <2>1, <2>6 DEF Steady
  <2>8. e \in Disk
    BY SourcesFacts DEF OnlyReached, Typed
  <2> HIDE DEF e
  <2>9. Describes(Totals(mem), e)
    BY <2>7, BetweenEnds
  <2>10. (exe # NoExe)' /\ (Find(cacheFile, Root) # <<>>)'
    BY <2>1, <2>2 DEF Find
  <2>11. OnlySources(settled)' = e
    BY <2>5 DEF e, OnlySources
  <2>12. PICK x : x = e
    OBVIOUS
  <2>13. Describes(Totals(cacheFile), x)'
    <3>1. mem = cacheFile' /\ Describes(Totals(mem), x)
      BY <2>1, <2>9, <2>12
    <3> QED BY <1>1, <3>1, DescribesNext
  <2>14. (OnlySources(settled) \in Disk)'
    BY <2>8, <2>11 DEF Disk
  <2>15. Describes(Totals(cacheFile), OnlySources(settled))'
    <3>1. x = OnlySources(settled')
      BY <2>11, <2>12 DEF OnlySources
    <3> QED BY <3>1, <2>13 DEF Describes, Reads, ReadAs, HashedAs, Includes, Totals, OnlySources
  <2> QED BY <2>10, <2>14, <2>15
<1> QED BY <1>4, <1>5, <1>6, <1>7 DEF Next, Tool, HashStep

LEMMA OnlyStep ==
  ASSUME Inv, Next
  PROVE  OnlyIfChanged'
<1> SUFFICES ASSUME pc' = "compile", since' = {settled'}
             PROVE  FALSE
  BY DEF OnlyIfChanged
<1> USE DEF Inv
<1>1. CASE HashStep
  <2>1. /\ Basics /\ UNCHANGED <<world, project, disk, edits, cacheFile, exe, fromFile, since, settled>>
        /\ Finish /\ Len(stack) = 1 /\ Top.file = Root /\ Modified(Total(Top)) /\ pc = "hash"
    BY <1>1, HashKeeps DEF Basics
  <2>2. since = {settled} /\ settled # NoExe
    BY <2>1 DEF Steady
  <2> DEFINE e == OnlySources(settled)
             T == Total(Top)
             F == Find(cacheFile, Root)
  <2>3. exe # NoExe /\ F # <<>> /\ e \in Disk /\ Describes(Totals(cacheFile), e)
    BY <2>2 DEF Settled
  <2>4. Between(mem, stack, e, e) /\ settled = Sources(disk)
    BY <2>1, <2>2 DEF Steady
  <2>5. Sees(e, e)
    <3>1. OnlyReached(e, disk)
      BY <2>4, SourcesFacts DEF Typed
    <3> HIDE DEF e
    <3> QED BY <3>1, <2>1, <2>3, <2>4, SeesSources
  <2>6. Between(mem', stack', e, e)
    <3> HIDE DEF e
    <3>1. Kept(mem', stack')
      BY <1>1, HashKeeps
    <3> QED BY <3>1, <2>3, <2>4, <2>5 DEF Kept
  <2>7. T \in Totals(mem') /\ T[1] = Root
    BY <2>1, FinishKeeps
  <2>8. F \in Totals(cacheFile) /\ F[1] = Root /\ Ordered(cacheFile) /\ DOMAIN cacheFile \subseteq Nat
    BY <2>3, FindFacts, CacheFacts DEF Typed
  <2>9. ProjectOK
    BY ProjectFacts
  <2> HIDE DEF e, T, F
  <2>10. Describes(Totals(mem'), e)
    BY <2>6, BetweenEnds
  <2>11. F = T
    BY <2>3, <2>7, <2>8, <2>9, <2>10, HashIsUnique
  <2>12. Find(fromFile, Root) = F
    BY <2>1 DEF Typed, F
  <2> QED BY <2>1, <2>3, <2>11, <2>12 DEF Modified, T
<1>2. CASE \E f \in Files : Edit(f)
  <2>1. UNCHANGED <<pc, settled>> /\ since' = IF pc = "idle" THEN {} ELSE since \cup {Sources(disk')}
    BY <1>2 DEF Edit
  <2>2. pc = "compile" /\ since \subseteq {settled} /\ Sources(disk) \in since
    BY <2>1 DEF Steady
  <2>3. since = {settled}
    BY <2>2
  <2> QED BY <2>2, <2>3 DEF OnlyIfChanged
<1>3. pc' # "compile"
      \/ HashStep \/ \E f \in Files : Edit(f)
  BY DEF Next, Tool, HashStep, Abort, Compile, Run, FailedBuild, SaveCache, Invoke, Clean, Kill, Stop
<1> QED BY <1>1, <1>2, <1>3

LEMMA InvStep == Inv /\ [Next]_vars => Inv'
<1> SUFFICES ASSUME Inv, [Next]_vars
             PROVE  Inv'
  OBVIOUS
<1>1. CASE Next
  BY <1>1, TypedStep, SteadyStep, SettledStep, OnlyStep DEF Inv
<1>2. CASE UNCHANGED vars
  <2>1. UNCHANGED <<world, project, disk, cacheFile, exe, pc, fromFile, mem, stack, since, settled>>
    BY <1>2 DEF vars
  <2>2. Typed'
    <3>1. Struct(mem, stack)' /\ IsCache(cacheFile)' /\ Find(mem, Root)' = Find(mem, Root)
      BY <2>1, StructNext, CacheNext DEF Inv, Typed, Find
    <3> QED BY <2>1, <3>1 DEF Inv, Typed
  <2>3. Steady'
    <3>1. \A s : Between(mem, stack, OnlySources(s), OnlySources(s)) =>
                 Between(mem, stack, OnlySources(s), OnlySources(s))'
      BY <2>1, BetweenNext
    <3>2. Sources(disk)' = Sources(disk)
      BY <2>1 DEF Sources, Reached, Present, HasIncluded, Includes
    <3> QED BY <2>1, <3>1, <3>2 DEF Inv, Steady
  <2>4. Settled'
    BY <2>1 DEF Inv, Settled, Find, Describes, Reads, ReadAs, HashedAs, Includes, Totals
  <2> QED BY <2>1, <2>2, <2>3, <2>4 DEF Inv, OnlyIfChanged
<1> QED BY <1>1, <1>2

LEMMA InvInit == Init => Inv
<1> SUFFICES ASSUME Init
             PROVE  Inv
  OBVIOUS
<1>1. disk \in Disk /\ \A f \in Files : disk[f] <= Len(project[f])
  BY BuildAssumption DEF Init, Disk
<1>2. Typed
  BY <1>1, BuildAssumption, StructNone, CacheOfNone DEF Init, Typed
<1> QED BY <1>2 DEF Init, Inv, Steady, Settled, OnlyIfChanged

(* The invariant of any worlds: caches and calls are in order, and what    *)
(* was read while there was one thing to compile is a part of that.        *)
THEOREM Invariant == Spec => []Inv
BY InvInit, InvStep, PTL DEF Spec

(* The build tool of cache.cpp and main.cpp does not compile what the last *)
(* invocation left compiled, whatever happens to the files and the tool.   *)
THEOREM NothingIsCompiledTwice == Spec => []OnlyIfChanged
BY Invariant, PTL DEF Inv
-----------------------------------------------------------------------------
(* What runs.  A hash in a cache stands for every disk that it can be the  *)
(* hash of.                                                                *)
After(e) == {d \in Disk : AtMost(e, d)}
Match(c, d) == Find(c, Root) # <<>> /\ \E M : Describes(M, d) /\ Find(c, Root) \in M

(* The executable was made of each disk of D that has the hash of cache c. *)
Makes(c, x, D) == \A d \in D : Match(c, d) => x = Sources(d)

(* So it was, or it has been deleted.                                      *)
Fits(c, x, D) == \A d \in D : Match(c, d) => x = Sources(d) \/ (x = NoExe /\ ~world.kills)
NoMatch(c, D) == \A d \in D : ~Match(c, d)

(* The tool has the files for itself.                                      *)
CalmWorld == ~world.meddles /\ ~world.kills
Calm(dk, c, x, p, m, si) ==
  /\ p # "idle" => si = {Sources(dk)}
  /\ p \in {"idle", "hash", "compile"} => Fits(c, x, Disk)
  /\ p \in {"run", "save"} => Makes(m, x, Disk) /\ x \in si

(* Versions only grow.                                                     *)
OnwardWorld == ~world.reverts /\ ~(world.cleans /\ world.kills)
Older(c, d) == \A t \in Totals(c) : t[1] \in Files /\ t[2] \in 0..d[t[1]]

(* The invocation began with disk d0.                                      *)
Began(d0, dk, c, x, p, m, st, si) ==
  /\ d0 \in Disk /\ AtMost(d0, dk) /\ Sources(d0) \in si
  /\ Between(m, st, d0, dk)
  /\ Older(c, d0)
  /\ \A s \in si : \E e \in Disk : AtMost(d0, e) /\ AtMost(e, dk) /\ s = Sources(e)
  /\ p = "hash" => Fits(c, x, After(d0))

Onward(dk, c, x, p, m, st, si) ==
  /\ Older(c, dk)
  /\ p \in {"idle", "hash"} \/ world.kills => Fits(c, x, After(dk))
  /\ world.kills /\ p = "compile" => NoMatch(c, After(dk))
  /\ p \in {"run", "save"} => Makes(m, x, After(dk)) /\ x \in si
  /\ p # "idle" => \E d0 : Began(d0, dk, c, x, p, m, st, si)

OrderlyWorld == CalmWorld \/ OnwardWorld

Runs == /\ CalmWorld => Calm(disk, cacheFile, exe, pc, mem, since)
        /\ OnwardWorld => Onward(disk, cacheFile, exe, pc, mem, stack, since)

LEMMA MatchNone ==
  ASSUME NEW d
  PROVE  ~Match(<<>>, d)
BY CacheOfNone DEF Match

LEMMA MatchRoot ==
  ASSUME ProjectOK, NEW c, IsCache(c), NEW d \in Disk, Match(c, d)
  PROVE  Sources(d) # NoExe
<1>1. PICK M : Describes(M, d) /\ Find(c, Root) \in M /\ Find(c, Root)[1] = Root
  BY FindFacts DEF Match
<1>2. d[Root] # 0
  BY <1>1, DescribeFacts
<1> QED BY <1>2, SourcesOfRoot

(* A cache that describes a disk was made of it, if it has the root.       *)
LEMMA MatchExact ==
  ASSUME ProjectOK, NEW c, IsCache(c), NEW d \in Disk, Match(c, d), NEW N, NEW e \in Disk,
         Describes(N, e), Find(c, Root) \in N
  PROVE  Sources(e) = Sources(d)
<1>1. PICK M : Describes(M, d) /\ Find(c, Root) \in M /\ Find(c, Root)[1] = Root
  BY FindFacts DEF Match
<1> DEFINE t == Find(c, Root)
<1>2. t \in N \cap M /\ t[1] = Root
  BY <1>1
<1> HIDE DEF t
<1> QED BY <1>1, <1>2, HashIsExact

(* The hashes of a match that are in the cache describe earlier disks too. *)
LEMMA MatchEarlier ==
  ASSUME ProjectOK, NEW c, IsCache(c), NEW d \in Disk, Match(c, d),
         NEW e \in Disk, AtMost(e, d), Older(c, e)
  PROVE  Match(c, e) /\ Sources(e) = Sources(d)
<1>1. PICK M : Describes(M, d) /\ Find(c, Root) \in M /\ Find(c, Root) # <<>>
  BY DEF Match
<1>2. Find(c, Root) \in Totals(c) /\ Closed(Totals(c))
  BY <1>1, FindFacts, CacheFacts
<1> DEFINE K == M \cap Totals(c)
<1>3. Describes(K, d)
  BY <1>1, <1>2, Both DEF Describes
<1>4. Find(c, Root) \in K /\ \A t \in K : t[2] <= e[t[1]]
  <2> SUFFICES ASSUME NEW t \in K
               PROVE  t[2] <= e[t[1]]
    BY <1>1, <1>2
  <2>1. t[1] \in Files /\ t[2] \in 0..e[t[1]] /\ e[t[1]] \in Nat
    BY DEF Older, Disk
  <2> QED BY <2>1
<1> HIDE DEF K
<1>5. Describes(K, e)
  BY <1>3, <1>4, Sandwich
<1>6. Match(c, e)
  BY <1>1, <1>4, <1>5 DEF Match
<1>7. Sources(e) = Sources(d)
  BY <1>4, <1>5, MatchExact
<1> QED BY <1>6, <1>7

(* Hashes no later than when the reading began were there then.            *)
LEMMA Squeeze ==
  ASSUME ProjectOK, NEW lo \in Disk, NEW hi \in Disk, NEW M, Reads(M, lo, hi),
         \A t \in M : t[2] <= lo[t[1]]
  PROVE  Describes(M, lo)
BY DEF Describes, Reads, ReadAs, HashedAs

LEMMA OlderRead ==
  ASSUME ProjectOK, NEW m, NEW st, NEW lo \in Disk, NEW hi \in Disk, Between(m, st, lo, hi)
  PROVE  Older(m, hi)
<1> SUFFICES ASSUME NEW t \in Totals(m)
             PROVE  t[1] \in Files /\ t[2] \in 0..hi[t[1]]
  BY DEF Older
<1>1. t[1] \in Files /\ t[2] \in Nat /\ t[2] <= hi[t[1]]
  BY ReadFacts DEF Between
<1>2. hi[t[1]] \in Nat
  BY <1>1 DEF Disk
<1> QED BY <1>1, <1>2

LEMMA OlderGrows ==
  ASSUME NEW c, NEW d \in Disk, NEW e \in Disk, Older(c, d), AtMost(d, e)
  PROVE  Older(c, e)
<1> SUFFICES ASSUME NEW t \in Totals(c)
             PROVE  t[1] \in Files /\ t[2] \in 0..e[t[1]]
  BY DEF Older
<1>1. t[1] \in Files /\ t[2] \in 0..d[t[1]]
  BY DEF Older
<1>2. d[t[1]] \in Nat /\ e[t[1]] \in Nat /\ d[t[1]] <= e[t[1]]
  BY <1>1 DEF Disk, AtMost
<1> QED BY <1>1, <1>2

LEMMA OlderLater ==
  ASSUME ProjectOK, NEW m, NEW st, NEW lo \in Disk, NEW hi \in Disk, NEW up \in Disk,
         Between(m, st, lo, hi), AtMost(hi, up)
  PROVE  Between(m, st, lo, up)
<1>1. ASSUME NEW f, NEW v, NEW inc, NEW n, NEW M, HashedAs(f, v, inc, n, M, lo, hi)
      PROVE  HashedAs(f, v, inc, n, M, lo, up)
  <2>1. f \in Files /\ v \in DOMAIN project[f] /\ v <= hi[f]
    BY <1>1 DEF HashedAs
  <2>2. project[f] \in Seq(Seq(Files))
    BY <2>1 DEF ProjectOK
  <2>3. v \in Nat /\ hi[f] \in Nat /\ up[f] \in Nat /\ hi[f] <= up[f]
    BY <2>1, <2>2 DEF Disk, AtMost
  <2>4. v <= up[f]
    BY <2>1, <2>3
  <2> QED BY <1>1, <2>4 DEF HashedAs
<1> QED BY <1>1 DEF Between, Reads, ReadAs, FrameReads

LEMMA AtMostAgain ==
  ASSUME NEW a \in Disk, NEW b \in Disk, NEW c \in Disk, AtMost(a, b), AtMost(b, c)
  PROVE  AtMost(a, c)
<1> SUFFICES ASSUME NEW f \in Files
             PROVE  a[f] <= c[f]
  BY DEF AtMost
<1>1. a[f] \in Nat /\ b[f] \in Nat /\ c[f] \in Nat /\ a[f] <= b[f] /\ b[f] <= c[f]
  BY DEF Disk, AtMost
<1> QED BY <1>1

LEMMA AtMostSelf ==
  ASSUME NEW d \in Disk
  PROVE  AtMost(d, d) /\ d \in After(d)
BY DEF Disk, AtMost, After

LEMMA RunsNext ==
  ASSUME UNCHANGED <<project, world>>, NEW dk, dk = disk', NEW c, c = cacheFile', NEW x, x = exe',
         NEW p, p = pc', NEW m, m = mem', NEW st, st = stack', NEW si, si = since',
         CalmWorld => Calm(dk, c, x, p, m, si),
         OnwardWorld => Onward(dk, c, x, p, m, st, si)
  PROVE  Runs'
<1>1. ASSUME NEW d
      PROVE  /\ Sources(d)' = Sources(d)
             /\ Match(cacheFile, d)' <=> Match(c, d)
             /\ Match(mem, d)' <=> Match(m, d)
  <2>1. Sources(d)' = Sources(d)
    BY DEF Sources, Reached, Present, HasIncluded, Includes
  <2>2. \A M : Describes(M, d)' <=> Describes(M, d)
    BY DEF Describes, Reads, ReadAs, HashedAs, Includes
  <2>3. Find(cacheFile, Root)' = Find(c, Root) /\ Find(mem, Root)' = Find(m, Root)
    BY DEF Find
  <2> QED BY <2>1, <2>2, <2>3 DEF Match
<1>2. ASSUME NEW D
      PROVE  /\ Fits(c, x, D) => Fits(cacheFile, exe, D)'
             /\ NoMatch(c, D) => NoMatch(cacheFile, D)'
             /\ Makes(m, x, D) => Makes(mem, exe, D)'
  BY <1>1 DEF Fits, NoMatch, Makes
<1>3. ASSUME NEW e
      PROVE  (Older(c, e) => Older(cacheFile, e)')
  BY DEF Older, Totals
<1>4. ASSUME CalmWorld'
      PROVE  Calm(disk, cacheFile, exe, pc, mem, since)'
  <2>1. Calm(dk, c, x, p, m, si)
    BY <1>4 DEF CalmWorld
  <2>2. Sources(disk)' = Sources(dk)
    BY DEF Sources, Reached, Present, HasIncluded, Includes
  <2>3. Fits(c, x, Disk) => Fits(cacheFile, exe, Disk)'
    BY <1>2 DEF Fits, Disk
  <2>4. Makes(m, x, Disk) => Makes(mem, exe, Disk)'
    BY <1>2 DEF Makes, Disk
  <2> QED BY <2>1, <2>2, <2>3, <2>4 DEF Calm
<1>5. ASSUME NEW e
      PROVE  (Fits(c, x, After(e)) => Fits(cacheFile, exe, After(e))')
  BY <1>2 DEF Fits, After, AtMost, Disk
<1>6. ASSUME OnwardWorld'
      PROVE  Onward(disk, cacheFile, exe, pc, mem, stack, since)'
  <2>1. Onward(dk, c, x, p, m, st, si)
    BY <1>6 DEF OnwardWorld
  <2>2. Older(cacheFile, disk)'
    BY <2>1 DEF Onward, Older, Totals
  <2>3. /\ Fits(c, x, After(dk)) => Fits(cacheFile, exe, After(disk))'
        /\ NoMatch(c, After(dk)) => NoMatch(cacheFile, After(disk))'
        /\ Makes(m, x, After(dk)) => Makes(mem, exe, After(disk))'
    BY <1>1 DEF Fits, NoMatch, Makes, After, AtMost, Disk
  <2>4. ASSUME NEW d0, Began(d0, dk, c, x, p, m, st, si)
        PROVE  Began(d0, disk, cacheFile, exe, pc, mem, stack, since)'
    <3>1. d0 \in Disk' /\ AtMost(d0, disk)' /\ (Sources(d0) \in since)'
      BY <1>1, <2>4 DEF Began, Disk, AtMost
    <3>2. Between(mem, stack, d0, disk)'
      BY <2>4 DEF Began, Between, Reads, ReadAs, FrameReads, HashedAs, Includes
    <3>3. Older(cacheFile, d0)'
      BY <1>3, <2>4 DEF Began
    <3>4. (\A s \in since : \E e \in Disk : AtMost(d0, e) /\ AtMost(e, disk) /\ s = Sources(e))'
      <4>1. \A s \in si : \E e \in Disk : AtMost(d0, e) /\ AtMost(e, dk) /\ s = Sources(e)'
        BY <1>1, <2>4 DEF Began
      <4> QED BY <4>1 DEF AtMost, Disk
    <3>5. (pc = "hash" => Fits(cacheFile, exe, After(d0)))'
      BY <1>5, <2>4 DEF Began
    <3> QED BY <3>1, <3>2, <3>3, <3>4, <3>5 DEF Began
  <2>5. (pc # "idle" => \E d0 : Began(d0, disk, cacheFile, exe, pc, mem, stack, since))'
    BY <2>1, <2>4 DEF Onward
  <2> QED BY <2>1, <2>2, <2>3, <2>5 DEF Onward
<1> QED BY <1>4, <1>6 DEF Runs

(* What has been read while there was one thing to compile describes it.   *)
LEMMA ReadsSources ==
  ASSUME Typed, Steady, pc # "idle", since = {Sources(disk)}
  PROVE  Describes(Totals(mem), disk) /\ (HashStep => Describes(Totals(mem'), disk))
<1> DEFINE e == OnlySources(Sources(disk))
<1>1. ProjectOK /\ disk \in Disk
  BY ProjectFacts DEF Typed
<1>2. Between(mem, stack, e, e)
  BY DEF Steady
<1>3. e \in Disk /\ OnlyReached(e, disk)
  BY <1>1, SourcesFacts DEF OnlyReached
<1>4. \A M : Describes(M, e) => Describes(M, disk)
  BY <1>1, Widen
<1> HIDE DEF e
<1>5. ASSUME HashStep
      PROVE  Describes(Totals(mem'), e)
  <2>1. Basics /\ Kept(mem', stack')
    BY <1>5, HashKeeps
  <2>2. Sees(e, e)
    BY <2>1, <1>2, <1>3, SeesSources
  <2>3. Between(mem', stack', e, e)
    BY <2>1, <2>2, <1>2, <1>3 DEF Kept
  <2> QED BY <2>3, BetweenEnds
<1> QED BY <1>2, <1>4, <1>5, BetweenEnds

(* The end of the hashing, when the cache file has the same hash.          *)
LEMMA NotModified ==
  ASSUME Typed, HashStep, pc' = "run"
  PROVE  /\ IsCache(mem') /\ Find(mem', Root) \in Totals(mem') /\ exe # NoExe
         /\ Find(cacheFile, Root) # <<>> /\ Find(cacheFile, Root) \in Totals(mem')
         /\ \A N : Closed(N) /\ Find(cacheFile, Root) \in N => Totals(mem') \subseteq N
<1>1. /\ Basics /\ Struct(mem', stack') /\ Finish /\ Len(stack) = 1 /\ Top.file = Root
      /\ ~Modified(Total(Top)) /\ Find(mem', Root) # <<>> /\ pc = "hash"
  BY HashKeeps DEF Basics
<1> DEFINE T == Total(Top)
<1>2. T \in Totals(mem') /\ \A N : Closed(N) /\ T \in N => Totals(mem') \subseteq N
  BY <1>1, FinishKeeps
<1>3. fromFile = cacheFile /\ exe # NoExe /\ Find(fromFile, Root) = T
  BY <1>1 DEF Typed, Modified
<1>4. T # <<>>
  <2> DEFINE f == Top.file
             v == Top.ver
             inc == Top.includes
  <2>1. T = <<f, v, inc>>
    BY DEF Total
  <2> HIDE DEF T, f, v, inc
  <2> QED BY <2>1
<1>5. IsCache(mem')
  BY <1>1 DEF Struct
<1>6. Find(mem', Root) \in Totals(mem')
  BY <1>1, <1>5, FindFacts
<1> HIDE DEF T
<1> QED BY <1>2, <1>3, <1>4, <1>5, <1>6

LEMMA CalmStep ==
  ASSUME Inv, Next, CalmWorld, Calm(disk, cacheFile, exe, pc, mem, since)
  PROVE  Calm(disk', cacheFile', exe', pc', mem', since')
<1> USE DEF Inv
<1>1. ProjectOK /\ disk \in Disk /\ IsCache(cacheFile) /\ IsCache(mem)
  BY ProjectFacts DEF Typed, Struct
<1>2. ASSUME pc # "idle"
      PROVE  since = {Sources(disk)} /\ Describes(Totals(mem), disk)
             /\ (HashStep => Describes(Totals(mem'), disk))
  BY <1>2, ReadsSources DEF Calm
<1>3. CASE HashStep
  <2>1. /\ UNCHANGED <<disk, cacheFile, exe, since>> /\ pc = "hash"
        /\ pc' \in {"hash", "compile", "run"}
    BY <1>3, HashKeeps DEF Basics
  <2>2. CASE pc' # "run"
    BY <2>1, <2>2 DEF Calm
  <2>3. CASE pc' = "run"
    <3>1. /\ IsCache(mem') /\ Find(mem', Root) \in Totals(mem') /\ exe # NoExe
          /\ Find(cacheFile, Root) # <<>> /\ Find(cacheFile, Root) \in Totals(mem')
      BY <1>3, <2>3, NotModified
    <3>2. Describes(Totals(mem'), disk) /\ since = {Sources(disk)}
      BY <1>2, <1>3, <2>1
    <3>3. Match(cacheFile, disk)
      BY <3>1, <3>2 DEF Match
    <3>4. exe = Sources(disk)
      BY <1>1, <2>1, <3>1, <3>3 DEF Calm, Fits
    <3>5. ASSUME NEW d \in Disk, Match(mem', d)
          PROVE  Sources(disk) = Sources(d)
      BY <1>1, <3>1, <3>2, <3>5, MatchExact
    <3>6. Makes(mem', exe, Disk)
      BY <3>4, <3>5 DEF Makes
    <3> QED BY <2>1, <2>3, <3>2, <3>4, <3>6 DEF Calm
  <2> QED BY <2>2, <2>3
<1>4. CASE Compile
  <2>1. UNCHANGED <<disk, cacheFile, mem, since>> /\ pc = "compile"
    BY <1>4 DEF Compile
  <2>2. CASE pc' = "run" /\ exe' = Sources(disk) /\ disk[Root] # 0
    <3>1. Describes(Totals(mem), disk) /\ since = {Sources(disk)} /\ Find(mem, Root) # <<>>
      BY <1>2, <2>1 DEF Typed
    <3>2. Find(mem, Root) \in Totals(mem)
      BY <1>1, <3>1, FindFacts
    <3>3. Makes(mem, Sources(disk), Disk)
      BY <1>1, <3>1, <3>2, MatchExact DEF Makes
    <3> QED BY <2>1, <2>2, <3>1, <3>3 DEF Calm
  <2>3. CASE pc' = "failed"
    BY <2>1, <2>3 DEF Calm
  <2> QED BY <1>4, <2>2, <2>3 DEF Compile
<1>5. CASE Run
  BY <1>5 DEF Run, Quiet, Calm
<1>6. CASE Abort
  BY <1>6 DEF Abort, Stop, Calm
<1>7. CASE FailedBuild
  <2>1. Fits(<<>>, exe, Disk)
    BY MatchNone DEF Fits
  <2> QED BY <1>7, <2>1 DEF FailedBuild, Stop, Calm
<1>8. CASE SaveCache
  <2>1. Fits(mem, exe, Disk)
    BY <1>8 DEF SaveCache, Calm, Makes, Fits
  <2> QED BY <1>8, <2>1 DEF SaveCache, Stop, Calm
<1>9. CASE Invoke
  BY <1>9 DEF Invoke, Calm
<1>10. CASE \E f \in Files : Edit(f)
  <2>1. pc = "idle" /\ UNCHANGED <<cacheFile, exe, pc, mem>>
    BY <1>10 DEF Edit, Quiet, CalmWorld
  <2> QED BY <2>1 DEF Calm
<1>11. CASE Clean
  <2>1. Fits(cacheFile, NoExe, Disk)
    BY DEF Fits, CalmWorld
  <2> QED BY <1>11, <2>1 DEF Clean, Calm
<1>12. ~Kill
  BY DEF Kill, CalmWorld
<1> QED BY <1>3, <1>4, <1>5, <1>6, <1>7, <1>8, <1>9, <1>10, <1>11, <1>12 DEF Next, Tool, HashStep

(* Nothing of an orderly cache that has another hash of the root can be of *)
(* a disk that is still to come.                                           *)
LEMMA ModifiedKilled ==
  ASSUME Inv, OnwardWorld, world.kills, HashStep, pc' = "compile",
         Fits(cacheFile, exe, After(disk)), NEW d0, Began(d0, disk, cacheFile, exe, pc, mem, stack, since)
  PROVE  NoMatch(cacheFile, After(disk))
<1> USE DEF Inv
<1> SUFFICES ASSUME NEW d \in After(disk), Match(cacheFile, d)
             PROVE  FALSE
  BY DEF NoMatch
<1>1. /\ Basics /\ Finish /\ Len(stack) = 1 /\ Top.file = Root /\ Modified(Total(Top))
      /\ pc = "hash" /\ Struct(mem', stack')
  BY HashKeeps DEF Basics
<1> DEFINE T == Total(Top)
           F == Find(cacheFile, Root)
<1>2. ProjectOK /\ disk \in Disk /\ IsCache(cacheFile) /\ IsCache(mem')
  BY <1>1, ProjectFacts DEF Typed, Struct
<1>3. d \in Disk /\ AtMost(disk, d) /\ d0 \in Disk /\ AtMost(d0, disk)
  BY DEF After, Began
<1>4. exe # NoExe
  BY <1>2, <1>3, MatchRoot DEF Fits
<1>5. F # T
  BY <1>1, <1>4 DEF Modified, Typed
<1>6. ASSUME NEW e \in Disk, AtMost(d0, e), AtMost(e, disk)
      PROVE  Match(cacheFile, e) /\ Sources(e) = Sources(d)
  <2>1. AtMost(e, d)
    BY <1>2, <1>3, <1>6, AtMostAgain
  <2>2. Older(cacheFile, e)
    BY <1>3, <1>6, OlderGrows DEF Began
  <2> QED BY <2>1, <2>2, <1>2, <1>3, <1>6, MatchEarlier
<1>7. since = {Sources(disk)}
  <2>1. \A s \in since : s = Sources(d)
    BY <1>6 DEF Began
  <2>2. Sources(disk) \in since
    BY <1>1 DEF Steady
  <2> QED BY <2>1, <2>2
<1>8. Describes(Totals(mem'), disk)
  BY <1>1, <1>7, ReadsSources
<1>9. T \in Totals(mem') /\ T[1] = Root
  BY <1>1, FinishKeeps
<1>10. PICK M : Describes(M, disk) /\ F \in M /\ F[1] = Root
  BY <1>2, <1>3, <1>6, AtMostSelf, FindFacts DEF Match
<1>11. Ordered(mem') /\ DOMAIN mem' \subseteq Nat
  BY <1>2, CacheFacts
<1> HIDE DEF T, F
<1>12. T = F
  BY <1>2, <1>8, <1>9, <1>10, <1>11, HashIsUnique
<1> QED BY <1>5, <1>12

LEMMA EditGrows ==
  ASSUME Typed, OnwardWorld, NEW f \in Files, Edit(f)
  PROVE  disk' \in Disk /\ AtMost(disk, disk') /\ After(disk') \subseteq After(disk)
<1>1. PICK v \in 0..Len(project[f]) : v # disk[f] /\ ~(v < disk[f]) /\ disk' = [disk EXCEPT ![f] = v]
  BY DEF Edit, OnwardWorld
<1>2. disk \in Disk /\ \A g \in Files : disk[g] \in Nat
  BY DEF Typed, Disk
<1>3. v \in Nat
  <2>1. project[f] \in Seq(Seq(Files))
    BY ProjectFacts DEF ProjectOK
  <2> QED BY <2>1
<1>4. disk' \in Disk /\ AtMost(disk, disk')
  BY <1>1, <1>2, <1>3 DEF Disk, AtMost
<1>5. After(disk') \subseteq After(disk)
  BY <1>2, <1>4, AtMostAgain DEF After
<1> QED BY <1>4, <1>5

LEMMA BeganStep ==
  ASSUME Inv, Next, OnwardWorld, pc # "idle", pc' # "idle",
         NEW d0, Began(d0, disk, cacheFile, exe, pc, mem, stack, since)
  PROVE  Began(d0, disk', cacheFile', exe', pc', mem', stack', since')
<1> USE DEF Inv
<1>1. ProjectOK /\ disk \in Disk /\ d0 \in Disk /\ AtMost(d0, disk)
  BY ProjectFacts DEF Typed, Began
<1>2. CASE HashStep
  <2>1. Basics /\ Kept(mem', stack') /\ UNCHANGED <<disk, cacheFile, exe, since>> /\ pc = "hash"
    BY <1>2, HashKeeps DEF Basics
  <2>2. Sees(d0, disk)
    <3> SUFFICES ASSUME HasInclude
                 PROVE  d0[NextInclude] <= disk[NextInclude] /\ disk[NextInclude] <= disk[NextInclude]
      BY DEF Sees
    <3>1. NextInclude \in Files
      BY <2>1, BasicFacts
    <3>2. d0[NextInclude] <= disk[NextInclude] /\ disk[NextInclude] \in Nat
      BY <3>1, <1>1 DEF AtMost, Disk
    <3> QED BY <3>2
  <2>3. Between(mem', stack', d0, disk)
    BY <2>1, <2>2, <1>1 DEF Kept, Began
  <2> QED BY <2>1, <2>3 DEF Began
<1>3. CASE Compile \/ Run
  <2>1. UNCHANGED <<disk, cacheFile, mem, stack, since>> /\ pc' # "hash"
    BY <1>3 DEF Compile, Run, Quiet
  <2> QED BY <2>1 DEF Began
<1>4. CASE \E f \in Files : Edit(f)
  <2>1. PICK f \in Files : Edit(f)
    BY <1>4
  <2>2. UNCHANGED <<cacheFile, exe, pc, mem, stack>> /\ since' = since \cup {Sources(disk')}
    BY <2>1 DEF Edit, Quiet
  <2>3. disk' \in Disk /\ AtMost(disk, disk')
    BY <2>1, EditGrows
  <2>4. AtMost(d0, disk') /\ AtMost(disk', disk')
    BY <1>1, <2>3, AtMostAgain, AtMostSelf
  <2>5. Between(mem, stack, d0, disk')
    BY <1>1, <2>3, OlderLater DEF Began
  <2>6. ASSUME NEW s \in since'
        PROVE  \E e \in Disk : AtMost(d0, e) /\ AtMost(e, disk') /\ s = Sources(e)
    <3>1. CASE s \in since
      <4>1. PICK e \in Disk : AtMost(d0, e) /\ AtMost(e, disk) /\ s = Sources(e)
        BY <3>1 DEF Began
      <4>2. AtMost(e, disk')
        BY <4>1, <1>1, <2>3, AtMostAgain
      <4> QED BY <4>1, <4>2
    <3>2. CASE s = Sources(disk')
      BY <3>2, <2>3, <2>4
    <3> QED BY <3>1, <3>2, <2>2
  <2> QED BY <2>2, <2>4, <2>5, <2>6 DEF Began
<1>5. CASE Abort \/ FailedBuild \/ SaveCache \/ Kill \/ Invoke \/ Clean
  BY <1>5 DEF Abort, FailedBuild, SaveCache, Kill, Stop, Invoke, Clean
<1> QED BY <1>2, <1>3, <1>4, <1>5 DEF Next, Tool, HashStep

LEMMA OnwardStep ==
  ASSUME Inv, Next, OnwardWorld, Onward(disk, cacheFile, exe, pc, mem, stack, since)
  PROVE  Onward(disk', cacheFile', exe', pc', mem', stack', since')
<1> USE DEF Inv
<1>1. ProjectOK /\ disk \in Disk /\ IsCache(cacheFile) /\ IsCache(mem)
  BY ProjectFacts DEF Typed, Struct
<1>2. pc # "idle" => \E d0 : Began(d0, disk, cacheFile, exe, pc, mem, stack, since)
  BY DEF Onward
<1>3. pc # "idle" /\ pc' # "idle" =>
        \E d0 : Began(d0, disk', cacheFile', exe', pc', mem', stack', since')
  BY <1>2, BeganStep
<1>4. pc # "idle" => Older(mem, disk)
  BY <1>1, <1>2, OlderRead DEF Began
<1>5. CASE HashStep
  <2>1. /\ UNCHANGED <<disk, cacheFile, exe, since>> /\ pc = "hash"
        /\ pc' \in {"hash", "compile", "run"}
    BY <1>5, HashKeeps DEF Basics
  <2>2. PICK d0 : Began(d0, disk, cacheFile, exe, pc, mem, stack, since)
    BY <1>2, <2>1
  <2>3. Fits(cacheFile, exe, After(disk))
    BY <2>1 DEF Onward
  <2>4. CASE pc' = "hash"
    BY <2>1, <2>3, <2>4, <1>3 DEF Onward
  <2>5. CASE pc' = "compile"
    <3>1. world.kills => NoMatch(cacheFile, After(disk))
      BY <2>2, <2>3, <2>5, <1>5, ModifiedKilled
    <3> QED BY <2>1, <2>3, <2>5, <3>1, <1>3 DEF Onward
  <2>6. CASE pc' = "run"
    <3>1. /\ IsCache(mem') /\ Find(mem', Root) \in Totals(mem') /\ exe # NoExe
          /\ Find(cacheFile, Root) # <<>> /\ Find(cacheFile, Root) \in Totals(mem')
          /\ \A N : Closed(N) /\ Find(cacheFile, Root) \in N => Totals(mem') \subseteq N
      BY <1>5, <2>6, NotModified
    <3>2. Find(cacheFile, Root) \in Totals(cacheFile) /\ Closed(Totals(cacheFile))
      BY <1>1, <3>1, FindFacts, CacheFacts
    <3>3. Totals(mem') \subseteq Totals(cacheFile)
      BY <3>1, <3>2
    <3>4. Began(d0, disk, cacheFile, exe, pc', mem', stack', since)
      BY <2>1, <2>2, <2>6, BeganStep
    <3>5. d0 \in Disk /\ Reads(Totals(mem'), d0, disk) /\ Sources(d0) \in since
      BY <3>4 DEF Began, Between
    <3>6. Describes(Totals(mem'), d0)
      <4>1. ASSUME NEW t \in Totals(mem')
            PROVE  t[2] <= d0[t[1]]
        <5>1. t[1] \in Files /\ t[2] \in 0..d0[t[1]]
          BY <3>3, <3>4 DEF Began, Older
        <5>2. d0[t[1]] \in Nat
          BY <3>5, <5>1 DEF Disk
        <5> QED BY <5>1, <5>2
      <4> QED BY <4>1, <1>1, <3>5, Squeeze
    <3>7. Match(cacheFile, d0) /\ d0 \in After(d0)
      BY <3>1, <3>5, <3>6, AtMostSelf DEF Match
    <3>8. exe = Sources(d0)
      BY <2>1, <2>2, <3>1, <3>7 DEF Began, Fits
    <3>9. \A d \in Disk : Match(mem', d) => Sources(d0) = Sources(d)
      BY <1>1, <3>1, <3>5, <3>6, MatchExact
    <3>10. Makes(mem', exe, After(disk))
      BY <3>8, <3>9 DEF Makes, After
    <3> QED BY <2>1, <2>3, <2>6, <3>5, <3>8, <3>10, <1>3 DEF Onward
  <2> QED BY <2>1, <2>4, <2>5, <2>6
<1>6. CASE Compile
  <2>1. UNCHANGED <<disk, cacheFile, mem, stack, since>> /\ pc = "compile"
    BY <1>6 DEF Compile
  <2>2. world.kills => Fits(cacheFile, exe', After(disk))
    BY <2>1 DEF Onward, NoMatch, Fits
  <2>3. CASE pc' = "run" /\ exe' = Sources(disk) /\ disk[Root] # 0
    <3>1. Makes(mem, Sources(disk), After(disk))
      BY <1>1, <1>4, <2>1, MatchEarlier DEF Makes, After
    <3>2. Sources(disk) \in since
      BY <2>1 DEF Steady
    <3> QED BY <2>1, <2>2, <2>3, <3>1, <3>2, <1>3 DEF Onward
  <2>4. CASE pc' = "failed"
    BY <2>1, <2>2, <2>4, <1>3 DEF Onward
  <2> QED BY <1>6, <2>3, <2>4 DEF Compile
<1>7. CASE Run
  <2>1. UNCHANGED <<disk, cacheFile, exe, mem, stack, since>> /\ pc = "run" /\ pc' \in {"save", "failed"}
    BY <1>7 DEF Run, Quiet
  <2> QED BY <2>1, <1>3 DEF Onward
<1>8. CASE Abort
  <2>1. UNCHANGED <<disk, cacheFile, exe>> /\ pc = "hash" /\ pc' = "idle"
    BY <1>8 DEF Abort, Stop
  <2> QED BY <2>1 DEF Onward
<1>9. CASE FailedBuild
  <2>1. disk' = disk /\ cacheFile' = <<>> /\ pc' = "idle"
    BY <1>9 DEF FailedBuild, Stop
  <2>2. Older(<<>>, disk) /\ \A x : Fits(<<>>, x, After(disk))
    BY MatchNone, CacheOfNone DEF Older, Fits
  <2> QED BY <2>1, <2>2 DEF Onward
<1>10. CASE SaveCache
  <2>1. UNCHANGED <<disk, exe>> /\ pc = "save" /\ cacheFile' = mem /\ pc' = "idle"
    BY <1>10 DEF SaveCache, Stop
  <2>2. Fits(mem, exe, After(disk))
    BY <2>1 DEF Onward, Makes, Fits
  <2> QED BY <2>1, <2>2, <1>4 DEF Onward
<1>11. CASE Kill
  <2>1. /\ disk' = disk /\ pc' = "idle" /\ world.kills /\ pc # "idle"
        /\ exe' \in IF pc = "compile" THEN {exe, NoExe, Broken} ELSE {exe}
        /\ cacheFile' \in IF pc = "save"
                          THEN {cacheFile} \cup {SubSeq(mem, 1, n) : n \in 0..Len(mem)}
                          ELSE {cacheFile}
    BY <1>11 DEF Kill, Stop
  <2>2. CASE cacheFile' = cacheFile
    <3>1. Fits(cacheFile, exe', After(disk))
      BY <2>1 DEF Onward, Fits, NoMatch
    <3> QED BY <2>1, <2>2, <3>1 DEF Onward
  <2>3. CASE pc = "save" /\ \E n \in 0..Len(mem) : cacheFile' = SubSeq(mem, 1, n)
    <3>1. PICK n \in 0..Len(mem) : cacheFile' = SubSeq(mem, 1, n)
      BY <2>3
    <3>2. Totals(cacheFile') \subseteq Totals(mem) /\ Find(cacheFile', Root) \in {<<>>, Find(mem, Root)}
      BY <3>1, <1>1, CachePrefix
    <3>3. Older(cacheFile', disk)
      BY <3>2, <1>4, <2>3 DEF Older
    <3>4. \A d : Match(cacheFile', d) => Match(mem, d)
      BY <3>2 DEF Match
    <3>5. Makes(mem, exe, After(disk)) /\ exe' = exe
      BY <2>1, <2>3 DEF Onward
    <3>6. Fits(cacheFile', exe, After(disk))
      BY <3>4, <3>5 DEF Makes, Fits
    <3> QED BY <2>1, <3>3, <3>5, <3>6 DEF Onward
  <2> QED BY <2>1, <2>2, <2>3
<1>12. CASE Invoke
  <2>1. /\ UNCHANGED <<disk, cacheFile, exe>> /\ pc = "idle" /\ pc' = "hash" /\ since' = {Sources(disk)}
    BY <1>12 DEF Invoke
  <2>2. AtMost(disk, disk) /\ disk[Root] <= disk[Root]
    BY <1>1, AtMostSelf, BuildAssumption DEF AtMost
  <2>3. Between(mem', stack', disk, disk)
    BY <1>1, <1>12, <2>2, StartKeeps
  <2>4. Older(cacheFile, disk) /\ Fits(cacheFile, exe, After(disk))
    BY <2>1 DEF Onward
  <2>5. Began(disk, disk, cacheFile, exe, "hash", mem', stack', {Sources(disk)})
    BY <1>1, <2>2, <2>3, <2>4 DEF Began
  <2> QED BY <2>1, <2>4, <2>5 DEF Onward
<1>13. CASE \E f \in Files : Edit(f)
  <2>1. PICK f \in Files : Edit(f)
    BY <1>13
  <2>2. /\ UNCHANGED <<cacheFile, exe, pc, mem, stack>>
        /\ since' = IF pc = "idle" THEN {} ELSE since \cup {Sources(disk')}
    BY <2>1 DEF Edit, Quiet
  <2>3. disk' \in Disk /\ AtMost(disk, disk') /\ After(disk') \subseteq After(disk)
    BY <2>1, EditGrows
  <2>4. Older(cacheFile, disk')
    BY <1>1, <2>3, OlderGrows DEF Onward
  <2>5. /\ Fits(cacheFile, exe, After(disk)) => Fits(cacheFile, exe, After(disk'))
        /\ NoMatch(cacheFile, After(disk)) => NoMatch(cacheFile, After(disk'))
        /\ Makes(mem, exe, After(disk)) => Makes(mem, exe, After(disk'))
    BY <2>3 DEF Fits, NoMatch, Makes
  <2>6. pc \in {"run", "save"} => exe \in since'
    BY <2>2 DEF Onward
  <2> QED BY <2>2, <2>4, <2>5, <2>6, <1>3 DEF Onward
<1>14. CASE Clean
  <2>1. UNCHANGED <<disk, cacheFile, pc>> /\ pc = "idle" /\ exe' = NoExe /\ ~world.kills
    BY <1>14 DEF Clean, OnwardWorld
  <2>2. Fits(cacheFile, NoExe, After(disk))
    BY <2>1 DEF Fits
  <2> QED BY <2>1, <2>2 DEF Onward
<1> QED BY <1>5, <1>6, <1>7, <1>8, <1>9, <1>10, <1>11, <1>12, <1>13, <1>14 DEF Next, Tool, HashStep

LEMMA RunsStep ==
  ASSUME Inv, Runs, [Next]_vars
  PROVE  Runs'
<1>1. CASE Next
  <2>1. UNCHANGED <<project, world>>
    BY <1>1 DEF Next, Tool, SkipInclude, KnownInclude, EnterInclude, Finish, Hashing, Abort, Compile,
                Run, FailedBuild, SaveCache, Invoke, Edit, Clean, Kill
  <2>2. CalmWorld => Calm(disk', cacheFile', exe', pc', mem', since')
    BY <1>1, CalmStep DEF Runs
  <2>3. OnwardWorld => Onward(disk', cacheFile', exe', pc', mem', stack', since')
    BY <1>1, OnwardStep DEF Runs
  <2>4. PICK dk, c, x, p : dk = disk' /\ c = cacheFile' /\ x = exe' /\ p = pc'
    OBVIOUS
  <2>5. PICK m, st, si : m = mem' /\ st = stack' /\ si = since'
    OBVIOUS
  <2> QED BY <2>1, <2>2, <2>3, <2>4, <2>5, RunsNext
<1>2. CASE UNCHANGED vars
  <2>1. UNCHANGED <<project, world, disk, cacheFile, exe, pc, mem, stack, since>>
    BY <1>2 DEF vars
  <2>2. PICK dk, c, x, p : dk = disk' /\ c = cacheFile' /\ x = exe' /\ p = pc'
    OBVIOUS
  <2>3. PICK m, st, si : m = mem' /\ st = stack' /\ si = since'
    OBVIOUS
  <2>4. /\ CalmWorld => Calm(dk, c, x, p, m, si)
        /\ OnwardWorld => Onward(dk, c, x, p, m, st, si)
    BY <2>1, <2>2, <2>3 DEF Runs
  <2> QED BY <2>1, <2>2, <2>3, <2>4, RunsNext
<1> QED BY <1>1, <1>2

LEMMA RunsInit ==
  ASSUME Init
  PROVE  Runs
<1>1. cacheFile = <<>> /\ pc = "idle"
  BY DEF Init
<1>2. \A x, D : Fits(<<>>, x, D)
  BY MatchNone DEF Fits
<1>3. Older(<<>>, disk)
  BY CacheOfNone DEF Older
<1> QED BY <1>1, <1>2, <1>3 DEF Runs, Calm, Onward

(* What the build tool of main.cpp and cache.cpp runs is the build file as *)
(* it was at some moment of the invocation, whatever is edited and         *)
(* interrupted: if nobody edits during an invocation or kills it, or if no *)
(* file gets an earlier version again, and nobody deletes the executable   *)
(* where invocations are killed.                                           *)
THEOREM WhatRunsIsCurrent == Spec => [](OrderlyWorld => RunsCurrent)
<1>1. Init => Runs
  BY RunsInit
<1>2. Inv /\ Runs /\ [Next]_vars => Runs'
  BY RunsStep
<1>3. Runs => (OrderlyWorld => RunsCurrent)
  BY DEF Runs, OrderlyWorld, Calm, Onward, RunsCurrent
<1> QED BY <1>1, <1>2, <1>3, Invariant, PTL DEF Spec

(* Main hashes exactly while calls of SRC_HashFile are active, each of     *)
(* which waits for the next; a cache has each hash under its own file.     *)
THEOREM TypeCorrect == Spec => []TypeOK
<1>1. Inv => TypeOK
  <2> SUFFICES ASSUME Inv
               PROVE  TypeOK
    OBVIOUS
  <2> USE DEF Inv, Typed
  <2>1. \A c \in {cacheFile, fromFile, mem} : \A i \in DOMAIN c :
          c[i].file \in Files /\ c[i].total[1] = c[i].file
    <3>1. \A c : IsCache(c) => \A i \in DOMAIN c : c[i].file \in Files /\ c[i].total[1] = c[i].file
      BY CacheFacts
    <3>2. IsCache(cacheFile) /\ IsCache(mem) /\ IsCache(fromFile)
      BY CacheOfNone DEF Struct
    <3> QED BY <3>1, <3>2
  <2>2. \A k \in 1..(Len(stack) - 1) :
          stack[k].at \in DOMAIN Includes(stack[k].file, stack[k].ver)
            /\ Includes(stack[k].file, stack[k].ver)[stack[k].at] = stack[k + 1].file
    <3> SUFFICES ASSUME NEW k \in 1..(Len(stack) - 1)
                 PROVE  Waits(stack[k], stack[k + 1].file)
                        /\ DOMAIN Names(stack[k]) = 1..Len(Names(stack[k]))
      BY DEF Waits, Names
    <3>1. Chain(stack) /\ stack \in Seq(FrameSet(Totals(mem)))
      BY DEF Struct
    <3>2. k \in 1..Len(stack)
      BY <3>1
    <3>3. FrameOK(stack[k]) /\ stack[k] \in FrameSet(Totals(mem))
      BY <3>1, <3>2 DEF Chain
    <3>4. DOMAIN Names(stack[k]) = 1..Len(Names(stack[k]))
      BY <3>3, FrameFacts, NamesFacts, ProjectFacts DEF FrameOK, Names
    <3> QED BY <3>1, <3>4 DEF Chain
  <2>3. (pc = "hash") = (stack # <<>>)
    OBVIOUS
  <2> QED BY <2>1, <2>2, <2>3 DEF TypeOK, Disk
<1> QED BY <1>1, Invariant, PTL
=============================================================================
