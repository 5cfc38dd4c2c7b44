--------------------------- MODULE HashMapProofs ---------------------------
(***************************************************************************)
(* HashMap implements Dictionary, for every set of keys, every hash        *)
(* function and every even initial size.  The inductive invariant: keys    *)
(* are unique, no key is behind a gap, len counts the keys, and while a    *)
(* table is moved the two tables share no key and the new one has room.    *)
(***************************************************************************)
EXTENDS HashMap, FiniteSets, FiniteSetTheorems, WellFoundedInduction, TLAPS

Used == {i \in Slots : entries[i].key # NoKey}

Unique == \A i, j \in Slots : entries[i].key # NoKey /\ entries[i].key = entries[j].key => i = j

(* A free slot has no value and a used one has one.                        *)
Clean ==
  /\ \A i \in Slots : (entries[i].key = NoKey) <=> (entries[i].value = NoValue)
  /\ \A i \in 0..(oldcap - 1) : (old[i].key = NoKey) <=> (old[i].value = NoValue)

Counted == len = Cardinality(Used)

OldUnique == \A i, j \in 0..(oldcap - 1) : old[i].key # NoKey /\ old[i].key = old[j].key => i = j

(* What is still to be moved is not in the new table, and every turn of    *)
(* the loop added at most one key.                                         *)
Split ==
  /\ \A i \in at..(oldcap - 1), j \in Slots : old[i].key # NoKey => entries[j].key # old[i].key
  /\ Growing => cap = 2 * oldcap /\ len <= at

Room == len * 2 <= cap /\ cap % 2 = 0 /\ (at = oldcap => oldcap = 0)

Inv == TypeOK /\ Unique /\ Clean /\ ChainsAreUnbroken /\ Counted /\ OldUnique /\ Split /\ Room
-----------------------------------------------------------------------------
LEMMA HomeIsASlot == ASSUME TypeOK, NEW k \in Keys PROVE Home(k) \in Slots
<1>1. hash[k] \in Nat /\ cap \in Nat \ {0}
  BY DEF TypeOK
<1> QED BY <1>1 DEF Home, Slots

(* Of two slots, the walk to one of them passes the other.                 *)
LEMMA WalksCross ==
  ASSUME NEW c \in Nat, NEW h \in 0..(c - 1), NEW i \in 0..(c - 1), NEW j \in 0..(c - 1), i # j
  PROVE  Passes(h, i, j) \/ Passes(h, j, i)
BY DEF Passes

(* Every set of naturals that is not empty has a least element.            *)
LEMMA LeastNatural ==
  ASSUME NEW T \in SUBSET Nat, T # {}
  PROVE  \E m \in T : \A n \in T : m <= n
<1>1. \E m \in T : \A n \in T : ~(<<n, m>> \in OpToRel(<, Nat))
  BY NatLessThanWellFounded, WFMin
<1>2. \A m, n \in Nat : n < m => <<n, m>> \in OpToRel(<, Nat)
  BY DEF OpToRel
<1>3. PICK m \in T : \A n \in T : ~(<<n, m>> \in OpToRel(<, Nat))
  BY <1>1
<1>4. \A n \in T : ~(n < m)
  BY <1>2, <1>3
<1> QED BY <1>4

LEMMA UsedIsFinite ==
  ASSUME TypeOK
  PROVE  IsFiniteSet(Slots) /\ Cardinality(Slots) = cap /\ IsFiniteSet(Used)
         /\ Cardinality(Used) \in Nat /\ Cardinality(Used) <= cap
         /\ (Cardinality(Used) = cap => Used = Slots)
<1>1. cap \in Nat \ {0}
  BY DEF TypeOK
<1>2. IsFiniteSet(Slots) /\ Cardinality(Slots) = cap
  BY <1>1, FS_Interval DEF Slots
<1>3. Used \in SUBSET Slots
  BY DEF Used
<1> QED BY <1>2, <1>3, FS_Subset, FS_CardinalityType

LEMMA FreeSlot ==
  ASSUME TypeOK, Counted, len < cap
  PROVE  \E i \in Slots : entries[i].key = NoKey
<1>1. Used # Slots
  BY UsedIsFinite DEF Counted, TypeOK
<1> QED BY <1>1 DEF Used

(* The distance of a walk orders the slots as Passes does.                 *)
LEMMA WalkEnds ==
  ASSUME TypeOK, NEW k \in Keys, NEW f \in Slots, entries[f].key = NoKey
  PROVE  \E i \in Slots : FoundAt(k, i)
<1> DEFINE h == Home(k)
           Dist(i) == IF h <= i THEN i - h ELSE i + cap - h
           T == {Dist(i) : i \in {s \in Slots : Holds(k, s)}}
<1>1. h \in Slots /\ cap \in Nat \ {0}
  BY HomeIsASlot DEF TypeOK
<1> HIDE DEF h
<1>2. \A i \in Slots : Dist(i) \in Nat
  BY <1>1 DEF Slots
<1>3. \A i, j \in Slots : Passes(h, i, j) => Dist(j) < Dist(i)
  BY <1>1 DEF Slots, Passes
<1>4. Holds(k, f)
  BY DEF Holds
<1>5. T \in SUBSET Nat /\ T # {}
  BY <1>2, <1>4
<1>6. PICK m \in T : \A n \in T : m <= n
  BY <1>5, LeastNatural
<1>7. PICK i \in Slots : Holds(k, i) /\ m = Dist(i)
  BY <1>6
<1>8. \A j \in Slots : Passes(h, i, j) => ~Holds(k, j)
  <2> SUFFICES ASSUME NEW j \in Slots, Passes(h, i, j), Holds(k, j) PROVE FALSE
    OBVIOUS
  <2>1. Dist(j) < Dist(i) /\ Dist(j) \in Nat /\ Dist(i) \in Nat
    BY <1>2, <1>3
  <2>2. Dist(i) <= Dist(j)
    BY <1>6, <1>7
  <2> QED BY <2>1, <2>2
<1> QED BY <1>7, <1>8 DEF FoundAt, h
-----------------------------------------------------------------------------
(* A lookup that ends at a free slot has shown that its key is not there:  *)
(* the one place where the chains are needed.                              *)
LEMMA FoundIsAll ==
  ASSUME TypeOK, Unique, ChainsAreUnbroken, NEW k \in Keys, NEW i \in Slots, FoundAt(k, i)
  PROVE  \A j \in Slots : entries[j].key = k => j = i
<1> SUFFICES ASSUME NEW j \in Slots, entries[j].key = k, j # i PROVE FALSE
  OBVIOUS
<1>1. k # NoKey
  BY MapAssumption
<1>2. CASE entries[i].key = k
  BY <1>1, <1>2 DEF Unique
<1>3. CASE entries[i].key = NoKey
  <2>1. ~Passes(Home(k), j, i)
    BY <1>1, <1>3 DEF ChainsAreUnbroken
  <2>2. ~Passes(Home(k), i, j)
    BY DEF FoundAt, Holds
  <2>3. Home(k) \in Slots
    BY HomeIsASlot
  <2> QED BY <2>1, <2>2, <2>3, WalksCross DEF Slots, TypeOK
<1> QED BY <1>2, <1>3 DEF FoundAt, Holds

LEMMA StoreFacts ==
  ASSUME TypeOK, Unique, ChainsAreUnbroken, Counted,
         NEW e \in Entry, e.key \in Keys, NEW i \in Slots, FoundAt(e.key, i),
         UNCHANGED <<hash, cap>>, entries' = [entries EXCEPT ![i] = e],
         len' = IF entries[i].key = NoKey THEN len + 1 ELSE len
  PROVE  /\ Slots' = Slots /\ entries' \in [Slots -> Entry] /\ len' \in Nat
         /\ entries'[i] = e /\ \A j \in Slots : j # i => entries'[j] = entries[j]
         /\ \A j \in Slots : entries[j].key = e.key => j = i
         /\ Unique' /\ ChainsAreUnbroken' /\ Counted'
<1>1. Slots' = Slots /\ \A k : Home(k)' = Home(k)
  BY DEF Slots, Home
<1>2. entries \in [Slots -> Entry] /\ len \in Nat /\ e.key # NoKey
  BY MapAssumption DEF TypeOK
<1>3. entries' \in [Slots -> Entry] /\ len' \in Nat
  BY <1>2
<1>4. entries'[i] = e /\ \A j \in Slots : j # i => entries'[j] = entries[j]
  BY <1>2
<1>5. \A j \in Slots : entries[j].key = e.key => j = i
  BY FoundIsAll
<1>6. entries[i].key \in {e.key, NoKey}
  BY DEF FoundAt, Holds
<1>7. Unique'
  BY <1>1, <1>4, <1>5 DEF Unique
<1>8. ChainsAreUnbroken'
  <2> SUFFICES ASSUME NEW j \in Slots, entries'[j].key # NoKey, NEW g \in Slots,
                      Passes(Home(entries'[j].key), j, g)
               PROVE  entries'[g].key # NoKey
    BY <1>1 DEF ChainsAreUnbroken
  <2>1. CASE g = i
    BY <1>2, <1>4, <2>1
  <2>2. CASE g # i /\ j # i
    BY <1>4, <2>2 DEF ChainsAreUnbroken
  <2>3. CASE g # i /\ j = i
    <3>1. ~Holds(e.key, g)
      BY <1>4, <2>3 DEF FoundAt
    <3> QED BY <1>4, <2>3, <3>1 DEF Holds
  <2> QED BY <2>1, <2>2, <2>3
<1>9. Counted'
  <2>1. IsFiniteSet(Used) /\ Cardinality(Used) \in Nat
    BY UsedIsFinite
  <2>2. Used' = Used \cup {i}
    BY <1>1, <1>2, <1>4 DEF Used
  <2>3. Cardinality(Used \cup {i}) = IF i \in Used THEN Cardinality(Used) ELSE Cardinality(Used) + 1
    BY <2>1, FS_AddElement
  <2>4. i \in Used <=> entries[i].key # NoKey
    BY DEF Used
  <2> QED BY <2>2, <2>3, <2>4 DEF Counted
<1> QED BY <1>1, <1>3, <1>4, <1>5, <1>7, <1>8, <1>9

(* A fresh table is empty.                                                 *)
LEMMA FreshTable ==
  ASSUME NEW c \in Nat, NEW t, t = Table(c)
  PROVE  t \in [0..(c - 1) -> Entry] /\ \A i \in 0..(c - 1) : t[i] = Free
BY DEF Table, Free, Entry

LEMMA EmptyTable ==
  ASSUME cap \in Nat, entries = Table(cap), len = 0
  PROVE  /\ entries \in [Slots -> Entry] /\ \A i \in Slots : entries[i] = Free
         /\ Unique /\ ChainsAreUnbroken /\ Counted
<1>1. entries \in [Slots -> Entry] /\ \A i \in Slots : entries[i] = Free
  BY FreshTable DEF Slots
<1>2. \A i \in Slots : entries[i].key = NoKey
  BY <1>1 DEF Free
<1>3. Used = {}
  BY <1>2 DEF Used
<1> QED BY <1>1, <1>2, <1>3, FS_EmptySet DEF Unique, ChainsAreUnbroken, Counted
-----------------------------------------------------------------------------
(* What a key is mapped to, without CHOOSE: Slot(k) holds it, Waits(k)     *)
(* says that it is among the entries still to move.                        *)
LEMMA OnlyOne ==
  ASSUME NEW S, NEW t, NEW k, NEW i \in S, t[i].key = k,
         \A j \in S : t[j].key = k => j = i
  PROVE  (CHOOSE j \in S : t[j].key = k) = i
OBVIOUS

Waiting == at..(oldcap - 1)
InTable(k) == \E i \in Slots : entries[i].key = k
Waits(k) == \E i \in Waiting : old[i].key = k

LEMMA SubRange ==
  ASSUME NEW a \in Nat, NEW c \in Nat PROVE \A j \in a..(c - 1) : j \in 0..(c - 1)
OBVIOUS

LEMMA ValueInTable ==
  ASSUME Unique, NEW k \in Keys, NEW i \in Slots, entries[i].key = k
  PROVE  ValueOf(k) = entries[i].value
<1>1. k # NoKey
  BY MapAssumption
<1>2. (CHOOSE j \in Slots : entries[j].key = k) = i
  BY <1>1, OnlyOne DEF Unique
<1> QED BY <1>2 DEF ValueOf

LEMMA ValueInTableNext ==
  ASSUME Unique', NEW k \in Keys, NEW i \in Slots', entries'[i].key = k
  PROVE  ValueOf(k)' = entries'[i].value
<1>1. k # NoKey
  BY MapAssumption
<1>2. (CHOOSE j \in Slots' : entries'[j].key = k) = i
  BY <1>1, OnlyOne DEF Unique
<1> QED BY <1>2 DEF ValueOf

LEMMA ValueWaits ==
  ASSUME at \in Nat, oldcap \in Nat, OldUnique, NEW k \in Keys, ~InTable(k),
         NEW i \in Waiting, old[i].key = k
  PROVE  ValueOf(k) = old[i].value
<1>1. k # NoKey /\ \A j \in Waiting : j \in 0..(oldcap - 1)
  BY MapAssumption DEF Waiting
<1>2. (CHOOSE j \in Waiting : old[j].key = k) = i
  BY <1>1, OnlyOne DEF OldUnique
<1> QED BY <1>2 DEF ValueOf, InTable, Waiting

LEMMA ValueWaitsNext ==
  ASSUME at' \in Nat, oldcap' \in Nat, OldUnique', NEW k \in Keys, ~InTable(k)',
         NEW i \in Waiting', old'[i].key = k
  PROVE  ValueOf(k)' = old'[i].value
<1>1. k # NoKey /\ \A j \in at'..(oldcap' - 1) : j \in 0..(oldcap' - 1)
  BY MapAssumption, SubRange
<1>2. (CHOOSE j \in at'..(oldcap' - 1) : old'[j].key = k) = i
  BY <1>1, OnlyOne DEF OldUnique, Waiting
<1> QED BY <1>2 DEF ValueOf, InTable, Waiting

LEMMA ValueNowhere ==
  ASSUME NEW k, ~InTable(k), ~Waits(k) PROVE ValueOf(k) = NoValue
BY DEF ValueOf, InTable, Waits, Waiting

LEMMA ValueNowhereNext ==
  ASSUME NEW k, ~InTable(k)', ~Waits(k)' PROVE ValueOf(k)' = NoValue
BY DEF ValueOf, InTable, Waits, Waiting

(* Between requests and outside a move nothing waits.                      *)
LEMMA NothingWaits == ASSUME TypeOK, Room, ~Growing PROVE Waiting = {} /\ at = 0 /\ oldcap = 0
BY DEF TypeOK, Room, Growing, Waiting
-----------------------------------------------------------------------------
Mapped == [k \in Keys |-> ValueOf(k)]

LEMMA GrowStep == ASSUME Inv, Grow PROVE Inv' /\ Mapped' = Mapped
<1>1. /\ TypeOK /\ Room /\ Unique /\ Clean /\ Counted /\ ~Growing
      /\ cap' = cap * 2 /\ len' = 0 /\ entries' = Table(cap * 2)
      /\ old' = entries /\ oldcap' = cap /\ at' = 0 /\ UNCHANGED <<hash, op, ret>>
  BY DEF Inv, Grow
<1>2. cap \in Nat \ {0} /\ entries \in [Slots -> Entry]
  BY <1>1 DEF TypeOK
<1>3. /\ entries' \in [Slots' -> Entry] /\ \A i \in Slots' : entries'[i] = Free
  <2>1. cap * 2 \in Nat /\ Slots' = 0..(cap * 2 - 1)
    BY <1>1, <1>2 DEF Slots
  <2> QED BY <1>1, <2>1, FreshTable
<1>4. \A i \in Slots' : entries'[i].key = NoKey /\ entries'[i].value = NoValue
  BY <1>3 DEF Free
<1>5. Used' = {}
  BY <1>4 DEF Used
<1>6. Unique' /\ ChainsAreUnbroken' /\ Counted'
  BY <1>1, <1>4, <1>5, FS_EmptySet DEF Unique, ChainsAreUnbroken, Counted
<1>7. TypeOK'
  BY <1>1, <1>2, <1>3 DEF TypeOK, Slots
<1>8. Clean' /\ OldUnique' /\ Split' /\ Room'
  BY <1>1, <1>2, <1>4, MapAssumption DEF Clean, Unique, OldUnique, Split, Room, Slots, Growing
<1>9. \A k \in Keys : ValueOf(k)' = ValueOf(k)
  <2> SUFFICES ASSUME NEW k \in Keys PROVE ValueOf(k)' = ValueOf(k)
    OBVIOUS
  <2>1. ~InTable(k)' /\ Waiting' = Slots /\ at' \in Nat /\ oldcap' \in Nat
    BY <1>1, <1>2, <1>4, MapAssumption DEF InTable, Waiting, Slots
  <2>2. CASE InTable(k)
    <3>1. PICK i \in Slots : entries[i].key = k
      BY <2>2 DEF InTable
    <3>2. ValueOf(k) = entries[i].value
      BY <1>1, <3>1, ValueInTable
    <3>3. ValueOf(k)' = old'[i].value
      BY <1>1, <1>8, <2>1, <3>1, ValueWaitsNext
    <3> QED BY <1>1, <3>2, <3>3
  <2>3. CASE ~InTable(k)
    <3>1. ~Waits(k)
      BY <1>1, NothingWaits DEF Waits
    <3>2. ~Waits(k)'
      BY <1>1, <2>1, <2>3 DEF Waits, InTable
    <3> QED BY <2>1, <2>3, <3>1, <3>2, ValueNowhere, ValueNowhereNext
  <2> QED BY <2>2, <2>3
<1> QED BY <1>6, <1>7, <1>8, <1>9 DEF Inv, Mapped

LEMMA HalfOfTwice ==
  ASSUME NEW l \in Nat, NEW m \in Nat, NEW a \in Nat, NEW o \in Nat,
         m <= l + 1, l <= a, a < o
  PROVE  m * 2 <= 2 * o
<1>1. m <= o
  OBVIOUS
<1> QED BY <1>1

LEMMA MoveStep == ASSUME Inv, Move PROVE Inv' /\ Mapped' = Mapped
<1>1. /\ TypeOK /\ Room /\ Unique /\ Clean /\ Counted /\ ChainsAreUnbroken /\ OldUnique /\ Split
      /\ Growing /\ Step /\ UNCHANGED <<hash, cap, op, ret>>
      /\ IF old[at].key = NoKey THEN UNCHANGED <<entries, len>> ELSE Store(old[at])
  BY DEF Inv, Move
<1>2. /\ cap \in Nat \ {0} /\ entries \in [Slots -> Entry] /\ len \in Nat /\ oldcap \in Nat
      /\ at \in 0..(oldcap - 1) /\ old \in [0..(oldcap - 1) -> Entry] /\ Slots' = Slots
      /\ cap = 2 * oldcap /\ len <= at /\ at \in Nat
  BY <1>1 DEF TypeOK, Growing, Split, Slots
<1> DEFINE e == old[at]
<1>3. e \in Entry /\ (e.key # NoKey => e.key \in Keys /\ e.value # NoValue)
  BY <1>1, <1>2 DEF Entry, Clean
<1>4. /\ entries' \in [Slots -> Entry] /\ len' \in Nat /\ len' <= len + 1
      /\ Unique' /\ ChainsAreUnbroken' /\ Counted'
      /\ \A j \in Slots : entries'[j] = entries[j] \/ (e.key # NoKey /\ entries'[j] = e)
      /\ \A j \in Slots : entries[j].key # NoKey => entries'[j] = entries[j]
      /\ e.key # NoKey => \E j \in Slots : entries'[j] = e
  <2>1. CASE e.key = NoKey
    <3>1. UNCHANGED <<entries, len>>
      BY <1>1, <2>1
    <3>2. \A k : Home(k)' = Home(k)
      BY <1>1 DEF Home
    <3>3. Used' = Used
      BY <1>2, <3>1 DEF Used
    <3> QED BY <1>1, <1>2, <2>1, <3>1, <3>2, <3>3 DEF Unique, ChainsAreUnbroken, Counted
  <2>2. CASE e.key # NoKey
    <3>1. PICK i \in Slots : /\ FoundAt(e.key, i) /\ entries' = [entries EXCEPT ![i] = e]
                             /\ len' = IF entries[i].key = NoKey THEN len + 1 ELSE len
      BY <1>1, <2>2 DEF Store
    <3>2. /\ entries' \in [Slots -> Entry] /\ len' \in Nat
          /\ entries'[i] = e /\ \A j \in Slots : j # i => entries'[j] = entries[j]
          /\ Unique' /\ ChainsAreUnbroken' /\ Counted'
      BY <1>1, <1>3, <2>2, <3>1, StoreFacts
    <3>3. entries[i].key = NoKey
      <4>1. entries[i].key # e.key
        BY <1>1, <1>2, <2>2 DEF Split
      <4> QED BY <3>1, <4>1 DEF FoundAt, Holds
    <3> QED BY <1>2, <2>2, <3>1, <3>2, <3>3
  <2> QED BY <2>1, <2>2
<1>5. /\ at' \in 0..oldcap' /\ oldcap' \in Nat /\ old' \in [0..(oldcap' - 1) -> Entry]
      /\ Waiting' = Waiting \ {at}
      /\ \A i \in Waiting' : old'[i] = old[i] /\ i \in 0..(oldcap - 1)
      /\ (at' = oldcap' => oldcap' = 0)
      /\ (Growing' => oldcap' = oldcap /\ at' = at + 1)
      /\ \A i \in 0..(oldcap' - 1) : old'[i] = old[i] /\ i \in 0..(oldcap - 1)
  <2>1. CASE at + 1 < oldcap
    BY <1>1, <1>2, <2>1 DEF Step, Waiting, Growing
  <2>2. CASE ~(at + 1 < oldcap)
    <3>1. at' = 0 /\ oldcap' = 0 /\ old' = Table(0) /\ Waiting = {at} /\ Waiting' = {}
      BY <1>1, <1>2, <2>2 DEF Step, Waiting
    <3>2. old' \in [0..(0 - 1) -> Entry]
      BY <3>1, FreshTable
    <3> QED BY <3>1, <3>2 DEF Growing
  <2> QED BY <2>1, <2>2
<1>6. TypeOK'
  BY <1>1, <1>2, <1>4, <1>5 DEF TypeOK
<1>7. Clean' /\ OldUnique'
  BY <1>1, <1>2, <1>3, <1>4, <1>5 DEF Clean, OldUnique
<1>8. Room'
  <2>1. len' * 2 <= cap
    <3>1. len' \in Nat /\ len' <= len + 1
      BY <1>4
    <3>2. len \in Nat /\ at \in Nat /\ oldcap \in Nat /\ len <= at /\ at < oldcap /\ cap = 2 * oldcap
      BY <1>2
    <3>3. len' * 2 <= 2 * oldcap
      BY <3>1, <3>2, HalfOfTwice
    <3> QED BY <3>2, <3>3
  <2>2. cap' = cap /\ cap % 2 = 0
    BY <1>1 DEF Room
  <2> QED BY <1>5, <2>1, <2>2 DEF Room
<1>9. Split'
  <2>1. ASSUME NEW i \in Waiting', NEW j \in Slots, old[i].key # NoKey PROVE entries'[j].key # old[i].key
    <3>1. i \in Waiting /\ i # at /\ i \in 0..(oldcap - 1)
      BY <1>5, <2>1
    <3>2. entries[j].key # old[i].key
      BY <1>1, <2>1, <3>1 DEF Split, Waiting
    <3>3. e.key # old[i].key
      BY <1>1, <1>2, <2>1, <3>1 DEF OldUnique
    <3> QED BY <1>4, <3>2, <3>3
  <2>2. Growing' => cap' = 2 * oldcap' /\ len' <= at'
    BY <1>1, <1>2, <1>4, <1>5
  <2>3. \A i \in at'..(oldcap' - 1), j \in Slots' :
          old'[i].key # NoKey => entries'[j].key # old'[i].key
    BY <1>2, <1>5, <2>1 DEF Waiting
  <2> QED BY <2>2, <2>3 DEF Split
<1>10. \A k \in Keys : ValueOf(k)' = ValueOf(k)
  <2> SUFFICES ASSUME NEW k \in Keys PROVE ValueOf(k)' = ValueOf(k)
    OBVIOUS
  <2> k # NoKey
    BY MapAssumption
  <2>1. CASE InTable(k)
    <3>1. PICK i \in Slots : entries[i].key = k
      BY <2>1 DEF InTable
    <3>2. entries'[i] = entries[i]
      BY <1>4, <3>1
    <3>3. ValueOf(k) = entries[i].value
      BY <1>1, <3>1, ValueInTable
    <3>4. ValueOf(k)' = entries'[i].value
      BY <1>2, <1>4, <3>1, <3>2, ValueInTableNext
    <3> QED BY <3>2, <3>3, <3>4
  <2>2. CASE ~InTable(k) /\ e.key = k
    <3>1. PICK j \in Slots : entries'[j] = e
      BY <1>4, <2>2
    <3>2. ValueOf(k)' = e.value
      BY <1>2, <1>4, <2>2, <3>1, ValueInTableNext
    <3>3. at \in Waiting
      BY <1>2 DEF Waiting
    <3>4. ValueOf(k) = e.value
      BY <1>1, <1>2, <2>2, <3>3, ValueWaits
    <3> QED BY <3>2, <3>4
  <2>3. CASE ~InTable(k) /\ e.key # k
    <3>1. ~InTable(k)'
      BY <1>2, <1>4, <2>3 DEF InTable
    <3>2. CASE Waits(k)
      <4>1. PICK i \in Waiting : old[i].key = k
        BY <3>2 DEF Waits
      <4>2. i \in Waiting' /\ old'[i] = old[i]
        BY <1>5, <2>3, <4>1
      <4>3. ValueOf(k) = old[i].value
        BY <1>1, <1>2, <2>3, <4>1, ValueWaits
      <4>4. at' \in Nat
        BY <1>5
      <4>5. ValueOf(k)' = old'[i].value
        BY <1>5, <1>7, <3>1, <4>1, <4>2, <4>4, ValueWaitsNext
      <4> QED BY <4>2, <4>3, <4>5
    <3>3. CASE ~Waits(k)
      <4>1. ~Waits(k)'
        BY <1>5, <3>3 DEF Waits
      <4> QED BY <2>3, <3>1, <3>3, <4>1, ValueNowhere, ValueNowhereNext
    <3> QED BY <3>2, <3>3
  <2> QED BY <2>1, <2>2, <2>3
<1> QED BY <1>4, <1>6, <1>7, <1>8, <1>9, <1>10 DEF Inv, Mapped

(* Outside a move the value of a key is what the lookup finds.             *)
LEMMA Lookup ==
  ASSUME Inv, ~Growing, NEW k \in Keys, NEW i \in Slots, FoundAt(k, i)
  PROVE  /\ ValueOf(k) = entries[i].value
         /\ entries[i].key = NoKey <=> ValueOf(k) = NoValue
<1>1. TypeOK /\ Unique /\ Clean /\ ChainsAreUnbroken /\ Room
  BY DEF Inv
<1>2. CASE entries[i].key = k
  BY <1>1, <1>2, ValueInTable DEF Clean
<1>3. CASE entries[i].key = NoKey
  <2>1. ~InTable(k)
    BY <1>1, <1>3, FoundIsAll, MapAssumption DEF InTable
  <2>2. ~Waits(k)
    BY <1>1, NothingWaits DEF Waits
  <2> QED BY <1>1, <1>3, <2>1, <2>2, ValueNowhere DEF Clean
<1> QED BY <1>2, <1>3 DEF FoundAt, Holds

(* Storing a key changes the value of that key and of no other.            *)
LEMMA StoreStep ==
  ASSUME Inv, ~Growing, ~HalfFull, UNCHANGED <<hash, cap, old, oldcap, at>>,
         NEW k \in Keys, NEW v \in Values, NEW i \in Slots, FoundAt(k, i),
         entries' = [entries EXCEPT ![i] = [key |-> k, value |-> v]],
         len' = IF entries[i].key = NoKey THEN len + 1 ELSE len,
         op' \in Requests \cup {NoOp}, ret' \in Values \cup {NoValue} \cup BOOLEAN
  PROVE  Inv' /\ Mapped' = [Mapped EXCEPT ![k] = v]
<1> DEFINE e == [key |-> k, value |-> v]
<1>1. /\ TypeOK /\ Room /\ Unique /\ Clean /\ Counted /\ ChainsAreUnbroken /\ OldUnique /\ Split
      /\ Waiting = {} /\ at = 0 /\ oldcap = 0
  BY NothingWaits DEF Inv
<1>2. e \in Entry /\ e.key = k /\ e.value = v /\ v # NoValue /\ k # NoKey
  BY MapAssumption DEF Entry
<1>3. /\ Slots' = Slots /\ entries' \in [Slots -> Entry] /\ len' \in Nat
      /\ entries'[i] = e /\ \A j \in Slots : j # i => entries'[j] = entries[j]
      /\ \A j \in Slots : entries[j].key = k => j = i
      /\ Unique' /\ ChainsAreUnbroken' /\ Counted'
  <2> HIDE DEF e
  <2>1. entries' = [entries EXCEPT ![i] = e]
    BY DEF e
  <2>2. e \in Entry /\ e.key \in Keys /\ FoundAt(e.key, i)
    BY <1>2
  <2>3. e.key = k
    BY <1>2
  <2>4. \A j \in Slots : entries[j].key = e.key => j = i
    BY <1>1, <2>1, <2>2, StoreFacts
  <2>5. /\ Slots' = Slots /\ entries' \in [Slots -> Entry] /\ len' \in Nat
        /\ entries'[i] = e /\ \A j \in Slots : j # i => entries'[j] = entries[j]
        /\ Unique' /\ ChainsAreUnbroken' /\ Counted'
    BY <1>1, <2>1, <2>2, StoreFacts
  <2> QED BY <2>3, <2>4, <2>5
<1>4. cap \in Nat /\ len \in Nat /\ at' = 0 /\ oldcap' = 0
  BY <1>1 DEF TypeOK
<1>5. TypeOK'
  BY <1>1, <1>3 DEF TypeOK
<1>6. Clean' /\ OldUnique' /\ Split'
  BY <1>1, <1>2, <1>3, <1>4 DEF Clean, OldUnique, Split, Growing
<1>7. Room'
  <2>1. len * 2 < cap /\ cap % 2 = 0 /\ len' <= len + 1
    BY <1>1, <1>4 DEF HalfFull, Room
  <2>2. len' * 2 <= cap
    BY <1>3, <1>4, <2>1
  <2> QED BY <1>1, <1>4, <2>1, <2>2 DEF Room
<1>8. ValueOf(k)' = v
  BY <1>2, <1>3, ValueInTableNext
<1>9. ASSUME NEW g \in Keys, g # k PROVE ValueOf(g)' = ValueOf(g)
  <2> g # NoKey
    BY MapAssumption
  <2>1. CASE InTable(g)
    <3>1. PICK j \in Slots : entries[j].key = g
      BY <2>1 DEF InTable
    <3>2. j # i
      BY <1>9, <3>1 DEF FoundAt, Holds
    <3>3. entries'[j] = entries[j]
      BY <1>3, <3>2
    <3> QED BY <1>1, <1>3, <3>1, <3>3, ValueInTable, ValueInTableNext
  <2>2. CASE ~InTable(g)
    <3>1. ~InTable(g)'
      BY <1>2, <1>3, <1>9, <2>2 DEF InTable
    <3>2. ~Waits(g) /\ ~Waits(g)'
      BY <1>1, <1>4 DEF Waits, Waiting
    <3> QED BY <2>2, <3>1, <3>2, ValueNowhere, ValueNowhereNext
  <2> QED BY <2>1, <2>2
<1>10. Mapped' = [Mapped EXCEPT ![k] = v]
  BY <1>8, <1>9 DEF Mapped
<1> QED BY <1>1, <1>3, <1>5, <1>6, <1>7, <1>10 DEF Inv

(* A step that only answers changes nothing.                               *)
LEMMA QuietStep ==
  ASSUME Inv, UNCHANGED <<hash, cap, len, entries, old, oldcap, at>>,
         op' \in Requests \cup {NoOp}, ret' \in Values \cup {NoValue} \cup BOOLEAN
  PROVE  Inv' /\ Mapped' = Mapped
<1>1. Slots' = Slots /\ \A k : Home(k)' = Home(k) /\ ValueOf(k)' = ValueOf(k)
  BY DEF Slots, Home, ValueOf
<1>2. Used' = Used
  BY <1>1 DEF Used
<1>3. Mapped' = Mapped
  BY <1>1 DEF Mapped
<1>4. TypeOK' /\ Unique' /\ Clean' /\ ChainsAreUnbroken' /\ Counted'
  BY <1>1, <1>2 DEF Inv, TypeOK, Unique, Clean, ChainsAreUnbroken, Counted
<1>5. OldUnique' /\ Split' /\ Room'
  BY <1>1 DEF Inv, OldUnique, Split, Room, Growing
<1> QED BY <1>3, <1>4, <1>5 DEF Inv

LEMMA ClearStep ==
  ASSUME Inv, Clear
  PROVE  Inv' /\ Mapped' = [k \in Keys |-> NoValue]
<1>1. /\ TypeOK /\ Room /\ Counted /\ OldUnique /\ Split /\ Clean /\ ~Growing
      /\ UNCHANGED <<hash, cap, old, oldcap, at>> /\ len' = 0 /\ ret' = NoValue /\ op' = NoOp
      /\ entries' = IF len # 0 THEN Table(cap) ELSE entries
  BY DEF Inv, Clear, Serve
<1>2. cap \in Nat \ {0} /\ Slots' = Slots /\ entries \in [Slots -> Entry]
  BY <1>1 DEF TypeOK, Slots
<1>3. entries' \in [Slots -> Entry] /\ \A i \in Slots : entries'[i].key = NoKey /\ entries'[i].value = NoValue
  <2>1. CASE len # 0
    <3>1. entries' \in [Slots -> Entry] /\ \A i \in Slots : entries'[i] = Free
      BY <1>1, <1>2, <2>1, FreshTable DEF Slots
    <3> QED BY <3>1 DEF Free
  <2>2. CASE len = 0
    <3>1. Used = {}
      BY <1>1, <2>2, UsedIsFinite, FS_EmptySet DEF Counted
    <3>2. \A i \in Slots : entries[i].key = NoKey
      BY <3>1 DEF Used
    <3>3. \A i \in Slots : entries[i].value = NoValue
      BY <1>1, <3>2 DEF Clean
    <3> QED BY <1>1, <1>2, <2>2, <3>2, <3>3
  <2> QED BY <2>1, <2>2
<1>4. Used' = {}
  BY <1>2, <1>3 DEF Used
<1>5. Unique' /\ ChainsAreUnbroken' /\ Counted'
  BY <1>1, <1>2, <1>3, <1>4, FS_EmptySet DEF Unique, ChainsAreUnbroken, Counted
<1>6. Waiting' = {} /\ Waiting = {} /\ oldcap = 0 /\ at = 0
  BY <1>1, NothingWaits DEF Waiting
<1>7. TypeOK'
  BY <1>1, <1>2, <1>3 DEF TypeOK
<1>8. Clean' /\ OldUnique' /\ Split'
  BY <1>1, <1>2, <1>3, <1>6 DEF Clean, OldUnique, Split, Growing
<1>9. Room'
  BY <1>1, <1>2 DEF Room
<1>10. \A k \in Keys : ValueOf(k)' = NoValue
  <2> SUFFICES ASSUME NEW k \in Keys PROVE ValueOf(k)' = NoValue
    OBVIOUS
  <2>1. ~InTable(k)' /\ ~Waits(k)'
    BY <1>2, <1>3, <1>6, MapAssumption DEF InTable, Waits
  <2> QED BY <2>1, ValueNowhereNext
<1> QED BY <1>5, <1>7, <1>8, <1>9, <1>10 DEF Inv, Mapped
-----------------------------------------------------------------------------
LEMMA InitFacts == Init => Inv /\ D!Init
<1> SUFFICES ASSUME Init PROVE Inv /\ D!Init
  OBVIOUS
<1>1. /\ hash \in Hashes /\ cap = InitCap /\ len = 0 /\ entries = Table(InitCap)
      /\ oldcap = 0 /\ at = 0 /\ old = Table(0) /\ op = NoOp /\ ret = NoValue
  BY DEF Init
<1>2. cap \in Nat /\ cap >= 2 /\ cap % 2 = 0
  BY <1>1, MapAssumption
<1>3. /\ entries \in [Slots -> Entry] /\ \A i \in Slots : entries[i] = Free
      /\ Unique /\ ChainsAreUnbroken /\ Counted
  BY <1>1, <1>2, EmptyTable
<1>4. old \in [0..(oldcap - 1) -> Entry]
  BY <1>1, FreshTable
<1>5. TypeOK
  BY <1>1, <1>2, <1>3, <1>4, MapAssumption DEF TypeOK
<1>6. Clean /\ OldUnique /\ Split /\ Room
  BY <1>1, <1>2, <1>3 DEF Clean, OldUnique, Split, Room, Growing, Free
<1>7. \A k \in Keys : ValueOf(k) = NoValue
  <2> SUFFICES ASSUME NEW k \in Keys PROVE ValueOf(k) = NoValue
    OBVIOUS
  <2>1. ~InTable(k) /\ ~Waits(k)
    BY <1>1, <1>3, MapAssumption DEF InTable, Waits, Waiting, Free
  <2> QED BY <2>1, ValueNowhere
<1> QED BY <1>1, <1>3, <1>5, <1>6, <1>7 DEF Inv, D!Init

LEMMA InvStep == ASSUME Inv, [Next]_vars PROVE Inv' /\ [D!Next]_(D!vars)
<1>1. Inv => TypeOK /\ Room /\ Unique /\ Clean /\ Counted /\ ChainsAreUnbroken
  BY DEF Inv
<1>2. CASE \E r \in Requests : Request(r)
  <2>1. PICK r \in Requests : Request(r)
    BY <1>2
  <2>2. Inv' /\ Mapped' = Mapped
    BY <2>1, QuietStep DEF Request
  <2>3. D!Request(r) /\ r \in D!Requests
    BY <2>1, <2>2 DEF Request, D!Request, Mapped, D!Requests, Requests
  <2> QED BY <2>2, <2>3 DEF D!Next
<1>3. CASE Grow
  BY <1>3, GrowStep DEF Grow, D!vars, Mapped
<1>4. CASE Move
  BY <1>4, MoveStep DEF Move, D!vars, Mapped
<1>5. ASSUME NEW kind, Serve(kind), kind # "clear"
      PROVE  /\ op # NoOp /\ op.kind = kind /\ op' = NoOp /\ ~Growing /\ ~HalfFull
             /\ op \in Requests /\ op.key \in Keys /\ D!Serve(kind)
             /\ op'\in Requests \cup {NoOp}
             /\ UNCHANGED <<hash, cap, old, oldcap, at>>
  <2>1. op \in Requests
    BY <1>1, <1>5 DEF Serve, TypeOK
  <2>2. op.key \in Keys
    BY <2>1 DEF Requests
  <2> QED BY <1>5, <2>1, <2>2 DEF Serve, D!Serve
<1>6. CASE Get
  <2>1. Serve("get") /\ UNCHANGED <<entries, len>>
    BY <1>6 DEF Get
  <2>2. PICK i \in Slots : FoundAt(op.key, i) /\ ret' = entries[i].value
    BY <1>6 DEF Get
  <2>3. ret' = ValueOf(op.key) /\ ret' \in Values \cup {NoValue}
    <3>1. entries[i] \in Entry
      BY <1>1 DEF TypeOK
    <3> QED BY <1>5, <2>1, <2>2, <3>1, Lookup DEF Entry
  <2>4. Inv' /\ Mapped' = Mapped
    BY <1>5, <2>1, <2>3, QuietStep
  <2>5. D!Get
    BY <1>5, <2>1, <2>3, <2>4 DEF D!Get, Mapped
  <2> QED BY <2>4, <2>5 DEF D!Next
<1>7. CASE Put
  <2>1. Serve("put") /\ ret' = op.value
    BY <1>7 DEF Put
  <2>2. op.value \in Values
    BY <1>5, <2>1 DEF Requests
  <2>3. PICK i \in Slots :
          /\ FoundAt(op.key, i)
          /\ entries' = [entries EXCEPT ![i] = [key |-> op.key, value |-> op.value]]
          /\ len' = IF entries[i].key = NoKey THEN len + 1 ELSE len
    BY <1>7 DEF Put, Store
  <2>4. Inv' /\ Mapped' = [Mapped EXCEPT ![op.key] = op.value]
    BY <1>5, <2>1, <2>2, <2>3, StoreStep
  <2>5. D!Put
    BY <1>5, <2>1, <2>4 DEF D!Put, Mapped
  <2> QED BY <2>4, <2>5 DEF D!Next
<1>8. CASE PutNew
  <2>1. Serve("putnew")
    BY <1>8 DEF PutNew
  <2>2. op.value \in Values
    BY <1>5, <2>1 DEF Requests
  <2>3. PICK i \in Slots :
          /\ FoundAt(op.key, i)
          /\ ret' = (entries[i].key = NoKey)
          /\ IF entries[i].key = NoKey
             THEN /\ entries' = [entries EXCEPT ![i] = [key |-> op.key, value |-> op.value]]
                  /\ len' = len + 1
             ELSE UNCHANGED <<entries, len>>
    BY <1>8 DEF PutNew
  <2>4. (entries[i].key = NoKey) = (Mapped[op.key] = NoValue)
    BY <1>5, <2>1, <2>3, Lookup DEF Mapped
  <2>5. ret' = (Mapped[op.key] = NoValue) /\ ret' \in Values \cup {NoValue} \cup BOOLEAN
    BY <2>3, <2>4
  <2>6. CASE entries[i].key = NoKey
    <3>1. Inv' /\ Mapped' = [Mapped EXCEPT ![op.key] = op.value]
      BY <1>5, <2>1, <2>2, <2>3, <2>5, <2>6, StoreStep
    <3>2. D!PutNew
      BY <1>5, <2>1, <2>4, <2>5, <2>6, <3>1 DEF D!PutNew, Mapped
    <3> QED BY <3>1, <3>2 DEF D!Next
  <2>7. CASE entries[i].key # NoKey
    <3>1. Inv' /\ Mapped' = Mapped
      BY <1>5, <2>1, <2>3, <2>5, <2>7, QuietStep
    <3>2. D!PutNew
      BY <1>5, <2>1, <2>4, <2>5, <2>7, <3>1 DEF D!PutNew, Mapped
    <3> QED BY <3>1, <3>2 DEF D!Next
  <2> QED BY <2>6, <2>7
<1>9. CASE Clear
  <2>1. Inv' /\ Mapped' = [k \in Keys |-> NoValue]
    BY <1>9, ClearStep
  <2>2. D!Clear
    BY <1>9, <2>1 DEF Clear, Serve, D!Clear, D!Serve, Mapped
  <2> QED BY <2>1, <2>2 DEF D!Next
<1>10. CASE UNCHANGED vars
  <2>1. op \in Requests \cup {NoOp} /\ ret \in Values \cup {NoValue} \cup BOOLEAN
    BY <1>1 DEF TypeOK
  <2>2. Inv' /\ Mapped' = Mapped
    BY <1>10, <2>1, QuietStep DEF vars
  <2> QED BY <1>10, <2>2 DEF vars, D!vars, Mapped
<1> QED BY <1>2, <1>3, <1>4, <1>6, <1>7, <1>8, <1>9, <1>10 DEF Next, Map
-----------------------------------------------------------------------------
(* Collisions, wrap-around, growth in the middle of a request and clearing *)
(* by len do not show: every behaviour of the table is one of a function   *)
(* from keys to values, for every hash function and every even size.       *)
THEOREM MapIsADictionary == Spec => ImplementsDictionary
<1>1. Init => Inv /\ D!Init
  BY InitFacts
<1>2. Inv /\ [Next]_vars => Inv' /\ [D!Next]_(D!vars)
  BY InvStep
<1> QED BY <1>1, <1>2, PTL DEF Spec, ImplementsDictionary, D!Spec

(* No key is ever behind a gap.                                            *)
THEOREM NoGaps == Spec => []ChainsAreUnbroken
<1>1. Inv => ChainsAreUnbroken
  BY DEF Inv
<1> QED BY <1>1, InitFacts, InvStep, PTL DEF Spec

(* Every walk ends at the key or at a free slot, and a move never starts   *)
(* another one: the NULL of LC_GetMapEntryEx is never returned, on which   *)
(* LC_InsertMapEntry would crash.                                          *)
THEOREM WalksEnd == Spec => []LookupsEnd
<1>1. Inv => LookupsEnd
  <2> SUFFICES ASSUME Inv PROVE LookupsEnd
    OBVIOUS
  <2>1. TypeOK /\ Counted /\ Room /\ Split
    BY DEF Inv
  <2>2. len < cap /\ (Growing => len * 2 < cap)
    BY <2>1 DEF TypeOK, Room, Split, Growing
  <2>3. PICK f \in Slots : entries[f].key = NoKey
    BY <2>1, <2>2, FreeSlot
  <2>4. \A k \in Keys : \E i \in Slots : FoundAt(k, i)
    BY <2>1, <2>3, WalkEnds
  <2>5. Growing => ~HalfFull
    BY <2>1, <2>2 DEF HalfFull, TypeOK
  <2> QED BY <2>1, <2>4, <2>5 DEF LookupsEnd, Room
<1> QED BY <1>1, InitFacts, InvStep, PTL DEF Spec
=============================================================================
