---------------------------- MODULE MemoryProofs -----------------------------
(***************************************************************************)
(* Memory for every size of arena, page, push and table.  As long as the   *)
(* pass is called when the table of interns need not grow, blocks that are *)
(* held stay allocated, apart and untouched, and interned strings keep     *)
(* their addresses.  Whenever it is called, a failed assertion means that  *)
(* the reservation is full.                                                *)
(***************************************************************************)
EXTENDS Memory, TLAPS

Arena(m) ==
  /\ m.len \in Nat /\ m.commit \in Nat /\ m.wanted \in Nat /\ m.full \in BOOLEAN
  /\ BaseLen <= m.len /\ m.len <= m.commit /\ m.commit <= Reserve
  /\ m \in [len : Nat, commit : Nat, full : BOOLEAN, wanted : Nat,
            blocks : {m.blocks}, spoiled : {m.spoiled}]
  /\ m.full => m.wanted > Reserve

Spans(m) == \A b \in m.blocks : b.from \in Nat /\ b.to \in Nat /\ b.from <= b.to /\ b.to <= m.len
Apart(m) == \A b, c \in m.blocks : b # c => b.to <= c.from \/ c.to <= b.from
Sound(m) == Arena(m) /\ Spans(m) /\ Apart(m) /\ m.spoiled = {}

LEMMA AlignUpBounds ==
  ASSUME NEW n \in Nat, NEW a \in Nat \ {0}
  PROVE  AlignUp(n, a) \in Nat /\ n <= AlignUp(n, a)
<1>1. n % a \in 0..(a - 1)
  OBVIOUS
<1>2. a - (n % a) \in Nat
  BY <1>1
<1>3. (a - (n % a)) % a \in Nat
  BY <1>2
<1> QED BY <1>3 DEF AlignUp, AlignOffset

LEMMA CommitSuffices ==
  ASSUME NEW m, Arena(m), NEW need \in Nat, MemoryAssumption
  PROVE  /\ Committed(m, need) \in Nat /\ Committed(m, need) <= Reserve
         /\ m.commit <= Committed(m, need)
         /\ Committed(m, need) = Reserve \/ m.len + need <= Committed(m, need)
<1>1. need + AddSize \in Nat /\ Page \in Nat \ {0} /\ Reserve \in Nat
  BY DEF MemoryAssumption
<1>2. AlignUp(need + AddSize, Page) \in Nat /\ need + AddSize <= AlignUp(need + AddSize, Page)
  BY <1>1, AlignUpBounds
<1>3. need <= AlignUp(need + AddSize, Page)
  BY <1>1, <1>2 DEF MemoryAssumption
<1>4. m.len \in Nat /\ m.commit \in Nat /\ m.len <= m.commit /\ m.commit <= Reserve
  BY DEF Arena
<1> DEFINE u == AlignUp(need + AddSize, Page)
<1>5. u \in Nat /\ need <= u
  BY <1>2, <1>3
<1> HIDE DEF u
<1>6. Committed(m, need) = IF m.commit + u < Reserve THEN m.commit + u ELSE Reserve
  BY DEF Committed, u
<1> QED BY <1>1, <1>4, <1>5, <1>6

(* What a push does to a sound arena.                                      *)
LEMMA PushFacts ==
  ASSUME NEW m, Sound(m), NEW size \in Nat, MemoryAssumption
  PROVE  /\ Sound(Push(m, size))
         /\ Push(m, size).blocks = m.blocks
         /\ m.len <= Push(m, size).len
         /\ PushPos(m) \in Nat /\ m.len <= PushPos(m)
         /\ ~Push(m, size).full => Push(m, size).len = PushPos(m) + size
<1> DEFINE from == PushPos(m)
           need == from + size - m.len
           commit == IF from + size > m.commit THEN Committed(m, need) ELSE m.commit
<1>1. Arena(m) /\ Spans(m) /\ Apart(m) /\ m.spoiled = {} /\ m.len \in Nat
  BY DEF Sound, Arena
<1>2. from \in Nat /\ m.len <= from
  BY <1>1, AlignUpBounds DEF PushPos, MemoryAssumption
<1>3. need \in Nat
  BY <1>1, <1>2
<1>4. /\ Committed(m, need) \in Nat /\ Committed(m, need) <= Reserve
      /\ m.commit <= Committed(m, need)
      /\ Committed(m, need) = Reserve \/ m.len + need <= Committed(m, need)
  BY <1>1, <1>3, CommitSuffices
<1>5. /\ commit \in Nat /\ commit <= Reserve /\ m.commit <= commit /\ Reserve \in Nat
      /\ from + size > commit => from + size > Reserve
  BY <1>1, <1>2, <1>3, <1>4 DEF Arena, MemoryAssumption
<1> HIDE DEF commit, from, need
<1>6. Push(m, size) =
        IF m.full THEN m
        ELSE IF from + size > commit THEN Fail(m, from + size)
        ELSE [m EXCEPT !.len = from + size, !.commit = commit,
                       !.spoiled = @ \cup Overlapping(m.blocks, from, from + size)]
  BY DEF Push, commit, from, need
<1>7. CASE m.full
  BY <1>1, <1>2, <1>6, <1>7 DEF Sound, Arena, from
<1>8. CASE ~m.full /\ from + size > commit
  <2>1. Push(m, size) = Fail(m, from + size)
    BY <1>6, <1>8
  <2>2. from + size \in Nat /\ from + size > Reserve
    BY <1>2, <1>5, <1>8
  <2> DEFINE f == Fail(m, from + size)
  <2>3. /\ f.len = m.len /\ f.commit = m.commit /\ f.full = TRUE /\ f.wanted = from + size
        /\ f.blocks = m.blocks /\ f.spoiled = m.spoiled
        /\ f \in [len : Nat, commit : Nat, full : BOOLEAN, wanted : Nat,
                  blocks : {m.blocks}, spoiled : {m.spoiled}]
    BY <1>1, <2>2 DEF Fail, Arena
  <2> HIDE DEF f
  <2>4. Arena(f) /\ Spans(f) /\ Apart(f) /\ f.spoiled = {}
    BY <1>1, <2>2, <2>3 DEF Arena, Spans, Apart
  <2>5. Push(m, size) = f
    BY <2>1 DEF f
  <2> QED BY <1>1, <1>2, <2>3, <2>4, <2>5 DEF Sound, from
<1>9. CASE ~m.full /\ ~(from + size > commit)
  <2>1. Overlapping(m.blocks, from, from + size) = {}
    BY <1>1, <1>2 DEF Overlapping, Spans
  <2> DEFINE f == [m EXCEPT !.len = from + size, !.commit = commit,
                       !.spoiled = @ \cup Overlapping(m.blocks, from, from + size)]
  <2>2. from + size \in Nat /\ from + size <= commit /\ m.len <= from + size
    BY <1>1, <1>2, <1>5, <1>9
  <2>3. /\ f.len = from + size /\ f.commit = commit /\ f.full = FALSE /\ f.wanted = m.wanted
        /\ f.blocks = m.blocks /\ f.spoiled = {}
        /\ f \in [len : Nat, commit : Nat, full : BOOLEAN, wanted : Nat,
                  blocks : {m.blocks}, spoiled : {{}}]
    BY <1>1, <1>5, <1>9, <2>1, <2>2 DEF Arena
  <2> HIDE DEF f
  <2>4. Arena(f)
    <3>1. BaseLen <= from + size
      BY <1>1, <2>2 DEF Arena, MemoryAssumption
    <3> QED BY <1>1, <1>5, <2>2, <2>3, <3>1 DEF Arena
  <2>5. Spans(f) /\ Apart(f) /\ f.spoiled = {}
    BY <1>1, <2>2, <2>3 DEF Spans, Apart, Arena
  <2>6. Push(m, size) = f
    BY <1>6, <1>9 DEF f
  <2> QED BY <1>1, <1>2, <2>2, <2>3, <2>4, <2>5, <2>6 DEF Sound, from
<1> QED BY <1>7, <1>8, <1>9

LEMMA KeepFacts ==
  ASSUME NEW m, Sound(m), NEW size \in Nat, NEW tag, NEW drop, MemoryAssumption
  PROVE  LET k == Keep(m, size, tag, drop)
             b == [tag |-> tag, from |-> PushPos(m), to |-> PushPos(m) + size]
         IN  /\ Sound(k) /\ m.len <= k.len
             /\ k.full => k.blocks = m.blocks
             /\ ~k.full => k.blocks = (m.blocks \ drop) \cup {b}
<1> DEFINE k == Keep(m, size, tag, drop)
           b == [tag |-> tag, from |-> PushPos(m), to |-> PushPos(m) + size]
           p == Push(m, size)
<1>1. /\ Sound(p) /\ p.blocks = m.blocks /\ m.len <= p.len
      /\ PushPos(m) \in Nat /\ m.len <= PushPos(m)
      /\ ~p.full => p.len = PushPos(m) + size
  BY PushFacts
<1> HIDE DEF p
<1>2. k = IF p.full THEN p
          ELSE [p EXCEPT !.spoiled = @ \ drop, !.blocks = (@ \ drop) \cup {b}]
  BY DEF Keep, p
<1> HIDE DEF k
<1> DEFINE goal == /\ Sound(k) /\ m.len <= k.len
                   /\ k.full => k.blocks = m.blocks
                   /\ ~k.full => k.blocks = (m.blocks \ drop) \cup {b}
<1>3. ASSUME p.full PROVE goal
  <2>1. k = p
    BY <1>2, <1>3
  <2> QED BY <1>1, <1>3, <2>1
<1>4. ASSUME ~p.full PROVE goal
  <2>1. /\ k.len = p.len /\ k.commit = p.commit /\ k.full = p.full /\ k.wanted = p.wanted
        /\ k.blocks = (m.blocks \ drop) \cup {b} /\ k.spoiled = {}
        /\ k \in [len : Nat, commit : Nat, full : BOOLEAN, wanted : Nat,
                  blocks : {(m.blocks \ drop) \cup {b}}, spoiled : {{}}]
    BY <1>1, <1>2, <1>4 DEF Sound, Arena
  <2>2. Arena(k) /\ k.spoiled = {} /\ k.len = p.len /\ k.blocks = (m.blocks \ drop) \cup {b}
    BY <1>1, <2>1 DEF Sound, Arena
  <2>3. Spans(k)
    <3>1. b.from \in Nat /\ b.to \in Nat /\ b.from <= b.to /\ b.to <= k.len
      BY <1>1, <1>4, <2>2
    <3>2. \A c \in m.blocks : c.from \in Nat /\ c.to \in Nat /\ c.from <= c.to /\ c.to <= k.len
      BY <1>1, <2>2 DEF Sound, Spans
    <3> QED BY <2>2, <3>1, <3>2 DEF Spans
  <2>4. Apart(k)
    <3>1. \A c \in m.blocks : c.to <= b.from
      BY <1>1 DEF Sound, Spans, Arena
    <3>2. \A c, d \in m.blocks : c # d => c.to <= d.from \/ d.to <= c.from
      BY DEF Sound, Apart
    <3> HIDE DEF b
    <3> QED BY <2>2, <3>1, <3>2 DEF Apart
  <2>5. Sound(k)
    BY <2>2, <2>3, <2>4 DEF Sound
  <2>6. m.len <= k.len /\ ~k.full
    BY <1>1, <1>4, <2>1, <2>2
  <2> QED BY <2>2, <2>5, <2>6
<1> QED BY <1>3, <1>4 DEF k

(* Popping to a position that leaves all blocks but those that are given   *)
(* up.                                                                     *)
LEMMA PopFacts ==
  ASSUME NEW m, Sound(m), NEW pos \in Nat, BaseLen <= pos, pos <= m.len, MemoryAssumption,
         NEW old, \A b \in m.blocks \ old : b.to <= pos
  PROVE  LET q == Drop(PopToPos(m, pos), old)
         IN  Sound(q) /\ q.len = pos /\ q.blocks = m.blocks \ old
<1> DEFINE p == PopToPos(m, pos)
           q == Drop(p, old)
<1>1. Arena(m) /\ Spans(m) /\ Apart(m) /\ m.spoiled = {} /\ m.len \in Nat /\ BaseLen \in Nat
  BY DEF Sound, Arena, MemoryAssumption
<1>2. p = [m EXCEPT !.len = pos]
  BY <1>1 DEF PopToPos
<1>3. /\ p.len = pos /\ p.commit = m.commit /\ p.full = m.full /\ p.wanted = m.wanted
      /\ p.blocks = m.blocks /\ p.spoiled = {}
      /\ p \in [len : Nat, commit : Nat, full : BOOLEAN, wanted : Nat,
                blocks : {m.blocks}, spoiled : {{}}]
  BY <1>1, <1>2 DEF Arena
<1> HIDE DEF p
<1>4. /\ q.len = pos /\ q.commit = m.commit /\ q.full = m.full /\ q.wanted = m.wanted
      /\ q.blocks = m.blocks \ old /\ q.spoiled = {}
      /\ q \in [len : Nat, commit : Nat, full : BOOLEAN, wanted : Nat,
                blocks : {m.blocks \ old}, spoiled : {{}}]
  BY <1>3 DEF Drop
<1> HIDE DEF q
<1>5. pos <= m.commit
  BY <1>1 DEF Arena
<1>6. Arena(q)
  BY <1>1, <1>4, <1>5 DEF Arena
<1>7. Spans(q) /\ Apart(q)
  BY <1>1, <1>4 DEF Spans, Apart
<1>8. Sound(q) /\ q.len = pos /\ q.blocks = m.blocks \ old
  BY <1>4, <1>6, <1>7 DEF Sound
<1> QED BY <1>8 DEF q, p

LEMMA PopNoneFacts ==
  ASSUME NEW m, Sound(m), NEW pos \in Nat, BaseLen <= pos, pos <= m.len, MemoryAssumption,
         \A b \in m.blocks : b.to <= pos
  PROVE  /\ Sound(PopToPos(m, pos)) /\ PopToPos(m, pos).len = pos
         /\ PopToPos(m, pos).blocks = m.blocks
<1> DEFINE p == PopToPos(m, pos)
<1>1. Arena(m) /\ Spans(m) /\ Apart(m) /\ m.spoiled = {} /\ m.len \in Nat /\ BaseLen \in Nat
  BY DEF Sound, Arena, MemoryAssumption
<1>2. p = [m EXCEPT !.len = pos]
  BY <1>1 DEF PopToPos
<1>3. /\ p.len = pos /\ p.commit = m.commit /\ p.full = m.full /\ p.wanted = m.wanted
      /\ p.blocks = m.blocks /\ p.spoiled = {}
      /\ p \in [len : Nat, commit : Nat, full : BOOLEAN, wanted : Nat,
                blocks : {m.blocks}, spoiled : {{}}]
  BY <1>1, <1>2 DEF Arena
<1> HIDE DEF p
<1>4. pos <= m.commit
  BY <1>1 DEF Arena
<1>5. Arena(p)
  BY <1>1, <1>3, <1>4 DEF Arena
<1>6. Spans(p) /\ Apart(p)
  BY <1>1, <1>3 DEF Spans, Apart
<1>7. Sound(p) /\ p.len = pos /\ p.blocks = m.blocks
  BY <1>3, <1>5, <1>6 DEF Sound
<1> QED BY <1>7 DEF p
-----------------------------------------------------------------------------
IsVisits(b) == b.tag[1] = "visits"

(* During the pass only its own map is above the mark, and the table of    *)
(* interns has no reason to grow: LC_ILit("main") pushes nothing.          *)
InPass ==
  /\ mark \in Nat /\ BaseLen <= mark /\ mark <= mem.len
  /\ \A b \in mem.blocks : IsVisits(b) \/ b.to <= mark
  /\ ~HalfFull(table)

Names_ ==
  /\ "main" \in known /\ known \subseteq Names
  /\ addr \in [Names -> Nat]
  /\ \A n \in Names : addr[n] # Nowhere => n \in known
  /\ table.cap \in Nat

Inv == Sound(mem) /\ Names_ /\ (pc = "pass" => InPass)

LEMMA InternStep ==
  ASSUME Inv, NEW n \in Names, Intern(n), MemoryAssumption, UNCHANGED <<pc, mark>>,
         pc = "pass" => n = "main"
  PROVE  Inv' /\ \A k \in Names : addr[k] # Nowhere => addr'[k] = addr[k]
<1>1. Sound(mem) /\ Names_ /\ mem.spoiled = {}
  BY DEF Inv, Sound
<1>2. TableIsIntact
  BY <1>1 DEF TableIsIntact
<1> DEFINE cap2 == table.cap * 2
           grows == HalfFull(table)
           count == IF grows THEN Cardinality(known) ELSE table.len
           grown == IF grows THEN Keep(mem, cap2, Table(cap2), Tagged(mem, Table(table.cap))) ELSE mem
           m == IF n \in known THEN grown ELSE Keep(grown, TextSize[n], <<"name", n>>, {})
<1>a. InternSeeing(n, known)
  BY <1>2 DEF Intern
<1>b. /\ mem' = m
      /\ IF m.full THEN UNCHANGED <<table, known, addr>>
         ELSE /\ known' = known \cup {n}
              /\ table' = [cap |-> IF grows THEN cap2 ELSE table.cap,
                           len |-> IF n \in known THEN count ELSE count + 1]
              /\ addr' = IF n \in known THEN addr ELSE [addr EXCEPT ![n] = PushPos(grown)]
  BY <1>a DEF InternSeeing, Moved
<1> HIDE DEF m, grown, cap2, grows
<1>3. /\ mem' = m
      /\ IF m.full THEN UNCHANGED <<table, known, addr>>
         ELSE /\ known' = known \cup {n}
              /\ table'.cap = IF grows THEN cap2 ELSE table.cap
              /\ n \in known /\ ~grows => table'.len = table.len
              /\ addr' = IF n \in known THEN addr ELSE [addr EXCEPT ![n] = PushPos(grown)]
  BY <1>b
<1> USE DEF m, grown, cap2, grows
<1>4. cap2 \in Nat /\ TextSize[n] \in Nat
  BY <1>1 DEF Names_, MemoryAssumption
<1>5. Sound(grown) /\ mem.len <= grown.len
  <2>1. CASE grows
    BY <1>1, <1>4, <2>1, KeepFacts
  <2>2. CASE ~grows
    BY <1>1, <2>2 DEF Sound, Arena
  <2> QED BY <2>1, <2>2
<1> HIDE DEF grown, cap2
<1>6. Sound(m)
  BY <1>4, <1>5, KeepFacts
<1>7. PushPos(grown) \in Nat
  BY <1>5, PushFacts DEF MemoryAssumption
<1>8. Names_'
  <2>1. CASE m.full
    BY <1>1, <1>3, <2>1 DEF Names_
  <2>2. CASE ~m.full
    <3>1. table'.cap \in Nat
      BY <1>1, <1>3, <1>4, <2>2 DEF Names_
    <3> QED BY <1>1, <1>3, <1>7, <2>2, <3>1 DEF Names_, Nowhere
  <2> QED BY <2>1, <2>2
<1>9. \A k \in Names : addr[k] # Nowhere => addr'[k] = addr[k]
  BY <1>1, <1>3 DEF Names_
<1>10. pc' = "pass" => InPass'
  <2> SUFFICES ASSUME pc = "pass" PROVE InPass'
    OBVIOUS
  <2>1. InPass /\ n \in known /\ ~grows
    BY <1>1 DEF Inv, InPass, Names_
  <2>2. m = mem
    BY <2>1 DEF grown
  <2>3. mem' = mem /\ table'.len = table.len /\ table'.cap = table.cap
    <3>1. CASE m.full
      BY <1>3, <2>2, <3>1
    <3>2. CASE ~m.full
      <4>1. mem' = mem /\ table'.cap = table.cap /\ table'.len = table.len
        BY <1>3, <2>1, <2>2, <3>2
      <4> QED BY <2>1, <4>1 DEF InPass
    <3> QED BY <3>1, <3>2
  <2> QED BY <2>1, <2>3 DEF InPass, HalfFull
<1> QED BY <1>3, <1>6, <1>8, <1>9, <1>10 DEF Inv

(* A state that differs only in the arena, which is still sound and has    *)
(* the pass's room as before.                                              *)
LEMMA OthersStay ==
  ASSUME Inv, UNCHANGED <<table, known, addr>>
  PROVE  Names_' /\ \A k \in Names : addr[k] # Nowhere => addr'[k] = addr[k]
BY DEF Inv, Names_, Nowhere

LEMMA StepKeepsInv ==
  ASSUME Inv, Next, MemoryAssumption, RoomAtPass
  PROVE  Inv' /\ \A k \in Names : addr[k] # Nowhere => addr'[k] = addr[k]
<1> DEFINE goal == Inv' /\ \A k \in Names : addr[k] # Nowhere => addr'[k] = addr[k]
<1>0. Sound(mem) /\ Names_ /\ mem.len \in Nat /\ BaseLen \in Nat /\ BaseLen <= mem.len
  BY DEF Inv, Sound, Arena, MemoryAssumption
<1>1. ASSUME NEW s \in Sizes, Alloc(s) PROVE goal
  <2>1. s \in Nat /\ pc' # "pass" /\ mem' = Keep(mem, s, <<"kept", pushes>>, {})
    BY <1>1 DEF Alloc, MemoryAssumption
  <2>2. Sound(mem)'
    BY <1>0, <2>1, KeepFacts
  <2> QED BY <1>1, <2>1, <2>2, OthersStay DEF Alloc, Inv
<1>2. ASSUME NEW s \in Sizes, Walk(s) PROVE goal
  <2> DEFINE p == Push(mem, s)
  <2>1. s \in Nat /\ pc' # "pass" /\ mem' = IF p.full THEN p ELSE PopToPos(p, mem.len)
    BY <1>2 DEF Walk, MemoryAssumption
  <2>2. Sound(p) /\ mem.len <= p.len /\ p.blocks = mem.blocks
    BY <1>0, <2>1, PushFacts
  <2>3. \A b \in p.blocks : b.to <= mem.len
    BY <1>0, <2>2 DEF Sound, Spans
  <2> HIDE DEF p
  <2>4. Sound(PopToPos(p, mem.len))
    BY <1>0, <2>2, <2>3, PopNoneFacts
  <2>5. Sound(mem)'
    BY <2>1, <2>2, <2>4
  <2> QED BY <1>2, <2>1, <2>5, OthersStay DEF Walk, Inv
<1>3. ASSUME NEW n \in Names, InternName(n) PROVE goal
  BY <1>3, InternStep DEF InternName
<1>4. ASSUME BeginPass PROVE goal
  <2> DEFINE tag == <<"visits", VisitsSize>>
             b == [tag |-> tag, from |-> PushPos(mem), to |-> PushPos(mem) + VisitsSize]
  <2>1. VisitsSize \in Nat /\ mem' = Keep(mem, VisitsSize, tag, {}) /\ mark' = mem.len
    BY <1>4 DEF BeginPass, MemoryAssumption
  <2>2. /\ Sound(mem') /\ mem.len <= mem'.len
        /\ mem'.blocks \subseteq mem.blocks \cup {b}
    BY <1>0, <2>1, KeepFacts
  <2>3. IsVisits(b)
    BY DEF IsVisits
  <2>4. \A c \in mem.blocks : c.to <= mem.len
    BY <1>0 DEF Sound, Spans
  <2> HIDE DEF b
  <2>5. \A c \in mem'.blocks : IsVisits(c) \/ c.to <= mark'
    BY <2>1, <2>2, <2>3, <2>4
  <2>6. ~HalfFull(table) /\ table' = table
    BY <1>4 DEF BeginPass
  <2>7. InPass'
    BY <1>0, <2>1, <2>2, <2>5, <2>6 DEF InPass
  <2> QED BY <1>4, <2>2, <2>7, OthersStay DEF BeginPass, Inv
<1>5. ASSUME GrowVisits PROVE goal
  <2> DEFINE tag == <<"visits", VisitsSize * 2>>
             b == [tag |-> tag, from |-> PushPos(mem), to |-> PushPos(mem) + VisitsSize * 2]
  <2>1. VisitsSize * 2 \in Nat /\ mem' = Keep(mem, VisitsSize * 2, tag, Visits)
    BY <1>5 DEF GrowVisits, MemoryAssumption
  <2>2. /\ Sound(mem') /\ mem.len <= mem'.len
        /\ mem'.blocks \subseteq mem.blocks \cup {b}
    BY <1>0, <2>1, KeepFacts
  <2>3. IsVisits(b)
    BY DEF IsVisits
  <2> HIDE DEF b
  <2>4. InPass /\ mark' = mark /\ table' = table
    BY <1>5 DEF GrowVisits, Inv
  <2>5. \A c \in mem'.blocks : IsVisits(c) \/ c.to <= mark'
    BY <2>2, <2>3, <2>4 DEF InPass
  <2>6. mark' \in Nat /\ BaseLen <= mark' /\ mark' <= mem'.len
    <3>1. mem'.len \in Nat
      BY <2>2 DEF Sound, Arena
    <3> QED BY <1>0, <2>2, <2>4, <3>1 DEF InPass
  <2>7. InPass'
    BY <2>4, <2>5, <2>6 DEF InPass
  <2> QED BY <1>5, <2>2, <2>7, OthersStay DEF GrowVisits, Inv
<1>6. ASSUME CompareWithMain PROVE goal
  <2>1. "main" \in Names
    BY DEF MemoryAssumption
  <2> QED BY <1>6, <2>1, InternStep DEF CompareWithMain
<1>7. ASSUME EndPass PROVE goal
  <2>1. InPass /\ pc' = "run" /\ mem' = Drop(PopToPos(mem, mark), Visits)
    BY <1>7 DEF EndPass, Inv
  <2>2. \A b \in mem.blocks \ Visits : b.to <= mark
    BY <2>1 DEF InPass, IsVisits, Visits
  <2>3. mark \in Nat /\ BaseLen <= mark /\ mark <= mem.len
    BY <2>1 DEF InPass
  <2>4. Sound(mem)'
    BY <1>0, <2>1, <2>2, <2>3, PopFacts
  <2> QED BY <1>7, <2>1, <2>4, OthersStay DEF EndPass, Inv
<1> QED BY <1>1, <1>2, <1>3, <1>4, <1>5, <1>6, <1>7 DEF Next

LEMMA InitHasInv ==
  ASSUME MemoryAssumption, Init
  PROVE  Inv
<1> DEFINE m1 == Keep(Start, InitCap, Table(InitCap), {})
<1>1. /\ Page \in Nat /\ BaseLen \in Nat /\ Reserve \in Nat
      /\ BaseLen <= Page /\ Page <= Reserve
  BY DEF MemoryAssumption
<1>2. Sound(Start)
  <2>1. Arena(Start)
    BY <1>1 DEF Arena, Start
  <2>2. Spans(Start) /\ Apart(Start) /\ Start.spoiled = {}
    BY DEF Spans, Apart, Start
  <2> QED BY <2>1, <2>2 DEF Sound
<1>3. InitCap \in Nat /\ "main" \in Names /\ TextSize["main"] \in Nat
  BY DEF MemoryAssumption
<1>4. Sound(m1)
  BY <1>2, <1>3, KeepFacts
<1>5. PushPos(m1) \in Nat
  BY <1>4, PushFacts DEF MemoryAssumption
<1>6. /\ mem = Keep(m1, TextSize["main"], <<"name", "main">>, {})
      /\ table = [cap |-> InitCap, len |-> 1] /\ known = {"main"} /\ pc = "run"
      /\ addr = [n \in Names |-> IF n = "main" THEN PushPos(m1) ELSE Nowhere]
  BY DEF Init
<1> HIDE DEF m1
<1>7. Sound(mem)
  BY <1>3, <1>4, <1>6, KeepFacts
<1>8. Names_
  BY <1>1, <1>3, <1>5, <1>6 DEF Names_, Nowhere
<1> QED BY <1>6, <1>7, <1>8 DEF Inv

(* The inductive invariant and what every step keeps, for a pass that is   *)
(* called when the table of interns has room.                              *)
LEMMA Invariance ==
  ASSUME RoomAtPass = TRUE
  PROVE  Spec => [](Inv) /\ InternsAreStable
<1> USE MemoryAssumption
<1>1. Init => Inv
  BY InitHasInv
<1>2. Inv /\ [Next]_vars => Inv'
  <2>1. ASSUME Inv, UNCHANGED vars PROVE Inv'
    BY <2>1 DEF vars, Inv, Names_, InPass, IsVisits, Nowhere, HalfFull
  <2> QED BY <2>1, StepKeepsInv
<1>3. Inv /\ [Next]_vars => [\A n \in Names : addr[n] # Nowhere => addr'[n] = addr[n]]_vars
  BY StepKeepsInv
<1> QED BY <1>1, <1>2, <1>3, PTL DEF Spec, InternsAreStable

(* What is held lies below the length of the arena, and apart: a push, a   *)
(* commit, the growth of the table of interns and the pop at the end of    *)
(* the pass never take a block that somebody has a pointer to.             *)
THEOREM HeldBlocksAreAllocated ==
  ASSUME RoomAtPass = TRUE
  PROVE  Spec => []BlocksAreAllocated
<1>1. Inv => BlocksAreAllocated
  BY DEF Inv, Sound, Spans, Apart, BlocksAreAllocated
<1> QED BY <1>1, Invariance, PTL

(* Nor is anything pushed over one.                                        *)
THEOREM HeldBlocksAreIntact ==
  ASSUME RoomAtPass = TRUE
  PROVE  Spec => []BlocksAreIntact
<1>1. Inv => BlocksAreIntact
  BY DEF Inv, Sound, BlocksAreIntact
<1> QED BY <1>1, Invariance, PTL

(* LC_InternStrLen answers with the same address every time.               *)
THEOREM InternsKeepTheirAddress ==
  ASSUME RoomAtPass = TRUE
  PROVE  Spec => InternsAreStable
BY Invariance, PTL
-----------------------------------------------------------------------------
(* The arena alone, whatever is held in it and whatever has been pushed    *)
(* over: its length stays within what is committed, its commits within     *)
(* what is reserved, and a failure means that the reservation is full.     *)

LEMMA PushKeepsArena ==
  ASSUME NEW m, Arena(m), NEW size \in Nat, MemoryAssumption
  PROVE  Arena(Push(m, size))
<1> DEFINE from == PushPos(m)
           need == from + size - m.len
           commit == IF from + size > m.commit THEN Committed(m, need) ELSE m.commit
           over == m.spoiled \cup Overlapping(m.blocks, from, from + size)
           f == [m EXCEPT !.len = from + size, !.commit = commit, !.spoiled = over]
<1>1. m.len \in Nat /\ m.commit \in Nat /\ BaseLen \in Nat /\ Reserve \in Nat
  BY DEF Arena, MemoryAssumption
<1>2. from \in Nat /\ m.len <= from
  BY <1>1, AlignUpBounds DEF PushPos, MemoryAssumption
<1>3. need \in Nat
  BY <1>1, <1>2
<1>4. /\ Committed(m, need) \in Nat /\ Committed(m, need) <= Reserve
      /\ m.commit <= Committed(m, need)
      /\ Committed(m, need) = Reserve \/ m.len + need <= Committed(m, need)
  BY <1>3, CommitSuffices
<1>5. /\ commit \in Nat /\ commit <= Reserve
      /\ from + size > commit => from + size > Reserve
  BY <1>1, <1>2, <1>3, <1>4 DEF Arena
<1>6. Push(m, size) = IF m.full THEN m
                      ELSE IF from + size > commit THEN Fail(m, from + size) ELSE f
  BY DEF Push
<1> HIDE DEF commit, from, need, over
<1>7. ASSUME from + size > commit PROVE Arena(Fail(m, from + size))
  <2>1. from + size \in Nat /\ from + size > Reserve
    BY <1>2, <1>5, <1>7
  <2> QED BY <2>1 DEF Fail, Arena
<1>8. ASSUME ~(from + size > commit) PROVE Arena(f)
  <2>1. from + size \in Nat /\ from + size <= commit /\ BaseLen <= from + size
    BY <1>1, <1>2, <1>5, <1>8 DEF Arena
  <2> QED BY <1>5, <2>1 DEF Arena
<1> QED BY <1>6, <1>7, <1>8

LEMMA KeepKeepsArena ==
  ASSUME NEW m, Arena(m), NEW size \in Nat, NEW tag, NEW old, MemoryAssumption
  PROVE  Arena(Keep(m, size, tag, old))
<1> DEFINE p == Push(m, size)
           b == [tag |-> tag, from |-> PushPos(m), to |-> PushPos(m) + size]
<1>1. Arena(p)
  BY PushKeepsArena
<1>2. Keep(m, size, tag, old) =
        IF p.full THEN p ELSE [p EXCEPT !.spoiled = @ \ old, !.blocks = (@ \ old) \cup {b}]
  BY DEF Keep
<1> HIDE DEF p, b
<1> QED BY <1>1, <1>2 DEF Arena

LEMMA PopKeepsArena ==
  ASSUME NEW m, Arena(m), NEW pos \in Nat, MemoryAssumption
  PROVE  Arena(PopToPos(m, pos))
<1> DEFINE to == IF pos < BaseLen THEN BaseLen ELSE IF pos > m.len THEN m.len ELSE pos
<1>1. to \in Nat /\ BaseLen <= to /\ to <= m.len
  BY DEF Arena, MemoryAssumption
<1>2. to <= m.commit
  BY <1>1 DEF Arena
<1>3. PopToPos(m, pos) = [m EXCEPT !.len = to]
  BY DEF PopToPos
<1> HIDE DEF to
<1> QED BY <1>1, <1>2, <1>3 DEF Arena

ArenaInv == Arena(mem) /\ table.cap \in Nat /\ mark \in Nat

(* Also when the table has been pushed over, and the lookup reads whatever *)
(* is there.                                                               *)
LEMMA InternKeepsArena ==
  ASSUME ArenaInv, NEW n \in Names, Intern(n), mark' = mark, MemoryAssumption
  PROVE  ArenaInv'
<1>1. PICK seen : InternSeeing(n, seen)
  BY DEF Intern
<1> DEFINE cap2 == table.cap * 2
           grows == HalfFull(table)
           found == IF grows THEN Moved(seen) ELSE seen
           count == IF grows THEN Cardinality(found) ELSE table.len
           grown == IF grows THEN Keep(mem, cap2, Table(cap2), Tagged(mem, Table(table.cap))) ELSE mem
           m == IF n \in found THEN grown ELSE Keep(grown, TextSize[n], <<"name", n>>, {})
<1>2. /\ mem' = m
      /\ IF m.full THEN UNCHANGED <<table, known, addr>>
         ELSE table' = [cap |-> IF grows THEN cap2 ELSE table.cap,
                        len |-> IF n \in found THEN count ELSE count + 1]
  BY <1>1 DEF InternSeeing
<1>3. cap2 \in Nat /\ TextSize[n] \in Nat /\ Arena(mem)
  BY DEF ArenaInv, MemoryAssumption
<1>4. Arena(grown)
  BY <1>3, KeepKeepsArena
<1>5. Arena(m)
  <2> HIDE DEF grown, found
  <2> QED BY <1>3, <1>4, KeepKeepsArena
<1> HIDE DEF m, grows, count, found, cap2
<1>6. table'.cap \in Nat
  BY <1>2, <1>3 DEF ArenaInv
<1> QED BY <1>2, <1>5, <1>6 DEF ArenaInv

LEMMA StepKeepsArena ==
  ASSUME ArenaInv, Next, MemoryAssumption
  PROVE  ArenaInv'
<1>0. Arena(mem) /\ mem.len \in Nat
  BY DEF ArenaInv, Arena
<1>1. ASSUME NEW s \in Sizes, Alloc(s) PROVE ArenaInv'
  <2>1. s \in Nat
    BY DEF MemoryAssumption
  <2> QED BY <1>0, <1>1, <2>1, KeepKeepsArena DEF Alloc, ArenaInv
<1>2. ASSUME NEW s \in Sizes, Walk(s) PROVE ArenaInv'
  <2>1. s \in Nat
    BY DEF MemoryAssumption
  <2>2. Arena(Push(mem, s))
    BY <1>0, <2>1, PushKeepsArena
  <2>3. Arena(PopToPos(Push(mem, s), mem.len))
    BY <1>0, <2>2, PopKeepsArena
  <2>4. Arena(mem') /\ UNCHANGED <<table, mark>>
    BY <1>2, <2>2, <2>3 DEF Walk
  <2> QED BY <2>4 DEF ArenaInv
<1>3. ASSUME NEW n \in Names, InternName(n) PROVE ArenaInv'
  BY <1>3, InternKeepsArena DEF InternName
<1>4. ASSUME BeginPass PROVE ArenaInv'
  <2>1. VisitsSize \in Nat
    BY DEF MemoryAssumption
  <2> QED BY <1>0, <1>4, <2>1, KeepKeepsArena DEF BeginPass, ArenaInv
<1>5. ASSUME GrowVisits PROVE ArenaInv'
  <2>1. VisitsSize * 2 \in Nat
    BY DEF MemoryAssumption
  <2> QED BY <1>0, <1>5, <2>1, KeepKeepsArena DEF GrowVisits, ArenaInv
<1>6. ASSUME CompareWithMain PROVE ArenaInv'
  BY <1>6, InternKeepsArena DEF CompareWithMain, MemoryAssumption
<1>7. ASSUME EndPass PROVE ArenaInv'
  <2> DEFINE p == PopToPos(mem, mark)
             q == [p EXCEPT !.blocks = @ \ Visits]
  <2>1. Arena(p)
    BY <1>0, PopKeepsArena DEF ArenaInv
  <2>2. Drop(p, Visits) = [q EXCEPT !.spoiled = p.spoiled \ Visits]
    BY DEF Drop
  <2> HIDE DEF p
  <2>3. Arena(q)
    BY <2>1 DEF Arena
  <2> HIDE DEF q
  <2>4. Arena(Drop(p, Visits))
    BY <2>2, <2>3 DEF Arena
  <2> QED BY <1>7, <2>4 DEF EndPass, ArenaInv, p
<1> QED BY <1>1, <1>2, <1>3, <1>4, <1>5, <1>6, <1>7 DEF Next

LEMMA InitHasArenaInv ==
  ASSUME MemoryAssumption, Init
  PROVE  ArenaInv
<1> DEFINE m1 == Keep(Start, InitCap, Table(InitCap), {})
<1>1. Arena(Start)
  BY DEF Arena, Start, MemoryAssumption
<1>2. InitCap \in Nat /\ TextSize["main"] \in Nat
  BY DEF MemoryAssumption
<1>3. Arena(m1)
  BY <1>1, <1>2, KeepKeepsArena
<1> HIDE DEF m1
<1>4. Arena(Keep(m1, TextSize["main"], <<"name", "main">>, {}))
  BY <1>2, <1>3, KeepKeepsArena
<1> QED BY <1>2, <1>4 DEF Init, ArenaInv, m1

(* The commits suffice: LC_ASSERT in LC__PushSize fails only for a request *)
(* that the whole reservation cannot hold, also in the runs of the pass    *)
(* that leave the table of interns above what is pushed next.              *)
THEOREM CommitsSuffice == Spec => []FailsOnlyWhenFull
<1> USE MemoryAssumption
<1>1. Init => ArenaInv
  BY InitHasArenaInv
<1>2. ArenaInv /\ [Next]_vars => ArenaInv'
  <2>1. ASSUME ArenaInv, UNCHANGED vars PROVE ArenaInv'
    BY <2>1 DEF vars, ArenaInv, Arena
  <2> QED BY <2>1, StepKeepsArena
<1>3. ArenaInv => FailsOnlyWhenFull
  BY DEF ArenaInv, Arena, FailsOnlyWhenFull
<1> QED BY <1>1, <1>2, <1>3, PTL DEF Spec
=============================================================================
