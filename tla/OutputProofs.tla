---------------------------- MODULE OutputProofs -----------------------------
(***************************************************************************)
(* Output for every set of programs: that printed names are distinct, that *)
(* what is printed is complete, and that exactly the unused locals are     *)
(* reported.  The walk is that of a garbage collector, and so is the       *)
(* argument: what has been counted and is not on the stack has had all it  *)
(* mentions counted.                                                       *)
(***************************************************************************)
EXTENDS Output, TLAPS

Nodes == Decls \cup Locals
Frames == [of : Nodes, next : Nat \ {0}]

(* Names.                                                                  *)
Entered == \A d \in Decls : d < at => cname[d] = CName(d) /\ cname[d] \in DOMAIN owner
Apart ==
  \A d, e \in Decls : d < at /\ e < at /\ d # e /\ cname[d] = cname[e] =>
    "foreign" \in {D(d).note, D(e).note}

Naming ==
  /\ DOMAIN cname = Decls
  /\ pc = "names" => /\ stack = <<>> /\ \A n \in Nodes : count[n] = 0
                     /\ ~errors => Entered /\ Apart
  /\ pc \in {"count", "recount"} => ~errors /\ \A d \in Decls : cname[d] = CName(d)
  /\ NamesAreDistinct

(* The walk.                                                               *)
Typed ==
  /\ prog \in Programs /\ pc \in {"names", "count", "recount", "done"}
  /\ at \in 1..(Len(prog.decls) + 1)
  /\ stack \in Seq(Frames) /\ count \in [Nodes -> Nat]
  /\ removed \subseteq Decls
  /\ pc \in {"names", "count"} => removed = {}
  /\ pc # "done" => unused = {}

(* A call of WalkAndCountDeclRefs has mention i of n before it.            *)
Waits(n, i) == \E k \in DOMAIN stack : stack[k].of = n /\ stack[k].next <= i

Begun(n) ==
  \/ count[n] # 0
  \/ n \in Decls /\ D(n).pkg = First /\ (pc = "count" => n < at)
  \/ n \in removed /\ n < at

Counted(n) ==
  \A i \in DOMAIN Refs(n) :
    Refs(n)[i].by = "name" => count[Refs(n)[i].to] # 0 \/ Waits(n, i)

Walked == pc \in {"count", "recount"} => \A n \in Nodes : Begun(n) => Counted(n)

MentionsNode(m, n) == \E i \in DOMAIN Refs(m) : Refs(m)[i].to = n
CountedAreMentioned == \A n \in Nodes : count[n] # 0 => \E m \in Nodes : MentionsNode(m, n)

(* The provisos: what is called main in C is of the first package or       *)
(* mentions nothing; and no mention is of a type of another package.       *)
MainsAreFirst ==
  \A p \in Programs : \A d \in DOMAIN p.decls :
    \/ p.decls[d].pkg = First \/ p.decls[d].refs = <<>>
    \/ p.decls[d].name # <<"main">> /\ p.decls[d].as # <<"main">>
NoImportTypes ==
  \A p \in Programs : \A s \in {p.decls, p.locals} :
    \A d \in DOMAIN s : \A i \in DOMAIN s[d].refs : s[d].refs[i].by = "name"

Covered ==
  pc = "recount" =>
    \A d \in Decls : count[d] # 0 \/ d \in removed \/ D(d).pkg = First \/ Refs(d) = <<>>
Complete ==
  pc \in {"recount", "done"} =>
    \A d \in Decls \ removed : \A i \in DOMAIN Refs(d) :
      Refs(d)[i].by = "name" => Refs(d)[i].to \notin removed

(* Whatever the first walk comes across is reached from the first package; *)
(* a local is reached when its procedure is.                               *)
Carrier(n) == IF n \in Decls THEN n ELSE L(n).home
Rooted(n) == Carrier(n) \in Roots \/ Reaches(Carrier(n))
Reached ==
  /\ pc = "count" => /\ \A k \in DOMAIN stack : Rooted(stack[k].of)
                     /\ \A n \in Nodes : count[n] # 0 => IF n \in Decls THEN Reaches(n) ELSE Rooted(n)
  /\ pc \in {"recount", "done"} /\ ~errors => \A d \in Kept : cname[d] = <<"main">> \/ Reaches(d)

Inv == Typed /\ Naming /\ Walked /\ CountedAreMentioned
Closed == MainsAreFirst => Covered /\ Complete /\ UnusedIsExact

---------------------------------------------------------------------------
(* Programs and stacks.                                                    *)

LEMMA Shifted ==
  ASSUME NEW a \in Nat, NEW b \in Nat, NEW S, S = {a + i : i \in 1..b}
  PROVE  /\ (1..a) \cup S = 1..(a + b) /\ S = (1..(a + b)) \ (1..a)
         /\ \A l \in S : l - a \in 1..b
<1>1. ASSUME NEW l \in Nat, a < l, l <= a + b
      PROVE  l \in S
  <2>1. l - a \in 1..b /\ l = a + (l - a)
    BY <1>1
  <2> QED BY <2>1
<1>2. \A i \in 1..b : a + i \in Nat /\ a < a + i /\ a + i <= a + b /\ (a + i) - a = i
  OBVIOUS
<1>3. \A l \in S : l \in Nat /\ a < l /\ l <= a + b /\ l - a \in 1..b
  BY <1>2
<1>4. ASSUME NEW l
      PROVE  l \in S <=> l \in 1..(a + b) /\ l \notin 1..a
  <2>1. l \in 1..(a + b) => l \in Nat /\ l <= a + b
    OBVIOUS
  <2>2. l \in 1..(a + b) /\ l \notin 1..a => a < l
    OBVIOUS
  <2>3. l \in S => l \in 1..(a + b) /\ l \notin 1..a
    BY <1>3
  <2> QED BY <1>1, <2>1, <2>2, <2>3
<1>5. 1..a \subseteq 1..(a + b)
  OBVIOUS
<1> QED BY <1>3, <1>4, <1>5

LEMMA ProgramFacts ==
  ASSUME prog \in Programs
  PROVE  /\ Len(prog.decls) \in Nat /\ Len(prog.locals) \in Nat
         /\ Decls = 1..Len(prog.decls)
         /\ Nodes = 1..(Len(prog.decls) + Len(prog.locals))
         /\ Locals = Nodes \ Decls
         /\ \A d \in Decls : D(d) \in Declaration
         /\ \A l \in Locals : /\ L(l) \in Local /\ L(l).home \in Decls
                              /\ \A i \in DOMAIN L(l).refs : MentionsNode(L(l).home, L(l).refs[i].to)
         /\ \A n \in Nodes : /\ Refs(n) \in Seq(Mention)
                             /\ \A i \in DOMAIN Refs(n) : Refs(n)[i].to \in Nodes
         /\ \A n \in Nodes : \A i \in DOMAIN Refs(n) :
              Refs(n)[i].by # "name" => Refs(n)[i].to \in Decls
<1>1. IsProgram(prog)
  BY OutputAssumption
<1>2. prog.decls \in Seq(Declaration) /\ prog.locals \in Seq(Local)
  BY <1>1 DEF IsProgram
<1>3. /\ Len(prog.decls) \in Nat /\ Len(prog.locals) \in Nat
      /\ Decls = 1..Len(prog.decls) /\ DOMAIN prog.locals = 1..Len(prog.locals)
  BY <1>2 DEF Decls
<1>4. Locals = {Len(prog.decls) + i : i \in 1..Len(prog.locals)}
  BY <1>3 DEF Locals
<1>5. Nodes = 1..(Len(prog.decls) + Len(prog.locals)) /\ Locals = Nodes \ Decls
  <2> DEFINE a == Len(prog.decls)
             b == Len(prog.locals)
  <2>1. a \in Nat /\ b \in Nat /\ Locals = {a + i : i \in 1..b} /\ Decls = 1..a
    BY <1>3, <1>4
  <2> HIDE DEF a, b
  <2>2. (1..a) \cup Locals = 1..(a + b) /\ Locals = (1..(a + b)) \ (1..a)
    BY <2>1, Shifted
  <2>3. Nodes = 1..(a + b) /\ Locals = Nodes \ Decls
    BY <2>1, <2>2 DEF Nodes
  <2> QED BY <2>3 DEF a, b
<1>6. \A d \in Decls : D(d) \in Declaration /\ Mentions(D(d).refs, prog)
  BY <1>1, <1>2, <1>3 DEF IsProgram, D, Decls
<1>7. \A l \in Locals : l - Len(prog.decls) \in DOMAIN prog.locals
  <2>1. \A l \in Locals : l - Len(prog.decls) \in 1..Len(prog.locals)
    BY <1>3, <1>4, Shifted
  <2> QED BY <1>3, <2>1
<1>8. ASSUME NEW l \in Locals
      PROVE  /\ L(l) \in Local /\ Mentions(L(l).refs, prog) /\ L(l).home \in Decls
             /\ \A k \in DOMAIN L(l).refs : \E j \in DOMAIN prog.decls[L(l).home].refs :
                  prog.decls[L(l).home].refs[j] = L(l).refs[k]
  BY <1>1, <1>2, <1>7 DEF IsProgram, L, Decls
<1>9. \A l \in Locals : \A i \in DOMAIN L(l).refs : MentionsNode(L(l).home, L(l).refs[i].to)
  BY <1>8 DEF MentionsNode, Refs, D
<1>10. ASSUME NEW n \in Nodes
       PROVE  Refs(n) \in Seq(Mention) /\ Mentions(Refs(n), prog)
  <2>1. CASE n \in Decls
    BY <1>6, <2>1 DEF Refs, Declaration
  <2>2. CASE n \notin Decls
    <3>1. n \in Locals
      BY <1>5, <2>2
    <3> QED BY <1>8, <2>2, <3>1 DEF Refs, Local
  <2> QED BY <2>1, <2>2
<1>11. ASSUME NEW n \in Nodes, NEW i \in DOMAIN Refs(n)
       PROVE  /\ Refs(n)[i].to \in Nodes
              /\ Refs(n)[i].by # "name" => Refs(n)[i].to \in Decls
  <2>1. Refs(n)[i].to \in IF Refs(n)[i].by = "name" THEN Nodes ELSE Decls
    BY <1>5, <1>10, <1>11 DEF Mentions, Decls
  <2>2. Decls \subseteq Nodes
    BY DEF Nodes
  <2> QED BY <2>1, <2>2
<1> QED BY <1>3, <1>5, <1>6, <1>8, <1>9, <1>10, <1>11

LEMMA SameProgram ==
  ASSUME UNCHANGED prog
  PROVE  /\ Decls' = Decls /\ Locals' = Locals /\ Nodes' = Nodes /\ Frames' = Frames
         /\ \A d : D(d)' = D(d) /\ CName(d)' = CName(d) /\ L(d)' = L(d) /\ Refs(d)' = Refs(d)
         /\ \A m, n : MentionsNode(m, n)' = MentionsNode(m, n)
BY DEF Decls, Locals, Nodes, Frames, D, L, CName, IsMain, Refs, MentionsNode

LEMMA StackFacts ==
  ASSUME stack \in Seq(Frames), stack # <<>>
  PROVE  /\ Len(stack) \in Nat \ {0} /\ DOMAIN stack = 1..Len(stack)
         /\ Top \in Frames /\ Top.of \in Nodes /\ Top.next \in Nat \ {0}
         /\ Advanced \in Seq(Frames) /\ Len(Advanced) = Len(stack)
         /\ \A k \in DOMAIN stack : /\ Advanced[k].of = stack[k].of
                                    /\ Advanced[k].next = stack[k].next + (IF k = Len(stack) THEN 1 ELSE 0)
<1>1. /\ Len(stack) \in Nat \ {0} /\ DOMAIN stack = 1..Len(stack)
  OBVIOUS
<1>2. Top \in Frames
  BY <1>1 DEF Top
<1>9. Top.of \in Nodes /\ Top.next \in Nat \ {0}
  BY <1>2 DEF Frames
<1>3. [Top EXCEPT !.next = @ + 1] \in Frames
  BY <1>2, <1>9 DEF Frames
<1>4. Advanced = [stack EXCEPT ![Len(stack)] = [Top EXCEPT !.next = @ + 1]]
  BY DEF Advanced, Top
<1>5. Advanced \in Seq(Frames) /\ Len(Advanced) = Len(stack)
  BY <1>1, <1>3, <1>4
<1>6. \A k \in DOMAIN stack : stack[k] \in Frames /\ stack[k].next \in Nat
  <2>1. \A k \in DOMAIN stack : stack[k] \in Frames
    BY <1>1
  <2> QED BY <2>1 DEF Frames
<1>7. \A k \in DOMAIN stack : Advanced[k] = IF k = Len(stack) THEN [Top EXCEPT !.next = @ + 1] ELSE stack[k]
  BY <1>1, <1>4
<1>8. \A k \in DOMAIN stack : /\ Advanced[k].of = stack[k].of
                             /\ Advanced[k].next = stack[k].next + (IF k = Len(stack) THEN 1 ELSE 0)
  BY <1>1, <1>2, <1>9, <1>6, <1>7 DEF Top, Frames
<1> QED BY <1>1, <1>2, <1>9, <1>5, <1>8

---------------------------------------------------------------------------
(* Names.                                                                  *)

LEMMA InitInv == Init => Inv /\ Closed
<1> SUFFICES ASSUME Init PROVE Inv /\ Closed
  OBVIOUS
<1>1. /\ prog \in Programs /\ pc = "names" /\ at = 1 /\ stack = <<>> /\ removed = {} /\ unused = {}
      /\ cname = [d \in Decls |-> <<>>] /\ count = [n \in Nodes |-> 0]
  BY DEF Init, Nodes
<1>2. \A d \in Decls : d \in Nat /\ ~(d < 1)
  BY <1>1, ProgramFacts
<1>3. Typed
  BY <1>1, ProgramFacts DEF Typed
<1>4. Naming
  BY <1>1, <1>2 DEF Naming, Entered, Apart, NamesAreDistinct
<1>5. Walked /\ CountedAreMentioned /\ Closed
  BY <1>1 DEF Walked, CountedAreMentioned, Closed, Covered, Complete, UnusedIsExact
<1> QED BY <1>3, <1>4, <1>5 DEF Inv

LEMMA PutGlobalDeclStep ==
  ASSUME Inv, Closed, PutGlobalDecl
  PROVE  Inv' /\ Closed'
<1>1. /\ pc = "names" /\ at \in Decls /\ at' = at + 1
      /\ UNCHANGED <<prog, pc, stack, count, removed, unused>>
  BY DEF PutGlobalDecl
<1>2. /\ Decls' = Decls /\ Locals' = Locals /\ Nodes' = Nodes
      /\ Frames' = Frames /\ \A d \in Decls : D(d)' = D(d) /\ CName(d)' = CName(d)
  BY <1>1, SameProgram
<1>3. Typed'
  <2>1. prog \in Programs /\ at' \in 1..(Len(prog.decls) + 1)
    BY <1>1, ProgramFacts DEF Inv, Typed
  <2> QED BY <1>1, <1>2, <2>1 DEF Inv, Typed
<1>4. /\ DOMAIN cname' = Decls
      /\ ~errors' => /\ ~errors /\ cname' = [cname EXCEPT ![at] = CName(at)]
                     /\ ~Conflict(at) /\ DOMAIN owner' = DOMAIN owner \cup {CName(at)}
  BY <1>1 DEF PutGlobalDecl, Inv, Naming
<1>5. ASSUME ~errors'
      PROVE  Entered' /\ Apart'
  <2>1. Entered /\ Apart
    BY <1>1, <1>4, <1>5 DEF Inv, Naming
  <2>2. \A d \in Decls : d < at' <=> d < at \/ d = at
    BY <1>1, ProgramFacts DEF Inv, Typed
  <2>3. \A d \in Decls : cname'[d] = IF d = at THEN CName(at) ELSE cname[d]
    BY <1>4, <1>5 DEF Inv, Naming
  <2>4. Entered'
    BY <1>2, <1>4, <1>5, <2>1, <2>2, <2>3 DEF Entered
  <2>5. \A d \in Decls : d < at /\ cname[d] = CName(at) => D(at).note = "foreign"
    BY <1>4, <1>5, <2>1 DEF Entered, Conflict
  <2>6. ASSUME NEW d \in Decls, NEW e \in Decls, d < at', e < at', d # e, cname'[d] = cname'[e]
        PROVE  "foreign" \in {D(d).note, D(e).note}
    BY <1>1, <2>1, <2>2, <2>3, <2>5, <2>6, ProgramFacts DEF Apart, Inv, Typed
  <2>7. Apart'
    BY <1>2, <2>6 DEF Apart
  <2> QED BY <2>4, <2>7
<1>6. Naming'
  BY <1>1, <1>2, <1>4, <1>5 DEF Naming, NamesAreDistinct, Inv
<1>7. Walked' /\ CountedAreMentioned'
  BY <1>1, <1>2 DEF Inv, Naming, Walked, CountedAreMentioned
<1>8. Closed'
  BY <1>1 DEF Closed, Covered, Complete, UnusedIsExact
<1> QED BY <1>3, <1>6, <1>7, <1>8 DEF Inv

LEMMA StartPassStep ==
  ASSUME Inv, Closed, StartPass
  PROVE  Inv' /\ Closed'
<1>1. /\ pc = "names" /\ at \notin Decls /\ pc' = (IF errors THEN "done" ELSE "count") /\ at' = 1
      /\ UNCHANGED <<prog, cname, owner, errors, stack, count, removed, unused>>
  BY DEF StartPass
<1>2. /\ Decls' = Decls /\ Locals' = Locals /\ Nodes' = Nodes
      /\ Frames' = Frames /\ \A d \in Decls : D(d)' = D(d) /\ CName(d)' = CName(d)
  BY <1>1, SameProgram
<1>3. Typed'
  <2>1. prog \in Programs /\ at' \in 1..(Len(prog.decls) + 1)
    BY <1>1, ProgramFacts DEF Inv, Typed
  <2> QED BY <1>1, <1>2, <2>1 DEF Inv, Typed
<1>4. \A d \in Decls : d < at /\ d \in Nat /\ ~(d < 1)
  BY <1>1, ProgramFacts DEF Inv, Typed
<1>5. Naming'
  BY <1>1, <1>2, <1>4 DEF Inv, Naming, NamesAreDistinct, Entered, Apart
<1>6. \A n \in Nodes : count[n] = 0 /\ removed = {} /\ unused = {} /\ stack = <<>>
  BY <1>1 DEF Inv, Naming, Typed
<1>7. Walked'
  BY <1>1, <1>2, <1>4, <1>6 DEF Walked, Begun
<1>8. CountedAreMentioned'
  BY <1>1, <1>2, <1>6 DEF CountedAreMentioned
<1>9. Closed'
  BY <1>1, <1>2, <1>6 DEF Closed, Covered, Complete, UnusedIsExact, Inv, Typed
<1> QED BY <1>3, <1>5, <1>7, <1>8, <1>9 DEF Inv
---------------------------------------------------------------------------
(* The walk.  A step of it counts more, and moves to another stack.        *)

Within ==
  /\ pc \in {"count", "recount"}
  /\ UNCHANGED <<prog, pc, cname, owner, errors, removed, unused>>
  /\ stack' \in Seq(Frames) /\ count' \in [Nodes -> Nat]
  /\ at' \in 1..(Len(prog.decls) + 1)
  /\ \A n \in Nodes : count[n] # 0 => count'[n] # 0
  /\ \A n \in Nodes : count'[n] # 0 /\ count[n] = 0 => \E m \in Nodes : MentionsNode(m, n)

LEMMA WithinStep ==
  ASSUME Inv, Closed, Within,
         ASSUME NEW n \in Nodes, Begun(n)'
         PROVE  Counted(n)'
  PROVE  Inv' /\ Closed'
<1>1. /\ pc \in {"count", "recount"} /\ UNCHANGED <<prog, pc, cname, owner, errors, removed, unused>>
      /\ stack' \in Seq(Frames) /\ count' \in [Nodes -> Nat] /\ at' \in 1..(Len(prog.decls) + 1)
  BY DEF Within
<1>2. /\ Decls' = Decls /\ Locals' = Locals /\ Nodes' = Nodes
      /\ Frames' = Frames /\ \A d \in Decls : D(d)' = D(d) /\ CName(d)' = CName(d) /\ Refs(d)' = Refs(d)
  BY <1>1, SameProgram
<1>3. Typed'
  BY <1>1, <1>2 DEF Inv, Typed
<1>4. Naming'
  BY <1>1, <1>2 DEF Inv, Naming, NamesAreDistinct
<1>5. Walked'
  BY <1>2 DEF Walked
<1>6. CountedAreMentioned'
  BY <1>1, <1>2, SameProgram DEF Within, Inv, CountedAreMentioned
<1>7. Closed'
  <2>1. MainsAreFirst => Covered'
    <3>1. ASSUME MainsAreFirst, pc = "recount", NEW d \in Decls
          PROVE  count'[d] # 0 \/ d \in removed \/ D(d).pkg = First \/ Refs(d) = <<>>
      BY <3>1 DEF Closed, Covered, Within, Nodes
    <3> QED BY <1>1, <1>2, <3>1 DEF Covered
  <2>2. MainsAreFirst => Complete'
    BY <1>1, <1>2 DEF Closed, Complete
  <2>3. UnusedIsExact'
    BY <1>1 DEF UnusedIsExact
  <2> QED BY <2>1, <2>2, <2>3 DEF Closed
<1> QED BY <1>3, <1>4, <1>5, <1>6, <1>7 DEF Inv

(* What was counted stays counted when every call that has a mention       *)
(* before it keeps it, or the mention is counted now.                      *)
LEMMA StillCounted ==
  ASSUME Inv, Within, NEW n \in Nodes, Counted(n),
         \A i \in DOMAIN Refs(n) :
           Refs(n)[i].by = "name" /\ Waits(n, i) => count'[Refs(n)[i].to] # 0 \/ Waits(n, i)'
  PROVE  Counted(n)'
<1>1. prog \in Programs /\ UNCHANGED prog
  BY DEF Inv, Typed, Within
<1>2. Refs(n)' = Refs(n)
  BY <1>1, SameProgram
<1>3. \A i \in DOMAIN Refs(n) : Refs(n)[i].to \in Nodes
  BY <1>1, ProgramFacts
<1>4. \A i \in DOMAIN Refs(n) : Refs(n)[i].by = "name" => count'[Refs(n)[i].to] # 0 \/ Waits(n, i)'
  BY <1>3 DEF Counted, Within
<1> QED BY <1>2, <1>4 DEF Counted

(* A call that has just begun has all mentions before it.                  *)
LEMMA NewIsCounted ==
  ASSUME Inv, Within, NEW n \in Nodes, \E k \in DOMAIN stack' : stack'[k] = Frame(n)
  PROVE  Counted(n)'
<1>1. prog \in Programs /\ UNCHANGED prog
  BY DEF Inv, Typed, Within
<1>2. Refs(n)' = Refs(n) /\ Refs(n) \in Seq(Mention)
  BY <1>1, SameProgram, ProgramFacts
<1>3. \A i \in DOMAIN Refs(n) : 1 <= i
  BY <1>2
<1>4. PICK k \in DOMAIN stack' : stack'[k] = Frame(n)
  OBVIOUS
<1>5. stack'[k].of = n /\ stack'[k].next = 1
  BY <1>4 DEF Frame
<1>6. \A i \in DOMAIN Refs(n) : Waits(n, i)'
  BY <1>3, <1>5 DEF Waits
<1> QED BY <1>2, <1>6 DEF Counted

LEMMA WalkDeclStep ==
  ASSUME Inv, Closed, WalkDecl
  PROVE  Inv' /\ Closed'
<1>1. /\ pc \in {"count", "recount"} /\ stack = <<>> /\ at \in Decls /\ at' = at + 1
      /\ stack' = IF IsStart(at) THEN <<Frame(at)>> ELSE <<>>
      /\ UNCHANGED <<prog, pc, cname, owner, errors, count, removed, unused>>
  BY DEF WalkDecl
<1>2. prog \in Programs /\ count \in [Nodes -> Nat] /\ removed \subseteq Decls
  BY DEF Inv, Typed
<1>3. at \in Nodes /\ at' \in 1..(Len(prog.decls) + 1) /\ \A d \in Decls : d < at' <=> d < at \/ d = at
  BY <1>1, <1>2, ProgramFacts DEF Nodes
<1>4. Frame(at) \in Frames
  BY <1>3 DEF Frame, Frames
<1>5. Within
  BY <1>1, <1>2, <1>3, <1>4 DEF Within
<1>6. ASSUME NEW n \in Nodes, Begun(n)'
      PROVE  Counted(n)'
  <2>1. CASE IsStart(at) /\ n = at
    <3>1. 1 \in DOMAIN stack' /\ stack'[1] = Frame(n)
      BY <1>1, <2>1
    <3> QED BY <1>5, <3>1, NewIsCounted
  <2>2. CASE ~(IsStart(at) /\ n = at)
    <3>1. Begun(n)
      <4>1. count'[n] = count[n] /\ Decls' = Decls /\ D(n)' = D(n) /\ removed' = removed /\ pc' = pc
        BY <1>1, SameProgram
      <4>2. pc = "count" => removed = {}
        BY DEF Inv, Typed
      <4>3. n \in Decls /\ n < at' => n < at \/ n = at
        BY <1>3
      <4> QED BY <1>1, <1>2, <1>3, <1>6, <2>2, <4>1, <4>2, <4>3 DEF Begun, IsStart
    <3>2. Counted(n)
      BY <1>1, <3>1 DEF Inv, Walked
    <3>3. \A i \in DOMAIN Refs(n) : ~Waits(n, i)
      BY <1>1 DEF Waits
    <3> QED BY <1>5, <3>2, <3>3, StillCounted
  <2> QED BY <2>1, <2>2
<1> QED BY <1>5, <1>6, WithinStep
LEMMA WalkingFacts ==
  ASSUME Inv, Walking
  PROVE  /\ prog \in Programs /\ stack \in Seq(Frames) /\ stack # <<>> /\ count \in [Nodes -> Nat]
         /\ pc \in {"count", "recount"} /\ at \in 1..(Len(prog.decls) + 1)
         /\ \A n \in Nodes : Begun(n) => Counted(n)
BY DEF Inv, Typed, Walking, Walked

(* What waits in the stack waits in it when it has advanced, but for the   *)
(* mention the topmost call was at.                                        *)
LEMMA AdvancedWaits ==
  ASSUME stack \in Seq(Frames), stack # <<>>, NEW n, NEW i \in Nat, Waits(n, i),
         ~(n = Top.of /\ i = Top.next)
  PROVE  \E k \in DOMAIN stack : Advanced[k].of = n /\ Advanced[k].next <= i
<1>1. PICK k \in DOMAIN stack : stack[k].of = n /\ stack[k].next <= i
  BY DEF Waits
<1>2. Advanced[k].of = n /\ Advanced[k].next = stack[k].next + (IF k = Len(stack) THEN 1 ELSE 0)
  BY <1>1, StackFacts
<1>3. k = Len(stack) => stack[k] = Top
  BY DEF Top
<1>4. stack[k].next \in Nat
  <2>1. stack[k] \in Frames
    BY StackFacts
  <2> QED BY <2>1 DEF Frames
<1>5. k = Len(stack) => stack[k].next # i
  BY <1>1, <1>3
<1>6. Advanced[k].next <= i
  BY <1>1, <1>2, <1>4, <1>5
<1> QED BY <1>2, <1>6

LEMMA PassOverStep ==
  ASSUME Inv, Closed, PassOver
  PROVE  Inv' /\ Closed'
<1>1. /\ Walking /\ HasRef /\ Ref.by = "import type" /\ stack' = Advanced
      /\ UNCHANGED <<prog, pc, at, cname, owner, errors, count, removed, unused>>
  BY DEF PassOver
<1>2. /\ prog \in Programs /\ stack \in Seq(Frames) /\ stack # <<>> /\ count \in [Nodes -> Nat]
      /\ pc \in {"count", "recount"} /\ at \in 1..(Len(prog.decls) + 1)
      /\ \A n \in Nodes : Begun(n) => Counted(n)
  BY <1>1, WalkingFacts
<1>3. Within
  BY <1>1, <1>2, StackFacts DEF Within
<1>4. ASSUME NEW n \in Nodes, Begun(n)'
      PROVE  Counted(n)'
  <2>1. Begun(n)
    BY <1>1, <1>4, SameProgram DEF Begun
  <2>2. ASSUME NEW i \in DOMAIN Refs(n), Refs(n)[i].by = "name", Waits(n, i)
        PROVE  Waits(n, i)'
    <3>1. ~(n = Top.of /\ i = Top.next)
      BY <1>1, <2>2 DEF Ref
    <3>2. i \in Nat
      <4>1. Refs(n) \in Seq(Mention)
        BY <1>2, ProgramFacts
      <4> QED BY <2>2, <4>1
    <3>3. \E k \in DOMAIN stack : Advanced[k].of = n /\ Advanced[k].next <= i
      BY <1>2, <2>2, <3>1, <3>2, AdvancedWaits
    <3>4. DOMAIN stack' = DOMAIN stack
      BY <1>1, <1>2 DEF Advanced
    <3> QED BY <1>1, <3>3, <3>4 DEF Waits
  <2> QED BY <1>2, <1>3, <2>1, <2>2, StillCounted
<1> QED BY <1>3, <1>4, WithinStep

LEMMA ReturnStep ==
  ASSUME Inv, Closed, Return
  PROVE  Inv' /\ Closed'
<1>1. /\ Walking /\ ~HasRef /\ stack' = SubSeq(stack, 1, Len(stack) - 1)
      /\ UNCHANGED <<prog, pc, at, cname, owner, errors, count, removed, unused>>
  BY DEF Return
<1>2. /\ prog \in Programs /\ stack \in Seq(Frames) /\ stack # <<>> /\ count \in [Nodes -> Nat]
      /\ pc \in {"count", "recount"} /\ at \in 1..(Len(prog.decls) + 1)
      /\ \A n \in Nodes : Begun(n) => Counted(n)
  BY <1>1, WalkingFacts
<1>3. /\ stack' \in Seq(Frames)
      /\ \A k \in DOMAIN stack : k # Len(stack) => k \in DOMAIN stack' /\ stack'[k] = stack[k]
  BY <1>1, <1>2
<1>4. Within
  BY <1>1, <1>2, <1>3 DEF Within
<1>5. ASSUME NEW n \in Nodes, Begun(n)'
      PROVE  Counted(n)'
  <2>1. Begun(n)
    BY <1>1, <1>5, SameProgram DEF Begun
  <2>2. ASSUME NEW i \in DOMAIN Refs(n), Waits(n, i)
        PROVE  Waits(n, i)'
    <3>1. PICK k \in DOMAIN stack : stack[k].of = n /\ stack[k].next <= i
      BY <2>2 DEF Waits
    <3>2. k # Len(stack)
      <4>1. ASSUME k = Len(stack)
            PROVE  FALSE
        <5>1. Top.of = n /\ Top.next <= i /\ Top.next \in Nat \ {0}
          BY <1>2, <3>1, <4>1, StackFacts DEF Top
        <5>2. DOMAIN Refs(n) = 1..Len(Refs(n)) /\ Len(Refs(n)) \in Nat
          BY <1>2, ProgramFacts
        <5>3. Top.next \in DOMAIN Refs(n)
          BY <5>1, <5>2
        <5> QED BY <1>1, <5>1, <5>3 DEF HasRef
      <4> QED BY <4>1
    <3> QED BY <1>3, <3>1, <3>2 DEF Waits
  <2> QED BY <1>2, <1>4, <2>1, <2>2, StillCounted
<1> QED BY <1>4, <1>5, WithinStep
LEMMA VisitStep ==
  ASSUME Inv, Closed, Visit
  PROVE  Inv' /\ Closed'
<1>1. /\ Walking /\ HasRef /\ Ref.by = "name"
      /\ count' = [count EXCEPT ![Ref.to] = @ + 1]
      /\ stack' = IF Enters(Ref.to) THEN Append(Advanced, Frame(Ref.to)) ELSE Advanced
      /\ UNCHANGED <<prog, pc, at, cname, owner, errors, removed, unused>>
  BY DEF Visit
<1>2. /\ prog \in Programs /\ stack \in Seq(Frames) /\ stack # <<>> /\ count \in [Nodes -> Nat]
      /\ pc \in {"count", "recount"} /\ at \in 1..(Len(prog.decls) + 1)
      /\ \A n \in Nodes : Begun(n) => Counted(n)
  BY <1>1, WalkingFacts
<1>3. Top.of \in Nodes /\ Advanced \in Seq(Frames)
  BY <1>2, StackFacts
<1>4. Ref.to \in Nodes /\ MentionsNode(Top.of, Ref.to)
  BY <1>1, <1>2, <1>3, ProgramFacts DEF Ref, HasRef, MentionsNode
<1>5. Frame(Ref.to) \in Frames
  BY <1>4 DEF Frame, Frames
<1>6. count' \in [Nodes -> Nat] /\ \A n \in Nodes : count'[n] = IF n = Ref.to THEN count[n] + 1 ELSE count[n]
  BY <1>1, <1>2, <1>4
<1>7. \A n \in Nodes : /\ count'[n] # 0 <=> n = Ref.to \/ count[n] # 0
  BY <1>2, <1>6
<1>8. stack' \in Seq(Frames) /\ \A k \in DOMAIN Advanced : k \in DOMAIN stack' /\ stack'[k] = Advanced[k]
  BY <1>1, <1>3, <1>5
<1>9. Within
  BY <1>1, <1>2, <1>3, <1>4, <1>6, <1>7, <1>8 DEF Within
<1>10. ASSUME NEW n \in Nodes, Begun(n)'
       PROVE  Counted(n)'
  <2>1. CASE Begun(n)
    <3>1. ASSUME NEW i \in DOMAIN Refs(n), Refs(n)[i].by = "name", Waits(n, i)
          PROVE  count'[Refs(n)[i].to] # 0 \/ Waits(n, i)'
      <4>1. CASE n = Top.of /\ i = Top.next
        <5>1. Refs(n)[i].to = Ref.to
          BY <4>1 DEF Ref
        <5> QED BY <1>4, <1>7, <5>1
      <4>2. CASE ~(n = Top.of /\ i = Top.next)
        <5>1. Refs(n) \in Seq(Mention)
          BY <1>2, ProgramFacts
        <5>2. i \in Nat
          BY <3>1, <5>1
        <5>3. PICK k \in DOMAIN stack : Advanced[k].of = n /\ Advanced[k].next <= i
          BY <1>2, <3>1, <4>2, <5>2, AdvancedWaits
        <5>4. k \in DOMAIN Advanced
          BY DEF Advanced
        <5> QED BY <1>8, <5>3, <5>4 DEF Waits
      <4> QED BY <4>1, <4>2
    <3> QED BY <1>2, <1>9, <2>1, <3>1, StillCounted
  <2>2. CASE ~Begun(n)
    <3>1. n = Ref.to /\ count[n] = 0
      BY <1>1, <1>7, <1>10, <2>2, SameProgram DEF Begun
    <3>2. stack' = Append(Advanced, Frame(n))
      BY <1>1, <3>1 DEF Enters
    <3>3. Len(Advanced) + 1 \in DOMAIN stack' /\ stack'[Len(Advanced) + 1] = Frame(n)
      BY <1>3, <1>4, <1>5, <3>1, <3>2
    <3> QED BY <1>9, <3>3, NewIsCounted
  <2> QED BY <2>1, <2>2
<1> QED BY <1>9, <1>10, WithinStep

---------------------------------------------------------------------------
(* The end of the first walk, and of the second.                           *)

LEMMA AllCounted ==
  ASSUME Inv, pc \in {"count", "recount"}, stack = <<>>, NEW n \in Nodes, Begun(n)
  PROVE  \A i \in DOMAIN Refs(n) : Refs(n)[i].by = "name" => count[Refs(n)[i].to] # 0
BY DEF Inv, Walked, Counted, Waits

LEMMA FirstOfThree ==
  ASSUME NEW S, NEW x, NEW s \in Seq(S), NEW t \in Seq(S)
  PROVE  (<<x>> \o s \o t)[1] = x
<1> DEFINE T == S \cup {x}
<1>1. x \in T /\ s \in Seq(T) /\ t \in Seq(T)
  <2>1. Len(s) \in Nat /\ s \in [1..Len(s) -> T] /\ Len(t) \in Nat /\ t \in [1..Len(t) -> T]
    OBVIOUS
  <2> QED BY <2>1
<1> HIDE DEF T
<1>2. <<x>> \o s \in Seq(T) /\ Len(<<x>> \o s) = 1 + Len(s) /\ (<<x>> \o s)[1] = x
  BY <1>1
<1> QED BY <1>1, <1>2

LEMMA MainIsCounted ==
  ASSUME MainsAreFirst, prog \in Programs, NEW d \in Decls, CName(d) = <<"main">>
  PROVE  D(d).pkg = First \/ Refs(d) = <<>>
<1>1. D(d) \in Declaration
  BY ProgramFacts
<1>2. D(d).pkg \in Seq(STRING) /\ D(d).name \in Seq(STRING)
  BY <1>1 DEF Declaration, Words
<1>3. <<"lc">> \o D(d).pkg \o D(d).name # <<"main">>
  <2>1. (<<"lc">> \o D(d).pkg \o D(d).name)[1] = "lc"
    BY <1>2, FirstOfThree
  <2>2. <<"main">>[1] = "main"
    OBVIOUS
  <2> QED BY <2>1, <2>2
<1>4. IsMain(d) => D(d).pkg = First
  BY DEF IsMain
<1>5. D(d).as = <<"main">> \/ D(d).name = <<"main">>
  BY <1>1, <1>3 DEF CName, IsMain, Declaration
<1>6. Refs(d) = D(d).refs
  BY DEF Refs
<1> QED BY <1>5, <1>6 DEF MainsAreFirst, D, Decls

LEMMA RemoveStep ==
  ASSUME Inv, Closed, Remove
  PROVE  Inv' /\ Closed'
<1>1. /\ pc = "count" /\ stack = <<>> /\ at \notin Decls
      /\ removed' = {d \in Decls : Unreferenced(d)}
      /\ pc' = "recount" /\ at' = 1
      /\ UNCHANGED <<prog, cname, owner, errors, stack, count, unused>>
  BY DEF Remove
<1>2. /\ Decls' = Decls /\ Locals' = Locals /\ Nodes' = Nodes /\ Frames' = Frames
      /\ \A d : D(d)' = D(d) /\ CName(d)' = CName(d) /\ L(d)' = L(d) /\ Refs(d)' = Refs(d)
      /\ \A m, n : MentionsNode(m, n)' = MentionsNode(m, n)
  BY <1>1, SameProgram
<1>3. prog \in Programs /\ count \in [Nodes -> Nat] /\ stack \in Seq(Frames) /\ at \in 1..(Len(prog.decls) + 1)
  BY DEF Inv, Typed
<1>4. \A d \in Decls : d \in Nodes /\ d < at /\ ~(d < 1)
  BY <1>1, <1>3, ProgramFacts DEF Nodes
<1>5. 1 \in 1..(Len(prog.decls) + 1)
  BY <1>3, ProgramFacts
<1>6. Typed'
  BY <1>1, <1>2, <1>5 DEF Inv, Typed
<1>7. Naming'
  BY <1>1, <1>2 DEF Inv, Naming, NamesAreDistinct
<1>8. Walked'
  <2>1. ASSUME NEW n \in Nodes, Begun(n)'
        PROVE  Counted(n)'
    <3>1. Begun(n)
      BY <1>1, <1>2, <1>4, <2>1 DEF Begun
    <3>2. \A i \in DOMAIN Refs(n) : Refs(n)[i].by = "name" => count[Refs(n)[i].to] # 0
      BY <1>1, <3>1, AllCounted
    <3> QED BY <1>1, <1>2, <3>2 DEF Counted
  <2> QED BY <1>2, <2>1 DEF Walked
<1>9. CountedAreMentioned'
  BY <1>1, <1>2 DEF Inv, CountedAreMentioned
<1>10. \A d \in Decls : cname[d] = CName(d)
  BY <1>1 DEF Inv, Naming
<1>11. ASSUME MainsAreFirst, NEW d \in Decls, d \notin removed'
       PROVE  count[d] # 0 \/ D(d).pkg = First \/ Refs(d) = <<>>
  <2>1. count[d] # 0 \/ CName(d) = <<"main">>
    BY <1>1, <1>10, <1>11 DEF Unreferenced
  <2> QED BY <1>3, <1>11, <2>1, MainIsCounted
<1>12. MainsAreFirst => Covered'
  BY <1>1, <1>2, <1>11 DEF Covered
<1>13. MainsAreFirst => Complete'
  <2>1. ASSUME MainsAreFirst, NEW d \in Decls, d \notin removed', NEW i \in DOMAIN Refs(d), Refs(d)[i].by = "name"
        PROVE  Refs(d)[i].to \notin removed'
    <3>1. Refs(d) # <<>>
      BY <2>1
    <3>2. Begun(d)
      BY <1>1, <1>4, <1>11, <2>1, <3>1 DEF Begun
    <3>3. count[Refs(d)[i].to] # 0
      BY <1>1, <1>4, <2>1, <3>2, AllCounted
    <3> QED BY <1>1, <3>3 DEF Unreferenced
  <2> QED BY <1>1, <1>2, <2>1 DEF Complete
<1>14. UnusedIsExact'
  BY <1>1 DEF UnusedIsExact
<1> QED BY <1>6, <1>7, <1>8, <1>9, <1>12, <1>13, <1>14 DEF Inv, Closed

LEMMA ReportUnusedStep ==
  ASSUME Inv, Closed, ReportUnused
  PROVE  Inv' /\ Closed'
<1>1. /\ pc = "recount" /\ stack = <<>> /\ at \notin Decls
      /\ unused' = {l \in Locals : count[l] = 0 /\ ~L(l).unused}
      /\ errors' = (unused' # {}) /\ pc' = "done"
      /\ UNCHANGED <<prog, at, cname, owner, stack, count, removed>>
  BY DEF ReportUnused
<1>2. /\ Decls' = Decls /\ Locals' = Locals /\ Nodes' = Nodes /\ Frames' = Frames
      /\ \A d : D(d)' = D(d) /\ CName(d)' = CName(d) /\ L(d)' = L(d) /\ Refs(d)' = Refs(d)
      /\ \A m, n : MentionsNode(m, n)' = MentionsNode(m, n)
  BY <1>1, SameProgram
<1>3. prog \in Programs /\ count \in [Nodes -> Nat] /\ at \in 1..(Len(prog.decls) + 1)
  BY DEF Inv, Typed
<1>4. Typed'
  BY <1>1, <1>2 DEF Inv, Typed
<1>5. NamesAreDistinct /\ ~errors
  BY <1>1 DEF Inv, Naming
<1>6. Naming'
  BY <1>1, <1>2, <1>5 DEF Inv, Naming, NamesAreDistinct
<1>7. Walked' /\ CountedAreMentioned'
  BY <1>1, <1>2 DEF Inv, Walked, CountedAreMentioned
<1>8. MainsAreFirst => Covered' /\ Complete'
  BY <1>1, <1>2 DEF Closed, Covered, Complete
<1>9. \A d \in Decls : d \in Nodes /\ d < at
  BY <1>1, <1>3, ProgramFacts DEF Nodes
<1>10. ASSUME MainsAreFirst, NEW d \in Decls, NEW i \in DOMAIN Refs(d), Refs(d)[i].by = "name"
       PROVE  count[Refs(d)[i].to] # 0
  <2>1. Refs(d) # <<>>
    BY <1>10
  <2>2. Begun(d)
    BY <1>1, <1>9, <1>10, <2>1 DEF Closed, Covered, Begun
  <2> QED BY <1>1, <1>9, <1>10, <2>2, AllCounted
<1>11. ASSUME MainsAreFirst, NEW l \in Locals, count[l] = 0, NEW d \in Decls, NEW i \in DOMAIN Refs(d)
       PROVE  Refs(d)[i].to # l
  <2>1. l \notin Decls
    BY <1>3, ProgramFacts
  <2>2. Refs(d)[i].by # "name" => Refs(d)[i].to \in Decls
    BY <1>3, <1>9, ProgramFacts
  <2> QED BY <1>10, <1>11, <2>1, <2>2
<1>12. ASSUME NEW l \in Locals, count[l] # 0
       PROVE  \E d \in Decls : MentionsNode(d, l)
  <2>1. l \in Nodes
    BY DEF Nodes
  <2>2. PICK m \in Nodes : MentionsNode(m, l)
    BY <1>12, <2>1 DEF Inv, CountedAreMentioned
  <2>3. CASE m \in Decls
    BY <2>2, <2>3
  <2>4. CASE m \notin Decls
    <3>1. m \in Locals /\ Refs(m) = L(m).refs
      BY <2>4 DEF Nodes, Refs
    <3>2. PICK i \in DOMAIN Refs(m) : Refs(m)[i].to = l
      BY <2>2 DEF MentionsNode
    <3>3. L(m).home \in Decls /\ MentionsNode(L(m).home, l)
      BY <1>3, <3>1, <3>2, ProgramFacts
    <3> QED BY <3>3
  <2> QED BY <2>3, <2>4
<1>13. MainsAreFirst =>
         unused' = {l \in Locals : /\ ~L(l).unused
                                  /\ \A d \in Decls : \A i \in DOMAIN Refs(d) : Refs(d)[i].to # l}
  BY <1>1, <1>11, <1>12 DEF MentionsNode
<1>14. MainsAreFirst => UnusedIsExact'
  BY <1>2, <1>13 DEF UnusedIsExact
<1> QED BY <1>4, <1>6, <1>7, <1>8, <1>14 DEF Inv, Closed

LEMMA StutterStep ==
  ASSUME Inv, Closed, UNCHANGED vars
  PROVE  Inv' /\ Closed'
<1>1. UNCHANGED <<prog, pc, at, cname, owner, errors, stack, count, removed, unused>>
  BY DEF vars
<1>2. /\ Decls' = Decls /\ Locals' = Locals /\ Nodes' = Nodes /\ Frames' = Frames
      /\ \A d : D(d)' = D(d) /\ CName(d)' = CName(d) /\ L(d)' = L(d) /\ Refs(d)' = Refs(d)
      /\ \A m, n : MentionsNode(m, n)' = MentionsNode(m, n)
  BY <1>1, SameProgram
<1>3. Typed' /\ CountedAreMentioned'
  BY <1>1, <1>2 DEF Inv, Typed, CountedAreMentioned
<1>4. Naming'
  BY <1>1, <1>2 DEF Inv, Naming, NamesAreDistinct, Entered, Apart
<1>5. \A n \in Nodes : Begun(n)' = Begun(n) /\ Counted(n)' = Counted(n)
  BY <1>1, <1>2 DEF Begun, Counted, Waits
<1>6. Walked'
  BY <1>1, <1>2, <1>5 DEF Inv, Walked
<1>7. Closed'
  BY <1>1, <1>2 DEF Closed, Covered, Complete, UnusedIsExact
<1> QED BY <1>3, <1>4, <1>6, <1>7 DEF Inv

LEMMA SameReach ==
  ASSUME UNCHANGED prog
  PROVE  /\ \A n : Rooted(n)' = Rooted(n) /\ Reaches(n)' = Reaches(n)
         /\ Roots' = Roots
BY SameProgram DEF Rooted, Carrier, Roots, Reaches, Mentioned

LEMMA MentionedIsReached ==
  ASSUME prog \in Programs, NEW n \in Nodes, Rooted(n), NEW i \in DOMAIN Refs(n), NEW m, m = Refs(n)[i].to
  PROVE  /\ m \in Decls => Reaches(m)
         /\ Rooted(m)
<1> DEFINE c == Carrier(n)
<1>1. c \in Decls /\ \E j \in DOMAIN D(c).refs : D(c).refs[j].to = m
  <2>1. CASE n \in Decls
    BY <2>1 DEF Carrier, Refs
  <2>2. CASE n \notin Decls
    <3>1. n \in Locals /\ Refs(n) = L(n).refs
      BY <2>2 DEF Nodes, Refs
    <3>2. L(n).home \in Decls /\ MentionsNode(L(n).home, m)
      BY <3>1, ProgramFacts
    <3> QED BY <2>2, <3>2 DEF Carrier, MentionsNode, Refs
  <2> QED BY <2>1, <2>2
<1>2. m \in Nodes
  BY ProgramFacts
<1>3. m \in Decls => Reaches(m)
  <2> SUFFICES ASSUME m \in Decls, NEW F \in SUBSET Decls, Mentioned(Roots) \cup Mentioned(F) \subseteq F
               PROVE  m \in F
    BY DEF Reaches
  <2>1. c \in Roots \/ c \in F
    BY DEF Rooted, Reaches
  <2>2. m \in Mentioned(Roots) \/ m \in Mentioned(F)
    BY <1>1, <2>1 DEF Mentioned, Refs
  <2> QED BY <2>2
<1>4. CASE m \notin Decls
  <2>1. m \in Locals
    BY <1>2, <1>4 DEF Nodes
  <2>2. L(m).home = c
    <3>1. IsProgram(prog)
      BY OutputAssumption
    <3>2. PICK k \in DOMAIN prog.locals : m = Len(prog.decls) + k
      BY <2>1 DEF Locals
    <3>3. L(m) = prog.locals[k]
      <4>1. Len(prog.decls) \in Nat /\ DOMAIN prog.locals = 1..Len(prog.locals) /\ Len(prog.locals) \in Nat
        BY <3>1 DEF IsProgram
      <4>2. m - Len(prog.decls) = k
        BY <3>2, <4>1
      <4> QED BY <4>2 DEF L
    <3> QED BY <1>1, <3>1, <3>2, <3>3 DEF IsProgram, D, Decls
  <2> QED BY <1>4, <2>2 DEF Rooted, Carrier
<1> QED BY <1>3, <1>4 DEF Rooted, Carrier

LEMMA ReachedStep == Inv /\ Reached /\ [Next]_vars => Reached'
<1> SUFFICES ASSUME Inv, Reached, [Next]_vars
             PROVE  Reached'
  OBVIOUS
<1>1. /\ UNCHANGED prog
  BY DEF Next, vars, PutGlobalDecl, StartPass, WalkDecl, Visit, PassOver, Return, Remove, ReportUnused
<1>2. /\ Decls' = Decls /\ Nodes' = Nodes /\ Roots' = Roots
      /\ \A n : Rooted(n)' = Rooted(n) /\ Reaches(n)' = Reaches(n)
  BY <1>1, SameProgram, SameReach
<1>3. prog \in Programs /\ stack \in Seq(Frames) /\ count \in [Nodes -> Nat]
  BY DEF Inv, Typed
<1>4. CASE PutGlobalDecl
  BY <1>4 DEF PutGlobalDecl, Reached
<1>5. CASE StartPass
  <2>1. stack' = <<>> /\ \A n \in Nodes : count'[n] = 0
    BY <1>5 DEF StartPass, Inv, Naming
  <2> QED BY <1>2, <1>5, <2>1 DEF StartPass, Reached
<1>6. CASE WalkDecl
  <2>1. /\ UNCHANGED <<prog, pc, cname, errors, count, removed>> /\ at \in Decls /\ stack = <<>>
        /\ stack' = IF IsStart(at) THEN <<Frame(at)>> ELSE <<>>
    BY <1>6 DEF WalkDecl
  <2>2. pc = "count" => \A k \in DOMAIN stack' : Rooted(stack'[k].of)
    <3>1. IsStart(at) /\ pc = "count" => Rooted(at)
      BY <2>1 DEF IsStart, Rooted, Carrier, Roots
    <3> QED BY <2>1, <3>1 DEF Frame
  <2> QED BY <1>2, <2>1, <2>2 DEF Reached, Kept
<1>7. CASE Visit
  <2>1. /\ UNCHANGED <<prog, pc, cname, errors, removed>> /\ Walking /\ HasRef
        /\ count' = [count EXCEPT ![Ref.to] = @ + 1]
        /\ stack' = Advanced \/ stack' = Append(Advanced, Frame(Ref.to))
    BY <1>7 DEF Visit
  <2>2. Len(stack) \in Nat \ {0} /\ Top.of \in Nodes /\ DOMAIN stack = 1..Len(stack)
    BY <1>3, <2>1, StackFacts DEF Walking
  <2>3. ASSUME pc = "count"
        PROVE  /\ \A k \in DOMAIN stack' : Rooted(stack'[k].of)
               /\ \A n \in Nodes : count'[n] # 0 => IF n \in Decls THEN Reaches(n) ELSE Rooted(n)
    <3>1. Rooted(Top.of)
      BY <2>2, <2>3 DEF Reached, Top
    <3>2. Rooted(Ref.to) /\ (Ref.to \in Decls => Reaches(Ref.to))
      BY <1>3, <2>1, <2>2, <3>1, MentionedIsReached DEF Ref, HasRef
    <3>3. Advanced \in Seq(Frames) /\ Len(Advanced) = Len(stack)
      BY <1>3, <2>1, StackFacts DEF Walking
    <3>4. \A k \in DOMAIN Advanced : Rooted(Advanced[k].of)
      <4>1. \A k \in DOMAIN stack : Advanced[k].of = stack[k].of
        BY <1>3, <2>1, StackFacts DEF Walking
      <4> QED BY <2>2, <2>3, <3>3, <4>1 DEF Reached
    <3>5. \A k \in DOMAIN stack' : Rooted(stack'[k].of)
      <4>1. CASE stack' = Append(Advanced, Frame(Ref.to))
        <5>1. DOMAIN stack' = 1..(Len(Advanced) + 1)
          BY <3>3, <4>1
        <5>2. \A k \in DOMAIN stack' : stack'[k] = IF k = Len(Advanced) + 1 THEN Frame(Ref.to) ELSE Advanced[k]
          BY <3>3, <4>1
        <5> QED BY <3>2, <3>3, <3>4, <5>1, <5>2 DEF Frame
      <4> QED BY <2>1, <3>4, <4>1
    <3>6. \A n \in Nodes : n # Ref.to => count'[n] = count[n]
      BY <1>3, <2>1
    <3> QED BY <2>3, <3>2, <3>5, <3>6 DEF Reached
  <2> QED BY <1>2, <2>1, <2>3 DEF Reached, Kept
<1>8. CASE PassOver
  <2>1. /\ UNCHANGED <<prog, pc, cname, errors, count, removed>> /\ stack' = Advanced
        /\ \A k \in DOMAIN stack : Advanced[k].of = stack[k].of
    BY <1>3, <1>8, StackFacts DEF PassOver, Walking
  <2>2. DOMAIN stack' = DOMAIN stack
    BY <2>1 DEF Advanced
  <2> QED BY <1>2, <2>1, <2>2 DEF Reached, Kept
<1>9. CASE Return
  <2>1. /\ UNCHANGED <<prog, pc, cname, errors, count, removed>> /\ stack # <<>>
        /\ stack' = SubSeq(stack, 1, Len(stack) - 1)
    BY <1>9 DEF Return, Walking
  <2>2. \A k \in DOMAIN stack' : k \in DOMAIN stack /\ stack'[k] = stack[k]
    BY <1>3, <2>1
  <2> QED BY <1>2, <2>1, <2>2 DEF Reached, Kept
<1>10. CASE Remove
  <2>1. /\ pc = "count" /\ pc' = "recount" /\ UNCHANGED <<cname, errors, count>>
        /\ removed' = {d \in Decls : Unreferenced(d)}
    BY <1>10 DEF Remove
  <2>2. ASSUME NEW d \in Decls, d \notin removed'
        PROVE  cname[d] = <<"main">> \/ Reaches(d)
    <3>1. d \in Nodes
      BY DEF Nodes
    <3> QED BY <2>1, <2>2, <3>1 DEF Unreferenced, Reached
  <2> QED BY <1>2, <2>1, <2>2 DEF Reached, Kept
<1>11. CASE ReportUnused
  <2>1. pc = "recount" /\ ~errors /\ pc' = "done" /\ UNCHANGED <<cname, removed>>
    BY <1>11 DEF ReportUnused, Inv, Naming
  <2> QED BY <1>2, <2>1 DEF Reached, Kept
<1>12. CASE UNCHANGED vars
  BY <1>2, <1>12 DEF vars, Reached, Kept
<1> QED BY <1>4, <1>5, <1>6, <1>7, <1>8, <1>9, <1>10, <1>11, <1>12 DEF Next

LEMMA InvStep == Inv /\ Closed /\ [Next]_vars => Inv' /\ Closed'
<1> SUFFICES ASSUME Inv, Closed, [Next]_vars
             PROVE  Inv' /\ Closed'
  OBVIOUS
<1>1. CASE PutGlobalDecl
  BY <1>1, PutGlobalDeclStep
<1>2. CASE StartPass
  BY <1>2, StartPassStep
<1>3. CASE WalkDecl
  BY <1>3, WalkDeclStep
<1>4. CASE Visit
  BY <1>4, VisitStep
<1>5. CASE PassOver
  BY <1>5, PassOverStep
<1>6. CASE Return
  BY <1>6, ReturnStep
<1>7. CASE Remove
  BY <1>7, RemoveStep
<1>8. CASE ReportUnused
  BY <1>8, ReportUnusedStep
<1>9. CASE UNCHANGED vars
  BY <1>9, StutterStep
<1> QED BY <1>1, <1>2, <1>3, <1>4, <1>5, <1>6, <1>7, <1>8, <1>9 DEF Next

LEMMA Invariance == Spec => [](Inv /\ Closed)
<1>1. Init => Inv /\ Closed
  BY InitInv
<1>2. Inv /\ Closed /\ [Next]_vars => (Inv /\ Closed)'
  BY InvStep
<1> QED BY <1>1, <1>2, PTL DEF Spec

---------------------------------------------------------------------------
(* The results.                                                            *)

(* LC_PutGlobalDecl: when no error is reported, two declarations that are  *)
(* not both left to C never have one name there, whatever packages and     *)
(* names there are and wherever the @foreign ones stand.                   *)
THEOREM NamesStayApart == Spec => []NamesAreDistinct
<1>1. Inv /\ Closed => NamesAreDistinct
  BY DEF Inv, Naming
<1> QED BY <1>1, Invariance, PTL

(* LC_ErrorOnUnreferencedLocalsPass: a local is reported exactly when no   *)
(* declaration mentions it, also when only removed declarations do.  It    *)
(* needs that what is called main in C belongs to the first package: a     *)
(* main elsewhere is neither walked nor removed.                           *)
THEOREM UnusedLocalsAreExact ==
  ASSUME MainsAreFirst
  PROVE  Spec => []UnusedIsExact
<1>1. Inv /\ Closed => UnusedIsExact
  BY MainsAreFirst DEF Closed
<1> QED BY <1>1, Invariance, PTL

(* LC_RemoveUnreferencedGlobalDeclsPass: nothing that a printed            *)
(* declaration mentions is removed.  It needs besides that no mention is   *)
(* of a type through an import, which the walk passes over.                *)
THEOREM PrintedIsComplete ==
  ASSUME MainsAreFirst, NoImportTypes
  PROVE  Spec => []OutputIsComplete
<1>1. ASSUME Inv, Closed
      PROVE  OutputIsComplete
  <2>1. prog \in Programs
    BY <1>1 DEF Inv, Typed
  <2>2. \A d \in Decls : \A i \in DOMAIN Refs(d) : Refs(d)[i].by = "name"
    BY <2>1, NoImportTypes DEF NoImportTypes, Decls, D, Refs
  <2>3. Complete
    BY <1>1, MainsAreFirst DEF Closed
  <2> QED BY <2>2, <2>3 DEF OutputIsComplete, Generates, Printed, Kept, Complete
<1>2. Inv /\ Closed => OutputIsComplete
  BY <1>1
<1> QED BY <1>2, Invariance, PTL

(* Before anything is removed, the whole first package has been walked:    *)
(* what it mentions is counted, and so is kept, also what is mentioned     *)
(* only by declarations that are removed themselves.                       *)
RootsKeep ==
  pc \in {"recount", "done"} =>
    \A d \in Roots : \A i \in DOMAIN Refs(d) :
      Refs(d)[i].by = "name" => Refs(d)[i].to \notin removed

(* And what is called main is.                                             *)
MainsKept == pc \in {"recount", "done"} => \A d \in removed : cname[d] # <<"main">>

LEMMA MainsKeptStep == Inv /\ MainsKept /\ [Next]_vars => MainsKept'
<1> SUFFICES ASSUME Inv, MainsKept, [Next]_vars PROVE MainsKept'
  OBVIOUS
<1>1. CASE StartPass
  BY <1>1 DEF StartPass, MainsKept, Inv, Typed
<1>2. CASE Remove
  BY <1>2 DEF Remove, Unreferenced, MainsKept
<1>3. CASE ~StartPass /\ ~Remove
  BY <1>3 DEF Next, vars, MainsKept, PutGlobalDecl, WalkDecl, Visit, PassOver, Return,
              ReportUnused
<1> QED BY <1>1, <1>2, <1>3

LEMMA RootsKeepStep == Inv /\ RootsKeep /\ [Next]_vars => RootsKeep'
<1> SUFFICES ASSUME Inv, RootsKeep, [Next]_vars PROVE RootsKeep'
  OBVIOUS
<1>1. Typed /\ Walked /\ prog \in Programs
  BY DEF Inv, Typed
<1>2. prog' = prog
  BY DEF Next, vars, PutGlobalDecl, StartPass, WalkDecl, Visit, PassOver, Return, Remove,
         ReportUnused
<1>3. Decls' = Decls /\ Roots' = Roots /\ \A n : Refs(n)' = Refs(n)
  BY <1>2 DEF Decls, D, Roots, Refs, L
<1>4. CASE StartPass
  BY <1>1, <1>3, <1>4, ProgramFacts DEF StartPass, RootsKeep, Typed
<1>5. CASE Remove
  <2>1. /\ pc = "count" /\ stack = <<>> /\ at \notin Decls
        /\ removed' = {d \in Decls : Unreferenced(d)}
    BY <1>5 DEF Remove
  <2>2. \A d \in Decls : d < at
    BY <1>1, <2>1, ProgramFacts DEF Typed
  <2>3. ASSUME NEW d \in Roots, NEW i \in DOMAIN Refs(d), Refs(d)[i].by = "name"
        PROVE  Refs(d)[i].to \notin removed'
    <3>1. d \in Decls /\ D(d).pkg = First /\ d \in Nodes
      BY DEF Roots, Nodes
    <3>2. Counted(d)
      BY <1>1, <2>1, <2>2, <3>1 DEF Walked, Begun
    <3>3. count[Refs(d)[i].to] # 0
      BY <2>1, <2>3, <3>2 DEF Counted, Waits
    <3> QED BY <2>1, <3>3 DEF Unreferenced
  <2> QED BY <1>3, <2>3 DEF RootsKeep
<1>6. CASE ~StartPass /\ ~Remove
  <2>1. removed' = removed
    BY <1>6 DEF Next, vars, PutGlobalDecl, WalkDecl, Visit, PassOver, Return, ReportUnused
  <2>2. pc' \in {"recount", "done"} => pc \in {"recount", "done"}
    BY <1>6 DEF Next, vars, PutGlobalDecl, WalkDecl, Visit, PassOver, Return, ReportUnused
  <2> QED BY <1>3, <2>1, <2>2 DEF RootsKeep
<1> QED BY <1>4, <1>5, <1>6

(* The whole pass: what LC_GenerateUnityBuild prints is closed under       *)
(* mentioning, and what is kept is exactly what the first package reaches  *)
(* and what is called main.                                                *)
THEOREM PrintedIsExact ==
  ASSUME MainsAreFirst, NoImportTypes
  PROVE  Spec => []OutputIsExact
<1>1. Init => Reached /\ RootsKeep /\ MainsKept
  BY DEF Init, Reached, RootsKeep, MainsKept
<1>2. Inv /\ Reached /\ [Next]_vars => Reached'
  BY ReachedStep
<1>3. Inv /\ RootsKeep /\ MainsKept /\ [Next]_vars => RootsKeep' /\ MainsKept'
  BY RootsKeepStep, MainsKeptStep
<1>4. Inv /\ Closed => Inv
  OBVIOUS
<1>5. Spec => [](Inv /\ Closed /\ Reached /\ RootsKeep /\ MainsKept)
  BY <1>1, <1>2, <1>3, <1>4, Invariance, PTL DEF Spec
<1>6. ASSUME Inv, Closed, Reached, RootsKeep, MainsKept, Generates
      PROVE  Kept = {d \in Decls : cname[d] = <<"main">> \/ Reaches(d)}
  <2>1. prog \in Programs /\ pc = "done" /\ ~errors
    BY <1>6 DEF Inv, Typed, Generates
  <2>2. \A d \in Decls : \A i \in DOMAIN Refs(d) : Refs(d)[i].by = "name"
    BY <2>1, NoImportTypes DEF NoImportTypes, Decls, D, Refs
  <2>3. \A d \in Kept : cname[d] = <<"main">> \/ Reaches(d)
    BY <1>6, <2>1 DEF Reached
  <2>4. Mentioned(Roots) \subseteq Kept
    BY <1>6, <2>1, <2>2 DEF RootsKeep, Mentioned, Roots, Kept
  <2>5. Mentioned(Kept) \subseteq Kept
    BY <1>6, <2>1, <2>2, MainsAreFirst DEF Closed, Complete, Mentioned, Kept
  <2>6. \A d \in Decls : Reaches(d) => d \in Kept
    BY <2>4, <2>5 DEF Reaches, Kept
  <2>7. \A d \in Decls : cname[d] = <<"main">> => d \in Kept
    BY <1>6, <2>1 DEF MainsKept, Kept
  <2> QED BY <2>3, <2>6, <2>7 DEF Kept
<1>7. Inv /\ Closed /\ Reached /\ RootsKeep /\ MainsKept => KeptIsExact
  BY <1>6 DEF KeptIsExact
<1>8. OutputIsComplete /\ KeptIsExact => OutputIsExact
  BY DEF OutputIsExact
<1> QED BY <1>5, <1>7, <1>8, PrintedIsComplete, PTL
=============================================================================
