------------------------- MODULE DeclResolveProofs --------------------------
(***************************************************************************)
(* DeclResolve for every set of programs: its types; that an error mark or *)
(* an error on the stack has been reported; that the scope is the one of   *)
(* the package whose turn it is whenever a name is looked up; that what is *)
(* printed is in an order C accepts; that the layouts are those of C; and  *)
(* that the errors are exactly what the meaning of the program asks for.   *)
(***************************************************************************)
EXTENDS DeclResolve, TLAPS, FiniteSetTheorems

States == {"Unresolved", "Resolving", "Resolved", "Error"}
TypeStates == {"None", "Incomplete", "Completing", "Complete", "Error"}
Frames == [fn : {"name", "agg", "note"}, d : Ids, i : Nat \ {0},
           need : {"name", "type"}, prev : Packages]

Program ==
  /\ prog \in Programs /\ pkg \in DOMAIN prog.packages /\ next \in 1 .. Len(prog.decls) + 1
  /\ pass \in {"register", "decls", "incomplete", "done", "crashed"}

Marks ==
  /\ dstate \in [Ids -> States] /\ tkind \in [Ids -> TypeStates]
  /\ noteErr \subseteq Ids /\ errors \in BOOLEAN

Results ==
  /\ dtype \in [Ids -> Ids \cup {0}]
  /\ bound = [d \in Ids |-> bound[d]]
  /\ \A d \in Ids : bound[d] \in [DOMAIN D(d).refs -> Ids \cup {0}]
  /\ ordered \in [Packages -> Seq(Ids)]

(* A frame that waits for a call is at a mention; the name of the mention  *)
(* was found if the call is past it; and a frame knows what the mentions   *)
(* behind it are bound to, unless it went on after an error.               *)
HereFinds == [m \in Mention |-> Lookup(Here, m)]
Waits(f) == f.i \in DOMAIN D(f.d).refs
HasName(f) == f.need = "name" => HereFinds[D(f.d).refs[f.i]] # 0
Knows(f, b) ==
  /\ f.i <= Len(D(f.d).refs) + 1
  /\ f.need = "type" => b[f.d][f.i] \in Ids
  /\ f.fn = "name" => \A j \in 1 .. f.i - 1 : b[f.d][j] \in Ids

AreCalls(st, r, b) ==
  \A k \in DOMAIN st : /\ Knows(st[k], b)
                       /\ k > 1 \/ r # "none" => Waits(st[k])
                       /\ k > 1 \/ r = "ok" => HasName(st[k])
FromHere(st) == \A k \in DOMAIN st : st[k].prev = Here

Sound(st, r, b) == st \in Seq(Frames) /\ AreCalls(st, r, b) /\ FromHere(st)
Ready(st, b) == Sound(st, "none", b) /\ (st # <<>> => Waits(st[1]))

Walk ==
  /\ stack \in Seq(Frames) /\ ret \in {"none", "ok", "error"}
  /\ stack = <<>> => ret = "none"
  /\ Sound(stack, ret, bound)
  /\ Running => active = Here
  /\ pass = "register" => stack = <<>>

Inv == Program /\ Marks /\ Results /\ active \in Packages /\ Walk /\ ErrorsAreReported

---------------------------------------------------------------------------
(* What is known of a declaration by the turn of its package.              *)

Turns == DOMAIN prog.packages
Turn(d) == CHOOSE k \in Turns : prog.packages[k] = D(d).pkg
AllKnown == pass \in {"incomplete", "done"}
Known(k) == AllKnown \/ k < pkg \/ (k = pkg /\ pass = "decls")
Visited(d) == AllKnown \/ Turn(d) < pkg \/ (pass = "decls" /\ d < next)
IsRefused(d) == \E k \in Turns : Known(k) /\ d \in Taken(prog.packages[k])

(* The loops are at a declaration of the package whose turn it is, after   *)
(* all of those of earlier ones.                                           *)
Loops ==
  /\ \A d \in Ids : (Turn(d) < pkg => d < next) /\ (d < next => Turn(d) <= pkg)
  /\ pass = "register" => \A d \in Ids : d < next => Turn(d) < pkg
  /\ pass = "done" => stack = <<>>

Declared(d) ==
  /\ ~IsAgg(d) => tkind[d] = "None"
  /\ ~Named(d) => dstate[d] = "Unresolved"
  /\ tkind[d] = "Error" => dstate[d] = "Error"
  /\ ~Known(Turn(d)) => dstate[d] = "Unresolved" /\ tkind[d] = "None"
  /\ Known(Turn(d)) /\ IsAgg(d) => dstate[d] \in {"Resolved", "Error"} /\ tkind[d] # "None" /\ dtype[d] = d
  /\ Visited(d) /\ Named(d) => dstate[d] # "Unresolved"
  /\ IsRefused(d) => dstate[d] = "Error"
Declarations == \A d \in Ids : Declared(d)

(* Once a declaration is in the list of its package it stays there, and    *)
(* what it stands for is settled.                                          *)
IsIn(s, d) == \E i \in DOMAIN s : s[i] = d
Placed(d) == IsIn(ordered[D(d).pkg], d)
Settled(t) == IF IsAgg(t) THEN dtype[t] = t ELSE Placed(t)
Usable(d, t) == t \in Ids /\ t \notin Taken(D(d).pkg) /\ t \notin Taken(D(t).pkg) /\ Settled(t)
IsLaid(t) == dtype[t] # 0 => Placed(dtype[t])
GoodName(d, j) == Usable(d, bound[d][j]) /\ IsRightKind(bound[d][j], D(d).refs[j])
Good(d, j) == GoodName(d, j) /\ (NeedsLayout(d, D(d).refs[j]) => IsLaid(bound[d][j]))
OnStack(d) == \E k \in DOMAIN stack : stack[k].d = d

PlacedWell(d) ==
  /\ Named(d) /\ ~OnStack(d)
  /\ \A j \in DOMAIN D(d).refs : Good(d, j)
  /\ IF IsAgg(d) THEN tkind[d] = "Complete" ELSE dstate[d] \in {"Resolved", "Error"} /\ dtype[d] = TypeOf(d)
IsDone(d) == IF IsAgg(d) THEN tkind[d] = "Complete" ELSE dstate[d] = "Resolved"
TypeIsStruct(d) ==
  dtype[d] # 0 => IsAgg(dtype[d]) /\ dtype[dtype[d]] = dtype[d] /\ Settled(d)

Lists ==
  /\ \A p \in Packages : /\ \A i \in DOMAIN ordered[p] : D(ordered[p][i]).pkg = p
                         /\ \A i, j \in DOMAIN ordered[p] : ordered[p][i] = ordered[p][j] => i = j
  /\ \A d \in Ids : (Placed(d) => PlacedWell(d)) /\ (IsDone(d) => Placed(d)) /\ TypeIsStruct(d)

(* The frames of the stack: each is of a declaration in progress, and was  *)
(* called from the mention the frame below is at.                          *)
Proper(f) ==
  /\ Known(Turn(f.d)) /\ ~IsRefused(f.d)
  /\ f.fn = "name" => Named(f.d) /\ ~IsAgg(f.d) /\ dstate[f.d] \in {"Resolving", "Error"}
  /\ f.fn = "agg" => IsAgg(f.d) /\ tkind[f.d] \in {"Completing", "Error"}
  /\ f.fn = "note" => ~Named(f.d)
  /\ f.fn # "agg" => pass = "decls" /\ Turn(f.d) = pkg
  /\ (f.fn = "agg" /\ tkind[f.d] = "Error") \/ \A j \in 1 .. f.i - 1 : Good(f.d, j)
  /\ f.need = "type" => GoodName(f.d, f.i) /\ NeedsLayout(f.d, D(f.d).refs[f.i])
Link(above, below) ==
  \/ above.fn = "name" /\ below.need = "name" /\ above.d = HereFinds[D(below.d).refs[below.i]]
  \/ above.fn = "agg" /\ below.need = "type" /\ above.d = dtype[bound[below.d][below.i]]
Chain(st) ==
  /\ \A k \in DOMAIN st : Proper(st[k])
  /\ \A k, l \in DOMAIN st : st[k].d = st[l].d => k = l
  /\ \A k \in DOMAIN st \ {1} : Link(st[k - 1], st[k])
Calls == Chain(stack) /\ \A d \in Ids : dstate[d] = "Resolving" \/ tkind[d] = "Completing" => OnStack(d)
Answered ==
  ret = "ok" => IF Top.need = "name" THEN Usable(Top.d, HereFinds[Ref]) ELSE IsLaid(Found)

(* The last pass completes the structs that are left.                      *)
Swept ==
  \A d \in Ids : IsAgg(d) /\ (pass = "done" \/ (pass = "incomplete" /\ d < next))
                    => dstate[d] = "Error" \/ tkind[d] # "Incomplete"

Course == Loops /\ Declarations /\ Calls /\ Answered /\ Swept
Inv2 == Lists /\ (pass # "crashed" => Course)

---------------------------------------------------------------------------
(* Stacks.                                                                 *)

LEMMA PushedStack ==
  ASSUME NEW S, NEW st \in Seq(S), NEW x \in S
  PROVE  /\ <<x>> \o st \in Seq(S) /\ (<<x>> \o st)[1] = x
         /\ DOMAIN (<<x>> \o st) = 1 .. Len(st) + 1
         /\ \A k \in 2 .. Len(st) + 1 : (<<x>> \o st)[k] = st[k - 1] /\ k - 1 \in DOMAIN st
OBVIOUS

LEMMA PoppedStack ==
  ASSUME NEW S, NEW st \in Seq(S), st # <<>>
  PROVE  /\ Tail(st) \in Seq(S) /\ st[1] \in S /\ 1 \in DOMAIN st
         /\ DOMAIN Tail(st) = 1 .. Len(st) - 1
         /\ \A k \in DOMAIN Tail(st) : Tail(st)[k] = st[k + 1] /\ k + 1 \in DOMAIN st /\ k + 1 > 1
OBVIOUS

---------------------------------------------------------------------------
(* Looking names up.                                                       *)

LEMMA ProgramFacts ==
  ASSUME Program
  PROVE  /\ Ids = 1 .. Len(prog.decls) /\ Len(prog.decls) \in Nat /\ Here \in Packages
         /\ Len(prog.packages) \in Nat /\ DOMAIN prog.packages = 1 .. Len(prog.packages)
         /\ \A d \in Ids : /\ D(d) \in Declaration /\ D(d).pkg \in Packages
                           /\ Len(D(d).refs) \in Nat /\ DOMAIN D(d).refs = 1 .. Len(D(d).refs)
<1>1. prog.decls \in Seq(Declaration) /\ prog.packages \in Seq(Packages)
  BY ProgramsAssumption DEF Program
<1>2. /\ Ids = 1 .. Len(prog.decls) /\ Len(prog.decls) \in Nat
      /\ Len(prog.packages) \in Nat /\ DOMAIN prog.packages = 1 .. Len(prog.packages)
  BY <1>1 DEF Ids
<1>3. Here \in Packages
  BY <1>1, <1>2 DEF Here, Program
<1>4. \A d \in Ids : D(d) \in Declaration
  BY <1>1, <1>2 DEF D
<1>5. \A d \in Ids : D(d).pkg \in Packages /\ D(d).refs \in Seq(Mention)
  BY <1>4 DEF Declaration
<1>6. \A d \in Ids : Len(D(d).refs) \in Nat /\ DOMAIN D(d).refs = 1 .. Len(D(d).refs)
  BY <1>5
<1> QED BY <1>2, <1>3, <1>4, <1>5, <1>6

(* A set of naturals has a least element: the parts of it that lie below   *)
(* one of its elements are finite, and so one of them is smallest.         *)
LEMMA FirstOfSome ==
  ASSUME NEW S \in SUBSET Nat, S # {}
  PROVE  \E d \in S : \A e \in S : d <= e
<1> DEFINE Below(d) == {e \in S : e <= d}
           parts == {Below(d) : d \in S}
<1>1. \A d \in S : Below(d) \in FiniteSubsetsOf(S)
  <2> TAKE d \in S
  <2>1. IsFiniteSet(0 .. d)
    BY FS_Interval
  <2>2. Below(d) \in SUBSET (0 .. d)
    <3>1. \A x \in S : x \in Nat
      OBVIOUS
    <3>2. \A x \in Below(d) : x \in 0 .. d
      BY <3>1
    <3> QED BY <3>2
  <2>3. IsFiniteSet(Below(d))
    BY <2>1, <2>2, FS_Subset
  <2> QED BY <2>3 DEF FiniteSubsetsOf
<1>2. IsWellFoundedOn(StrictSubsetOrdering(S), FiniteSubsetsOf(S))
  BY FS_StrictSubsetOrderingWellFounded
<1>3. parts \subseteq FiniteSubsetsOf(S) /\ parts # {}
  BY <1>1
<1>4. PICK A \in parts : \A B \in parts : ~(<<B, A>> \in StrictSubsetOrdering(S))
  BY <1>2, <1>3, WFMin, Zenon
<1>5. PICK d \in S : A = Below(d)
  BY <1>4
<1>6. ASSUME NEW e \in S, ~(d <= e)
      PROVE  FALSE
  <2>1. e < d /\ Below(e) \in parts
    BY <1>6
  <2>2. Below(e) \subseteq A /\ d \in A /\ d \notin Below(e) /\ A \subseteq S
    <3>1. \A x \in S : x \in Nat
      OBVIOUS
    <3>2. d \in A /\ d \notin Below(e) /\ A \subseteq S
      BY <1>5, <2>1, <3>1
    <3>3. \A x \in Below(e) : x \in S /\ x <= d
      BY <2>1, <3>1
    <3>4. \A x \in Below(e) : x \in A
      BY <1>5, <3>3
    <3> QED BY <3>2, <3>4
  <2>3. <<Below(e), A>> \in (SUBSET S) \X (SUBSET S) /\ Below(e) # A
    BY <2>2
  <2>4. <<Below(e), A>> \in StrictSubsetOrdering(S)
    BY <2>2, <2>3 DEF StrictSubsetOrdering
  <2> QED BY <1>4, <2>1, <2>4
<1> QED BY <1>6

LEMMA FindsDeclarations ==
  ASSUME Program, NEW scope \in SUBSET Ids, NEW name
  PROVE  Find(scope, name) \in Ids \cup {0}
<1> DEFINE same == {d \in scope : D(d).name = name}
<1>1. CASE same = {}
  BY <1>1 DEF Find
<1>2. CASE same # {}
  <2>1. same \in SUBSET Nat
    BY ProgramFacts
  <2>2. \E d \in same : \A e \in same : d <= e
    BY <1>2, <2>1, FirstOfSome
  <2> QED BY <1>2, <2>2 DEF Find
<1> QED BY <1>1, <1>2

LEMMA LooksUpDeclarations ==
  ASSUME Program, NEW p, NEW m
  PROVE  Lookup(p, m) \in Ids \cup {0} /\ Find(InScope(p), m) \in Ids \cup {0}
BY FindsDeclarations DEF Lookup, InScope, Exports, Own

---------------------------------------------------------------------------
(* Calls and returns.                                                      *)

LEMMA CallSound ==
  ASSUME NEW st, NEW b, Ready(st, b), st # <<>> => HasName(st[1]),
         NEW f \in Frames, f.i = 1, f.need = "name", f.prev = Here, Program
  PROVE  Sound(<<f>> \o st, "none", b)
<1>1. st \in Seq(Frames)
  BY DEF Ready, Sound
<1>2. /\ <<f>> \o st \in Seq(Frames) /\ (<<f>> \o st)[1] = f
      /\ DOMAIN (<<f>> \o st) = 1 .. Len(st) + 1
      /\ \A k \in 2 .. Len(st) + 1 : (<<f>> \o st)[k] = st[k - 1] /\ k - 1 \in DOMAIN st
  BY <1>1, PushedStack
<1>3. Knows(f, b)
  <2>1. f.d \in Ids
    BY DEF Frames
  <2> QED BY <2>1, ProgramFacts DEF Knows
<1>4. ASSUME NEW k \in 2 .. Len(st) + 1
      PROVE  /\ Knows(st[k - 1], b) /\ Waits(st[k - 1]) /\ HasName(st[k - 1])
             /\ st[k - 1].prev = Here
  <2>1. k - 1 \in DOMAIN st /\ (k - 1 > 1 \/ k - 1 = 1) /\ st # <<>>
    BY <1>1, <1>2, <1>4
  <2> QED BY <2>1 DEF Ready, Sound, AreCalls, FromHere
<1>5. Len(st) \in Nat
  BY <1>1
<1>6. \A k \in DOMAIN (<<f>> \o st) : k = 1 \/ k \in 2 .. Len(st) + 1
  BY <1>2, <1>5
<1>7. AreCalls(<<f>> \o st, "none", b)
  BY <1>2, <1>3, <1>4, <1>6 DEF AreCalls
<1>8. FromHere(<<f>> \o st)
  BY <1>2, <1>4, <1>6 DEF FromHere
<1> QED BY <1>2, <1>7, <1>8 DEF Sound

LEMMA AnswerSound ==
  ASSUME NEW st, NEW b, Ready(st, b), NEW v \in {"ok", "error"}, v = "ok" /\ st # <<>> => HasName(st[1])
  PROVE  /\ Sound(st, v, b)
         /\ Sound(<<>>, "none", b)
<1>1. st \in Seq(Frames)
  BY DEF Ready, Sound
<1>2. \A k \in DOMAIN st : (k > 1 \/ k = 1) /\ st # <<>>
  BY <1>1
<1>3. AreCalls(st, v, b)
  BY <1>2 DEF Ready, Sound, AreCalls
<1>4. Sound(<<>>, "none", b)
  BY DEF Sound, AreCalls, FromHere
<1> QED BY <1>3, <1>4 DEF Ready, Sound

LEMMA ReturnReady ==
  ASSUME NEW st, NEW b, NEW r, Sound(st, r, b), st # <<>>
  PROVE  Ready(Tail(st), b) /\ (Tail(st) # <<>> => HasName(Tail(st)[1]))
<1>1. st \in Seq(Frames)
  BY DEF Sound
<1>2. /\ Tail(st) \in Seq(Frames)
      /\ \A k \in DOMAIN Tail(st) : Tail(st)[k] = st[k + 1] /\ k + 1 \in DOMAIN st /\ k + 1 > 1
  BY <1>1, PoppedStack
<1>3. \A k \in DOMAIN Tail(st) : /\ Knows(Tail(st)[k], b) /\ Waits(Tail(st)[k]) /\ HasName(Tail(st)[k])
                                 /\ Tail(st)[k].prev = Here
  BY <1>2 DEF Sound, AreCalls, FromHere
<1>4. Tail(st) # <<>> => 1 \in DOMAIN Tail(st)
  BY <1>2
<1>5. Sound(Tail(st), "none", b)
  BY <1>2, <1>3 DEF Sound, AreCalls, FromHere
<1> QED BY <1>3, <1>4, <1>5 DEF Ready

LEMMA ContinueSound ==
  ASSUME NEW st, NEW b, NEW r, Sound(st, r, b), st # <<>>,
         NEW f \in Frames, Knows(f, b), f.prev = Here
  PROVE  Sound(<<f>> \o Tail(st), "none", b)
<1>1. st \in Seq(Frames)
  BY DEF Sound
<1>2. /\ Tail(st) \in Seq(Frames)
      /\ \A k \in DOMAIN Tail(st) : Tail(st)[k] = st[k + 1] /\ k + 1 \in DOMAIN st /\ k + 1 > 1
  BY <1>1, PoppedStack
<1> DEFINE new == <<f>> \o Tail(st)
<1>3. /\ new \in Seq(Frames) /\ new[1] = f
      /\ DOMAIN new = 1 .. Len(Tail(st)) + 1 /\ Len(Tail(st)) \in Nat
      /\ \A k \in 2 .. Len(Tail(st)) + 1 : new[k] = Tail(st)[k - 1] /\ k - 1 \in DOMAIN Tail(st)
  BY <1>2, PushedStack
<1>4. \A k \in DOMAIN Tail(st) : /\ Knows(Tail(st)[k], b) /\ Waits(Tail(st)[k]) /\ HasName(Tail(st)[k])
                                 /\ Tail(st)[k].prev = Here
  BY <1>2 DEF Sound, AreCalls, FromHere
<1>5. \A k \in DOMAIN new : k = 1 \/ k \in 2 .. Len(Tail(st)) + 1
  BY <1>3
<1>6. \A k \in 2 .. Len(Tail(st)) + 1 : /\ Knows(new[k], b) /\ Waits(new[k]) /\ HasName(new[k])
                                        /\ new[k].prev = Here
  BY <1>3, <1>4
<1> HIDE DEF new
<1>7. AreCalls(new, "none", b)
  BY <1>3, <1>5, <1>6 DEF AreCalls
<1>8. FromHere(new)
  BY <1>3, <1>5, <1>6 DEF FromHere
<1> QED BY <1>3, <1>7, <1>8 DEF Sound, new

LEMMA SameProgram ==
  ASSUME UNCHANGED <<prog, pkg>>
  PROVE  HereFinds' = HereFinds /\ Ids' = Ids /\ Here' = Here
BY DEF HereFinds, Here, Ids, Lookup, Find, InScope, Exports, Own, Named, D

LEMMA SoundStep ==
  ASSUME UNCHANGED <<prog, pkg>>, Sound(stack', ret', bound')
  PROVE  Sound(stack, ret, bound)'
BY SameProgram DEF Sound, AreCalls, FromHere, Frames, Knows, Waits, HasName, D

---------------------------------------------------------------------------
(* The steps.  Most of them leave the program, the package whose turn it   *)
(* is and what the names are bound to as they are.                         *)

Within == Running /\ UNCHANGED <<prog, pkg, pass, bound, active>>

LEMMA WalkWithin ==
  ASSUME Inv, Within, Sound(stack', ret', bound'), ret' \in {"none", "ok", "error"},
         stack' = <<>> => ret' = "none"
  PROVE  Walk' /\ (active \in Packages)'
<1>1. Sound(stack, ret, bound)'
  BY SoundStep DEF Within
<1>2. Here' = Here /\ active' = active /\ pass' = pass /\ pass # "register"
  BY SameProgram DEF Within, Running
<1>3. (stack \in Seq(Frames))'
  BY <1>1 DEF Sound
<1> QED BY <1>1, <1>2, <1>3 DEF Inv, Walk, Running

LEMMA AnswerGives ==
  ASSUME NEW v \in {"ok", "error"}, NEW below, Ready(below, bound),
         v = "ok" /\ below # <<>> => HasName(below[1]), Answer(v, below), UNCHANGED bound
  PROVE  /\ Sound(stack', ret', bound') /\ ret' \in {"none", "ok", "error"}
         /\ ret' = "error" => v = "error"
         /\ stack' = <<>> => ret' = "none"
BY AnswerSound DEF Answer

LEMMA ReportsName ==
  ASSUME Inv, Within, NEW t \in Ids \cup {0}, NEW below, Ready(below, bound),
         t # 0 /\ below # <<>> => HasName(below[1]), ResolveName(t, below)
  PROVE  Marks' /\ Results' /\ ErrorsAreReported' /\ Walk' /\ (active \in Packages)'
<1>1. Ids' = Ids /\ UNCHANGED <<tkind, dtype, ordered, noteErr, prog>>
  BY SameProgram DEF Within, ResolveName, facts
<1>2. Results'
  BY <1>1 DEF Inv, Results, Within, D
<1>3. CASE t = 0 /\ errors' = TRUE /\ Answer("error", below) /\ dstate' = dstate
  <2>1. Sound(stack', ret', bound') /\ ret' \in {"none", "ok", "error"} /\ (stack' = <<>> => ret' = "none")
    BY <1>3, AnswerGives DEF Within
  <2>2. Marks' /\ ErrorsAreReported'
    BY <1>1, <1>3 DEF Inv, Marks, ErrorsAreReported
  <2> QED BY <1>2, <2>1, <2>2, WalkWithin
<1>4. CASE t # 0 /\ errors' = TRUE /\ MarkDeclError(t) /\ Answer("error", below)
  <2>1. Sound(stack', ret', bound') /\ ret' \in {"none", "ok", "error"} /\ (stack' = <<>> => ret' = "none")
    BY <1>4, AnswerGives DEF Within
  <2>2. Marks' /\ ErrorsAreReported'
    BY <1>1, <1>4 DEF Inv, Marks, ErrorsAreReported, MarkDeclError, States
  <2> QED BY <1>2, <2>1, <2>2, WalkWithin
<1>5. CASE /\ t # 0 /\ dstate[t] \in {"Error", "Resolved"}
           /\ Answer(IF dstate[t] = "Error" THEN "error" ELSE "ok", below)
           /\ UNCHANGED <<dstate, errors>>
  <2> DEFINE v == IF dstate[t] = "Error" THEN "error" ELSE "ok"
  <2>1. Sound(stack', ret', bound') /\ ret' \in {"none", "ok", "error"} /\ (ret' = "error" => v = "error")
      /\ (stack' = <<>> => ret' = "none")
    BY <1>5, AnswerGives DEF Within
  <2>2. v = "error" => errors
    BY <1>5 DEF Inv, ErrorsAreReported
  <2>3. Marks' /\ ErrorsAreReported'
    BY <1>1, <1>5, <2>1, <2>2 DEF Inv, Marks, ErrorsAreReported
  <2> QED BY <1>2, <2>1, <2>3, WalkWithin
<1>6. CASE /\ t # 0 /\ dstate' = [dstate EXCEPT ![t] = "Resolving"]
           /\ stack' = <<Frame("name", t)>> \o below /\ ret' = "none" /\ UNCHANGED errors
  <2>1. Frame("name", t) \in Frames /\ Frame("name", t).prev = Here
    BY <1>6 DEF Inv, Walk, Within, Frame, Frames
  <2>2. Frame("name", t).i = 1 /\ Frame("name", t).need = "name"
    BY DEF Frame
  <2>3. Sound(stack', ret', bound')
    BY <1>6, <2>1, <2>2, CallSound DEF Inv, Within
  <2>4. Marks' /\ ErrorsAreReported'
    BY <1>1, <1>6 DEF Inv, Marks, ErrorsAreReported, States
  <2> QED BY <1>2, <1>6, <2>3, <2>4, WalkWithin
<1> QED BY <1>3, <1>4, <1>5, <1>6 DEF ResolveName

LEMMA ReportsType ==
  ASSUME Inv, Running, UNCHANGED <<prog, pkg, pass>>, NEW s \in Ids \cup {0},
         NEW below, Ready(below, bound),
         below # <<>> => HasName(below[1]), ResolveTypeAggregate(s, below)
  PROVE  Marks' /\ Results' /\ ErrorsAreReported' /\ Walk' /\ (active \in Packages)'
<1>1. Within
  BY DEF Within, ResolveTypeAggregate, TypeIsKnown, TypeIsCyclic, BeginAggregate, facts, Inv, Walk
<1>2. Ids' = Ids /\ UNCHANGED <<dtype, ordered, noteErr, prog, bound>>
  BY <1>1, SameProgram DEF Within, ResolveTypeAggregate, TypeIsKnown, TypeIsCyclic, BeginAggregate, facts
<1>3. Results'
  BY <1>2 DEF Inv, Results, D
<1>4. CASE TypeIsKnown(s, below)
  <2> DEFINE v == IF KindOf(s) = "Error" THEN "error" ELSE "ok"
  <2>1. Answer(v, below) /\ UNCHANGED <<dstate, tkind, errors>>
    BY <1>4 DEF TypeIsKnown
  <2>2. Sound(stack', ret', bound') /\ ret' \in {"none", "ok", "error"} /\ (ret' = "error" => v = "error")
      /\ (stack' = <<>> => ret' = "none")
    BY <1>2, <2>1, AnswerGives
  <2>3. v = "error" => errors
    BY DEF Inv, ErrorsAreReported, KindOf
  <2>4. Marks' /\ ErrorsAreReported'
    BY <1>2, <2>1, <2>2, <2>3 DEF Inv, Marks, ErrorsAreReported
  <2> QED BY <1>1, <1>3, <2>2, <2>4, WalkWithin
<1>5. CASE TypeIsCyclic(s, below)
  <2>1. Sound(stack', ret', bound') /\ ret' \in {"none", "ok", "error"} /\ (stack' = <<>> => ret' = "none")
    BY <1>2, <1>5, AnswerGives DEF TypeIsCyclic
  <2>2. Marks' /\ ErrorsAreReported'
    BY <1>2, <1>5 DEF Inv, Marks, ErrorsAreReported, TypeIsCyclic, MarkDeclError, States, TypeStates
  <2> QED BY <1>1, <1>3, <2>1, <2>2, WalkWithin
<1>6. CASE BeginAggregate(s, below)
  <2>1. s \in Ids /\ stack' = <<Frame("agg", s)>> \o below /\ ret' = "none"
    BY <1>6 DEF BeginAggregate, KindOf
  <2>2. Frame("agg", s) \in Frames /\ Frame("agg", s).prev = Here
    BY <1>1, <2>1 DEF Inv, Walk, Within, Frame, Frames
  <2>3. Frame("agg", s).i = 1 /\ Frame("agg", s).need = "name"
    BY DEF Frame
  <2>4. Sound(stack', ret', bound')
    BY <1>2, <2>1, <2>2, <2>3, CallSound DEF Inv
  <2>5. Marks' /\ ErrorsAreReported'
    BY <1>2, <1>6, <2>1 DEF Inv, Marks, ErrorsAreReported, BeginAggregate, TypeStates
  <2> QED BY <1>1, <1>3, <2>1, <2>4, <2>5, WalkWithin
<1> QED BY <1>4, <1>5, <1>6 DEF ResolveTypeAggregate

---------------------------------------------------------------------------
(* The passes.                                                             *)

LEMMA EmptySound ==
  ASSUME NEW r, NEW b
  PROVE  Sound(<<>>, r, b) /\ Ready(<<>>, b)
BY DEF Sound, AreCalls, FromHere, Ready

LEMMA InitInv == Init => Inv
<1> SUFFICES ASSUME Init PROVE Inv
  OBVIOUS
<1>1. prog.packages \in Seq(Packages) /\ prog.packages # <<>> /\ prog.decls \in Seq(Declaration)
  BY ProgramsAssumption DEF Init
<1>2. Program
  BY <1>1 DEF Init, Program
<1>3. active \in Packages
  BY <1>1 DEF Init
<1>4. \A d \in Ids : bound[d] = [i \in DOMAIN D(d).refs |-> 0]
  BY DEF Init
<1>5. Results
  BY <1>4 DEF Init, Results
<1>6. Marks /\ ErrorsAreReported
  BY DEF Init, Marks, ErrorsAreReported, States, TypeStates
<1>7. Walk
  BY EmptySound DEF Init, Walk, Running
<1> QED BY <1>2, <1>3, <1>5, <1>6, <1>7 DEF Inv

LEMMA RegisterStep ==
  ASSUME Inv, RegisterDecls
  PROVE  Inv'
<1>1. /\ UNCHANGED <<prog, pkg, next, stack, ret, bound, noteErr, ordered>>
      /\ pass = "register" /\ pass' = "decls" /\ active' = Here /\ stack = <<>>
      /\ ret = "none"
  BY DEF RegisterDecls, Inv, Walk
<1>2. Ids' = Ids /\ Here' = Here
  BY <1>1, SameProgram
<1>3. Program' /\ (active \in Packages)'
  BY <1>1, ProgramFacts DEF Inv, Program
<1>4. Results'
  BY <1>1, <1>2 DEF Inv, Results, RegisterDecls, Own, D
<1>5. Marks'
  BY <1>1, <1>2 DEF Inv, Marks, RegisterDecls, States, TypeStates
<1>6. ErrorsAreReported'
  BY <1>1, <1>2 DEF Inv, Marks, RegisterDecls, ErrorsAreReported
<1>7. Walk'
  <2>1. Sound(stack', ret', bound')
    BY <1>1, EmptySound
  <2>2. Sound(stack, ret, bound)'
    BY <1>1, <2>1, SoundStep
  <2> QED BY <1>1, <1>2, <2>2 DEF Walk, Running, Sound
<1> QED BY <1>3, <1>4, <1>5, <1>6, <1>7 DEF Inv

(* A loop goes on to the next declaration.                                 *)
LEMMA LoopStep ==
  ASSUME Inv, NEW p, InLoop(p), Step
  PROVE  /\ Program' /\ UNCHANGED <<prog, pkg, pass>>
         /\ stack = <<>> /\ next \in Ids /\ pass = p
<1>1. next \in Ids /\ stack = <<>> /\ pass = p /\ UNCHANGED <<prog, pkg, pass>> /\ next' = next + 1
  BY DEF InLoop, Step, Own
<1>2. next \in 1 .. Len(prog.decls) /\ Len(prog.decls) \in Nat
  BY <1>1, ProgramFacts DEF Inv
<1>3. Program'
  BY <1>1, <1>2 DEF Inv, Program
<1> QED BY <1>1, <1>3

LEMMA ResolveDeclStep ==
  ASSUME Inv, ResolveDecl
  PROVE  Inv'
<1>1. Program' /\ Within
  BY LoopStep DEF ResolveDecl, ResolveName, facts, Within, Running
<1>2. Find(InScope(active), D(next).name) \in Ids \cup {0}
  BY LooksUpDeclarations DEF Inv
<1>3. Marks' /\ Results' /\ ErrorsAreReported' /\ Walk' /\ (active \in Packages)'
  BY <1>1, <1>2, EmptySound, ReportsName DEF ResolveDecl
<1> QED BY <1>1, <1>3 DEF Inv

LEMMA ResolveNoteStep ==
  ASSUME Inv, ResolveNote
  PROVE  Inv'
<1>1. /\ Program' /\ Within /\ stack = <<>> /\ next \in Ids
      /\ UNCHANGED <<ret, dstate, tkind, facts, active, errors>>
  BY LoopStep DEF ResolveNote, facts, Within, Running
<1>2. Frame("note", next) \in Frames /\ Frame("note", next).prev = Here
  BY <1>1 DEF Inv, Walk, Within, Frame, Frames
<1>3. Frame("note", next).i = 1 /\ Frame("note", next).need = "name"
  BY DEF Frame
<1>4. stack' = <<Frame("note", next)>>
  BY DEF ResolveNote
<1>5. Sound(<<Frame("note", next)>> \o <<>>, "none", bound)
  BY <1>2, <1>3, EmptySound, CallSound DEF Inv
<1>6. Sound(stack', ret', bound')
  BY <1>1, <1>4, <1>5 DEF Inv, Walk, Within
<1>7. Walk' /\ (active \in Packages)'
  BY <1>1, <1>6, WalkWithin DEF Inv, Walk
<1>8. Ids' = Ids
  BY <1>1, SameProgram DEF Within
<1>9. Marks' /\ Results' /\ ErrorsAreReported'
  BY <1>1, <1>8, <1>4 DEF Inv, Walk, Marks, Results, ErrorsAreReported, facts, Within, D
<1> QED BY <1>1, <1>7, <1>9 DEF Inv

LEMMA IncompleteStep ==
  ASSUME Inv, ResolveIncompleteType
  PROVE  Inv'
<1>1. Program' /\ UNCHANGED <<prog, pkg, pass>> /\ Running /\ next \in Ids
  BY LoopStep DEF ResolveIncompleteType, Running
<1>2. dtype[next] \in Ids \cup {0}
  BY <1>1 DEF Inv, Results
<1>3. Marks' /\ Results' /\ ErrorsAreReported' /\ Walk' /\ (active \in Packages)'
  BY <1>1, <1>2, EmptySound, ReportsType DEF ResolveIncompleteType
<1> QED BY <1>1, <1>3 DEF Inv

LEMMA PassOverStep ==
  ASSUME Inv, PassOver
  PROVE  Inv'
<1>1. Program' /\ Within /\ UNCHANGED <<stack, ret, dstate, tkind, facts, active, errors>>
  BY LoopStep DEF PassOver, facts, Within, Running
<1>2. Sound(stack', ret', bound')
  BY <1>1 DEF Inv, Walk, Within
<1>3. Walk' /\ (active \in Packages)'
  BY <1>1, <1>2, WalkWithin DEF Inv, Walk
<1>4. Ids' = Ids
  BY <1>1, SameProgram DEF Within
<1>5. Marks' /\ Results' /\ ErrorsAreReported'
  BY <1>1, <1>4 DEF Inv, Marks, Results, ErrorsAreReported, facts, Within, D
<1> QED BY <1>1, <1>3, <1>5 DEF Inv

LEMMA NextPackageStep ==
  ASSUME Inv, NextPackage
  PROVE  Inv'
<1>1. UNCHANGED <<prog, stack, ret, dstate, tkind, facts, errors>> /\ stack = <<>> /\ ret = "none"
  BY DEF NextPackage, Inv, Walk
<1>2. pkg \in 1 .. Len(prog.packages) /\ Len(prog.packages) \in Nat
  BY ProgramFacts DEF Inv, Program
<1>3. pkg' \in 1 .. Len(prog.packages)
  BY <1>2 DEF NextPackage
<1>4. Program'
  BY <1>1, <1>3, ProgramFacts DEF Inv, Program, NextPackage
<1>5. Ids' = Ids /\ Here' \in Packages /\ active' = Here'
  <2>1. prog \in Programs
    BY DEF Inv, Program
  <2>2. prog.packages \in Seq(Packages)
    BY <2>1, ProgramsAssumption
  <2>3. prog.packages[pkg'] \in Packages
    BY <1>3, <2>2
  <2> QED BY <1>1, <2>3 DEF NextPackage, Here, Ids
<1>6. Walk'
  BY <1>1, <1>5 DEF Walk, Sound, AreCalls, FromHere, Running
<1>7. Marks' /\ Results' /\ ErrorsAreReported'
  BY <1>1, <1>5 DEF Inv, Marks, Results, ErrorsAreReported, facts, D
<1> QED BY <1>4, <1>5, <1>6, <1>7 DEF Inv

(* The two ends of the compiler in the middle of a pass.                   *)
LEMMA CrashStep ==
  ASSUME Inv, AssertAggregate \/ ReadDeclOfNote
  PROVE  Inv'
<1>1. /\ UNCHANGED <<prog, pkg, next, stack, ret, dstate, tkind, facts, active>>
      /\ pass' = "crashed" /\ errors' \in {TRUE, errors}
  BY DEF AssertAggregate, ReadDeclOfNote
<1>2. Ids' = Ids
  BY <1>1, SameProgram
<1>3. Program' /\ (active \in Packages)'
  BY <1>1 DEF Inv, Program
<1>4. Walk'
  <2>1. Sound(stack', ret', bound')
    BY <1>1 DEF Inv, Walk, facts
  <2>2. Sound(stack, ret, bound)'
    BY <1>1, <2>1, SoundStep
  <2> QED BY <1>1, <1>2, <2>2 DEF Inv, Walk, Running, Frames
<1>5. Marks' /\ Results' /\ ErrorsAreReported'
  BY <1>1, <1>2 DEF Inv, Marks, Results, ErrorsAreReported, facts, D
<1> QED BY <1>3, <1>4, <1>5 DEF Inv

---------------------------------------------------------------------------
(* The calls in progress.                                                  *)

LEMMA TopOfStack ==
  ASSUME Inv, Running, stack # <<>>
  PROVE  /\ Top \in Frames /\ Top.d \in Ids /\ Top.prev = Here /\ active = Here
         /\ Knows(Top, bound) /\ Top.i \in Nat \ {0}
         /\ Sound(stack, ret, bound) /\ (ret # "none" => Waits(Top)) /\ (ret = "ok" => HasName(Top))
         /\ MoreRefs <=> Waits(Top)
         /\ D(Top.d).refs \in Seq(Mention)
         /\ Ready(Tail(stack), bound) /\ (Tail(stack) # <<>> => HasName(Tail(stack)[1]))
<1>1. Sound(stack, ret, bound) /\ active = Here /\ stack \in Seq(Frames)
  BY DEF Inv, Walk
<1>2. Top \in Frames /\ 1 \in DOMAIN stack
  BY <1>1, PoppedStack DEF Top
<1>3. /\ Knows(Top, bound) /\ (ret # "none" => Waits(Top)) /\ (ret = "ok" => HasName(Top))
      /\ Top.prev = Here
  BY <1>1, <1>2 DEF Sound, AreCalls, FromHere, Top
<1>4. Top.d \in Ids /\ Top.i \in Nat \ {0}
  BY <1>2 DEF Frames
<1>5. D(Top.d).refs \in Seq(Mention)
  BY <1>4, ProgramFacts DEF Inv, Declaration
<1>6. MoreRefs <=> Waits(Top)
  BY <1>4, <1>5 DEF MoreRefs, Waits
<1>7. Ready(Tail(stack), bound) /\ (Tail(stack) # <<>> => HasName(Tail(stack)[1]))
  BY <1>1, ReturnReady
<1> QED BY <1>1, <1>2, <1>3, <1>4, <1>5, <1>6, <1>7

LEMMA TopMention ==
  ASSUME Inv, Running, stack # <<>>, Waits(Top)
  PROVE  /\ Ref \in Mention /\ Lookup(active, Ref) \in Ids \cup {0}
         /\ HasName(Top) <=> (Top.need = "name" => Lookup(active, Ref) # 0)
<1>1. Ref \in Mention
  BY TopOfStack DEF Ref, Waits
<1>2. Lookup(active, Ref) \in Ids \cup {0}
  BY LooksUpDeclarations DEF Inv
<1>3. HereFinds[Ref] = Lookup(active, Ref)
  BY <1>1, TopOfStack DEF HereFinds
<1> QED BY <1>1, <1>2, <1>3 DEF HasName, Ref

LEMMA CallingReady ==
  ASSUME Inv, Running, NEW need, Calling(need)
  PROVE  Ready(stack, bound) /\ stack # <<>> /\ Waits(Top) /\ stack[1] = Top
<1>1. stack # <<>> /\ MoreRefs /\ ret = "none"
  BY DEF Calling
<1>2. Sound(stack, "none", bound) /\ Waits(Top)
  BY <1>1, TopOfStack
<1> QED BY <1>1, <1>2 DEF Ready, Top

LEMMA LookUpNameStep ==
  ASSUME Inv, Running, LookUpName
  PROVE  Inv'
<1>1. Ready(stack, bound) /\ stack # <<>> /\ Waits(Top) /\ stack[1] = Top
  BY CallingReady DEF LookUpName
<1>2. Within /\ UNCHANGED next
  BY DEF LookUpName, ResolveName, Within, flow, facts
<1>3. /\ Lookup(active, Ref) \in Ids \cup {0}
      /\ Lookup(active, Ref) # 0 => HasName(stack[1])
  BY <1>1, TopMention
<1>4. Marks' /\ Results' /\ ErrorsAreReported' /\ Walk' /\ (active \in Packages)'
  BY <1>1, <1>2, <1>3, ReportsName DEF LookUpName
<1>5. Program'
  BY <1>2 DEF Inv, Program, Within
<1> QED BY <1>4, <1>5 DEF Inv

LEMMA CompleteTypeStep ==
  ASSUME Inv, Running, CompleteType
  PROVE  Inv'
<1>1. Ready(stack, bound) /\ stack # <<>> /\ Waits(Top) /\ stack[1] = Top
  BY CallingReady DEF CompleteType
<1>2. UNCHANGED <<prog, pkg, pass, next>> /\ Top.need = "type"
  BY DEF CompleteType, Calling, flow
<1>3. HasName(stack[1])
  BY <1>1, <1>2 DEF HasName
<1>4. Found \in Ids
  BY <1>1, <1>2, TopOfStack DEF Knows, Found
<1>5. dtype[Found] \in Ids \cup {0}
  BY <1>4 DEF Inv, Results
<1>6. Marks' /\ Results' /\ ErrorsAreReported' /\ Walk' /\ (active \in Packages)'
  BY <1>1, <1>2, <1>3, <1>5, ReportsType DEF CompleteType
<1>7. Program'
  BY <1>2 DEF Inv, Program
<1> QED BY <1>6, <1>7 DEF Inv

LEMMA AdvancedFrame ==
  ASSUME NEW f \in Frames
  PROVE  LET g == [f EXCEPT !.i = @ + 1, !.need = "name"]
         IN  /\ g \in Frames /\ g.d = f.d /\ g.fn = f.fn /\ g.i = f.i + 1
             /\ g.need = "name" /\ g.prev = f.prev
<1> DEFINE h == [f EXCEPT !.i = f.i + 1]
           g == [f EXCEPT !.i = @ + 1, !.need = "name"]
<1>1. h \in Frames
  BY DEF Frames
<1>2. g = [h EXCEPT !.need = "name"]
  OBVIOUS
<1>3. [h EXCEPT !.need = "name"] \in Frames
  <2> HIDE DEF h
  <2> QED BY <1>1 DEF Frames
<1>4. g.d = f.d /\ g.fn = f.fn /\ g.i = f.i + 1
  BY DEF Frames
<1>5. g.need = "name" /\ g.prev = f.prev
  BY DEF Frames
<1> QED BY <1>2, <1>3, <1>4, <1>5

(* A frame goes on to its next mention.                                    *)
LEMMA NextMention ==
  ASSUME Inv, Running, stack # <<>>, Waits(Top), NEW b, Sound(stack, ret, b),
         Top.fn = "name" => b[Top.d][Top.i] \in Ids, NextRef
  PROVE  Sound(stack', ret', b) /\ ret' = "none" /\ stack' # <<>>
<1> DEFINE f == [Top EXCEPT !.i = @ + 1, !.need = "name"]
<1>1. Top \in Frames /\ Top.prev = Here /\ Top.i \in Nat \ {0} /\ D(Top.d).refs \in Seq(Mention)
  BY TopOfStack
<1>2. /\ f \in Frames /\ f.d = Top.d /\ f.fn = Top.fn /\ f.i = Top.i + 1
      /\ f.need = "name" /\ f.prev = Here
  BY <1>1, AdvancedFrame
<1>3. Top.i + 1 <= Len(D(Top.d).refs) + 1 /\ 1 \in DOMAIN stack
  BY <1>1 DEF Waits, Inv, Walk
<1>4. Knows(Top, b)
  BY <1>3 DEF Sound, AreCalls, Top
<1>5. \A j \in 1 .. Top.i + 1 - 1 : j = Top.i \/ j \in 1 .. Top.i - 1
  BY <1>1
<1>6. Knows(f, b)
  <2>1. Top.fn = "name" => \A j \in 1 .. Top.i + 1 - 1 : b[Top.d][j] \in Ids
    BY <1>4, <1>5 DEF Knows
  <2> HIDE DEF f
  <2>2. f.i <= Len(D(f.d).refs) + 1
    BY <1>2, <1>3
  <2>3. f.need # "type"
    BY <1>2
  <2>4. f.fn = "name" => \A j \in 1 .. f.i - 1 : b[f.d][j] \in Ids
    <3>1. f.d = Top.d /\ f.fn = Top.fn /\ f.i - 1 = Top.i + 1 - 1
      BY <1>1, <1>2
    <3> QED BY <2>1, <3>1, Zenon
  <2> QED BY <2>2, <2>3, <2>4 DEF Knows
<1>7. stack' = <<f>> \o Tail(stack) /\ ret' = "none"
  BY DEF NextRef, Continue
<1>8. stack' # <<>>
  <2>1. Tail(stack) \in Seq(Frames)
    BY PoppedStack DEF Inv, Walk
  <2> HIDE DEF f
  <2> QED BY <1>2, <1>7, <2>1, PushedStack
<1> HIDE DEF f
<1> QED BY <1>2, <1>6, <1>7, <1>8, ContinueSound

LEMMA TypeCompletedStep ==
  ASSUME Inv, Running, TypeCompleted
  PROVE  Inv'
<1>1. /\ Within /\ UNCHANGED <<next, dstate, tkind, facts, errors>> /\ stack # <<>>
      /\ Top.need = "type" /\ ret = "ok"
  BY DEF TypeCompleted, Called, Within, flow, facts
<1>2. Waits(Top) /\ bound[Top.d][Top.i] \in Ids /\ Sound(stack, ret, bound)
  BY <1>1, TopOfStack DEF Knows
<1>3. Sound(stack', ret', bound) /\ ret' = "none" /\ stack' # <<>>
  BY <1>1, <1>2, NextMention DEF TypeCompleted
<1>4. Walk' /\ (active \in Packages)'
  BY <1>1, <1>3, WalkWithin DEF Within
<1>5. Ids' = Ids
  BY <1>1, SameProgram DEF Within
<1>6. Program' /\ Marks' /\ Results' /\ ErrorsAreReported'
  BY <1>1, <1>3, <1>5 DEF Inv, Program, Marks, Results, ErrorsAreReported, facts, Within, D
<1> QED BY <1>4, <1>6 DEF Inv

LEMMA MemberFailsStep ==
  ASSUME Inv, Running, MemberFails
  PROVE  Inv'
<1>1. /\ Within /\ UNCHANGED <<next, facts, errors>> /\ stack # <<>>
      /\ Top.fn = "agg" /\ ret = "error" /\ MarkDeclError(Top.d)
      /\ tkind' = [tkind EXCEPT ![Top.d] = "Error"]
  BY DEF MemberFails, Within, flow, facts
<1>2. Waits(Top) /\ Sound(stack, ret, bound)
  BY <1>1, TopOfStack
<1>3. Sound(stack', ret', bound) /\ ret' = "none" /\ stack' # <<>>
  BY <1>1, <1>2, NextMention DEF MemberFails
<1>4. Walk' /\ (active \in Packages)'
  BY <1>1, <1>3, WalkWithin DEF Within
<1>5. Ids' = Ids /\ errors'
  BY <1>1, SameProgram DEF Within, Inv, ErrorsAreReported
<1>6. Program' /\ Marks' /\ Results' /\ ErrorsAreReported'
  BY <1>1, <1>5 DEF Inv, Program, Marks, Results, ErrorsAreReported, facts, Within, D,
                    MarkDeclError, States, TypeStates
<1> QED BY <1>4, <1>6 DEF Inv

LEMMA WrongKindStep ==
  ASSUME Inv, Running, WrongKind
  PROVE  Inv'
<1>1. /\ Within /\ UNCHANGED <<next, stack, dstate, tkind, facts>> /\ stack # <<>>
      /\ ret = "ok" /\ ret' = "error" /\ errors' = TRUE
  BY DEF WrongKind, Called, Within, flow, facts
<1>2. Waits(Top) /\ Sound(stack, "ok", bound)
  BY <1>1, TopOfStack
<1>3. Sound(stack', ret', bound')
  BY <1>1, <1>2 DEF Sound, AreCalls, Within
<1>4. Walk' /\ (active \in Packages)'
  BY <1>1, <1>3, WalkWithin DEF Within
<1>5. Ids' = Ids
  BY <1>1, SameProgram DEF Within
<1>6. Program' /\ Marks' /\ Results' /\ ErrorsAreReported'
  BY <1>1, <1>5 DEF Inv, Program, Marks, Results, ErrorsAreReported, facts, Within, D
<1> QED BY <1>4, <1>6 DEF Inv

(* A name is bound: what the frames know is not lost.                      *)
LEMMA NameFoundStep ==
  ASSUME Inv, Running, NameFound
  PROVE  Inv'
<1> DEFINE t == Lookup(active, Ref)
<1>1. /\ UNCHANGED <<prog, pkg, pass, next, dstate, tkind, dtype, noteErr, ordered, active, errors>>
      /\ stack # <<>> /\ Top.need = "name" /\ ret = "ok"
      /\ bound' = [bound EXCEPT ![Top.d][Top.i] = t]
  BY DEF NameFound, Called, flow
<1>2. Waits(Top) /\ HasName(Top) /\ Sound(stack, ret, bound) /\ Top \in Frames /\ Top.d \in Ids
      /\ Top.prev = Here /\ active = Here
  BY <1>1, TopOfStack
<1>3. t \in Ids
  BY <1>1, <1>2, TopMention
<1>4. Ids' = Ids
  BY <1>1, SameProgram
<1>5. \A d \in Ids : bound[d] \in [DOMAIN D(d).refs -> Ids \cup {0}]
  BY DEF Inv, Results
<1>6. bound = [d \in Ids |-> bound[d]]
  BY DEF Inv, Results
<1> HIDE DEF t
<1>7. \A d \in Ids : bound'[d] \in [DOMAIN D(d).refs -> Ids \cup {0}]
  BY <1>1, <1>2, <1>3, <1>5, <1>6 DEF Waits
<1>8. bound' = [d \in Ids |-> bound'[d]]
  BY <1>1, <1>6
<1>9. Results'
  BY <1>1, <1>4, <1>7, <1>8 DEF Inv, Results, D
<1>10. bound'[Top.d][Top.i] \in Ids
  BY <1>1, <1>2, <1>3, <1>5, <1>6 DEF Waits
<1>11. ASSUME NEW d \in Ids, NEW j, bound[d][j] \in Ids
       PROVE  bound'[d][j] \in Ids
  BY <1>1, <1>3, <1>6, <1>11
<1>12. ASSUME NEW f \in Frames, Knows(f, bound)
       PROVE  Knows(f, bound')
  BY <1>11, <1>12 DEF Knows, Frames
<1>13. Sound(stack, ret, bound')
  <2>1. \A k \in DOMAIN stack : stack[k] \in Frames
    BY <1>2 DEF Sound
  <2> QED BY <1>2, <1>12, <2>1 DEF Sound, AreCalls
<1>14. Sound(stack', ret', bound') /\ stack' # <<>> /\ ret' \in {"none", "ok", "error"}
  <2>1. CASE NextRef
    BY <1>1, <1>2, <1>10, <1>13, <2>1, NextMention
  <2>2. CASE Continue([Top EXCEPT !.need = "type"])
    <3> DEFINE f == [Top EXCEPT !.need = "type"]
    <3>1. f \in Frames /\ f.prev = Here /\ f.i = Top.i /\ f.d = Top.d /\ f.fn = Top.fn
      BY <1>2 DEF Frames
    <3>2. Knows(Top, bound')
      BY <1>2, <1>12, TopOfStack, <1>1
    <3>3. Knows(f, bound')
      BY <1>10, <3>1, <3>2 DEF Knows
    <3>4. stack' = <<f>> \o Tail(stack) /\ ret' = "none"
      BY <2>2 DEF Continue
    <3> HIDE DEF f
    <3>5. stack' # <<>>
      <4>1. Tail(stack) \in Seq(Frames)
        BY <1>1, PoppedStack DEF Inv, Walk
      <4> QED BY <3>1, <3>4, <4>1, PushedStack
    <3> QED BY <1>1, <1>13, <3>1, <3>3, <3>4, <3>5, ContinueSound
  <2> QED BY <2>1, <2>2 DEF NameFound
<1>15. Walk' /\ (active \in Packages)'
  <2>1. Sound(stack, ret, bound)'
    BY <1>1, <1>14, SoundStep
  <2>2. Here' = Here /\ (stack \in Seq(Frames))'
    BY <1>1, <2>1, SameProgram DEF Sound
  <2> QED BY <1>1, <1>2, <1>14, <2>1, <2>2 DEF Inv, Walk, Running
<1>16. Program' /\ Marks' /\ ErrorsAreReported'
  <2>1. ret' # "error"
    BY <1>1 DEF NameFound, NextRef, Continue
  <2> QED BY <1>1, <1>4, <2>1 DEF Inv, Program, Marks, ErrorsAreReported
<1> QED BY <1>9, <1>15, <1>16 DEF Inv

(* The outermost call returns.                                             *)
LEMMA ReturnStep ==
  ASSUME Inv, Running, stack # <<>>, NEW v \in {"ok", "error"}, Answer(v, Tail(stack)),
         UNCHANGED <<prog, pkg, pass, bound>>, active' \in {active, Top.prev}
  PROVE  Walk' /\ (active \in Packages)' /\ (ret' = "error" => v = "error") /\ Ids' = Ids
<1>1. /\ Ready(Tail(stack), bound) /\ (Tail(stack) # <<>> => HasName(Tail(stack)[1]))
      /\ Top.prev = active
  BY TopOfStack
<1>2. Within
  BY <1>1 DEF Within
<1>3. /\ Sound(stack', ret', bound') /\ ret' \in {"none", "ok", "error"}
      /\ ret' = "error" => v = "error"
      /\ stack' = <<>> => ret' = "none"
  BY <1>1, AnswerGives
<1> QED BY <1>2, <1>3, WalkWithin, SameProgram

LEMMA NameFailsStep ==
  ASSUME Inv, Running, NameFails
  PROVE  Inv'
<1>1. /\ UNCHANGED <<prog, pkg, pass, next, bound, active, tkind, facts, errors>>
      /\ stack # <<>> /\ ret = "error" /\ Answer("error", Tail(stack)) /\ MarkDeclError(Top.d)
  BY DEF NameFails, flow, facts
<1>2. Walk' /\ (active \in Packages)' /\ Ids' = Ids
  BY <1>1, ReturnStep
<1>3. errors'
  BY <1>1 DEF Inv, ErrorsAreReported
<1>4. Program' /\ Marks' /\ Results' /\ ErrorsAreReported'
  BY <1>1, <1>2, <1>3 DEF Inv, Program, Marks, Results, ErrorsAreReported, facts, D,
                          MarkDeclError, States
<1> QED BY <1>2, <1>4 DEF Inv

LEMMA NoteFailsStep ==
  ASSUME Inv, Running, NoteFails
  PROVE  Inv'
<1>1. /\ UNCHANGED <<prog, pkg, pass, next, bound, active, dstate, tkind, dtype, ordered, errors>>
      /\ stack # <<>> /\ ret = "error" /\ Answer("error", Tail(stack))
      /\ noteErr' = noteErr \cup {Top.d}
  BY DEF NoteFails, flow
<1>2. Walk' /\ (active \in Packages)' /\ Ids' = Ids
  BY <1>1, ReturnStep
<1>3. errors' /\ Top.d \in Ids
  BY <1>1, TopOfStack DEF Inv, ErrorsAreReported
<1>4. Program' /\ Marks' /\ Results' /\ ErrorsAreReported'
  BY <1>1, <1>2, <1>3 DEF Inv, Program, Marks, Results, ErrorsAreReported, D
<1> QED BY <1>2, <1>4 DEF Inv

LEMMA WeakAggregateStep ==
  ASSUME Inv, Running, WeakAggregate
  PROVE  Inv'
<1>1. /\ UNCHANGED <<prog, pkg, pass, next, bound, active, tkind, facts>> /\ errors' = TRUE
      /\ stack # <<>> /\ Answer("error", Tail(stack)) /\ MarkDeclError(Top.d)
  BY DEF WeakAggregate, Finished, flow, facts
<1>2. Walk' /\ (active \in Packages)' /\ Ids' = Ids
  BY <1>1, ReturnStep
<1>3. Program' /\ Marks' /\ Results' /\ ErrorsAreReported'
  BY <1>1, <1>2 DEF Inv, Program, Marks, Results, ErrorsAreReported, facts, D,
                    MarkDeclError, States
<1> QED BY <1>2, <1>3 DEF Inv

LEMMA NoteResolvedStep ==
  ASSUME Inv, Running, NoteResolved \/ AggregateFails
  PROVE  Inv'
<1>1. PICK v \in {"ok", "error"} :
         /\ UNCHANGED <<prog, pkg, pass, next, bound, active, dstate, tkind, facts, errors>>
         /\ stack # <<>> /\ Answer(v, Tail(stack))
         /\ v = "error" => tkind[Top.d] = "Error"
  BY DEF NoteResolved, AggregateFails, Finished, flow, facts
<1>2. Walk' /\ (active \in Packages)' /\ Ids' = Ids /\ (ret' = "error" => v = "error")
  BY <1>1, ReturnStep
<1>3. v = "error" => errors
  BY <1>1, TopOfStack DEF Inv, ErrorsAreReported
<1>4. Program' /\ Marks' /\ Results' /\ ErrorsAreReported'
  BY <1>1, <1>2, <1>3 DEF Inv, Program, Marks, Results, ErrorsAreReported, facts, D
<1> QED BY <1>2, <1>4 DEF Inv

LEMMA Appended ==
  ASSUME Inv, NEW d \in Ids, Append1(d)
  PROVE  ordered' \in [Packages -> Seq(Ids)]
BY ProgramFacts DEF Inv, Results, Append1

LEMMA AggregateCompletedStep ==
  ASSUME Inv, Running, AggregateCompleted
  PROVE  Inv'
<1>1. /\ UNCHANGED <<prog, pkg, pass, next, dstate, dtype, bound, noteErr, errors>>
      /\ stack # <<>> /\ Answer("ok", Tail(stack)) /\ active' = Top.prev
      /\ tkind' = [tkind EXCEPT ![Top.d] = "Complete"] /\ Append1(Top.d)
  BY DEF AggregateCompleted, Finished, flow
<1>2. Walk' /\ (active \in Packages)' /\ Ids' = Ids /\ ret' # "error"
  BY <1>1, ReturnStep
<1>3. ordered' \in [Packages -> Seq(Ids)]
  BY <1>1, TopOfStack, Appended
<1>4. Program' /\ Marks' /\ Results' /\ ErrorsAreReported'
  BY <1>1, <1>2, <1>3 DEF Inv, Program, Marks, Results, ErrorsAreReported, D, TypeStates
<1> QED BY <1>2, <1>4 DEF Inv

LEMMA NameResolvedStep ==
  ASSUME Inv, Running, NameResolved
  PROVE  Inv'
<1>1. /\ UNCHANGED <<prog, pkg, pass, next, tkind, bound, noteErr, active, errors>>
      /\ stack # <<>> /\ Answer("ok", Tail(stack)) /\ Top.fn = "name" /\ ~MoreRefs
      /\ dtype' = [dtype EXCEPT ![Top.d] = TypeOf(Top.d)]
      /\ dstate' = [dstate EXCEPT ![Top.d] = "Resolved"] /\ Append1(Top.d)
  BY DEF NameResolved, Finished, flow
<1>2. Walk' /\ (active \in Packages)' /\ Ids' = Ids /\ ret' # "error"
  BY <1>1, ReturnStep
<1>3. ordered' \in [Packages -> Seq(Ids)]
  BY <1>1, TopOfStack, Appended
<1>4. TypeOf(Top.d) \in Ids \cup {0}
  <2>1. CASE D(Top.d).refs = <<>>
    BY <2>1 DEF TypeOf
  <2>2. CASE D(Top.d).refs # <<>>
    <3>1. /\ D(Top.d).refs \in Seq(Mention) /\ Top.i \in Nat \ {0} /\ Knows(Top, bound)
          /\ ~(Top.i <= Len(D(Top.d).refs))
      BY <1>1, TopOfStack DEF MoreRefs
    <3>2. 1 \in 1 .. Top.i - 1
      BY <2>2, <3>1
    <3>3. bound[Top.d][1] \in Ids
      BY <1>1, <3>1, <3>2 DEF Knows
    <3> QED BY <3>3 DEF TypeOf, Inv, Results
  <2> QED BY <2>1, <2>2
<1>5. Program' /\ Marks' /\ Results' /\ ErrorsAreReported'
  BY <1>1, <1>2, <1>3, <1>4 DEF Inv, Program, Marks, Results, ErrorsAreReported, D, States
<1> QED BY <1>2, <1>5 DEF Inv

LEMMA InvStep == Inv /\ [Next]_vars => Inv'
<1> SUFFICES ASSUME Inv, [Next]_vars PROVE Inv'
  OBVIOUS
<1>1. CASE Resolve
  <2>1. Running
    BY <1>1 DEF Resolve
  <2> QED BY <1>1, <2>1, LookUpNameStep, NameFoundStep, WrongKindStep, NameFailsStep,
             NameResolvedStep, WeakAggregateStep, CompleteTypeStep, TypeCompletedStep,
             MemberFailsStep, NoteResolvedStep, AggregateCompletedStep, NoteFailsStep DEF Resolve
<1>2. CASE UNCHANGED vars
  <2>1. /\ UNCHANGED <<prog, pkg, pass, next, stack, ret, bound, active, dstate, tkind, dtype>>
        /\ UNCHANGED <<noteErr, ordered, errors>>
    BY <1>2 DEF vars
  <2>2. Ids' = Ids /\ Here' = Here
    BY <2>1, SameProgram
  <2>3. Walk'
    <3>1. Sound(stack', ret', bound')
      BY <2>1 DEF Inv, Walk
    <3>2. Sound(stack, ret, bound)'
      BY <2>1, <3>1, SoundStep
    <3> QED BY <2>1, <2>2, <3>2 DEF Inv, Walk, Running, Frames
  <2>4. Program' /\ (active \in Packages)' /\ Marks' /\ Results' /\ ErrorsAreReported'
    BY <2>1, <2>2 DEF Inv, Program, Marks, Results, ErrorsAreReported, D
  <2> QED BY <2>3, <2>4 DEF Inv
<1> QED BY <1>1, <1>2, RegisterStep, ResolveDeclStep, ResolveNoteStep, IncompleteStep,
           PassOverStep, NextPackageStep, CrashStep DEF Next

---------------------------------------------------------------------------
(* What follows.                                                           *)

LEMMA Invariance == Spec => []Inv
BY InitInv, InvStep, PTL DEF Spec

(* LC_ReportASTError: whatever the program, and wherever the two           *)
(* recursions meet an error first, a mark on a declaration, a type or a    *)
(* note and an error that travels up the stack have been reported, so that *)
(* no code is generated.  The hard part is that the marks belong to        *)
(* declarations at all: that a name that was found once is found again     *)
(* when the call for it returns.                                           *)
THEOREM ErrorsAreNotSilent == Spec => []ErrorsAreReported
<1>1. Inv => ErrorsAreReported
  BY DEF Inv
<1> QED BY <1>1, Invariance, PTL

(* LC_PUSH_SCOPE in LC_ResolveTypeAggregate: no call, not even one that    *)
(* returns early, leaves the loops over the declarations in the scope of   *)
(* another package.                                                        *)
THEOREM ScopeIsRestored == Spec => []ScopeRestored
<1>1. Inv => ScopeRestored
  BY DEF Inv, Walk, ScopeRestored
<1> QED BY <1>1, Invariance, PTL

(* Every reachable state is typed: no order of the two recursions takes a  *)
(* state, a frame, a binding or the ordered list out of its range.         *)
THEOREM DeclarationsTyped == Spec => []TypeOK
<1>1. Inv => TypeOK
  <2> SUFFICES ASSUME Inv PROVE TypeOK
    OBVIOUS
  <2>1. prog.decls \in Seq(Declaration) /\ Program
    BY ProgramsAssumption DEF Inv, Program
  <2>2. ASSUME NEW i \in DOMAIN stack
        PROVE  IsFrame(stack[i])
    <3>1. stack[i] \in Frames /\ Knows(stack[i], bound)
      BY DEF Inv, Walk, Sound, AreCalls
    <3>2. stack[i].d \in Ids /\ stack[i].i \in Nat \ {0} /\ Len(D(stack[i].d).refs) \in Nat
      BY <2>1, <3>1, ProgramFacts DEF Frames
    <3> QED BY <3>1, <3>2 DEF IsFrame, Knows, Frames
  <2> QED BY <2>1, <2>2 DEF Inv, TypeOK, Program, Marks, Results, Walk, States, TypeStates
<1> QED BY <1>1, Invariance, PTL

---------------------------------------------------------------------------
(* The program, in the order of its packages.                              *)

LEMMA Prog ==
  ASSUME Program
  PROVE  /\ prog.decls \in Seq(Declaration) /\ prog.packages \in Seq(Packages)
         /\ \A d \in Ids : WellShaped(D(d))
         /\ InOrder(prog)
<1>1. prog \in Programs
  BY DEF Program
<1> QED BY <1>1, ProgramsAssumption DEF Ids, D

LEMMA TurnFacts ==
  ASSUME Program
  PROVE  /\ Turns = 1 .. Len(prog.packages) /\ Len(prog.packages) \in Nat /\ pkg \in Turns
         /\ \A d \in Ids : Turn(d) \in Turns /\ prog.packages[Turn(d)] = D(d).pkg
         /\ \A k, l \in Turns : prog.packages[k] = prog.packages[l] => k = l
         /\ \A d \in Ids : \A k \in Turns : prog.packages[k] = D(d).pkg => k = Turn(d)
<1>1. Turns = 1 .. Len(prog.packages) /\ Len(prog.packages) \in Nat /\ pkg \in Turns
  BY ProgramFacts DEF Turns, Program
<1>2. /\ \A k, l \in Turns : prog.packages[k] = prog.packages[l] => k = l
      /\ \A d \in Ids : \E k \in Turns : D(d).pkg = prog.packages[k]
  BY Prog DEF InOrder, Turns, Ids, D
<1>3. \A d \in Ids : Turn(d) \in Turns /\ prog.packages[Turn(d)] = D(d).pkg
  BY <1>2 DEF Turn
<1> QED BY <1>1, <1>2, <1>3

LEMMA TurnOrder ==
  ASSUME Program, NEW d \in Ids, NEW e \in Ids, d < e
  PROVE  Turn(d) <= Turn(e)
<1>1. \A a, b \in Ids : \A k, l \in Turns :
         D(a).pkg = prog.packages[k] /\ D(b).pkg = prog.packages[l] /\ a < b => k <= l
  BY Prog DEF InOrder, Turns, Ids, D
<1> QED BY <1>1, TurnFacts

LEMMA OpenIsEarlier ==
  ASSUME Program, NEW k \in Turns, NEW d \in InScope(prog.packages[k])
  PROVE  d \in Ids /\ Named(d) /\ Turn(d) <= k /\ (Turn(d) = k <=> D(d).pkg = prog.packages[k])
<1>1. d \in Ids /\ Named(d) /\ (D(d).pkg = prog.packages[k] \/ <<prog.packages[k], D(d).pkg>> \in prog.open)
  BY DEF InScope
<1>2. Turn(d) \in Turns /\ prog.packages[Turn(d)] = D(d).pkg /\ Turns \subseteq Nat
  BY <1>1, TurnFacts
<1>3. CASE D(d).pkg = prog.packages[k]
  BY <1>1, <1>2, <1>3, TurnFacts
<1>4. CASE <<prog.packages[k], D(d).pkg>> \in prog.open
  <2>1. PICK i, l \in Turns : <<prog.packages[k], D(d).pkg>> = <<prog.packages[i], prog.packages[l]>> /\ l < i
    BY <1>4, Prog DEF InOrder, Turns
  <2>2. i = k /\ l = Turn(d)
    BY <1>1, <1>2, <2>1, TurnFacts
  <2>3. Turn(d) < k
    BY <2>1, <2>2
  <2>4. D(d).pkg # prog.packages[k]
    BY <1>1, <1>2, <2>3, TurnFacts
  <2>5. k \in Nat /\ Turn(d) \in Nat
    BY <1>2
  <2>6. Turn(d) <= k /\ Turn(d) # k
    BY <2>3, <2>5
  <2> QED BY <1>1, <2>4, <2>6
<1> QED BY <1>1, <1>3, <1>4

LEMMA ImportIsEarlier ==
  ASSUME Program, NEW d \in Ids, NEW m \in Refs(d), m.via # "", NEW t \in Exports(m.via)
  PROVE  t \in Ids /\ Named(t) /\ Turn(t) < Turn(d)
<1>1. PICK i \in DOMAIN D(d).refs : m = D(d).refs[i]
  BY DEF Refs
<1>2. PICK k, l \in Turns : D(d).pkg = prog.packages[k] /\ m.via = prog.packages[l] /\ l < k
  BY <1>1, Prog DEF InOrder, Turns, Ids, D
<1>3. t \in Ids /\ Named(t) /\ D(t).pkg = m.via
  BY DEF Exports, Own
<1>4. k = Turn(d) /\ l = Turn(t)
  BY <1>2, <1>3, TurnFacts
<1> QED BY <1>2, <1>3, <1>4

(* What a lookup finds.                                                    *)
LEMMA Finds ==
  ASSUME Program, NEW scope \in SUBSET Ids, NEW name
  PROVE  /\ Find(scope, name) # 0 => Find(scope, name) \in scope /\ D(Find(scope, name)).name = name
         /\ \A d \in scope : D(d).name = name => Find(scope, name) # 0
<1> DEFINE same == {d \in scope : D(d).name = name}
<1>1. same \in SUBSET Nat /\ 0 \notin same
  BY ProgramFacts
<1>2. CASE same = {}
  BY <1>2 DEF Find
<1>3. CASE same # {}
  <2>1. \E d \in same : \A e \in same : d <= e
    BY <1>1, <1>3, FirstOfSome
  <2>2. Find(scope, name) \in same
    BY <1>3, <2>1 DEF Find
  <2> QED BY <1>1, <2>2
<1> QED BY <1>2, <1>3

LEMMA ScopesAreIds ==
  ASSUME NEW p
  PROVE  InScope(p) \in SUBSET Ids /\ Exports(p) \in SUBSET Ids
BY DEF InScope, Exports, Own

(* A mention of a declaration, looked up in the package at turn k or, with *)
(* a prefix, in the one it names.                                          *)
LEMMA LookupFinds ==
  ASSUME Program, NEW d \in Ids, NEW m \in Refs(d), NEW k \in Turns, Lookup(prog.packages[k], m) # 0
  PROVE  LET t == Lookup(prog.packages[k], m)
         IN  t \in Ids /\ Named(t) /\ (Turn(t) <= k \/ Turn(t) < Turn(d))
<1>1. CASE m.via = ""
  <2>1. Lookup(prog.packages[k], m) \in InScope(prog.packages[k])
    BY <1>1, Finds, ScopesAreIds DEF Lookup
  <2> QED BY <2>1, OpenIsEarlier
<1>2. CASE m.via # ""
  <2>1. Lookup(prog.packages[k], m) \in Exports(m.via)
    BY <1>2, Finds, ScopesAreIds DEF Lookup
  <2> QED BY <1>2, <2>1, ImportIsEarlier
<1> QED BY <1>1, <1>2

(* What does not change as long as the program is the same.                *)
LEMMA SameMeaning ==
  ASSUME UNCHANGED prog
  PROVE  /\ Ids' = Ids /\ Turns' = Turns
         /\ \A d : D(d)' = D(d) /\ Turn(d)' = Turn(d) /\ (IsAgg(d)' <=> IsAgg(d)) /\ (Named(d)' <=> Named(d))
                   /\ (IsType(d)' <=> IsType(d)) /\ Refs(d)' = Refs(d)
         /\ \A p : InScope(p)' = InScope(p) /\ Exports(p)' = Exports(p) /\ Taken(p)' = Taken(p) /\ Own(p)' = Own(p)
         /\ \A p, m : Lookup(p, m)' = Lookup(p, m)
         /\ \A d, m : (IsRightKind(d, m)' <=> IsRightKind(d, m)) /\ (NeedsLayout(d, m)' <=> NeedsLayout(d, m))
                      /\ (SizeMatters(d, m)' <=> SizeMatters(d, m)) /\ Target(d, m)' = Target(d, m)
<1>1. Ids' = Ids /\ Turns' = Turns
  BY DEF Ids, Turns
<1>2. \A d : D(d)' = D(d)
  BY DEF D
<1>3. \A d : Turn(d)' = Turn(d)
  BY <1>1 DEF Turn, D
<1>4. \A d : (IsAgg(d)' <=> IsAgg(d)) /\ (Named(d)' <=> Named(d)) /\ (IsType(d)' <=> IsType(d)) /\ Refs(d)' = Refs(d)
  BY DEF IsAgg, Named, IsType, Refs, D
<1>5. \A p : InScope(p)' = InScope(p) /\ Exports(p)' = Exports(p) /\ Own(p)' = Own(p)
  BY DEF InScope, Exports, Own, Named, D, Ids
<1>6. \A p : Taken(p)' = Taken(p)
  BY DEF Taken, InScope, Named, D, Ids
<1>7. \A p, m : Lookup(p, m)' = Lookup(p, m)
  BY DEF Lookup, Find, InScope, Exports, Own, Named, D, Ids
<1>8. \A d, m : (IsRightKind(d, m)' <=> IsRightKind(d, m)) /\ (NeedsLayout(d, m)' <=> NeedsLayout(d, m))
                /\ (SizeMatters(d, m)' <=> SizeMatters(d, m))
  BY DEF IsRightKind, NeedsLayout, SizeMatters, IsType, IsAgg, D
<1>9. \A d, m : Target(d, m)' = Target(d, m)
  BY DEF Target, Lookup, Find, InScope, Exports, Own, Named, D, Ids
<1> QED BY <1>1, <1>2, <1>3, <1>4, <1>5, <1>6, <1>7, <1>8, <1>9

---------------------------------------------------------------------------
(* What a step leaves as it was.                                           *)

Smooth ==
  /\ UNCHANGED prog
  /\ \A x \in Ids : Placed(x) => Placed(x)'
  /\ \A t \in Ids : Settled(t) => dtype'[t] = dtype[t]

LEMMA SameTurn ==
  ASSUME UNCHANGED <<prog, pkg, pass>>
  PROVE  /\ \A k : Known(k)' <=> Known(k)
         /\ \A d : IsRefused(d)' <=> IsRefused(d)
         /\ HereFinds' = HereFinds
         /\ Frames' = Frames /\ Ids' = Ids
         /\ UNCHANGED next => \A d : Visited(d)' <=> Visited(d)
<1>1. \A k : Known(k)' <=> Known(k)
  BY DEF Known, AllKnown
<1>2. HereFinds' = HereFinds /\ Ids' = Ids
  BY SameProgram
<1>3. \A d : IsRefused(d)' <=> IsRefused(d)
  BY <1>1, SameMeaning DEF IsRefused
<1>4. UNCHANGED next => \A d : Visited(d)' <=> Visited(d)
  BY SameMeaning DEF Visited, AllKnown
<1> QED BY <1>1, <1>2, <1>3, <1>4 DEF Frames

LEMMA GoodStays ==
  ASSUME Inv, Smooth, NEW d \in Ids, NEW j, bound'[d][j] = bound[d][j]
  PROVE  /\ GoodName(d, j) => GoodName(d, j)'
         /\ Good(d, j) => Good(d, j)'
<1>1. /\ Ids' = Ids /\ D(d)' = D(d) /\ \A x : Taken(D(x).pkg)' = Taken(D(x).pkg)
      /\ \A t, m : (IsRightKind(t, m)' <=> IsRightKind(t, m)) /\ (NeedsLayout(t, m)' <=> NeedsLayout(t, m))
      /\ \A t : IsAgg(t)' <=> IsAgg(t)
  BY SameMeaning DEF Smooth
<1> DEFINE t == bound[d][j]
<1>2. \A x \in Ids : Settled(x) => Settled(x)' /\ dtype'[x] = dtype[x] /\ (IsLaid(x) => IsLaid(x)')
  <2> TAKE x \in Ids
  <2> HAVE Settled(x)
  <2>1. dtype'[x] = dtype[x] /\ dtype[x] \in Ids \cup {0}
    BY DEF Smooth, Inv, Results
  <2>2. Settled(x)'
    BY <1>1, <2>1 DEF Settled, Smooth
  <2>3. IsLaid(x) => IsLaid(x)'
    BY <2>1 DEF IsLaid, Smooth
  <2> QED BY <2>1, <2>2, <2>3
<1>3. GoodName(d, j) => GoodName(d, j)'
  BY <1>1, <1>2 DEF GoodName, Usable
<1>4. Good(d, j) => Good(d, j)'
  BY <1>1, <1>2, <1>3 DEF Good, GoodName, Usable
<1> QED BY <1>3, <1>4

LEMMA ProperStays ==
  ASSUME Inv, Smooth, UNCHANGED <<pkg, pass>>, NEW f \in Frames, Proper(f), bound'[f.d] = bound[f.d],
         dstate'[f.d] \in {dstate[f.d], "Error"}, tkind'[f.d] \in {tkind[f.d], "Error"}
  PROVE  Proper(f)'
<1>1. f.d \in Ids
  BY DEF Frames
<1>2. /\ Known(Turn(f.d))' /\ ~IsRefused(f.d)'
      /\ (Named(f.d)' <=> Named(f.d)) /\ (IsAgg(f.d)' <=> IsAgg(f.d)) /\ Turn(f.d)' = Turn(f.d)
      /\ UNCHANGED <<pass, pkg>>
  BY SameTurn, SameMeaning DEF Smooth, Proper
<1>3. \A j : (GoodName(f.d, j) => GoodName(f.d, j)') /\ (Good(f.d, j) => Good(f.d, j)')
  BY <1>1, GoodStays
<1>4. (f.fn = "agg" /\ tkind'[f.d] = "Error") \/ \A j \in 1 .. f.i - 1 : Good(f.d, j)'
  BY <1>3 DEF Proper
<1>5. f.need = "type" => GoodName(f.d, f.i)' /\ NeedsLayout(f.d, D(f.d).refs[f.i])'
  <2>1. D(f.d)' = D(f.d) /\ \A m : NeedsLayout(f.d, m)' <=> NeedsLayout(f.d, m)
    BY SameMeaning DEF Smooth
  <2>2. f.need = "type" => NeedsLayout(f.d, D(f.d).refs[f.i])'
    BY <2>1 DEF Proper
  <2> QED BY <1>3, <2>2 DEF Proper
<1> QED BY <1>2, <1>4, <1>5 DEF Proper

LEMMA LinkStays ==
  ASSUME Smooth, UNCHANGED <<pkg, pass>>, NEW f \in Frames, NEW g \in Frames, Proper(g), Link(f, g), bound'[g.d] = bound[g.d]
  PROVE  Link(f, g)'
<1>1. HereFinds' = HereFinds /\ D(g.d)' = D(g.d)
  BY SameTurn, SameMeaning DEF Smooth
<1>2. CASE f.fn = "name" /\ g.need = "name" /\ f.d = HereFinds[D(g.d).refs[g.i]]
  BY <1>1, <1>2 DEF Link
<1>3. CASE f.fn = "agg" /\ g.need = "type" /\ f.d = dtype[bound[g.d][g.i]]
  <2>1. bound[g.d][g.i] \in Ids /\ Settled(bound[g.d][g.i])
    BY <1>3 DEF Proper, GoodName, Usable
  <2>2. f.d = dtype'[bound'[g.d][g.i]]
    BY <1>3, <2>1 DEF Smooth
  <2> QED BY <1>3, <2>2 DEF Link
<1> QED BY <1>2, <1>3 DEF Link

Unhurt(d) ==
  /\ bound'[d] = bound[d]
  /\ dstate'[d] \in {dstate[d], "Error"} /\ tkind'[d] \in {tkind[d], "Error"}

LEMMA ChainStays ==
  ASSUME Inv, Smooth, UNCHANGED <<pkg, pass>>, NEW st \in Seq(Frames), Chain(st), \A k \in DOMAIN st : Unhurt(st[k].d)
  PROVE  Chain(st)'
<1>1. \A k \in DOMAIN st : Proper(st[k]) /\ st[k] \in Frames
  BY DEF Chain
<1>2. \A k \in DOMAIN st : Proper(st[k])'
  <2> TAKE k \in DOMAIN st
  <2>1. PICK f \in Frames : f = st[k]
    BY <1>1
  <2>2. Proper(f)'
    BY <1>1, <2>1, ProperStays DEF Unhurt
  <2> QED BY <2>1, <2>2
<1>3. ASSUME NEW k \in DOMAIN st \ {1}
      PROVE  Link(st[k - 1], st[k])'
  <2>1. k - 1 \in DOMAIN st
    OBVIOUS
  <2>2. PICK f \in Frames, g \in Frames : f = st[k - 1] /\ g = st[k]
    BY <1>1, <2>1
  <2>3. Link(f, g)'
    BY <1>1, <2>2, LinkStays DEF Unhurt, Chain
  <2> QED BY <2>2, <2>3
<1>4. \A k, l \in DOMAIN st : st[k].d = st[l].d => k = l
  BY DEF Chain
<1> QED BY <1>2, <1>3, <1>4 DEF Chain

LEMMA ChainTail ==
  ASSUME NEW st \in Seq(Frames), st # <<>>, Chain(st)
  PROVE  Chain(Tail(st)) /\ \A k \in DOMAIN Tail(st) : Tail(st)[k].d # st[1].d
<1>1. /\ Tail(st) \in Seq(Frames) /\ 1 \in DOMAIN st
      /\ \A k \in DOMAIN Tail(st) : Tail(st)[k] = st[k + 1] /\ k + 1 \in DOMAIN st /\ k + 1 > 1 /\ k \in Nat
  BY PoppedStack
<1>2. \A k \in DOMAIN Tail(st) \ {1} : k - 1 \in DOMAIN Tail(st) /\ (k - 1) + 1 = k /\ (k + 1) - 1 = k
  BY <1>1
<1>3. \A k \in DOMAIN Tail(st) \ {1} : Link(Tail(st)[k - 1], Tail(st)[k])
  <2> TAKE k \in DOMAIN Tail(st) \ {1}
  <2>1. Tail(st)[k] = st[k + 1] /\ Tail(st)[k - 1] = st[k] /\ k + 1 \in DOMAIN st \ {1} /\ (k + 1) - 1 = k
    BY <1>1, <1>2
  <2>2. Link(st[(k + 1) - 1], st[k + 1])
    BY <2>1 DEF Chain
  <2> QED BY <2>1, <2>2
<1>4. \A k, l \in DOMAIN Tail(st) : Tail(st)[k].d = Tail(st)[l].d => k = l
  <2> TAKE k, l \in DOMAIN Tail(st)
  <2>1. Tail(st)[k].d = Tail(st)[l].d => k + 1 = l + 1
    BY <1>1 DEF Chain
  <2> QED BY <1>1, <2>1
<1>5. \A k \in DOMAIN Tail(st) : Proper(Tail(st)[k])
  BY <1>1 DEF Chain
<1>6. \A k \in DOMAIN Tail(st) : Tail(st)[k].d # st[1].d
  <2> TAKE k \in DOMAIN Tail(st)
  <2>1. Tail(st)[k].d = st[1].d => k + 1 = 1
    BY <1>1 DEF Chain
  <2> QED BY <1>1, <2>1
<1> QED BY <1>3, <1>4, <1>5, <1>6 DEF Chain

LEMMA ChainPush ==
  ASSUME NEW st \in Seq(Frames), Chain(st)', NEW f \in Frames, Proper(f)',
         \A k \in DOMAIN st : st[k].d # f.d, NEW g, st # <<>> => g = st[1] /\ Link(f, g)'
  PROVE  Chain(<<f>> \o st)'
<1> DEFINE new == <<f>> \o st
<1>1. /\ new \in Seq(Frames) /\ new[1] = f
      /\ DOMAIN new = 1 .. Len(st) + 1 /\ Len(st) \in Nat
      /\ \A k \in 2 .. Len(st) + 1 : new[k] = st[k - 1] /\ k - 1 \in DOMAIN st
  BY PushedStack
<1>2. \A k \in DOMAIN new : k = 1 \/ k \in 2 .. Len(st) + 1
  BY <1>1
<1> HIDE DEF new
<1>3. \A k \in DOMAIN new : Proper(new[k])'
  BY <1>1, <1>2 DEF Chain
<1>4. \A k, l \in DOMAIN new : new[k].d = new[l].d => k = l
  <2> TAKE k, l \in DOMAIN new
  <2> HAVE new[k].d = new[l].d
  <2>1. CASE k = 1 \/ l = 1
    BY <1>1, <1>2, <2>1
  <2>2. CASE k \in 2 .. Len(st) + 1 /\ l \in 2 .. Len(st) + 1
    <3>1. k - 1 = l - 1
      BY <1>1, <2>2 DEF Chain
    <3> QED BY <2>2, <3>1
  <2> QED BY <1>2, <2>1, <2>2
<1>5. ASSUME NEW k \in DOMAIN new \ {1}
      PROVE  Link(new[k - 1], new[k])'
  <2>1. k \in 2 .. Len(st) + 1 /\ new[k] = st[k - 1] /\ k - 1 \in DOMAIN st /\ st # <<>>
    BY <1>1, <1>2
  <2>2. CASE k = 2
    BY <1>1, <2>1, <2>2
  <2>3. CASE k # 2
    <3>1. k - 1 \in 2 .. Len(st) + 1 /\ k - 1 \in DOMAIN st \ {1}
      BY <1>1, <2>1, <2>3
    <3>2. Link(st[(k - 1) - 1], st[k - 1])'
      BY <3>1 DEF Chain
    <3> QED BY <1>1, <2>1, <3>1, <3>2
  <2> QED BY <2>2, <2>3
<1>6. Chain(new)'
  BY <1>3, <1>4, <1>5 DEF Chain
<1> QED BY <1>6 DEF new

LEMMA DeclaredSame ==
  ASSUME UNCHANGED <<prog, pkg, pass>>, NEW d \in Ids, Declared(d),
         dstate'[d] = dstate[d], tkind'[d] = tkind[d], dtype'[d] = dtype[d],
         Visited(d)' /\ Named(d) => Visited(d) \/ dstate[d] # "Unresolved"
  PROVE  Declared(d)'
<1>1. /\ (Known(Turn(d))' <=> Known(Turn(d))) /\ (IsRefused(d)' <=> IsRefused(d)) /\ Turn(d)' = Turn(d)
      /\ (Named(d)' <=> Named(d)) /\ (IsAgg(d)' <=> IsAgg(d))
  BY SameTurn, SameMeaning
<1> QED BY <1>1 DEF Declared

LEMMA DeclaredError ==
  ASSUME UNCHANGED <<prog, pkg, pass>>, NEW d \in Ids, Declared(d), Named(d), Known(Turn(d)),
         dstate'[d] = "Error", dtype'[d] = dtype[d],
         tkind'[d] = tkind[d] \/ (IsAgg(d) /\ tkind'[d] = "Error")
  PROVE  Declared(d)'
<1>1. /\ (Known(Turn(d))' <=> Known(Turn(d))) /\ (IsRefused(d)' <=> IsRefused(d)) /\ Turn(d)' = Turn(d)
      /\ (Named(d)' <=> Named(d)) /\ (IsAgg(d)' <=> IsAgg(d))
  BY SameTurn, SameMeaning
<1> QED BY <1>1 DEF Declared

LEMMA SmoothLists ==
  ASSUME UNCHANGED <<prog, ordered, dtype>>
  PROVE  Smooth
<1>1. \A x \in Ids : Placed(x) => Placed(x)'
  BY SameMeaning DEF Placed
<1> QED BY <1>1 DEF Smooth

(* What is in a list stays as it is.                                       *)
PlacedStays ==
  \A d \in Ids : Placed(d) => /\ bound'[d] = bound[d] /\ ~OnStack(d)'
                              /\ IF IsAgg(d) THEN tkind'[d] = tkind[d]
                                 ELSE dstate'[d] \in {dstate[d], "Error"}

LEMMA TypeOfStays ==
  ASSUME Inv, Smooth, NEW d \in Ids, \A j \in DOMAIN D(d).refs : Good(d, j), bound'[d] = bound[d]
  PROVE  TypeOf(d)' = TypeOf(d)
<1>1. D(d)' = D(d)
  BY SameMeaning DEF Smooth
<1>2. CASE D(d).kind \in {"Typedef", "WeakTypedef"} /\ D(d).refs # <<>> /\ D(d).refs[1].form = "ident"
  <2>1. 1 \in DOMAIN D(d).refs
    BY <1>2, ProgramFacts DEF Inv, Program, Declaration
  <2>2. bound[d][1] \in Ids /\ Settled(bound[d][1])
    BY <2>1 DEF Good, GoodName, Usable
  <2>3. dtype'[bound'[d][1]] = dtype[bound[d][1]]
    BY <2>2 DEF Smooth
  <2> QED BY <1>1, <2>3 DEF TypeOf
<1>3. CASE ~(D(d).kind \in {"Typedef", "WeakTypedef"} /\ D(d).refs # <<>> /\ D(d).refs[1].form = "ident")
  BY <1>1, <1>3 DEF TypeOf
<1> QED BY <1>2, <1>3

LEMMA PlacedWellStays ==
  ASSUME Inv, Smooth, PlacedStays, NEW d \in Ids, Placed(d), PlacedWell(d)
  PROVE  PlacedWell(d)'
<1>1. /\ (Named(d)' <=> Named(d)) /\ (IsAgg(d)' <=> IsAgg(d)) /\ D(d)' = D(d)
  BY SameMeaning DEF Smooth
<1>2. bound'[d] = bound[d]
  BY DEF PlacedStays
<1>3. \A j \in DOMAIN D(d).refs : Good(d, j)'
  BY <1>2, GoodStays DEF PlacedWell
<1>4. ~IsAgg(d) => dtype'[d] = dtype[d] /\ TypeOf(d)' = TypeOf(d)
  BY <1>2, TypeOfStays DEF PlacedWell, Smooth, Settled
<1> QED BY <1>1, <1>3, <1>4 DEF PlacedWell, PlacedStays

LEMMA StructStays ==
  ASSUME Inv, Lists, Smooth, NEW d \in Ids, dtype'[d] = dtype[d]
  PROVE  TypeIsStruct(d)'
<1> SUFFICES ASSUME dtype[d] # 0 PROVE TypeIsStruct(d)'
  BY DEF TypeIsStruct
<1>1. IsAgg(dtype[d]) /\ dtype[dtype[d]] = dtype[d] /\ Settled(d) /\ dtype[d] \in Ids
  BY DEF Lists, TypeIsStruct, Inv, Results
<1>2. Settled(dtype[d])
  BY <1>1 DEF Settled
<1>3. dtype'[dtype[d]] = dtype[dtype[d]]
  BY <1>1, <1>2 DEF Smooth
<1>4. Settled(d)' /\ IsAgg(dtype[d])'
  BY <1>1, SameMeaning DEF Settled, Smooth
<1> QED BY <1>1, <1>3, <1>4 DEF TypeIsStruct

LEMMA ListsStay ==
  ASSUME Inv, Lists, UNCHANGED <<prog, ordered, dtype>>, PlacedStays,
         \A d \in Ids : IsDone(d)' => IsDone(d)
  PROVE  Lists'
<1>1. Smooth
  BY SmoothLists
<1>2. /\ Ids' = Ids /\ \A d : Placed(d)' <=> Placed(d)
      /\ \A d : D(d)' = D(d)
  BY SameMeaning DEF Placed
<1>3. \A d \in Ids : (Placed(d)' => PlacedWell(d)') /\ (IsDone(d)' => Placed(d)') /\ TypeIsStruct(d)'
  BY <1>1, <1>2, PlacedWellStays, StructStays DEF Lists
<1> QED BY <1>2, <1>3 DEF Lists

LEMMA SweptStays ==
  ASSUME Swept, UNCHANGED <<prog, pass, next>>,
         \A d \in Ids : /\ IsAgg(d) /\ dstate[d] = "Error" => dstate'[d] = "Error"
                        /\ IsAgg(d) /\ tkind'[d] = "Incomplete" => tkind[d] = "Incomplete"
  PROVE  Swept'
BY SameMeaning DEF Swept

LEMMA LoopsStay ==
  ASSUME Loops, UNCHANGED <<prog, pkg, pass, next>>, Running
  PROVE  Loops'
BY SameMeaning DEF Loops, Running

---------------------------------------------------------------------------
(* What a step does to the stack.                                          *)

InProgress(d) == dstate[d] = "Resolving" \/ tkind[d] = "Completing"
Marked == \A d \in Ids : InProgress(d) => OnStack(d)

LEMMA OnStackIs ==
  \A d : /\ OnStack(d) <=> \E k \in DOMAIN stack : stack[k].d = d
         /\ OnStack(d)' <=> \E k \in DOMAIN stack' : stack'[k].d = d
BY DEF OnStack

LEMMA CallPushed ==
  ASSUME Inv, Smooth, UNCHANGED <<pkg, pass>>, Calls, \A k \in DOMAIN stack : Unhurt(stack[k].d),
         NEW f \in Frames, stack' = <<f>> \o stack, Proper(f)', ~OnStack(f.d),
         stack # <<>> => \E g : g = Top /\ Link(f, g)',
         \A d \in Ids : d # f.d /\ InProgress(d)' => InProgress(d)
  PROVE  Calls' /\ \A d : OnStack(d)' => OnStack(d) \/ d = f.d
<1>1. PICK st \in Seq(Frames) : st = stack
  BY DEF Inv, Walk
<1>2. Chain(st)'
  BY <1>1, ChainStays DEF Calls
<1>3. \A k \in DOMAIN st : st[k].d # f.d
  BY <1>1 DEF OnStack
<1>4. PICK g : st # <<>> => g = st[1] /\ Link(f, g)'
  BY <1>1 DEF Top
<1>5. Chain(<<f>> \o st)'
  BY <1>2, <1>3, <1>4, ChainPush
<1>6. Chain(stack)'
  BY <1>1, <1>5
<1>7. /\ (<<f>> \o st)[1] = f /\ Len(st) \in Nat /\ DOMAIN st = 1 .. Len(st)
      /\ DOMAIN (<<f>> \o st) = 1 .. Len(st) + 1
      /\ \A k \in 2 .. Len(st) + 1 : (<<f>> \o st)[k] = st[k - 1] /\ k - 1 \in DOMAIN st
  BY PushedStack
<1>13. DOMAIN st = 1 .. Len(st) /\ Len(st) \in Nat
  OBVIOUS
<1>8. \A d : OnStack(d) => OnStack(d)'
  <2> TAKE d
  <2> HAVE OnStack(d)
  <2>1. PICK k \in DOMAIN st : st[k].d = d
    BY <1>1 DEF OnStack
  <2>2. k + 1 \in 2 .. Len(st) + 1 /\ (k + 1) - 1 = k /\ k + 1 \in 1 .. Len(st) + 1
    BY <1>13
  <2>3. stack'[k + 1].d = d /\ k + 1 \in DOMAIN stack'
    BY <1>1, <1>7, <2>1, <2>2
  <2> QED BY <2>3, OnStackIs
<1>9. OnStack(f.d)'
  <2>1. 1 \in DOMAIN stack' /\ stack'[1] = f
    BY <1>1, <1>7
  <2> QED BY <2>1, OnStackIs
<1>10. \A d : OnStack(d)' => OnStack(d) \/ d = f.d
  <2> TAKE d
  <2> HAVE OnStack(d)'
  <2>1. PICK k \in 1 .. Len(st) + 1 : (<<f>> \o st)[k].d = d
    BY <1>1, <1>7, OnStackIs
  <2>2. k = 1 \/ k \in 2 .. Len(st) + 1
    BY <1>7
  <2> QED BY <1>1, <1>7, <2>1, <2>2, OnStackIs
<1>11. Ids' = Ids
  BY SameMeaning DEF Smooth
<1>12. \A d \in Ids : InProgress(d)' => OnStack(d)'
  BY <1>8, <1>9 DEF Calls, InProgress
<1> QED BY <1>6, <1>10, <1>11, <1>12 DEF Calls, InProgress

LEMMA StackStays ==
  ASSUME Inv, Smooth, UNCHANGED <<pkg, pass>>, Calls, \A k \in DOMAIN stack : Unhurt(stack[k].d), UNCHANGED stack,
         \A d \in Ids : InProgress(d)' => InProgress(d)
  PROVE  Calls' /\ \A d : OnStack(d)' <=> OnStack(d)
<1>1. PICK st \in Seq(Frames) : st = stack
  BY DEF Inv, Walk
<1>2. Chain(st)'
  BY <1>1, ChainStays DEF Calls
<1>3. Chain(stack)'
  BY <1>1, <1>2
<1>4. \A d : OnStack(d)' <=> OnStack(d)
  BY OnStackIs
<1>5. Ids' = Ids
  BY SameMeaning DEF Smooth
<1> QED BY <1>3, <1>4, <1>5 DEF Calls, InProgress

LEMMA OnTail ==
  ASSUME Inv, stack # <<>>
  PROVE  \A d : OnStack(d) <=> d = Top.d \/ \E k \in DOMAIN Tail(stack) : Tail(stack)[k].d = d
<1>1. stack \in Seq(Frames)
  BY DEF Inv, Walk
<1>2. /\ 1 \in DOMAIN stack /\ DOMAIN Tail(stack) = 1 .. Len(stack) - 1 /\ Len(stack) \in Nat
      /\ DOMAIN stack = 1 .. Len(stack)
      /\ \A k \in DOMAIN Tail(stack) : Tail(stack)[k] = stack[k + 1] /\ k + 1 \in DOMAIN stack /\ k + 1 > 1
  BY <1>1, PoppedStack
<1> TAKE d
<1>3. ASSUME OnStack(d)
      PROVE  d = Top.d \/ \E k \in DOMAIN Tail(stack) : Tail(stack)[k].d = d
  <2>1. PICK k \in DOMAIN stack : stack[k].d = d
    BY <1>3 DEF OnStack
  <2>2. CASE k = 1
    BY <2>1, <2>2 DEF Top
  <2>3. CASE k # 1
    <3>1. k - 1 \in DOMAIN Tail(stack) /\ (k - 1) + 1 = k
      BY <1>2, <2>3
    <3> QED BY <1>2, <2>1, <3>1
  <2> QED BY <2>2, <2>3
<1>4. d = Top.d => OnStack(d)
  BY <1>2 DEF Top, OnStack
<1>5. (\E k \in DOMAIN Tail(stack) : Tail(stack)[k].d = d) => OnStack(d)
  BY <1>2 DEF OnStack
<1> QED BY <1>3, <1>4, <1>5

LEMMA CallPopped ==
  ASSUME Inv, Smooth, UNCHANGED <<pkg, pass>>, Calls, stack # <<>>, \A d \in Ids : OnStack(d) /\ d # Top.d => Unhurt(d),
         stack' = Tail(stack),
         \A d \in Ids : InProgress(d)' => InProgress(d) /\ d # Top.d
  PROVE  Calls' /\ \A d : OnStack(d)' <=> OnStack(d) /\ d # Top.d
<1>1. stack \in Seq(Frames) /\ Chain(stack)
  BY DEF Inv, Walk, Calls
<1>2. PICK st \in Seq(Frames) : st = Tail(stack)
  BY <1>1, PoppedStack
<1>3. Chain(st) /\ \A k \in DOMAIN st : st[k].d # Top.d
  BY <1>1, <1>2, ChainTail DEF Top
<1>4. \A k \in DOMAIN st : OnStack(st[k].d) /\ st[k].d \in Ids
  <2>1. \A f \in Frames : f.d \in Ids
    BY DEF Frames
  <2>2. \A k \in DOMAIN st : st[k] \in Frames
    OBVIOUS
  <2>3. \A k \in DOMAIN st : \E l \in DOMAIN Tail(stack) : Tail(stack)[l].d = st[k].d
    BY <1>2
  <2> QED BY <2>1, <2>2, <2>3, OnTail
<1>5. Chain(st)'
  BY <1>3, <1>4, ChainStays
<1>6. Chain(stack)'
  BY <1>2, <1>5
<1>7. \A d : OnStack(d)' <=> OnStack(d) /\ d # Top.d
  BY <1>2, <1>3, OnTail, OnStackIs
<1>8. Ids' = Ids
  BY SameMeaning DEF Smooth
<1> QED BY <1>6, <1>7, <1>8 DEF Calls, InProgress

LEMMA CallContinues ==
  ASSUME Inv, Smooth, UNCHANGED <<pkg, pass>>, Calls, stack # <<>>, \A d \in Ids : OnStack(d) /\ d # Top.d => Unhurt(d),
         NEW f \in Frames, f.d = Top.d, f.fn = Top.fn, Proper(f)', stack' = <<f>> \o Tail(stack),
         \A d \in Ids : InProgress(d)' => InProgress(d)
  PROVE  Calls' /\ \A d : OnStack(d)' <=> OnStack(d)
<1>1. stack \in Seq(Frames) /\ Chain(stack)
  BY DEF Inv, Walk, Calls
<1>2. PICK st \in Seq(Frames) : st = Tail(stack)
  BY <1>1, PoppedStack
<1>3. Chain(st) /\ \A k \in DOMAIN st : st[k].d # Top.d
  BY <1>1, <1>2, ChainTail DEF Top
<1>4. \A k \in DOMAIN st : OnStack(st[k].d) /\ st[k].d \in Ids
  <2>1. \A h \in Frames : h.d \in Ids
    BY DEF Frames
  <2>2. \A k \in DOMAIN st : st[k] \in Frames
    OBVIOUS
  <2>3. \A k \in DOMAIN st : \E l \in DOMAIN Tail(stack) : Tail(stack)[l].d = st[k].d
    BY <1>2
  <2> QED BY <2>1, <2>2, <2>3, OnTail
<1>5. \A k \in DOMAIN st : Unhurt(st[k].d)
  BY <1>3, <1>4
<1>6. Chain(st)'
  BY <1>3, <1>5, ChainStays
<1>7. /\ DOMAIN Tail(stack) = 1 .. Len(stack) - 1 /\ 1 \in DOMAIN stack /\ Top \in Frames
      /\ \A k \in DOMAIN Tail(stack) : Tail(stack)[k] = stack[k + 1] /\ k + 1 \in DOMAIN stack /\ k + 1 > 1
  BY <1>1, PoppedStack DEF Top
<1>8. ASSUME st # <<>>
      PROVE  Proper(st[1]) /\ Unhurt(st[1].d) /\ Link(Top, st[1]) /\ st[1] \in Frames
  <2>1. 1 \in DOMAIN st
    BY <1>8
  <2>2. st[1] = stack[2] /\ 2 \in DOMAIN stack \ {1} /\ 2 - 1 = 1
    BY <1>2, <1>7, <2>1
  <2>3. Link(stack[2 - 1], stack[2])
    BY <1>1, <2>2 DEF Chain
  <2> QED BY <1>3, <1>5, <2>1, <2>2, <2>3 DEF Chain, Top
<1>9. PICK g : g = st[1]
  OBVIOUS
<1>10. st # <<>> => Link(f, g)
  BY <1>8, <1>9 DEF Link
<1>11. st # <<>> => Link(f, g)'
  BY <1>8, <1>9, <1>10, LinkStays DEF Unhurt
<1>12. Chain(<<f>> \o st)'
  BY <1>3, <1>6, <1>9, <1>11, ChainPush
<1>13. Chain(stack)'
  BY <1>2, <1>12
<1>14. /\ (<<f>> \o st)[1] = f /\ Len(st) \in Nat /\ DOMAIN st = 1 .. Len(st)
       /\ DOMAIN (<<f>> \o st) = 1 .. Len(st) + 1
       /\ \A k \in 2 .. Len(st) + 1 : (<<f>> \o st)[k] = st[k - 1] /\ k - 1 \in DOMAIN st
  BY PushedStack
<1>17. DOMAIN st = 1 .. Len(st) /\ Len(st) \in Nat
  OBVIOUS
<1>15. \A d : OnStack(d)' <=> OnStack(d)
  <2> TAKE d
  <2>1. ASSUME OnStack(d)'
        PROVE  OnStack(d)
    <3>1. PICK k \in 1 .. Len(st) + 1 : (<<f>> \o st)[k].d = d
      BY <1>2, <1>14, <2>1, OnStackIs
    <3>2. k = 1 \/ k \in 2 .. Len(st) + 1
      BY <1>14
    <3> QED BY <1>2, <1>14, <3>1, <3>2, OnTail
  <2>2. ASSUME NEW k \in DOMAIN st, st[k].d = d
        PROVE  OnStack(d)'
    <3>1. k + 1 \in 2 .. Len(st) + 1 /\ (k + 1) - 1 = k /\ k + 1 \in 1 .. Len(st) + 1
      BY <1>17
    <3>2. stack'[k + 1].d = d /\ k + 1 \in DOMAIN stack'
      BY <1>2, <1>14, <2>2, <3>1
    <3> QED BY <3>2, OnStackIs
  <2>3. d = Top.d => OnStack(d)'
    <3>1. 1 \in DOMAIN stack' /\ stack'[1] = f
      BY <1>2, <1>14
    <3> QED BY <3>1, OnStackIs
  <2> QED BY <1>2, <2>1, <2>2, <2>3, OnTail
<1>16. Ids' = Ids
  BY SameMeaning DEF Smooth
<1> QED BY <1>13, <1>15, <1>16 DEF Calls, InProgress

---------------------------------------------------------------------------
(* The two calls.                                                          *)

LEMMA UsableStays ==
  ASSUME Smooth, NEW d, NEW t \in Ids, Usable(d, t)
  PROVE  Usable(d, t)' /\ (IsLaid(t) /\ dtype[t] \in Ids \cup {0} => IsLaid(t)')
<1>1. Ids' = Ids /\ D(d)' = D(d) /\ (\A x : Taken(D(x).pkg)' = Taken(D(x).pkg)) /\ (IsAgg(t)' <=> IsAgg(t))
  BY SameMeaning DEF Smooth
<1>2. Settled(t) /\ dtype'[t] = dtype[t]
  BY DEF Usable, Smooth
<1>3. Settled(t)'
  BY <1>1, <1>2 DEF Settled, Smooth
<1> QED BY <1>1, <1>2, <1>3 DEF Usable, IsLaid, Smooth

LEMMA OnStackIsProper ==
  ASSUME Inv, Calls, NEW d, OnStack(d)
  PROVE  \E f \in Frames : f.d = d /\ Proper(f) /\ d \in Ids
<1>1. PICK k \in DOMAIN stack : stack[k].d = d
  BY DEF OnStack
<1>2. stack[k] \in Frames
  BY DEF Inv, Walk
<1>3. Proper(stack[k])
  BY DEF Calls, Chain
<1> QED BY <1>1, <1>2, <1>3 DEF Frames

LEMMA StackInIds ==
  ASSUME Inv
  PROVE  \A k \in DOMAIN stack : stack[k].d \in Ids
<1>1. \A f \in Frames : f.d \in Ids
  BY DEF Frames
<1>2. \A k \in DOMAIN stack : stack[k] \in Frames
  BY DEF Inv, Walk
<1> QED BY <1>1, <1>2

LEMMA TopIsProper ==
  ASSUME Inv, Calls, Running, stack # <<>>
  PROVE  Proper(Top) /\ Top \in Frames /\ Top.d \in Ids /\ OnStack(Top.d)
<1>1. 1 \in DOMAIN stack /\ Top \in Frames
  BY TopOfStack DEF Inv, Walk
<1> QED BY <1>1, TopOfStack DEF Calls, Chain, Top, OnStack

LEMMA RefusedIsError ==
  ASSUME Inv, NEW d \in Ids, Declared(d), NEW e \in Ids, Known(Turn(e)), d \in Taken(D(e).pkg)
  PROVE  dstate[d] = "Error"
<1>1. Turn(e) \in Turns /\ prog.packages[Turn(e)] = D(e).pkg
  BY TurnFacts DEF Inv
<1> QED BY <1>1 DEF Declared, IsRefused

(* A name that was not asked for before.                                   *)
LEMMA Fresh ==
  ASSUME Inv, Lists, Course, Running, NEW t \in Ids, Named(t), Known(Turn(t)), dstate[t] = "Unresolved"
  PROVE  ~IsAgg(t) /\ ~IsRefused(t) /\ pass = "decls" /\ Turn(t) = pkg /\ ~OnStack(t) /\ ~Placed(t)
<1>1. Declared(t)
  BY DEF Course, Declarations
<1>2. ~IsAgg(t) /\ ~IsRefused(t)
  BY <1>1 DEF Declared
<1>3. ~Visited(t)
  BY <1>1 DEF Declared
<1>4. pass = "decls" /\ Turn(t) = pkg
  BY <1>3 DEF Visited, Known, AllKnown, Running
<1>5. ~OnStack(t)
  <2> SUFFICES ASSUME OnStack(t) PROVE FALSE
    OBVIOUS
  <2>1. PICK f \in Frames : f.d = t /\ Proper(f)
    BY OnStackIsProper DEF Course
  <2>2. f.fn \in {"name", "agg", "note"}
    BY DEF Frames
  <2> QED BY <1>2, <2>1, <2>2 DEF Proper
<1>6. ~Placed(t)
  BY <1>2 DEF Lists, PlacedWell
<1> QED BY <1>2, <1>4, <1>5, <1>6

LEMMA ResolvedIsSettled ==
  ASSUME Inv, Lists, Course, NEW t \in Ids, Known(Turn(t)), dstate[t] = "Resolved"
  PROVE  Settled(t)
<1>1. CASE IsAgg(t)
  BY <1>1 DEF Course, Declarations, Declared, Settled
<1>2. CASE ~IsAgg(t)
  BY <1>2 DEF Lists, IsDone, Settled
<1> QED BY <1>1, <1>2

LEMMA CallsName ==
  ASSUME Inv, Lists, Course, Running, UNCHANGED <<prog, pkg, pass, bound>>, NEW t \in Ids \cup {0},
         ResolveName(t, stack), ret = "none", t # 0 => Named(t) /\ Known(Turn(t)),
         stack # <<>> => Top.need = "name" /\ Waits(Top) /\ t = HereFinds[Ref],
         \A d \in Ids : Visited(d)' => Visited(d) \/ dstate[d] = "Error" \/ d = t
  PROVE  Lists' /\ Declarations' /\ Calls' /\ Answered'
<1>1. UNCHANGED <<tkind, dtype, ordered, noteErr>>
  BY DEF ResolveName, facts
<1>2. Smooth
  BY <1>1, SmoothLists
<1>3. Calls /\ Declarations
  BY DEF Course
<1>4. stack \in Seq(Frames) /\ Ids' = Ids
  BY SameMeaning DEF Inv, Walk
<1>5. CASE UNCHANGED stack /\ ret' # "ok" /\ UNCHANGED dstate /\ (t # 0 => dstate[t] # "Unresolved")
  <2>1. Calls' /\ \A d : OnStack(d)' <=> OnStack(d)
    BY <1>1, <1>2, <1>3, <1>5, StackStays DEF Unhurt, InProgress
  <2>2. PlacedStays /\ \A d \in Ids : IsDone(d)' => IsDone(d)
    BY <1>1, <1>5, <2>1, SameMeaning DEF PlacedStays, Lists, PlacedWell, IsDone
  <2>3. Lists'
    BY <1>1, <2>2, ListsStay
  <2>4. \A d \in Ids : Declared(d)'
    <3>1. \A d \in Ids : Visited(d)' => Visited(d) \/ dstate[d] # "Unresolved"
      BY <1>5, ProgramFacts DEF Inv
    <3> QED BY <1>1, <1>3, <1>5, <3>1, DeclaredSame DEF Declarations
  <2> QED BY <1>4, <1>5, <2>1, <2>3, <2>4 DEF Answered, Declarations
<1>6. CASE t # 0 /\ dstate[t] = "Resolving" /\ MarkDeclError(t) /\ UNCHANGED stack /\ ret' # "ok"
  <2>1. dstate' = [dstate EXCEPT ![t] = "Error"] /\ dstate \in [Ids -> States]
    BY <1>6 DEF MarkDeclError, Inv, Marks
  <2>2. \A d \in Ids : dstate'[d] \in {dstate[d], "Error"} /\ (d # t => dstate'[d] = dstate[d])
    BY <2>1
  <2>3. \A d \in Ids : InProgress(d)' => InProgress(d)
    BY <1>1, <2>2 DEF InProgress
  <2>4. \A k \in DOMAIN stack : Unhurt(stack[k].d)
    BY <1>1, <2>2, StackInIds DEF Unhurt
  <2>5. Calls' /\ \A d : OnStack(d)' <=> OnStack(d)
    BY <1>2, <1>3, <1>6, <2>3, <2>4, StackStays
  <2>6. PlacedStays /\ \A d \in Ids : IsDone(d)' => IsDone(d)
    BY <1>1, <2>2, <2>5, SameMeaning DEF PlacedStays, Lists, PlacedWell, IsDone
  <2>7. Lists'
    BY <1>1, <2>6, ListsStay
  <2>8. \A d \in Ids : d # t => Declared(d)'
    BY <1>1, <1>3, <2>2, DeclaredSame DEF Declarations
  <2>9. Declared(t)'
    BY <1>1, <1>3, <1>6, <2>1, DeclaredError DEF Declarations
  <2> QED BY <1>4, <1>6, <2>5, <2>7, <2>8, <2>9 DEF Answered, Declarations
<1>7. CASE t # 0 /\ dstate[t] = "Resolved" /\ UNCHANGED <<stack, dstate>> /\ (stack = <<>> => ret' = "none")
  <2>1. Calls' /\ \A d : OnStack(d)' <=> OnStack(d)
    BY <1>1, <1>2, <1>3, <1>7, StackStays DEF Unhurt, InProgress
  <2>2. PlacedStays /\ \A d \in Ids : IsDone(d)' => IsDone(d)
    BY <1>1, <1>7, <2>1, SameMeaning DEF PlacedStays, Lists, PlacedWell, IsDone
  <2>3. Lists'
    BY <1>1, <2>2, ListsStay
  <2>4. \A d \in Ids : Declared(d)'
    BY <1>1, <1>3, <1>7, DeclaredSame DEF Declarations
  <2>5. Answered'
    <3>1. CASE stack = <<>>
      BY <1>7, <3>1 DEF Answered
    <3>2. CASE stack # <<>>
      <4>1. Top.d \in Ids /\ Proper(Top)
        BY <1>3, <3>2, TopIsProper
      <4>2. t \notin Taken(D(Top.d).pkg) /\ t \notin Taken(D(t).pkg)
        BY <1>3, <1>7, <4>1, RefusedIsError DEF Declarations, Proper
      <4>3. Usable(Top.d, t) /\ t \in Ids
        BY <1>7, <4>2, ResolvedIsSettled DEF Usable
      <4>4. PICK d : d = Top.d
        OBVIOUS
      <4>5. Usable(d, t)'
        BY <1>2, <4>3, <4>4, UsableStays
      <4>6. UNCHANGED <<Top, HereFinds, Ref>>
        BY <1>7, SameTurn DEF Top, Ref, D
      <4> QED BY <3>2, <4>4, <4>5, <4>6 DEF Answered
    <3> QED BY <3>1, <3>2
  <2> QED BY <1>4, <2>1, <2>3, <2>4, <2>5 DEF Declarations
<1>8. CASE /\ t # 0 /\ dstate[t] = "Unresolved" /\ dstate' = [dstate EXCEPT ![t] = "Resolving"]
           /\ stack' = <<Frame("name", t)>> \o stack /\ ret' = "none"
  <2>1. ~IsAgg(t) /\ ~IsRefused(t) /\ pass = "decls" /\ Turn(t) = pkg /\ ~OnStack(t) /\ ~Placed(t)
    BY <1>8, Fresh
  <2>2. \A d \in Ids : d # t => dstate'[d] = dstate[d]
    BY <1>8 DEF Inv, Marks
  <2>3. dstate'[t] = "Resolving"
    BY <1>8 DEF Inv, Marks
  <2>4. \A k \in DOMAIN stack : Unhurt(stack[k].d)
    <3>1. \A k \in DOMAIN stack : stack[k].d \in Ids /\ stack[k].d # t
      BY <2>1, StackInIds DEF OnStack
    <3> QED BY <1>1, <2>2, <3>1 DEF Unhurt
  <2>5. PICK f : f = Frame("name", t)
    OBVIOUS
  <2>6. f \in Frames /\ f.d = t /\ f.fn = "name" /\ f.i = 1 /\ f.need = "name"
    BY <1>8, <2>5 DEF Frame, Frames, Inv
  <2>7. Proper(f)'
    <3>1. /\ Known(Turn(t))' /\ ~IsRefused(t)' /\ Named(t)' /\ ~IsAgg(t)' /\ pass' = "decls" /\ (Turn(t) = pkg)'
      BY <1>8, <2>1, SameTurn, SameMeaning
    <3> QED BY <2>3, <2>6, <3>1 DEF Proper
  <2>8. stack # <<>> => \E g : g = Top /\ Link(f, g)'
    <3>1. PICK g : g = Top
      OBVIOUS
    <3>2. stack # <<>> => g.need = "name" /\ f.d = HereFinds[D(g.d).refs[g.i]]
      BY <2>6, <3>1 DEF Ref
    <3>3. stack # <<>> => Link(f, g)'
      BY <2>6, <3>2, SameTurn, SameMeaning DEF Link
    <3> QED BY <3>1, <3>3
  <2>9. \A d \in Ids : d # f.d /\ InProgress(d)' => InProgress(d)
    BY <1>1, <2>2, <2>6 DEF InProgress
  <2>10. Calls' /\ \A d : OnStack(d)' => OnStack(d) \/ d = t
    BY <1>2, <1>3, <1>8, <2>1, <2>4, <2>5, <2>6, <2>7, <2>8, <2>9, CallPushed
  <2>11. PlacedStays /\ \A d \in Ids : IsDone(d)' => IsDone(d)
    BY <1>1, <2>1, <2>2, <2>3, <2>10, SameMeaning DEF PlacedStays, Lists, PlacedWell, IsDone
  <2>12. Lists'
    BY <1>1, <2>11, ListsStay
  <2>13. \A d \in Ids : d # t => Declared(d)'
    BY <1>1, <1>3, <2>2, DeclaredSame DEF Declarations
  <2>14. Declared(t)'
    <3>1. /\ (Known(Turn(t))' <=> Known(Turn(t))) /\ (IsRefused(t)' <=> IsRefused(t)) /\ Turn(t)' = Turn(t)
          /\ (Named(t)' <=> Named(t)) /\ (IsAgg(t)' <=> IsAgg(t))
      BY SameTurn, SameMeaning
    <3>2. Declared(t)
      BY <1>3, <1>8 DEF Declarations
    <3> QED BY <1>1, <1>8, <2>1, <2>3, <3>1, <3>2 DEF Declared
  <2> QED BY <1>4, <1>8, <2>10, <2>12, <2>13, <2>14 DEF Answered, Declarations
<1> QED BY <1>5, <1>6, <1>7, <1>8 DEF ResolveName, Answer

LEMMA CallsType ==
  ASSUME Inv, Lists, Course, Running, UNCHANGED <<prog, pkg, pass>>, NEW s \in Ids \cup {0},
         ResolveTypeAggregate(s, stack), ret = "none", s # 0 => IsAgg(s) /\ dtype[s] = s,
         stack # <<>> => Top.need = "type" /\ s = dtype[Found],
         \A d \in Ids : Visited(d)' => Visited(d)
  PROVE  /\ Lists' /\ Declarations' /\ Calls' /\ Answered'
         /\ s # 0 => dstate'[s] = "Error" \/ tkind'[s] # "Incomplete"
         /\ \A d \in Ids : /\ dstate[d] = "Error" => dstate'[d] = "Error"
                           /\ tkind'[d] = "Incomplete" => tkind[d] = "Incomplete"
<1>1. UNCHANGED <<dtype, ordered, noteErr, bound>>
  BY DEF ResolveTypeAggregate, TypeIsKnown, TypeIsCyclic, BeginAggregate, facts
<1>2. Smooth
  BY <1>1, SmoothLists
<1>3. Calls /\ Declarations
  BY DEF Course
<1>4. Ids' = Ids
  BY SameMeaning
<1>5. s # 0 => Known(Turn(s)) \/ tkind[s] = "None"
  BY <1>3 DEF Declarations, Declared
<1>6. CASE TypeIsKnown(s, stack)
  <2>1. UNCHANGED <<stack, dstate, tkind>> /\ (ret' = "ok" => stack # <<>> /\ KindOf(s) = "Complete")
    BY <1>6 DEF TypeIsKnown, Answer
  <2>2. Calls' /\ \A d : OnStack(d)' <=> OnStack(d)
    BY <1>1, <1>2, <1>3, <2>1, StackStays DEF Unhurt, InProgress
  <2>3. PlacedStays /\ \A d \in Ids : IsDone(d)' => IsDone(d)
    BY <1>1, <2>1, <2>2, SameMeaning DEF PlacedStays, Lists, PlacedWell, IsDone
  <2>4. Lists'
    BY <1>1, <2>3, ListsStay
  <2>5. \A d \in Ids : Declared(d)'
    BY <1>1, <1>3, <2>1, DeclaredSame DEF Declarations
  <2>6. Answered'
    <3> SUFFICES ASSUME ret' = "ok" PROVE Answered'
      BY DEF Answered
    <3>1. stack # <<>> /\ KindOf(s) = "Complete"
      BY <2>1
    <3>2. s # 0 => Placed(s)
      BY <3>1 DEF KindOf, Lists, IsDone
    <3>3. UNCHANGED <<Top, Found>>
      BY <1>1, <2>1 DEF Top, Found
    <3>4. s # 0 => Placed(s)'
      BY <1>2, <3>2 DEF Smooth
    <3>5. IsLaid(Found)'
      BY <1>1, <3>1, <3>3, <3>4 DEF IsLaid
    <3> QED BY <3>1, <3>3, <3>5 DEF Answered
  <2>7. s # 0 => tkind[s] # "Incomplete"
    BY <1>6 DEF TypeIsKnown, KindOf
  <2> QED BY <1>4, <2>1, <2>2, <2>4, <2>5, <2>6, <2>7 DEF Declarations
<1>7. CASE TypeIsCyclic(s, stack)
  <2>1. /\ s # 0 /\ tkind[s] = "Completing" /\ UNCHANGED stack /\ ret' # "ok"
        /\ tkind' = [tkind EXCEPT ![s] = "Error"] /\ dstate' = [dstate EXCEPT ![s] = "Error"]
    BY <1>7 DEF TypeIsCyclic, KindOf, MarkDeclError, Answer
  <2>2. \A d \in Ids : /\ dstate'[d] \in {dstate[d], "Error"} /\ tkind'[d] \in {tkind[d], "Error"}
                       /\ d # s => dstate'[d] = dstate[d] /\ tkind'[d] = tkind[d]
    BY <2>1 DEF Inv, Marks
  <2>3. dstate'[s] = "Error" /\ tkind'[s] = "Error"
    BY <2>1 DEF Inv, Marks
  <2>4. \A d \in Ids : InProgress(d)' => InProgress(d)
    BY <2>2 DEF InProgress
  <2>5. \A k \in DOMAIN stack : Unhurt(stack[k].d)
    BY <1>1, <2>2, StackInIds DEF Unhurt
  <2>6. Calls' /\ \A d : OnStack(d)' <=> OnStack(d)
    BY <1>2, <1>3, <2>1, <2>4, <2>5, StackStays
  <2>7. PlacedStays /\ \A d \in Ids : IsDone(d)' => IsDone(d)
    BY <1>1, <2>1, <2>2, <2>6, SameMeaning DEF PlacedStays, Lists, PlacedWell, IsDone
  <2>8. Lists'
    BY <1>1, <2>7, ListsStay
  <2>9. \A d \in Ids : d # s => Declared(d)'
    BY <1>1, <1>3, <2>2, DeclaredSame DEF Declarations
  <2>10. Declared(s)'
    <3>1. Named(s)
      BY <2>1 DEF IsAgg, Named, Aggregates
    <3> QED BY <1>1, <1>3, <1>5, <2>1, <2>3, <3>1, DeclaredError DEF Declarations
  <2> QED BY <1>4, <2>1, <2>2, <2>3, <2>6, <2>8, <2>9, <2>10 DEF Answered, Declarations
<1>8. CASE BeginAggregate(s, stack)
  <2>1. /\ s # 0 /\ tkind[s] = "Incomplete" /\ dstate[s] # "Error" /\ UNCHANGED dstate
        /\ tkind' = [tkind EXCEPT ![s] = "Completing"]
        /\ stack' = <<Frame("agg", s)>> \o stack /\ ret' = "none"
    BY <1>8 DEF BeginAggregate, KindOf, Broken
  <2>2. s \in Ids /\ IsAgg(s) /\ Known(Turn(s)) /\ ~IsRefused(s) /\ Named(s)
    BY <1>3, <1>5, <2>1 DEF Declarations, Declared, IsAgg, Named, Aggregates
  <2>3. ~OnStack(s)
    <3> SUFFICES ASSUME OnStack(s) PROVE FALSE
      OBVIOUS
    <3>1. PICK f \in Frames : f.d = s /\ Proper(f)
      BY <1>3, OnStackIsProper
    <3>2. f.fn \in {"name", "agg", "note"}
      BY DEF Frames
    <3> QED BY <2>1, <2>2, <3>1, <3>2 DEF Proper
  <2>4. ~Placed(s)
    BY <2>1, <2>2 DEF Lists, PlacedWell
  <2>5. tkind'[s] = "Completing" /\ \A d \in Ids : d # s => tkind'[d] = tkind[d]
    BY <2>1, <2>2 DEF Inv, Marks
  <2>6. \A k \in DOMAIN stack : Unhurt(stack[k].d)
    <3>1. \A k \in DOMAIN stack : stack[k].d \in Ids /\ stack[k].d # s
      BY <2>3, StackInIds DEF OnStack
    <3> QED BY <1>1, <2>1, <2>5, <3>1 DEF Unhurt
  <2>7. PICK f : f = Frame("agg", s)
    OBVIOUS
  <2>8. f \in Frames /\ f.d = s /\ f.fn = "agg" /\ f.i = 1 /\ f.need = "name"
    BY <2>2, <2>7 DEF Frame, Frames, Inv
  <2>9. Proper(f)'
    <3>1. Known(Turn(s))' /\ ~IsRefused(s)' /\ IsAgg(s)'
      BY <2>2, SameTurn, SameMeaning
    <3> QED BY <2>5, <2>8, <3>1 DEF Proper
  <2>10. stack # <<>> => \E g : g = Top /\ Link(f, g)'
    <3>1. PICK g : g = Top
      OBVIOUS
    <3>2. stack # <<>> => g.need = "type" /\ f.d = dtype[bound[g.d][g.i]]
      BY <2>8, <3>1 DEF Found
    <3>3. stack # <<>> => Link(f, g)'
      BY <1>1, <2>8, <3>2 DEF Link
    <3> QED BY <3>1, <3>3
  <2>11. \A d \in Ids : d # f.d /\ InProgress(d)' => InProgress(d)
    BY <2>1, <2>5, <2>8 DEF InProgress
  <2>12. Calls' /\ \A d : OnStack(d)' => OnStack(d) \/ d = s
    BY <1>2, <1>3, <2>1, <2>3, <2>6, <2>7, <2>8, <2>9, <2>10, <2>11, CallPushed
  <2>13. PlacedStays /\ \A d \in Ids : IsDone(d)' => IsDone(d)
    BY <1>1, <2>1, <2>4, <2>5, <2>12, SameMeaning DEF PlacedStays, Lists, PlacedWell, IsDone
  <2>14. Lists'
    BY <1>1, <2>13, ListsStay
  <2>15. \A d \in Ids : d # s => Declared(d)'
    BY <1>1, <1>3, <2>1, <2>5, DeclaredSame DEF Declarations
  <2>16. Declared(s)'
    <3>1. /\ (Known(Turn(s))' <=> Known(Turn(s))) /\ (IsRefused(s)' <=> IsRefused(s)) /\ Turn(s)' = Turn(s)
          /\ (Named(s)' <=> Named(s)) /\ (IsAgg(s)' <=> IsAgg(s))
      BY SameTurn, SameMeaning
    <3>2. Declared(s)
      BY <1>3, <2>2 DEF Declarations
    <3> QED BY <1>1, <2>1, <2>2, <2>5, <3>1, <3>2 DEF Declared
  <2> QED BY <1>4, <2>1, <2>5, <2>12, <2>14, <2>15, <2>16 DEF Answered, Declarations
<1> QED BY <1>6, <1>7, <1>8 DEF ResolveTypeAggregate

---------------------------------------------------------------------------
(* The passes, once more.                                                  *)

LEMMA NothingStays ==
  ASSUME Inv, Lists, UNCHANGED <<prog, stack, dstate, tkind, dtype, bound, ordered>>
  PROVE  Lists'
<1>1. PlacedStays /\ \A d \in Ids : IsDone(d)' => IsDone(d)
  BY SameMeaning, OnStackIs DEF PlacedStays, Lists, PlacedWell, IsDone
<1> QED BY <1>1, ListsStay

LEMMA InitLists == Init => Inv2
<1> SUFFICES ASSUME Init PROVE Inv2
  OBVIOUS
<1>1. Inv
  BY InitInv
<1>2. \A d \in Ids : D(d).pkg \in Packages /\ Turn(d) \in Turns /\ d \in Nat /\ d >= 1
  BY <1>1, ProgramFacts, TurnFacts DEF Inv
<1>3. \A d \in Ids : ~Placed(d)
  BY <1>2 DEF Init, Placed, IsIn
<1>4. \A d \in Ids : ~IsDone(d) /\ TypeIsStruct(d)
  BY DEF Init, IsDone, TypeIsStruct
<1>5. Lists
  BY <1>3, <1>4 DEF Init, Lists
<1>6. \A k \in Turns : ~(k < pkg) /\ ~Known(k)
  BY <1>1, TurnFacts DEF Init, Inv, Known, AllKnown
<1>7. \A d \in Ids : ~Known(Turn(d)) /\ ~Visited(d) /\ ~IsRefused(d)
  BY <1>2, <1>6 DEF Init, Visited, AllKnown, IsRefused
<1>8. Declarations
  BY <1>7 DEF Init, Declarations, Declared
<1>9. Loops
  BY <1>2, <1>6 DEF Init, Loops
<1>10. Calls /\ Answered /\ Swept
  BY DEF Init, Calls, Chain, Answered, Swept
<1> QED BY <1>5, <1>8, <1>9, <1>10 DEF Inv2, Course

LEMMA CrashLists ==
  ASSUME Inv, Lists, AssertAggregate \/ ReadDeclOfNote
  PROVE  Inv2'
<1>1. UNCHANGED <<prog, stack, dstate, tkind, dtype, bound, ordered>> /\ pass' = "crashed"
  BY DEF AssertAggregate, ReadDeclOfNote, facts
<1> QED BY <1>1, NothingStays DEF Inv2

LEMMA LoopAdvances ==
  ASSUME Inv, Loops, NEW p \in {"decls", "incomplete"}, InLoop(p), Step
  PROVE  /\ Loops' /\ stack = <<>> /\ ret = "none" /\ pass = p /\ next \in Ids /\ D(next).pkg = Here
         /\ Turn(next) = pkg /\ Known(Turn(next)) /\ UNCHANGED <<prog, pass, pkg>> /\ next' = next + 1
         /\ \A d \in Ids : Visited(d)' => Visited(d) \/ d = next
         /\ \A d \in Ids : d < next' <=> d < next \/ d = next
<1>1. /\ stack = <<>> /\ ret = "none" /\ pass = p /\ next \in Ids /\ UNCHANGED <<prog, pass, pkg>>
      /\ next' = next + 1 /\ D(next).pkg = Here
  BY DEF InLoop, Step, Inv, Walk, Own
<1>2. Turn(next) = pkg /\ Known(Turn(next))
  BY <1>1, TurnFacts DEF Inv, Here, Known, AllKnown
<1>3. \A d \in Ids : d < next' <=> d < next \/ d = next
  BY <1>1, ProgramFacts DEF Inv
<1>4. \A d \in Ids : Visited(d)' => Visited(d) \/ d = next
  BY <1>1, <1>3, SameMeaning DEF Visited, AllKnown
<1>5. \A d \in Ids : (Turn(d) < pkg => d < next') /\ (d < next' => Turn(d) <= pkg)
  BY <1>2, <1>3, TurnFacts DEF Loops, Inv
<1>6. Loops'
  BY <1>1, <1>5, SameMeaning DEF Loops
<1> QED BY <1>1, <1>2, <1>3, <1>4, <1>6

LEMMA ResolveDeclLists ==
  ASSUME Inv, Lists, Course, ResolveDecl
  PROVE  Inv2'
<1> DEFINE t == Find(InScope(active), D(next).name)
<1>1. /\ Loops' /\ stack = <<>> /\ ret = "none" /\ pass = "decls" /\ next \in Ids /\ D(next).pkg = Here
      /\ Turn(next) = pkg /\ Known(Turn(next)) /\ UNCHANGED <<prog, pass, pkg>>
      /\ \A d \in Ids : Visited(d)' => Visited(d) \/ d = next
      /\ Running /\ active = Here /\ Named(next)
  BY LoopAdvances DEF ResolveDecl, Course, Running, Inv, Walk
<1>2. next \in InScope(Here) /\ InScope(Here) \in SUBSET Ids
  BY <1>1 DEF InScope
<1>3. t # 0 /\ t \in InScope(Here) /\ D(t).name = D(next).name
  BY <1>1, <1>2, Finds DEF Inv
<1>4. t \in Ids /\ Named(t) /\ Turn(t) <= pkg
  BY <1>3, OpenIsEarlier, TurnFacts DEF Inv, Here
<1>5. Known(Turn(t))
  BY <1>1, <1>4, TurnFacts DEF Known, Inv
<1>6. t = next \/ dstate[next] = "Error"
  <2> SUFFICES ASSUME t # next PROVE dstate[next] = "Error"
    OBVIOUS
  <2>1. next \in Taken(D(next).pkg)
    BY <1>1, <1>2, <1>3 DEF Taken
  <2> QED BY <1>1, <2>1, RefusedIsError DEF Course, Declarations
<1>7. ResolveName(t, stack) /\ UNCHANGED bound
  BY <1>1 DEF ResolveDecl, ResolveName, facts
<1> HIDE DEF t
<1>8. Lists' /\ Declarations' /\ Calls' /\ Answered'
  BY <1>1, <1>4, <1>5, <1>6, <1>7, CallsName
<1>9. Swept'
  BY <1>1 DEF Swept
<1> QED BY <1>1, <1>8, <1>9 DEF Inv2, Course

LEMMA ResolveNoteLists ==
  ASSUME Inv, Lists, Course, ResolveNote
  PROVE  Inv2'
<1>1. /\ Loops' /\ stack = <<>> /\ ret = "none" /\ pass = "decls" /\ next \in Ids
      /\ Turn(next) = pkg /\ Known(Turn(next)) /\ UNCHANGED <<prog, pass, pkg>>
      /\ \A d \in Ids : Visited(d)' => Visited(d) \/ d = next
      /\ ~Named(next) /\ UNCHANGED <<ret, dstate, tkind, bound, dtype, ordered>>
      /\ stack' = <<Frame("note", next)>> \o stack
  BY LoopAdvances DEF ResolveNote, Course, facts
<1>2. Smooth
  BY <1>1, SmoothLists
<1>3. PICK f : f = Frame("note", next)
  OBVIOUS
<1>4. f \in Frames /\ f.d = next /\ f.fn = "note" /\ f.i = 1 /\ f.need = "name"
  BY <1>1, <1>3 DEF Frame, Frames, Inv
<1>5. ~IsRefused(next)
  BY <1>1 DEF IsRefused, Taken, InScope
<1>6. Proper(f)'
  <2>1. Known(Turn(f.d))' /\ ~IsRefused(f.d)' /\ ~Named(f.d)' /\ pass' = "decls" /\ (Turn(f.d) = pkg)'
    BY <1>1, <1>4, <1>5, SameTurn, SameMeaning
  <2> QED BY <1>4, <2>1 DEF Proper
<1>7. ~OnStack(f.d)
  BY <1>1 DEF OnStack
<1>8. Calls' /\ \A d : OnStack(d)' => OnStack(d) \/ d = next
  BY <1>1, <1>2, <1>3, <1>4, <1>6, <1>7, CallPushed DEF Course, InProgress
<1>9. \A d : ~OnStack(d)
  BY <1>1 DEF OnStack
<1>10. PlacedStays /\ \A d \in Ids : IsDone(d)' => IsDone(d)
  BY <1>1, <1>8, <1>9, SameMeaning DEF PlacedStays, Lists, PlacedWell, IsDone
<1>11. Lists'
  BY <1>1, <1>10, ListsStay
<1>12. \A d \in Ids : Declared(d)'
  BY <1>1, DeclaredSame DEF Course, Declarations
<1>13. Answered' /\ Swept' /\ Declarations'
  BY <1>1, <1>12, SameMeaning DEF Answered, Swept, Declarations
<1> QED BY <1>1, <1>8, <1>11, <1>13 DEF Inv2, Course

LEMMA IncompleteLists ==
  ASSUME Inv, Lists, Course, ResolveIncompleteType
  PROVE  Inv2'
<1> DEFINE s == dtype[next]
<1>1. /\ Loops' /\ stack = <<>> /\ ret = "none" /\ pass = "incomplete" /\ next \in Ids
      /\ Known(Turn(next)) /\ UNCHANGED <<prog, pass, pkg>>
      /\ \A d \in Ids : d < next' <=> d < next \/ d = next
      /\ Running /\ ResolveTypeAggregate(s, stack)
  BY LoopAdvances DEF ResolveIncompleteType, Course, Running
<1>2. \A d \in Ids : Visited(d)' => Visited(d)
  BY <1>1 DEF Visited, AllKnown
<1>3. s \in Ids \cup {0} /\ (s # 0 => IsAgg(s) /\ dtype[s] = s)
  BY <1>1 DEF Inv, Results, Lists, TypeIsStruct
<1> HIDE DEF s
<1>4. /\ Lists' /\ Declarations' /\ Calls' /\ Answered'
      /\ s # 0 => dstate'[s] = "Error" \/ tkind'[s] # "Incomplete"
      /\ \A d \in Ids : /\ dstate[d] = "Error" => dstate'[d] = "Error"
                        /\ tkind'[d] = "Incomplete" => tkind[d] = "Incomplete"
  BY <1>1, <1>2, <1>3, CallsType
<1>5. IsAgg(next) => s = next /\ s # 0
  BY <1>1, ProgramFacts DEF s, Course, Declarations, Declared, Inv
<1>6. Swept'
  <2>1. \A d \in Ids : IsAgg(d) /\ d < next' => dstate'[d] = "Error" \/ tkind'[d] # "Incomplete"
    BY <1>1, <1>4, <1>5 DEF Course, Swept
  <2> QED BY <1>1, <2>1, SameMeaning DEF Swept
<1> QED BY <1>1, <1>4, <1>6 DEF Inv2, Course

LEMMA PassOverLists ==
  ASSUME Inv, Lists, Course, PassOver
  PROVE  Inv2'
<1>1. /\ Loops' /\ stack = <<>> /\ ret = "none" /\ pass = "incomplete" /\ next \in Ids
      /\ UNCHANGED <<prog, pass, pkg>> /\ UNCHANGED <<stack, ret, dstate, tkind, dtype, bound, ordered>>
      /\ \A d \in Ids : d < next' <=> d < next \/ d = next
      /\ IsAgg(next) => dstate[next] = "Error"
  BY LoopAdvances DEF PassOver, Course, facts, IsType
<1>2. Lists'
  BY <1>1, NothingStays
<1>3. \A d \in Ids : Visited(d)' => Visited(d)
  BY <1>1 DEF Visited, AllKnown
<1>4. \A d \in Ids : Declared(d)'
  BY <1>1, <1>3, DeclaredSame DEF Course, Declarations
<1>5. Smooth
  BY <1>1, SmoothLists
<1>6. Calls'
  BY <1>1, <1>5, StackStays DEF Course, Unhurt, InProgress
<1>7. Answered' /\ Declarations'
  BY <1>1, <1>4, SameMeaning DEF Answered, Declarations
<1>8. Swept'
  <2>1. \A d \in Ids : IsAgg(d) /\ d < next' => dstate'[d] = "Error" \/ tkind'[d] # "Incomplete"
    BY <1>1 DEF Course, Swept
  <2> QED BY <1>1, <2>1, SameMeaning DEF Swept
<1> QED BY <1>1, <1>2, <1>6, <1>7, <1>8 DEF Inv2, Course

(* A package is over when the loop meets a declaration of another one:     *)
(* they are grouped.                                                       *)
LEMMA PackageIsOver ==
  ASSUME Inv, Loops, NextPackage, NEW d \in Ids, Turn(d) <= pkg
  PROVE  d < next
<1>1. next \notin Own(Here) /\ next \in 1 .. Len(prog.decls) + 1 /\ Ids = 1 .. Len(prog.decls) /\ Len(prog.decls) \in Nat
  BY ProgramFacts DEF NextPackage, Inv, Program
<1>2. Turn(d) \in Nat /\ pkg \in Nat
  BY TurnFacts DEF Inv
<1>3. CASE Turn(d) < pkg
  BY <1>3 DEF Loops
<1>4. CASE Turn(d) = pkg
  <2> SUFFICES ASSUME ~(d < next) PROVE FALSE
    OBVIOUS
  <2>1. D(d).pkg = Here
    BY <1>4, TurnFacts DEF Inv, Here
  <2>2. d # next
    BY <1>1, <2>1 DEF Own
  <2>3. next \in Ids /\ next < d
    BY <1>1, <2>2
  <2>4. Turn(next) <= pkg /\ Turn(next) \in Nat
    BY <1>4, <2>3, TurnOrder, TurnFacts DEF Inv
  <2>5. Turn(next) # pkg
    BY <1>1, <2>3, TurnFacts DEF Inv, Here, Own
  <2>6. Turn(next) < pkg
    BY <1>2, <2>4, <2>5
  <2>7. next < next
    BY <2>3, <2>6 DEF Loops
  <2> QED BY <1>1, <2>7
<1> QED BY <1>2, <1>3, <1>4

LEMMA NextPackageLists ==
  ASSUME Inv, Lists, Course, NextPackage
  PROVE  Inv2'
<1> DEFINE last == pkg = Len(prog.packages)
<1>1. /\ UNCHANGED <<prog, stack, ret, dstate, tkind, dtype, bound, ordered>> /\ stack = <<>> /\ ret = "none"
      /\ pass \in {"decls", "incomplete"}
      /\ pkg' = IF last THEN 1 ELSE pkg + 1
      /\ next' = IF last THEN 1 ELSE next
      /\ pass' = CASE pass = "decls" /\ ~last -> "register"
                   [] pass = "decls" /\ last -> "incomplete"
                   [] pass = "incomplete" /\ ~last -> "incomplete"
                   [] OTHER -> "done"
  BY DEF NextPackage, facts, Inv, Walk, Running
<1>2. \A d \in Ids : /\ Turn(d) \in Turns /\ Turn(d) \in Nat /\ d \in Nat /\ d >= 1
                     /\ Turn(d) <= pkg => d < next
  BY PackageIsOver, TurnFacts, ProgramFacts DEF Inv, Course
<1>3. Turns = 1 .. Len(prog.packages) /\ Len(prog.packages) \in Nat /\ pkg \in Nat /\ pkg <= Len(prog.packages)
      /\ next \in Nat
  BY TurnFacts, ProgramFacts DEF Inv, Program
<1>4. \A k \in Turns : Known(k)' <=> Known(k)
  BY <1>1, <1>3 DEF Known, AllKnown
<1>5. \A d : IsRefused(d)' <=> IsRefused(d)
  BY <1>1, <1>4, SameMeaning DEF IsRefused
<1>6. \A d \in Ids : Visited(d)' => Visited(d)
  BY <1>1, <1>2, <1>3, SameMeaning DEF Visited, AllKnown
<1>7. \A d : /\ (Named(d)' <=> Named(d)) /\ (IsAgg(d)' <=> IsAgg(d)) /\ Turn(d)' = Turn(d)
  BY <1>1, SameMeaning
<1>8. Ids' = Ids
  BY <1>1, SameMeaning
<1>9. Declarations'
  <2> SUFFICES ASSUME NEW d \in Ids PROVE Declared(d)'
    BY <1>8 DEF Declarations
  <2>1. Declared(d)
    BY DEF Course, Declarations
  <2> QED BY <1>1, <1>2, <1>4, <1>5, <1>6, <1>7, <2>1 DEF Declared
<1>10. Loops'
  <2>1. \A d \in Ids : (Turn(d) < pkg' => d < next') /\ (d < next' => Turn(d) <= pkg')
    BY <1>1, <1>2, <1>3 DEF Course, Loops
  <2>2. pass' = "register" => \A d \in Ids : d < next' => Turn(d) < pkg'
    BY <1>1, <1>2, <1>3 DEF Course, Loops
  <2> QED BY <1>1, <1>7, <1>8, <2>1, <2>2 DEF Loops
<1>11. Swept'
  <2> SUFFICES ASSUME NEW d \in Ids, IsAgg(d), pass' = "done" \/ (pass' = "incomplete" /\ d < next')
               PROVE  dstate'[d] = "Error" \/ tkind'[d] # "Incomplete"
    BY <1>7, <1>8 DEF Swept
  <2>1. pass = "incomplete" /\ d < next
    BY <1>1, <1>2, <1>3
  <2> QED BY <1>1, <2>1 DEF Course, Swept
<1>12. Lists'
  BY <1>1, NothingStays
<1>13. Calls' /\ Answered'
  <2>1. \A d \in Ids : ~InProgress(d)
    BY <1>1 DEF Course, Calls, OnStack, InProgress
  <2> QED BY <1>1, <1>8, <2>1 DEF Calls, Chain, Answered, InProgress
<1> QED BY <1>9, <1>10, <1>11, <1>12, <1>13 DEF Inv2, Course

LEMMA RegisterLists ==
  ASSUME Inv, Lists, Course, RegisterDecls
  PROVE  Inv2'
<1> DEFINE taken == Taken(Here)
           structs == {d \in Own(Here) : IsAgg(d)}
<1>1. /\ pass = "register" /\ pass' = "decls" /\ UNCHANGED <<prog, pkg, next, stack, ret, bound, noteErr, ordered>>
      /\ \A d \in Ids : /\ dstate'[d] = CASE d \in taken -> "Error"
                                          [] d \in structs \ taken -> "Resolved"
                                          [] OTHER -> dstate[d]
                        /\ tkind'[d] = IF d \in structs THEN "Incomplete" ELSE tkind[d]
                        /\ dtype'[d] = IF d \in structs THEN d ELSE dtype[d]
      /\ stack = <<>> /\ ret = "none"
  BY DEF RegisterDecls, Inv, Walk
<1>2. pkg \in Turns /\ Here = prog.packages[pkg] /\ Turns \subseteq Nat /\ pkg \in Nat
  BY TurnFacts DEF Inv, Here
<1>3. \A d \in Ids : /\ Turn(d) \in Turns /\ Turn(d) \in Nat
                     /\ d \in structs <=> Turn(d) = pkg /\ IsAgg(d)
                     /\ d \in taken => Named(d) /\ Turn(d) <= pkg
                     /\ IsAgg(d) => Named(d)
  <2> TAKE d \in Ids
  <2>1. Turn(d) \in Turns /\ (Turn(d) = pkg <=> D(d).pkg = Here)
    BY <1>2, TurnFacts DEF Inv
  <2>2. d \in taken => d \in InScope(Here)
    BY DEF Taken
  <2>3. d \in taken => Named(d) /\ Turn(d) <= pkg
    BY <1>2, <2>2, OpenIsEarlier DEF Inv
  <2>4. IsAgg(d) => Named(d)
    BY DEF IsAgg, Named, Aggregates
  <2> QED BY <1>2, <2>1, <2>3, <2>4 DEF Own
<1>4. \A k : Known(k) <=> k < pkg
  BY <1>1 DEF Known, AllKnown
<1>5. \A k : Known(k)' <=> k < pkg \/ k = pkg
  BY <1>1 DEF Known, AllKnown
<1>6. \A d \in Ids : IsRefused(d)' => IsRefused(d) \/ d \in taken
  BY <1>1, <1>2, <1>4, <1>5, SameMeaning DEF IsRefused
<1>7. \A d \in Ids : Visited(d)' => Turn(d) < pkg /\ Visited(d)
  BY <1>1, <1>3, SameMeaning DEF Visited, AllKnown, Course, Loops
<1>8. Ids' = Ids /\ \A d : /\ (Named(d)' <=> Named(d)) /\ (IsAgg(d)' <=> IsAgg(d)) /\ Turn(d)' = Turn(d)
  BY <1>1, SameMeaning
<1> HIDE DEF taken, structs
<1>9. ASSUME NEW d \in Ids
      PROVE  Declared(d)'
  <2>1. Declared(d)
    BY DEF Course, Declarations
  <2>2. CASE Turn(d) = pkg
    <3>1. ~(Turn(d) < pkg) /\ ~Known(Turn(d)) /\ dstate[d] = "Unresolved" /\ tkind[d] = "None" /\ ~IsRefused(d)
      BY <1>2, <1>4, <2>1, <2>2 DEF Declared
    <3>2. Known(Turn(d))' /\ ~Visited(d)'
      BY <1>5, <1>7, <1>8, <2>2, <3>1
    <3> QED BY <1>1, <1>3, <1>6, <1>8, <2>2, <3>1, <3>2 DEF Declared
  <2>3. CASE Turn(d) < pkg
    <3>1. Known(Turn(d)) /\ Known(Turn(d))' /\ d \notin structs
      BY <1>2, <1>3, <1>4, <1>5, <1>8, <2>3
    <3> QED BY <1>1, <1>3, <1>6, <1>7, <1>8, <2>1, <3>1 DEF Declared
  <2>4. CASE ~(Turn(d) <= pkg)
    <3>1. ~(Turn(d) < pkg) /\ Turn(d) # pkg
      BY <1>2, <1>3, <2>4
    <3>2. ~Known(Turn(d)) /\ ~Known(Turn(d))' /\ d \notin structs /\ d \notin taken /\ ~Visited(d)'
      BY <1>3, <1>4, <1>5, <1>7, <1>8, <2>4, <3>1
    <3> QED BY <1>1, <1>6, <1>8, <2>1, <3>2 DEF Declared
  <2> QED BY <1>2, <1>3, <2>2, <2>3, <2>4
<1>10. \A d \in Ids : (Placed(d)' <=> Placed(d)) /\ D(d)' = D(d)
  BY <1>1, SameMeaning DEF Placed
<1>11. Smooth
  <2>1. \A t \in Ids : Settled(t) => dtype'[t] = dtype[t]
    BY <1>1, <1>3 DEF Settled
  <2> QED BY <1>1, <1>10, <2>1 DEF Smooth
<1>12. \A d \in structs : tkind[d] = "None" /\ dtype'[d] = d
  <2>1. \A d \in structs : d \in Ids
    BY DEF structs, Own
  <2> QED BY <1>1, <1>2, <1>3, <1>4, <2>1 DEF Course, Declarations, Declared
<1>13. PlacedStays
  <2> SUFFICES ASSUME NEW d \in Ids, Placed(d)
               PROVE  /\ bound'[d] = bound[d] /\ ~OnStack(d)'
                      /\ IF IsAgg(d) THEN tkind'[d] = tkind[d] ELSE dstate'[d] \in {dstate[d], "Error"}
    BY DEF PlacedStays
  <2>1. ~OnStack(d)'
    BY <1>1, OnStackIs
  <2>2. IsAgg(d) => tkind'[d] = tkind[d]
    BY <1>1, <1>12 DEF Lists, PlacedWell
  <2>3. ~IsAgg(d) => dstate'[d] \in {dstate[d], "Error"}
    BY <1>1, <1>3
  <2> QED BY <1>1, <2>1, <2>2, <2>3
<1>14. \A d \in Ids : Placed(d)' => PlacedWell(d)'
  BY <1>10, <1>11, <1>13, PlacedWellStays DEF Lists
<1>15. \A d \in Ids : IsDone(d)' => Placed(d)'
  <2>1. \A d \in Ids : IsDone(d)' => IsDone(d)
    BY <1>1, <1>3, <1>8 DEF IsDone
  <2> QED BY <1>10, <2>1 DEF Lists
<1>16. \A d \in Ids : TypeIsStruct(d)'
  <2> TAKE d \in Ids
  <2>1. CASE d \in structs
    <3>1. dtype'[d] = d /\ IsAgg(d)'
      BY <1>3, <1>8, <1>12, <2>1
    <3> QED BY <3>1 DEF TypeIsStruct, Settled
  <2>2. CASE d \notin structs
    BY <1>1, <1>11, <2>2, StructStays
  <2> QED BY <2>1, <2>2
<1>17. Lists'
  <2>1. \A p \in Packages : /\ \A i \in DOMAIN ordered'[p] : (D(ordered[p][i]).pkg = p)'
                            /\ \A i, j \in DOMAIN ordered'[p] : ordered'[p][i] = ordered'[p][j] => i = j
    BY <1>1, SameMeaning DEF Lists
  <2> QED BY <1>8, <1>14, <1>15, <1>16, <2>1 DEF Lists
<1>18. Loops'
  BY <1>1, <1>8 DEF Course, Loops
<1>19. Calls' /\ Answered' /\ Swept'
  <2>1. \A d \in Ids : ~InProgress(d)
    BY <1>1 DEF Course, Calls, OnStack, InProgress
  <2>2. \A d \in Ids : ~InProgress(d)'
    BY <1>1, <1>3, <2>1 DEF InProgress
  <2> QED BY <1>1, <1>8, <2>2 DEF Calls, Chain, Answered, Swept, InProgress
<1> QED BY <1>8, <1>9, <1>17, <1>18, <1>19 DEF Inv2, Course, Declarations

---------------------------------------------------------------------------
(* The calls in progress, once more.                                       *)

LEMMA RefIs ==
  ASSUME Inv, Running, stack # <<>>, Waits(Top)
  PROVE  /\ Top.d \in Ids /\ Top.i \in DOMAIN D(Top.d).refs /\ Ref \in Refs(Top.d)
         /\ active = Here /\ HereFinds[Ref] = Lookup(active, Ref) /\ Lookup(active, Ref) \in Ids \cup {0}
<1>1. Top.d \in Ids /\ active = Here
  BY TopOfStack
<1>2. Top.i \in DOMAIN D(Top.d).refs /\ Ref \in Refs(Top.d)
  BY DEF Waits, Ref, Refs
<1>3. Ref \in Mention /\ Lookup(active, Ref) \in Ids \cup {0}
  BY TopMention
<1> QED BY <1>1, <1>2, <1>3 DEF HereFinds

LEMMA LookUpNameLists ==
  ASSUME Inv, Lists, Course, Running, LookUpName
  PROVE  Inv2'
<1> DEFINE t == Lookup(active, Ref)
<1>1. /\ stack # <<>> /\ Waits(Top) /\ ret = "none" /\ Top.need = "name"
      /\ UNCHANGED <<prog, pkg, pass, next, bound>> /\ ResolveName(t, stack)
  BY CallingReady DEF LookUpName, Calling, flow, ResolveName, facts
<1>2. Top.d \in Ids /\ Ref \in Refs(Top.d) /\ active = Here /\ t = HereFinds[Ref] /\ t \in Ids \cup {0}
  BY <1>1, RefIs
<1>3. ASSUME t # 0
      PROVE  Named(t) /\ Known(Turn(t))
  <2>1. pkg \in Turns /\ Turns \subseteq Nat /\ Here = prog.packages[pkg] /\ Turn(Top.d) \in Turns
    BY <1>2, TurnFacts DEF Inv, Here
  <2>2. t \in Ids /\ Named(t) /\ (Turn(t) <= pkg \/ Turn(t) < Turn(Top.d))
    BY <1>2, <1>3, <2>1, LookupFinds DEF Inv
  <2>3. Turn(t) \in Turns
    BY <2>2, TurnFacts DEF Inv
  <2>4. Known(Turn(Top.d))
    BY <1>1, TopIsProper DEF Course, Proper
  <2>5. Turn(t) \in Nat /\ Turn(Top.d) \in Nat /\ pkg \in Nat
    BY <2>1, <2>3
  <2>6. AllKnown \/ (pass = "decls" /\ Turn(Top.d) <= pkg)
    BY <2>4, <2>5 DEF Known, Running, AllKnown
  <2>7. AllKnown \/ (pass = "decls" /\ (Turn(t) < pkg \/ Turn(t) = pkg))
    BY <2>2, <2>5, <2>6
  <2> QED BY <2>2, <2>7 DEF Known
<1>4. \A d \in Ids : Visited(d)' => Visited(d)
  BY <1>1, SameTurn
<1> HIDE DEF t
<1>5. Lists' /\ Declarations' /\ Calls' /\ Answered'
  BY <1>1, <1>2, <1>3, <1>4, CallsName
<1>6. Loops'
  BY <1>1, LoopsStay DEF Course
<1>7. Swept'
  <2>1. UNCHANGED tkind /\ \A d \in Ids : dstate[d] = "Error" => dstate'[d] = "Error"
    <3>1. dstate' = dstate \/ (t \in Ids /\ dstate' = [dstate EXCEPT ![t] = "Error"])
          \/ (t \in Ids /\ dstate[t] = "Unresolved" /\ dstate' = [dstate EXCEPT ![t] = "Resolving"])
      BY <1>1, <1>2 DEF ResolveName, MarkDeclError
    <3>2. UNCHANGED tkind
      BY <1>1 DEF ResolveName
    <3> QED BY <3>1, <3>2 DEF Inv, Marks
  <2> QED BY <1>1, <2>1, SweptStays DEF Course
<1> QED BY <1>5, <1>6, <1>7 DEF Inv2, Course

LEMMA CompleteTypeLists ==
  ASSUME Inv, Lists, Course, Running, CompleteType
  PROVE  Inv2'
<1> DEFINE s == dtype[Found]
<1>1. /\ stack # <<>> /\ Waits(Top) /\ ret = "none" /\ Top.need = "type"
      /\ UNCHANGED <<prog, pkg, pass, next>> /\ ResolveTypeAggregate(s, stack)
  BY CallingReady DEF CompleteType, Calling, flow
<1>2. Found \in Ids
  BY <1>1, TopIsProper DEF Course, Proper, GoodName, Usable, Found
<1>3. s \in Ids \cup {0} /\ (s # 0 => IsAgg(s) /\ dtype[s] = s)
  BY <1>2 DEF Inv, Results, Lists, TypeIsStruct
<1>4. \A d \in Ids : Visited(d)' => Visited(d)
  BY <1>1, SameTurn
<1>5. s = dtype[Found]
  OBVIOUS
<1> HIDE DEF s
<1>6. /\ Lists' /\ Declarations' /\ Calls' /\ Answered'
      /\ \A d \in Ids : /\ dstate[d] = "Error" => dstate'[d] = "Error"
                        /\ tkind'[d] = "Incomplete" => tkind[d] = "Incomplete"
  BY <1>1, <1>3, <1>4, <1>5, CallsType
<1>7. Loops' /\ Swept'
  BY <1>1, <1>6, LoopsStay, SweptStays DEF Course
<1> QED BY <1>6, <1>7 DEF Inv2, Course

(* A frame that goes on.                                                   *)
LEMMA ProperOf ==
  ASSUME Inv, Calls, Running, stack # <<>>, UNCHANGED <<prog, pkg, pass>>, NEW f \in Frames, f.d = Top.d, f.fn = Top.fn,
         dstate'[f.d] \in {dstate[f.d], "Error"}, tkind'[f.d] \in {tkind[f.d], "Error"},
         (f.fn = "agg" /\ tkind'[f.d] = "Error") \/ \A j \in 1 .. f.i - 1 : Good(f.d, j)',
         f.need = "type" => GoodName(f.d, f.i)' /\ NeedsLayout(f.d, D(f.d).refs[f.i])'
  PROVE  Proper(f)'
<1>1. Proper(Top)
  BY TopIsProper
<1>2. /\ Known(Turn(f.d))' /\ ~IsRefused(f.d)'
      /\ (Named(f.d)' <=> Named(f.d)) /\ (IsAgg(f.d)' <=> IsAgg(f.d)) /\ Turn(f.d)' = Turn(f.d)
  BY <1>1, SameTurn, SameMeaning DEF Proper
<1> QED BY <1>1, <1>2 DEF Proper

(* The top frame goes on, and its declaration may become an error.         *)
LEMMA GoesOn ==
  ASSUME Inv, Lists, Course, Running, stack # <<>>,
         UNCHANGED <<prog, pkg, pass, next, dtype, ordered>>, ret' = "none",
         \A d \in Ids : d # Top.d => dstate'[d] = dstate[d] /\ tkind'[d] = tkind[d] /\ bound'[d] = bound[d],
         \/ dstate'[Top.d] = dstate[Top.d] /\ tkind'[Top.d] = tkind[Top.d]
         \/ IsAgg(Top.d) /\ dstate'[Top.d] = "Error" /\ tkind'[Top.d] = "Error",
         NEW f \in Frames, f.d = Top.d, f.fn = Top.fn, stack' = <<f>> \o Tail(stack),
         (f.fn = "agg" /\ tkind'[f.d] = "Error") \/ \A j \in 1 .. f.i - 1 : Good(f.d, j)',
         f.need = "type" => GoodName(f.d, f.i)' /\ NeedsLayout(f.d, D(f.d).refs[f.i])'
  PROVE  Inv2'
<1>1. Smooth /\ Calls /\ Declarations
  BY SmoothLists DEF Course
<1>2. Top.d \in Ids /\ OnStack(Top.d) /\ Proper(Top)
  BY <1>1, TopIsProper
<1>3. Proper(f)'
  BY <1>1, ProperOf
<1>4. \A d \in Ids : OnStack(d) /\ d # Top.d => Unhurt(d)
  BY DEF Unhurt
<1>5. \A d \in Ids : InProgress(d)' => InProgress(d)
  BY DEF InProgress
<1>6. Calls' /\ \A d : OnStack(d)' <=> OnStack(d)
  BY <1>1, <1>3, <1>4, <1>5, CallContinues
<1>7. \A d \in Ids : Placed(d) => d # Top.d
  BY <1>2 DEF Lists, PlacedWell
<1>8. PlacedStays
  BY <1>6, <1>7 DEF PlacedStays, Lists, PlacedWell
<1>9. \A d \in Ids : IsDone(d)' => IsDone(d)
  BY SameMeaning DEF IsDone
<1>10. Lists'
  BY <1>8, <1>9, ListsStay
<1>11. \A d \in Ids : Visited(d)' => Visited(d)
  BY SameTurn
<1>12. \A d \in Ids : d # Top.d => Declared(d)'
  BY <1>1, <1>11, DeclaredSame DEF Declarations
<1>13. \E d \in Ids : d = Top.d /\ Declared(d)'
  <2>1. PICK d \in Ids : d = Top.d
    BY <1>2
  <2>2. Declared(d) /\ Known(Turn(d)) /\ (IsAgg(d) => Named(d))
    BY <1>1, <1>2, <2>1 DEF Declarations, Proper, IsAgg, Named, Aggregates
  <2>3. CASE dstate'[d] = dstate[d] /\ tkind'[d] = tkind[d]
    BY <1>11, <2>1, <2>2, <2>3, DeclaredSame
  <2>4. CASE IsAgg(d) /\ dstate'[d] = "Error" /\ tkind'[d] = "Error"
    BY <2>1, <2>2, <2>4, DeclaredError
  <2> QED BY <2>1, <2>3, <2>4
<1>14. Declarations'
  BY <1>12, <1>13, SameMeaning DEF Declarations
<1>15. Answered' /\ Loops'
  BY LoopsStay DEF Answered, Course
<1>16. Swept'
  <2>1. \A d \in Ids : /\ dstate[d] = "Error" => dstate'[d] = "Error"
                       /\ tkind'[d] = "Incomplete" => tkind[d] = "Incomplete"
    OBVIOUS
  <2> QED BY <2>1, SweptStays DEF Course
<1> QED BY <1>6, <1>10, <1>14, <1>15, <1>16 DEF Inv2, Course

(* The mentions behind the one the top frame is at stay good.              *)
LEMMA GoodBehind ==
  ASSUME Inv, Calls, Running, stack # <<>>, Smooth, UNCHANGED tkind,
         \A j : j # Top.i => bound'[Top.d][j] = bound[Top.d][j]
  PROVE  \E d \in Ids, i \in Nat :
         /\ d = Top.d /\ i = Top.i
         /\ (Top.fn = "agg" /\ tkind'[d] = "Error") \/ \A j \in 1 .. i - 1 : Good(d, j)'
<1>1. Top.d \in Ids /\ Top.i \in Nat /\ Proper(Top)
  BY TopIsProper, TopOfStack
<1>2. PICK d \in Ids, i \in Nat : d = Top.d /\ i = Top.i
  BY <1>1
<1>3. \A j \in 1 .. i - 1 : j # i /\ (Good(d, j) => Good(d, j)')
  <2>1. \A j \in 1 .. i - 1 : j # i
    BY <1>2
  <2>2. \A j \in 1 .. i - 1 : bound'[d][j] = bound[d][j]
    BY <1>2, <2>1
  <2> QED BY <2>1, <2>2, GoodStays
<1> QED BY <1>1, <1>2, <1>3 DEF Proper

LEMMA NameFoundLists ==
  ASSUME Inv, Lists, Course, Running, NameFound
  PROVE  Inv2'
<1> DEFINE t == Lookup(active, Ref)
<1>1. /\ stack # <<>> /\ Waits(Top) /\ Top.need = "name" /\ ret = "ok" /\ IsRightKind(t, Ref)
      /\ bound' = [bound EXCEPT ![Top.d][Top.i] = t]
      /\ UNCHANGED <<prog, pkg, pass, next, dstate, tkind, dtype, ordered>>
  BY TopOfStack DEF NameFound, Called, flow
<1>2. /\ Top \in Frames /\ Top.d \in Ids /\ Top.i \in DOMAIN D(Top.d).refs /\ t = HereFinds[Ref]
      /\ Top.i \in Nat \ {0} /\ Ref = D(Top.d).refs[Top.i]
  BY <1>1, RefIs, TopOfStack DEF Ref
<1>3. Usable(Top.d, t) /\ t \in Ids
  BY <1>1, <1>2 DEF Course, Answered, Usable
<1>4. /\ bound'[Top.d][Top.i] = t
      /\ \A d \in Ids : d # Top.d => bound'[d] = bound[d]
      /\ \A j : j # Top.i => bound'[Top.d][j] = bound[Top.d][j]
  BY <1>1, <1>2 DEF Inv, Results
<1>5. Smooth
  BY <1>1, SmoothLists
<1> HIDE DEF t
<1>20. PICK d \in Ids, i \in Nat :
         /\ d = Top.d /\ i = Top.i
         /\ (Top.fn = "agg" /\ tkind'[d] = "Error") \/ \A j \in 1 .. i - 1 : Good(d, j)'
  BY <1>1, <1>4, <1>5, GoodBehind DEF Course
<1>6. d = Top.d /\ i = Top.i
  BY <1>20
<1>7. GoodName(d, i)'
  <2>1. PICK x \in Ids : x = t
    BY <1>3
  <2>2. Usable(d, x)' /\ D(d)' = D(d)
    BY <1>1, <1>3, <1>5, <1>6, <2>1, UsableStays, SameMeaning
  <2>3. IsRightKind(x, D(d).refs[i])'
    BY <1>1, <1>2, <1>6, <2>1, <2>2, SameMeaning
  <2>4. bound'[d][i] = x
    BY <1>4, <1>6, <2>1
  <2> QED BY <2>2, <2>3, <2>4 DEF GoodName
<1>8. (Top.fn = "agg" /\ tkind'[d] = "Error") \/ \A j \in 1 .. i - 1 : Good(d, j)'
  BY <1>20
<1>9. CASE NeedsLayout(Top.d, Ref) /\ Continue([Top EXCEPT !.need = "type"])
  <2>1. PICK f : f = [Top EXCEPT !.need = "type"]
    OBVIOUS
  <2>2. f \in Frames /\ f.d = d /\ f.fn = Top.fn /\ f.i = i /\ f.need = "type"
    BY <1>2, <1>6, <2>1 DEF Frames
  <2>3. stack' = <<f>> \o Tail(stack) /\ ret' = "none"
    BY <1>9, <2>1 DEF Continue
  <2>4. NeedsLayout(f.d, D(f.d).refs[f.i])'
    BY <1>1, <1>2, <1>6, <1>9, <2>2, SameMeaning
  <2> QED BY <1>1, <1>4, <1>6, <1>7, <1>8, <2>2, <2>3, <2>4, GoesOn
<1>10. CASE ~NeedsLayout(Top.d, Ref) /\ NextRef
  <2>1. PICK f : f = [Top EXCEPT !.i = @ + 1, !.need = "name"]
    OBVIOUS
  <2>2. f \in Frames /\ f.d = d /\ f.fn = Top.fn /\ f.i = i + 1 /\ f.need = "name"
    BY <1>2, <1>6, <2>1, AdvancedFrame
  <2>3. stack' = <<f>> \o Tail(stack) /\ ret' = "none"
    BY <1>10, <2>1 DEF NextRef, Continue
  <2>4. Good(d, i)'
    <3>1. ~NeedsLayout(d, D(d).refs[i])'
      BY <1>1, <1>2, <1>6, <1>10, SameMeaning
    <3> QED BY <1>7, <3>1 DEF Good
  <2>5. \A j \in 1 .. f.i - 1 : j = i \/ j \in 1 .. i - 1
    BY <1>2, <1>6, <2>2
  <2>6. (f.fn = "agg" /\ tkind'[f.d] = "Error") \/ \A j \in 1 .. f.i - 1 : Good(f.d, j)'
    BY <1>8, <2>2, <2>4, <2>5
  <2> QED BY <1>1, <1>4, <1>6, <2>2, <2>3, <2>6, GoesOn
<1> QED BY <1>9, <1>10 DEF NameFound

LEMMA TypeCompletedLists ==
  ASSUME Inv, Lists, Course, Running, TypeCompleted
  PROVE  Inv2'
<1>1. /\ stack # <<>> /\ Top.need = "type" /\ ret = "ok" /\ NextRef
      /\ UNCHANGED <<prog, pkg, pass, next, dstate, tkind, dtype, ordered, bound>>
  BY DEF TypeCompleted, Called, flow, facts
<1>2. Top \in Frames /\ Proper(Top) /\ Top.i \in Nat \ {0}
  BY <1>1, TopIsProper, TopOfStack DEF Course
<1>3. Smooth
  BY <1>1, SmoothLists
<1>4. PICK d \in Ids, i \in Nat :
         /\ d = Top.d /\ i = Top.i
         /\ (Top.fn = "agg" /\ tkind'[d] = "Error") \/ \A j \in 1 .. i - 1 : Good(d, j)'
  BY <1>1, <1>3, GoodBehind DEF Course
<1>11. d = Top.d /\ i = Top.i
  BY <1>4
<1>5. Good(d, i)'
  <2>1. GoodName(d, i) /\ IsLaid(bound[d][i])
    BY <1>1, <1>2, <1>11 DEF Course, Answered, Found, Proper
  <2> QED BY <1>1, <1>3, <2>1, GoodStays DEF Good
<1>6. PICK f : f = [Top EXCEPT !.i = @ + 1, !.need = "name"]
  OBVIOUS
<1>7. f \in Frames /\ f.d = d /\ f.fn = Top.fn /\ f.i = i + 1 /\ f.need = "name"
  BY <1>2, <1>11, <1>6, AdvancedFrame
<1>8. stack' = <<f>> \o Tail(stack) /\ ret' = "none"
  BY <1>1, <1>6 DEF NextRef, Continue
<1>9. \A j \in 1 .. f.i - 1 : j = i \/ j \in 1 .. i - 1
  BY <1>7
<1>10. (f.fn = "agg" /\ tkind'[f.d] = "Error") \/ \A j \in 1 .. f.i - 1 : Good(f.d, j)'
  BY <1>4, <1>5, <1>7, <1>9
<1> QED BY <1>1, <1>11, <1>7, <1>8, <1>10, GoesOn

LEMMA MemberFailsLists ==
  ASSUME Inv, Lists, Course, Running, MemberFails
  PROVE  Inv2'
<1>1. /\ stack # <<>> /\ Top.fn = "agg" /\ NextRef
      /\ dstate' = [dstate EXCEPT ![Top.d] = "Error"] /\ tkind' = [tkind EXCEPT ![Top.d] = "Error"]
      /\ UNCHANGED <<prog, pkg, pass, next, dtype, ordered, bound>>
  BY DEF MemberFails, MarkDeclError, flow, facts
<1>2. Top \in Frames /\ Proper(Top) /\ Top.i \in Nat \ {0} /\ Top.d \in Ids
  BY <1>1, TopIsProper, TopOfStack DEF Course
<1>3. IsAgg(Top.d) /\ dstate'[Top.d] = "Error" /\ tkind'[Top.d] = "Error"
  BY <1>1, <1>2 DEF Proper, Inv, Marks
<1>4. \A d \in Ids : d # Top.d => dstate'[d] = dstate[d] /\ tkind'[d] = tkind[d]
  BY <1>1 DEF Inv, Marks
<1>5. PICK f : f = [Top EXCEPT !.i = @ + 1, !.need = "name"]
  OBVIOUS
<1>6. f \in Frames /\ f.d = Top.d /\ f.fn = Top.fn /\ f.need = "name"
  BY <1>2, <1>5, AdvancedFrame
<1>7. stack' = <<f>> \o Tail(stack) /\ ret' = "none"
  BY <1>1, <1>5 DEF NextRef, Continue
<1> QED BY <1>1, <1>3, <1>4, <1>6, <1>7, GoesOn

LEMMA WrongKindLists ==
  ASSUME Inv, Lists, Course, Running, WrongKind
  PROVE  Inv2'
<1>1. /\ UNCHANGED <<prog, pkg, pass, next, stack, dstate, tkind, dtype, bound, ordered>> /\ ret' = "error"
  BY DEF WrongKind, flow, facts
<1>2. Smooth
  BY <1>1, SmoothLists
<1>3. Calls'
  BY <1>1, <1>2, StackStays DEF Course, Unhurt, InProgress
<1>4. Lists'
  BY <1>1, NothingStays
<1>5. \A d \in Ids : Visited(d)' => Visited(d)
  BY <1>1, SameTurn
<1>6. Declarations'
  BY <1>1, <1>5, DeclaredSame, SameMeaning DEF Course, Declarations
<1>7. Loops' /\ Swept' /\ Answered'
  BY <1>1, LoopsStay, SweptStays DEF Course, Answered
<1> QED BY <1>3, <1>4, <1>6, <1>7 DEF Inv2, Course

LEMMA GoesBack ==
  ASSUME Inv, Lists, Course, Running, stack # <<>>, stack' = Tail(stack), ret' # "ok",
         UNCHANGED <<prog, pkg, pass, next, dtype, ordered, bound, tkind>>,
         \A d \in Ids : d # Top.d => dstate'[d] = dstate[d],
         \/ dstate'[Top.d] = dstate[Top.d] /\ ~InProgress(Top.d)
         \/ Top.fn = "name" /\ dstate'[Top.d] = "Error"
  PROVE  Inv2'
<1>1. Smooth /\ Calls /\ Declarations
  BY SmoothLists DEF Course
<1>2. PICK d \in Ids : d = Top.d /\ OnStack(d) /\ Proper(Top)
  BY <1>1, TopIsProper
<1>3. Declared(d)
  BY <1>1 DEF Declarations
<1>4. ~InProgress(d)'
  BY <1>2, <1>3 DEF InProgress, Declared, Proper
<1>5. \A x \in Ids : InProgress(x)' => InProgress(x) /\ x # Top.d
  BY <1>2, <1>4 DEF InProgress
<1>6. Calls' /\ \A x : OnStack(x)' <=> OnStack(x) /\ x # Top.d
  BY <1>1, <1>5, CallPopped DEF Unhurt
<1>7. \A x \in Ids : Placed(x) => x # Top.d
  BY <1>2 DEF Lists, PlacedWell
<1>8. PlacedStays
  BY <1>6, <1>7 DEF PlacedStays, Lists, PlacedWell
<1>9. \A x \in Ids : IsDone(x)' => IsDone(x)
  BY SameMeaning DEF IsDone
<1>10. Lists'
  BY <1>8, <1>9, ListsStay
<1>11. \A x \in Ids : Visited(x)' => Visited(x)
  BY SameTurn
<1>12. \A x \in Ids : x # Top.d => Declared(x)'
  BY <1>1, <1>11, DeclaredSame DEF Declarations
<1>13. Declared(d)'
  <2>1. CASE dstate'[d] = dstate[d]
    BY <1>3, <1>11, <2>1, DeclaredSame
  <2>2. CASE Top.fn = "name" /\ dstate'[d] = "Error"
    BY <1>2, <1>3, <2>2, DeclaredError DEF Proper
  <2> QED BY <1>2, <2>1, <2>2
<1>14. Declarations'
  BY <1>2, <1>12, <1>13, SameMeaning DEF Declarations
<1>15. Answered' /\ Loops'
  BY LoopsStay DEF Answered, Course
<1>16. Swept'
  <2>1. \A x \in Ids : IsAgg(x) /\ dstate[x] = "Error" => dstate'[x] = "Error"
    BY <1>2 DEF Proper
  <2> QED BY <2>1, SweptStays DEF Course
<1> QED BY <1>6, <1>10, <1>14, <1>15, <1>16 DEF Inv2, Course

LEMMA NameFailsLists ==
  ASSUME Inv, Lists, Course, Running, NameFails \/ WeakAggregate
  PROVE  Inv2'
<1>1. /\ UNCHANGED <<prog, pkg, pass, next, dtype, ordered, bound, tkind>>
      /\ stack # <<>> /\ Top.fn = "name" /\ Answer("error", Tail(stack))
      /\ dstate' = [dstate EXCEPT ![Top.d] = "Error"]
  BY DEF NameFails, WeakAggregate, Finished, MarkDeclError, flow, facts
<1>2. stack' = Tail(stack) /\ ret' # "ok"
  BY <1>1 DEF Answer
<1>3. Top.d \in Ids
  BY <1>1, TopIsProper DEF Course
<1>4. dstate'[Top.d] = "Error" /\ \A d \in Ids : d # Top.d => dstate'[d] = dstate[d]
  BY <1>1, <1>3 DEF Inv, Marks
<1> QED BY <1>1, <1>2, <1>4, GoesBack

LEMMA AggregateFailsLists ==
  ASSUME Inv, Lists, Course, Running, AggregateFails
  PROVE  Inv2'
<1>1. /\ UNCHANGED <<prog, pkg, pass, next, dtype, ordered, bound, tkind, dstate>>
      /\ stack # <<>> /\ Top.fn = "agg" /\ Answer("error", Tail(stack)) /\ tkind[Top.d] = "Error"
  BY DEF AggregateFails, Finished, flow, facts
<1>2. stack' = Tail(stack) /\ ret' # "ok"
  BY <1>1 DEF Answer
<1>3. Top.d \in Ids
  BY <1>1, TopIsProper DEF Course
<1>4. ~InProgress(Top.d)
  BY <1>1, <1>3 DEF InProgress, Course, Declarations, Declared
<1> QED BY <1>1, <1>2, <1>4, GoesBack

(* A note is at the bottom of the stack.                                   *)
LEMMA BelowTop ==
  ASSUME Inv, Calls, Running, stack # <<>>, Tail(stack) # <<>>
  PROVE  \E g \in Frames : /\ g = Tail(stack)[1] /\ Link(Top, g) /\ Proper(g)
                           /\ g.d # Top.d /\ OnStack(g.d)
<1>1. stack \in Seq(Frames)
  BY DEF Inv, Walk
<1>2. /\ Tail(stack) \in Seq(Frames) /\ 1 \in DOMAIN Tail(stack)
      /\ \A k \in DOMAIN Tail(stack) : Tail(stack)[k] = stack[k + 1] /\ k + 1 \in DOMAIN stack /\ k + 1 > 1
  BY <1>1, PoppedStack
<1>3. Tail(stack)[1] = stack[2] /\ 2 \in DOMAIN stack \ {1} /\ 2 - 1 = 1
  BY <1>2
<1>4. Link(stack[2 - 1], stack[2]) /\ Proper(stack[2])
  BY <1>3 DEF Calls, Chain
<1>5. stack[2].d # stack[1].d
  BY <1>1, <1>3, PoppedStack DEF Calls, Chain
<1> QED BY <1>1, <1>3, <1>4, <1>5 DEF Top, OnStack

LEMMA NoteReturnsLists ==
  ASSUME Inv, Lists, Course, Running, NoteFails \/ NoteResolved
  PROVE  Inv2'
<1>1. /\ UNCHANGED <<prog, pkg, pass, next, dtype, ordered, bound, tkind, dstate>>
      /\ stack # <<>> /\ Top.fn = "note" /\ stack' = Tail(stack)
      /\ ret' = "error" \/ (Tail(stack) = <<>> => ret' = "none")
  BY DEF NoteFails, NoteResolved, Finished, flow, facts, Answer
<1>2. Tail(stack) = <<>>
  BY <1>1, BelowTop DEF Course, Link
<1>3. Top.d \in Ids /\ ~Named(Top.d)
  BY <1>1, TopIsProper DEF Course, Proper
<1>4. ~InProgress(Top.d)
  BY <1>3 DEF InProgress, Course, Declarations, Declared, IsAgg, Named, Aggregates
<1> QED BY <1>1, <1>2, <1>4, GoesBack

(* A declaration is placed in the list of its package.                     *)
LEMMA PlacedInList ==
  ASSUME Inv, Lists, NEW d \in Ids, ~Placed(d), Append1(d), UNCHANGED prog
  PROVE  /\ \A x \in Ids : Placed(x)' <=> Placed(x) \/ x = d
         /\ \A p \in Packages : /\ \A i \in DOMAIN ordered'[p] : (D(ordered[p][i]).pkg = p)'
                                /\ \A i, j \in DOMAIN ordered'[p] : ordered'[p][i] = ordered'[p][j] => i = j
<1> DEFINE q == D(d).pkg
           s == ordered[q]
<1>1. q \in Packages /\ s \in Seq(Ids) /\ \A x \in Ids : D(x).pkg \in Packages
  BY ProgramFacts DEF Inv, Results
<1>2. ordered'[q] = Append(s, d) /\ \A p \in Packages : p # q => ordered'[p] = ordered[p]
  BY <1>1 DEF Append1, Inv, Results
<1>3. /\ DOMAIN Append(s, d) = DOMAIN s \cup {Len(s) + 1} /\ Len(s) + 1 \notin DOMAIN s
      /\ Append(s, d)[Len(s) + 1] = d /\ \A i \in DOMAIN s : Append(s, d)[i] = s[i]
  BY <1>1
<1>4. \A x : IsIn(Append(s, d), x) <=> IsIn(s, x) \/ x = d
  BY <1>3 DEF IsIn
<1>5. \A x : D(x)' = D(x)
  BY SameMeaning
<1>6. \A x \in Ids : Placed(x)' <=> Placed(x) \/ x = d
  <2> TAKE x \in Ids
  <2>1. Placed(x)' <=> IsIn(ordered'[D(x).pkg], x)
    BY <1>5 DEF Placed, IsIn
  <2>2. CASE D(x).pkg = q
    BY <1>2, <1>4, <2>1, <2>2 DEF Placed
  <2>3. CASE D(x).pkg # q
    BY <1>1, <1>2, <2>1, <2>3 DEF Placed
  <2> QED BY <2>2, <2>3
<1>7. \A i \in DOMAIN s : s[i] # d
  BY DEF Placed, IsIn
<1>8. ASSUME NEW p \in Packages
      PROVE  /\ \A i \in DOMAIN ordered'[p] : D(ordered'[p][i]).pkg = p
             /\ \A i, j \in DOMAIN ordered'[p] : ordered'[p][i] = ordered'[p][j] => i = j
  <2>1. /\ \A i \in DOMAIN ordered[p] : D(ordered[p][i]).pkg = p
        /\ \A i, j \in DOMAIN ordered[p] : ordered[p][i] = ordered[p][j] => i = j
    BY DEF Lists
  <2>2. CASE p # q
    BY <1>2, <2>1, <2>2
  <2>3. CASE p = q
    <3> HIDE DEF s, q
    <3>1. \A i \in DOMAIN ordered'[p] : i \in DOMAIN s \/ i = Len(s) + 1
      BY <1>2, <1>3, <2>3
    <3>2. \A i \in DOMAIN ordered'[p] : IF i \in DOMAIN s THEN ordered'[p][i] = s[i] ELSE ordered'[p][i] = d /\ i = Len(s) + 1
      BY <1>2, <1>3, <2>3, <3>1
    <3>3. s = ordered[p]
      BY <2>3 DEF s
    <3> QED BY <1>7, <2>1, <2>3, <3>1, <3>2, <3>3 DEF q
  <2> QED BY <2>2, <2>3
<1>9. \A p \in Packages : \A i \in DOMAIN ordered'[p] : (D(ordered[p][i]).pkg = p)'
  BY <1>5, <1>8
<1> QED BY <1>6, <1>8, <1>9

(* What a finished frame leaves behind is good.                            *)
LEMMA FinishedIsGood ==
  ASSUME Inv, Calls, Running, stack # <<>>, ~MoreRefs, ~(Top.fn = "agg" /\ tkind[Top.d] = "Error")
  PROVE  \A j \in DOMAIN D(Top.d).refs : Good(Top.d, j)
<1>1. Top.d \in Ids /\ Top.i \in Nat /\ Proper(Top)
  BY TopIsProper, TopOfStack
<1>2. DOMAIN D(Top.d).refs = 1 .. Len(D(Top.d).refs) /\ Len(D(Top.d).refs) \in Nat
  BY <1>1, ProgramFacts DEF Inv
<1>3. ~(Top.i <= Len(D(Top.d).refs))
  BY DEF MoreRefs
<1>4. \A j \in DOMAIN D(Top.d).refs : j \in 1 .. Top.i - 1
  BY <1>1, <1>2, <1>3
<1> QED BY <1>1, <1>4 DEF Proper

(* A call that returns and has placed its declaration in a list.           *)
LEMMA Returns ==
  ASSUME Inv, Lists, Course, Running, stack # <<>>, ~Placed(Top.d), Append1(Top.d), Smooth,
         UNCHANGED <<prog, pkg, pass, next, bound>>, stack' = Tail(stack),
         ret' = "ok" => stack' # <<>>,
         \A d \in Ids : d # Top.d => dstate'[d] = dstate[d] /\ tkind'[d] = tkind[d] /\ dtype'[d] = dtype[d],
         NEW top, top = Top.d, ~InProgress(top)', Declared(top)', PlacedWell(top)', TypeIsStruct(top)',
         IsAgg(top) => dstate'[top] = dstate[top] /\ tkind'[top] # "Incomplete",
         ret' = "ok" => Answered'
  PROVE  Inv2'
<1>1. Calls /\ Declarations
  BY DEF Course
<1>2. top \in Ids /\ OnStack(top) /\ Proper(Top)
  BY <1>1, TopIsProper
<1>3. /\ \A x \in Ids : Placed(x)' <=> Placed(x) \/ x = top
      /\ \A p \in Packages : /\ \A i \in DOMAIN ordered'[p] : (D(ordered[p][i]).pkg = p)'
                             /\ \A i, j \in DOMAIN ordered'[p] : ordered'[p][i] = ordered'[p][j] => i = j
  BY <1>2, PlacedInList
<1>4. \A x \in Ids : InProgress(x)' => InProgress(x) /\ x # Top.d
  BY DEF InProgress
<1>5. Calls' /\ \A x : OnStack(x)' <=> OnStack(x) /\ x # Top.d
  BY <1>1, <1>4, CallPopped DEF Unhurt
<1>6. PlacedStays
  BY <1>5 DEF PlacedStays, Lists, PlacedWell
<1>7. \A x \in Ids : Placed(x)' => PlacedWell(x)'
  BY <1>3, <1>6, PlacedWellStays DEF Lists
<1>8. \A x \in Ids : IsDone(x)' => Placed(x)'
  <2>1. \A x \in Ids : x # top => (IsDone(x)' <=> IsDone(x))
    BY SameMeaning DEF IsDone
  <2> QED BY <1>3, <2>1 DEF Lists
<1>9. \A x \in Ids : TypeIsStruct(x)'
  BY StructStays
<1>10. Lists'
  BY <1>3, <1>7, <1>8, <1>9, SameMeaning DEF Lists
<1>11. \A x \in Ids : Visited(x)' => Visited(x)
  BY SameTurn
<1>12. \A x \in Ids : x # top => Declared(x)'
  BY <1>1, <1>11, DeclaredSame DEF Declarations
<1>13. Declarations'
  BY <1>12, SameMeaning DEF Declarations
<1>14. Loops' /\ Answered'
  BY LoopsStay DEF Answered, Course
<1>15. Swept'
  <2>1. \A x \in Ids : /\ IsAgg(x) /\ dstate[x] = "Error" => dstate'[x] = "Error"
                       /\ IsAgg(x) /\ tkind'[x] = "Incomplete" => tkind[x] = "Incomplete"
    OBVIOUS
  <2> QED BY <2>1, SweptStays DEF Course
<1> QED BY <1>5, <1>10, <1>13, <1>14, <1>15 DEF Inv2, Course

LEMMA AggregateCompletedLists ==
  ASSUME Inv, Lists, Course, Running, AggregateCompleted
  PROVE  Inv2'
<1>1. /\ UNCHANGED <<prog, pkg, pass, next, dstate, dtype, bound>> /\ stack # <<>> /\ Top.fn = "agg"
      /\ ~MoreRefs /\ tkind[Top.d] # "Error" /\ tkind' = [tkind EXCEPT ![Top.d] = "Complete"]
      /\ Append1(Top.d) /\ Answer("ok", Tail(stack))
  BY DEF AggregateCompleted, Finished, flow
<1>2. PICK d \in Ids : d = Top.d /\ OnStack(d) /\ Proper(Top)
  BY <1>1, TopIsProper DEF Course
<1>3. /\ stack' = Tail(stack) /\ (ret' = "ok" => Tail(stack) # <<>>)
  BY <1>1 DEF Answer
<1>4. /\ IsAgg(d) /\ Known(Turn(d)) /\ Named(d) /\ Declared(d) /\ dstate[d] \in {"Resolved", "Error"} /\ dtype[d] = d
      /\ tkind[d] = "Completing"
  BY <1>1, <1>2 DEF Proper, Course, Declarations, Declared, IsAgg, Named, Aggregates
<1>5. tkind'[d] = "Complete" /\ \A x \in Ids : x # d => tkind'[x] = tkind[x]
  BY <1>1, <1>2 DEF Inv, Marks
<1>6. ~Placed(d)
  BY <1>2 DEF Lists, PlacedWell
<1>7. \A x \in Ids : Placed(x)' <=> Placed(x) \/ x = d
  BY <1>1, <1>2, <1>6, PlacedInList
<1>8. Smooth
  BY <1>1, <1>7 DEF Smooth
<1>9. \A j \in DOMAIN D(d).refs : Good(d, j)
  BY <1>1, <1>2, FinishedIsGood DEF Course
<1>10. ~InProgress(d)'
  BY <1>1, <1>4, <1>5 DEF InProgress
<1>11. Declared(d)'
  BY <1>1, <1>4, <1>5, SameTurn, SameMeaning DEF Declared
<1>12. ~OnStack(d)'
  <2>1. PICK st \in Seq(Frames) : st = stack
    BY DEF Inv, Walk
  <2>2. \A k \in DOMAIN Tail(st) : Tail(st)[k].d # st[1].d
    BY <1>1, <2>1, ChainTail DEF Course, Calls
  <2> QED BY <1>2, <1>3, <2>1, <2>2, OnStackIs DEF Top
<1>13. PlacedWell(d)'
  <2>1. \A j \in DOMAIN D(d).refs : Good(d, j)'
    BY <1>1, <1>8, <1>9, GoodStays
  <2>2. D(d)' = D(d) /\ Named(d)' /\ IsAgg(d)'
    BY <1>1, <1>4, SameMeaning
  <2> QED BY <1>5, <1>12, <2>1, <2>2 DEF PlacedWell
<1>14. TypeIsStruct(d)'
  BY <1>1, <1>2, <1>8, StructStays
<1>15. ret' = "ok" => Answered'
  <2> SUFFICES ASSUME ret' = "ok" PROVE Answered'
    OBVIOUS
  <2>1. PICK g \in Frames : g = Tail(stack)[1] /\ Link(Top, g) /\ Proper(g)
    BY <1>1, <1>3, BelowTop DEF Course
  <2>2. g.need = "type" /\ d = dtype[bound[g.d][g.i]]
    BY <1>1, <1>2, <2>1 DEF Link
  <2>3. Top' = g /\ Found' = bound[g.d][g.i]
    BY <1>1, <1>3, <2>1 DEF Top, Found
  <2>4. Placed(d)'
    BY <1>7
  <2>5. IsLaid(Found)'
    BY <1>1, <2>2, <2>3, <2>4 DEF IsLaid
  <2> QED BY <2>2, <2>3, <2>5 DEF Answered
<1> QED BY <1>1, <1>2, <1>3, <1>4, <1>5, <1>6, <1>8, <1>10, <1>11, <1>13, <1>14, <1>15, Returns

LEMMA NameResolvedLists ==
  ASSUME Inv, Lists, Course, Running, NameResolved
  PROVE  Inv2'
<1>1. /\ UNCHANGED <<prog, pkg, pass, next, tkind, bound>> /\ stack # <<>> /\ Top.fn = "name" /\ ~MoreRefs
      /\ dtype' = [dtype EXCEPT ![Top.d] = TypeOf(Top.d)] /\ dstate' = [dstate EXCEPT ![Top.d] = "Resolved"]
      /\ Append1(Top.d) /\ Answer("ok", Tail(stack))
  BY DEF NameResolved, Finished, flow
<1>2. PICK d \in Ids : d = Top.d /\ OnStack(d) /\ Proper(Top)
  BY <1>1, TopIsProper DEF Course
<1>3. /\ stack' = Tail(stack) /\ (ret' = "ok" => Tail(stack) # <<>>)
  BY <1>1 DEF Answer
<1>4. ~IsAgg(d) /\ Known(Turn(d)) /\ Named(d) /\ Declared(d) /\ ~IsRefused(d) /\ tkind[d] = "None"
  BY <1>1, <1>2 DEF Proper, Course, Declarations, Declared
<1>5. /\ dstate'[d] = "Resolved" /\ dtype'[d] = TypeOf(d)
      /\ \A x \in Ids : x # d => dstate'[x] = dstate[x] /\ dtype'[x] = dtype[x]
  BY <1>1, <1>2 DEF Inv, Marks, Results
<1>6. ~Placed(d)
  BY <1>2 DEF Lists, PlacedWell
<1>7. \A x \in Ids : Placed(x)' <=> Placed(x) \/ x = d
  BY <1>1, <1>2, <1>6, PlacedInList
<1>8. Smooth
  <2>1. ~Settled(d)
    BY <1>4, <1>6 DEF Settled
  <2> QED BY <1>1, <1>5, <1>7, <2>1 DEF Smooth
<1>9. \A j \in DOMAIN D(d).refs : Good(d, j)
  BY <1>1, <1>2, <1>4, FinishedIsGood DEF Course
<1>10. ~InProgress(d)'
  BY <1>1, <1>4, <1>5 DEF InProgress
<1>11. Declared(d)'
  BY <1>1, <1>4, <1>5, SameTurn, SameMeaning DEF Declared
<1>12. ~OnStack(d)'
  <2>1. PICK st \in Seq(Frames) : st = stack
    BY DEF Inv, Walk
  <2>2. \A k \in DOMAIN Tail(st) : Tail(st)[k].d # st[1].d
    BY <1>1, <2>1, ChainTail DEF Course, Calls
  <2> QED BY <1>2, <1>3, <2>1, <2>2, OnStackIs DEF Top
<1>13. PlacedWell(d)'
  <2>1. \A j \in DOMAIN D(d).refs : Good(d, j)'
    BY <1>1, <1>8, <1>9, GoodStays
  <2>2. D(d)' = D(d) /\ Named(d)' /\ ~IsAgg(d)'
    BY <1>1, <1>4, SameMeaning
  <2>3. TypeOf(d)' = TypeOf(d)
    BY <1>1, <1>8, <1>9, TypeOfStays
  <2> QED BY <1>5, <1>12, <2>1, <2>2, <2>3 DEF PlacedWell
<1>14. TypeIsStruct(d)'
  <2> SUFFICES ASSUME TypeOf(d) # 0 PROVE TypeIsStruct(d)'
    BY <1>5 DEF TypeIsStruct
  <2>1. 1 \in DOMAIN D(d).refs /\ TypeOf(d) = dtype[bound[d][1]]
    <3>1. D(d).refs # <<>> /\ TypeOf(d) = dtype[bound[d][1]]
      BY DEF TypeOf
    <3>2. DOMAIN D(d).refs = 1 .. Len(D(d).refs) /\ Len(D(d).refs) \in Nat /\ D(d).refs \in Seq(Mention)
      BY ProgramFacts DEF Inv, Declaration
    <3> QED BY <3>1, <3>2
  <2>2. bound[d][1] \in Ids
    BY <1>9, <2>1 DEF Good, GoodName, Usable
  <2>3. PICK x \in Ids : x = TypeOf(d) /\ IsAgg(x) /\ dtype[x] = x
    BY <2>1, <2>2 DEF Lists, TypeIsStruct, Inv, Results
  <2>4. dtype'[x] = x /\ IsAgg(x)'
    BY <1>1, <1>4, <1>5, <2>3, SameMeaning
  <2>5. Settled(d)'
    BY <1>1, <1>4, <1>7, SameMeaning DEF Settled
  <2> QED BY <1>5, <2>3, <2>4, <2>5 DEF TypeIsStruct
<1>15. ret' = "ok" => Answered'
  <2> SUFFICES ASSUME ret' = "ok" PROVE Answered'
    OBVIOUS
  <2>1. PICK g \in Frames : g = Tail(stack)[1] /\ Link(Top, g) /\ Proper(g)
    BY <1>1, <1>3, BelowTop DEF Course
  <2>2. g.need = "name" /\ d = HereFinds[D(g.d).refs[g.i]]
    BY <1>1, <1>2, <2>1 DEF Link
  <2>3. Top' = g /\ HereFinds[Ref]' = d
    BY <1>1, <1>3, <2>1, <2>2, SameTurn, SameMeaning DEF Top, Ref
  <2>4. g.d \in Ids /\ Known(Turn(g.d))
    BY <2>1 DEF Proper, Frames
  <2>5. d \notin Taken(D(g.d).pkg) /\ d \notin Taken(D(d).pkg)
    BY <1>4, <2>4, TurnFacts DEF IsRefused, Inv
  <2>6. PICK e \in Ids : e = g.d
    BY <2>4
  <2>7. Usable(e, d)'
    <3>1. /\ D(e)' = D(e) /\ Ids' = Ids /\ ~IsAgg(d)'
          /\ \A x : Taken(D(x).pkg)' = Taken(D(x).pkg)
      BY <1>1, <1>4, SameMeaning
    <3>2. Settled(d)'
      BY <1>7, <3>1 DEF Settled
    <3> QED BY <2>5, <2>6, <3>1, <3>2 DEF Usable
  <2> QED BY <2>2, <2>3, <2>6, <2>7 DEF Answered
<1> QED BY <1>1, <1>2, <1>3, <1>4, <1>5, <1>6, <1>8, <1>10, <1>11, <1>13, <1>14, <1>15, Returns

LEMMA Inv2Step == Inv /\ Inv2 /\ [Next]_vars => Inv2'
<1> SUFFICES ASSUME Inv, Inv2, [Next]_vars PROVE Inv2'
  OBVIOUS
<1>1. CASE UNCHANGED vars
  <2>1. /\ UNCHANGED <<prog, pass, pkg, next, stack, ret, dstate, tkind, dtype, bound, ordered>>
    BY <1>1 DEF vars
  <2>2. Lists'
    BY <2>1, NothingStays DEF Inv2
  <2>3. ASSUME Course
        PROVE  Course'
    <3>1. Smooth
      BY <2>1, SmoothLists
    <3>2. Calls'
      BY <2>1, <2>3, <3>1, StackStays DEF Course, Unhurt, InProgress
    <3>3. \A d \in Ids : Visited(d)' => Visited(d)
      BY <2>1, SameTurn
    <3>4. Declarations'
      BY <2>1, <2>3, <3>3, DeclaredSame, SameMeaning DEF Course, Declarations
    <3>5. Loops' /\ Swept'
      BY <2>1, <2>3, SameMeaning DEF Course, Loops, Swept
    <3>6. Answered'
      <4>1. UNCHANGED <<Top, Ref, Found, HereFinds>>
        BY <2>1, SameProgram DEF Top, Ref, Found, D
      <4> SUFFICES ASSUME ret = "ok" PROVE Answered'
        BY <2>1 DEF Answered
      <4>2. PICK d, t : d = Top.d /\ t = HereFinds[Ref]
        OBVIOUS
      <4>3. CASE Top.need = "name"
        <5>1. Usable(d, t) /\ t \in Ids
          BY <2>3, <4>2, <4>3 DEF Course, Answered, Usable
        <5>2. Usable(d, t)'
          BY <3>1, <5>1, UsableStays
        <5> QED BY <2>1, <4>1, <4>2, <4>3, <5>2 DEF Answered
      <4>4. CASE Top.need # "name"
        <5>1. dtype[Found] # 0 => Placed(dtype[Found])
          BY <2>3, <4>4 DEF Course, Answered, IsLaid
        <5>2. \A x : Placed(x)' <=> Placed(x)
          BY <2>1, SameMeaning DEF Placed
        <5> QED BY <2>1, <4>1, <4>4, <5>1, <5>2 DEF Answered, IsLaid
      <4> QED BY <4>3, <4>4
    <3> QED BY <3>2, <3>4, <3>5, <3>6 DEF Course
  <2> QED BY <2>1, <2>2, <2>3 DEF Inv2
<1>2. CASE Next
  <2>1. Lists
    BY DEF Inv2
  <2>2. CASE AssertAggregate \/ ReadDeclOfNote
    BY <2>1, <2>2, CrashLists
  <2>3. ASSUME ~(AssertAggregate \/ ReadDeclOfNote)
        PROVE  Inv2'
    <3>1. pass # "crashed"
      BY <1>2, <2>3 DEF Next, RegisterDecls, ResolveDecl, ResolveNote, ResolveIncompleteType, PassOver, InLoop,
                        NextPackage, Resolve, Running
    <3>2. Course
      BY <3>1 DEF Inv2
    <3>3. CASE Resolve
      BY <2>1, <3>2, <3>3, LookUpNameLists, NameFoundLists, WrongKindLists, NameFailsLists, NameResolvedLists,
         CompleteTypeLists, TypeCompletedLists, MemberFailsLists, AggregateFailsLists, AggregateCompletedLists,
         NoteReturnsLists DEF Resolve
    <3> QED BY <1>2, <2>1, <2>3, <3>2, <3>3, RegisterLists, ResolveDeclLists, ResolveNoteLists, IncompleteLists,
               PassOverLists, NextPackageLists DEF Next
  <2> QED BY <2>2, <2>3
<1> QED BY <1>1, <1>2

LEMMA Invariance2 == Spec => [](Inv /\ Inv2)
<1>1. Init => Inv /\ Inv2
  BY InitInv, InitLists
<1>2. Inv /\ Inv2 /\ [Next]_vars => Inv' /\ Inv2'
  BY InvStep, Inv2Step
<1> QED BY <1>1, <1>2, PTL DEF Spec

---------------------------------------------------------------------------
(* Every declaration is placed once.                                       *)

LEMMA AtTheEnd ==
  ASSUME Inv, Inv2, pass = "done", NEW d \in Ids, Named(d), dstate[d] # "Error"
  PROVE  Placed(d) /\ IsDone(d)
<1>1. Lists /\ Course /\ stack = <<>> /\ AllKnown
  BY DEF Inv2, Course, Loops, AllKnown
<1>2. dstate[d] # "Resolving" /\ tkind[d] # "Completing"
  BY <1>1 DEF Course, Calls, OnStack
<1>3. Declared(d) /\ Known(Turn(d)) /\ Visited(d)
  BY <1>1 DEF Course, Declarations, Known, Visited
<1>4. dstate[d] \in States /\ tkind[d] \in TypeStates
  BY DEF Inv, Marks
<1>5. CASE IsAgg(d)
  <2>1. tkind[d] # "Incomplete"
    BY <1>1, <1>5 DEF Course, Swept
  <2>2. tkind[d] = "Complete"
    BY <1>2, <1>3, <1>4, <1>5, <2>1 DEF Declared, TypeStates
  <2> QED BY <1>1, <1>5, <2>2 DEF Lists, IsDone
<1>6. CASE ~IsAgg(d)
  <2>1. dstate[d] = "Resolved"
    BY <1>2, <1>3, <1>4 DEF Declared, States
  <2> QED BY <1>1, <1>6, <2>1 DEF Lists, IsDone
<1> QED BY <1>5, <1>6

LEMMA PlacedOnce == Inv /\ Inv2 => EachIsPlacedOnce
<1> SUFFICES ASSUME Inv, Inv2 PROVE EachIsPlacedOnce
  OBVIOUS
<1>1. \A p \in Packages : \A i, j \in DOMAIN ordered[p] : ordered[p][i] = ordered[p][j] => i = j
  BY DEF Inv2, Lists
<1>2. pass = "done" => \A d \in Ids : Named(d) /\ ~HasError(d) => Placed(d)
  BY AtTheEnd DEF HasError
<1> QED BY <1>1, <1>2 DEF EachIsPlacedOnce, Placed, IsIn

---------------------------------------------------------------------------
(* What a step changes of what is known.                                   *)

LEMMA FactsChange ==
  ASSUME Inv, [Next]_vars
  PROVE  /\ UNCHANGED prog
         /\ \/ UNCHANGED <<dtype, bound, ordered, layout, value>>
            \/ RegisterDecls
            \/ Running /\ NameFound
            \/ Running /\ NameResolved
            \/ Running /\ AggregateCompleted
<1>1. CASE UNCHANGED vars
  BY <1>1 DEF vars, sizes
<1>2. CASE Resolve
  BY <1>2 DEF Resolve, LookUpName, ResolveName, NameFound, WrongKind, NameFails, NameResolved, WeakAggregate,
              CompleteType, ResolveTypeAggregate, TypeIsKnown, TypeIsCyclic, BeginAggregate, TypeCompleted,
              MemberFails, AggregateFails, AggregateCompleted, NoteFails, NoteResolved, facts, sizes
<1>3. CASE RegisterDecls \/ ResolveDecl \/ ResolveNote \/ ResolveIncompleteType \/ PassOver \/ NextPackage
           \/ AssertAggregate \/ ReadDeclOfNote
  BY <1>3 DEF RegisterDecls, ResolveDecl, ResolveNote, ResolveIncompleteType, PassOver, NextPackage, AssertAggregate,
              ReadDeclOfNote, Step, ResolveName, ResolveTypeAggregate, TypeIsKnown, TypeIsCyclic, BeginAggregate,
              facts, sizes
<1> QED BY <1>1, <1>2, <1>3 DEF Next

LEMMA StepIsSmooth ==
  ASSUME Inv, Inv2, [Next]_vars
  PROVE  /\ Smooth /\ \A d \in Ids : Placed(d) => bound'[d] = bound[d]
         /\ Running /\ (NameFound \/ NameResolved \/ AggregateCompleted) =>
              Lists /\ Course /\ stack # <<>> /\ Proper(Top) /\ Top \in Frames /\ Top.d \in Ids /\ ~Placed(Top.d)
<1>1. UNCHANGED prog /\ Lists
  BY FactsChange DEF Inv2
<1>2. ASSUME Running, NameFound \/ NameResolved \/ AggregateCompleted
      PROVE  Lists /\ Course /\ stack # <<>> /\ Proper(Top) /\ Top \in Frames /\ Top.d \in Ids /\ ~Placed(Top.d)
  <2>1. Course /\ stack # <<>>
    BY <1>2 DEF Inv2, Running, NameFound, Called, NameResolved, AggregateCompleted, Finished
  <2>2. Top \in Frames /\ Top.d \in Ids /\ OnStack(Top.d) /\ Proper(Top)
    BY <1>2, <2>1, TopIsProper DEF Course
  <2> QED BY <1>1, <2>1, <2>2 DEF Lists, PlacedWell
<1>3. CASE UNCHANGED <<dtype, bound, ordered, layout, value>>
  BY <1>1, <1>2, <1>3, SmoothLists
<1>4. CASE RegisterDecls
  <2>1. UNCHANGED <<bound, ordered>> /\ \A t \in Ids : Settled(t) => dtype'[t] = dtype[t]
    BY <1>4 DEF RegisterDecls, Settled
  <2>2. \A x \in Ids : Placed(x) => Placed(x)'
    BY <1>1, <2>1, SameMeaning DEF Placed
  <2> QED BY <1>1, <1>2, <2>1, <2>2 DEF Smooth
<1>5. CASE Running /\ NameFound
  <2>1. UNCHANGED <<dtype, ordered>> /\ \A d \in Ids : d # Top.d => bound'[d] = bound[d]
    BY <1>5 DEF NameFound, Inv, Results
  <2> QED BY <1>1, <1>2, <1>5, <2>1, SmoothLists
<1>6. CASE Running /\ NameResolved
  <2>1. UNCHANGED bound /\ Append1(Top.d) /\ \A d \in Ids : d # Top.d => dtype'[d] = dtype[d]
    BY <1>6 DEF NameResolved, Inv, Results
  <2>2. ~Settled(Top.d)
    BY <1>2, <1>6 DEF Settled, NameResolved, Finished, Proper
  <2>3. \A x \in Ids : Placed(x) => Placed(x)'
    BY <1>1, <1>2, <1>6, <2>1, PlacedInList
  <2> QED BY <1>1, <1>2, <1>6, <2>1, <2>2, <2>3 DEF Smooth
<1>7. CASE Running /\ AggregateCompleted
  <2>1. UNCHANGED <<bound, dtype>> /\ Append1(Top.d)
    BY <1>7 DEF AggregateCompleted
  <2>2. \A x \in Ids : Placed(x) => Placed(x)'
    BY <1>1, <1>2, <1>7, <2>1, PlacedInList
  <2> QED BY <1>1, <1>2, <1>7, <2>1, <2>2 DEF Smooth
<1> QED BY <1>3, <1>4, <1>5, <1>6, <1>7, FactsChange

---------------------------------------------------------------------------
(* The order of a list.                                                    *)

Earlier(s, k, x) == \E j \in DOMAIN s : j < k /\ s[j] = x
ComesAfterUses(s, k) ==
  LET d == s[k]
  IN  \A i \in DOMAIN D(d).refs :
        LET t == bound[d][i]
        IN  /\ ~IsAgg(t) /\ D(t).pkg = D(d).pkg => Earlier(s, k, t)
            /\ (NeedsLayout(d, D(d).refs[i]) /\ dtype[t] # 0 /\ D(dtype[t]).pkg = D(d).pkg)
                  => Earlier(s, k, dtype[t])
Sorted == \A p \in Packages : \A k \in DOMAIN ordered[p] : ComesAfterUses(ordered[p], k)

LEMMA InList ==
  ASSUME Inv, Inv2, NEW p \in Packages, NEW k \in DOMAIN ordered[p]
  PROVE  LET d == ordered[p][k]
         IN  d \in Ids /\ D(d).pkg = p /\ Placed(d) /\ PlacedWell(d)
<1>1. ordered[p][k] \in Ids /\ D(ordered[p][k]).pkg = p
  BY DEF Inv, Results, Inv2, Lists
<1>2. Placed(ordered[p][k])
  BY <1>1 DEF Placed, IsIn
<1> QED BY <1>1, <1>2 DEF Inv2, Lists

LEMMA GoodFacts ==
  ASSUME Inv, NEW d \in Ids, NEW i, Good(d, i)
  PROVE  /\ bound[d][i] \in Ids /\ (~IsAgg(bound[d][i]) => Placed(bound[d][i]))
         /\ NeedsLayout(d, D(d).refs[i]) /\ dtype[bound[d][i]] # 0 =>
               dtype[bound[d][i]] \in Ids /\ Placed(dtype[bound[d][i]])
         /\ Settled(bound[d][i])
BY DEF Good, GoodName, Usable, Settled, IsLaid, Inv, Results

LEMMA SortedStays ==
  ASSUME Inv, Inv2, Smooth, \A d \in Ids : Placed(d) => bound'[d] = bound[d],
         NEW p \in Packages, NEW k \in DOMAIN ordered[p], ComesAfterUses(ordered[p], k),
         NEW s, k \in DOMAIN s, \A j \in DOMAIN ordered[p] : j \in DOMAIN s /\ s[j] = ordered[p][j]
  PROVE  ComesAfterUses(s, k)'
<1>1. PICK d \in Ids : d = ordered[p][k] /\ Placed(d) /\ \A i \in DOMAIN D(d).refs : Good(d, i)
  BY InList DEF PlacedWell
<1>2. s[k] = d /\ bound'[d] = bound[d] /\ D(d)' = D(d)
  BY <1>1, SameMeaning DEF Smooth
<1>3. \A x : Earlier(ordered[p], k, x) => Earlier(s, k, x)
  BY DEF Earlier
<1>4. \A x : Earlier(s, k, x)' <=> Earlier(s, k, x)
  BY DEF Earlier
<1>5. ASSUME NEW i \in DOMAIN D(d).refs
      PROVE  \E t, u : /\ t = bound'[d][i] /\ u = dtype'[t]
                       /\ ~IsAgg(t)' /\ D(t)'.pkg = D(d)'.pkg => Earlier(s, k, t)'
                       /\ (NeedsLayout(d, D(d).refs[i])' /\ u # 0 /\ D(u)'.pkg = D(d)'.pkg) => Earlier(s, k, u)'
  <2>1. PICK t, u : t = bound[d][i] /\ u = dtype[t]
    OBVIOUS
  <2>2. t \in Ids /\ Settled(t)
    BY <1>1, <2>1, GoodFacts
  <2>3. t = bound'[d][i] /\ u = dtype'[t]
    BY <1>2, <2>1, <2>2 DEF Smooth
  <2>4. /\ \A x : D(x)' = D(x) /\ (IsAgg(x)' <=> IsAgg(x))
        /\ \A x, m : NeedsLayout(x, m)' <=> NeedsLayout(x, m)
    BY SameMeaning DEF Smooth
  <2>5. /\ ~IsAgg(t) /\ D(t).pkg = D(d).pkg => Earlier(ordered[p], k, t)
        /\ (NeedsLayout(d, D(d).refs[i]) /\ u # 0 /\ D(u).pkg = D(d).pkg) => Earlier(ordered[p], k, u)
    BY <1>1, <2>1 DEF ComesAfterUses
  <2>6. NeedsLayout(d, D(d).refs[i])' <=> NeedsLayout(d, D(d).refs[i])
    BY <1>2, <2>4
  <2>7. /\ ~IsAgg(t)' /\ D(t)'.pkg = D(d)'.pkg => Earlier(s, k, t)'
        /\ (NeedsLayout(d, D(d).refs[i])' /\ u # 0 /\ D(u)'.pkg = D(d)'.pkg) => Earlier(s, k, u)'
    BY <1>3, <1>4, <2>4, <2>5, <2>6
  <2> QED BY <2>3, <2>7
<1> QED BY <1>2, <1>5 DEF ComesAfterUses

(* What is appended has its uses before it.                                *)
LEMMA AppendedIsSorted ==
  ASSUME Inv, Inv2, Sorted, Smooth, UNCHANGED bound, NEW d \in Ids, Append1(d), ~Placed(d),
         \A i \in DOMAIN D(d).refs : Good(d, i)
  PROVE  Sorted'
<1>1. PICK q \in Packages, s \in Seq(Ids) : q = D(d).pkg /\ s = ordered[q]
  BY ProgramFacts DEF Inv, Results
<1>2. ordered'[q] = Append(s, d) /\ \A p \in Packages : p # q => ordered'[p] = ordered[p]
  BY <1>1 DEF Append1, Inv, Results
<1>3. PICK n, l : n = Append(s, d) /\ l = Len(s) + 1
  OBVIOUS
<1>4. /\ DOMAIN n = DOMAIN s \cup {l} /\ l \notin DOMAIN s
      /\ n[l] = d /\ \A i \in DOMAIN s : n[i] = s[i] /\ i < l
  BY <1>3
<1>5. \A x \in Ids : Placed(x) => bound'[x] = bound[x]
  OBVIOUS
<1>6. \A k \in DOMAIN s : ComesAfterUses(n, k)'
  <2> TAKE k \in DOMAIN s
  <2>1. ComesAfterUses(ordered[q], k)
    BY <1>1 DEF Sorted
  <2> QED BY <1>1, <1>4, <1>5, <2>1, SortedStays
<1>7. \A p \in Packages : p # q => \A k \in DOMAIN ordered[p] : ComesAfterUses(ordered[p], k)'
  <2> TAKE p \in Packages
  <2> HAVE p # q
  <2> TAKE k \in DOMAIN ordered[p]
  <2>1. PICK r : r = ordered[p]
    OBVIOUS
  <2>2. ComesAfterUses(r, k)'
    BY <1>5, <2>1, SortedStays DEF Sorted
  <2>3. r = ordered'[p]
    BY <1>2, <2>1
  <2> QED BY <2>2, <2>3
<1>8. ASSUME NEW x \in Ids, Placed(x), D(x).pkg = q
      PROVE  Earlier(n, l, x)
  <2>1. PICK j \in DOMAIN s : s[j] = x
    BY <1>1, <1>8 DEF Placed, IsIn
  <2> QED BY <1>4, <2>1 DEF Earlier
<1>9. ComesAfterUses(n, l)'
  <2>1. ASSUME NEW i \in DOMAIN D(d).refs
        PROVE  \E t, u : /\ t = bound'[d][i] /\ u = dtype'[t]
                         /\ ~IsAgg(t)' /\ D(t)'.pkg = D(d)'.pkg => Earlier(n, l, t)'
                         /\ (NeedsLayout(d, D(d).refs[i])' /\ u # 0 /\ D(u)'.pkg = D(d)'.pkg) => Earlier(n, l, u)'
    <3>1. PICK t, u : t = bound[d][i] /\ u = dtype[t]
      OBVIOUS
    <3>2. /\ t \in Ids /\ Settled(t) /\ (~IsAgg(t) => Placed(t))
          /\ NeedsLayout(d, D(d).refs[i]) /\ u # 0 => u \in Ids /\ Placed(u)
      BY <3>1, GoodFacts
    <3>3. t = bound'[d][i] /\ u = dtype'[t]
      BY <3>1, <3>2 DEF Smooth
    <3>4. /\ \A x : D(x)' = D(x) /\ (IsAgg(x)' <=> IsAgg(x))
          /\ \A x, m : NeedsLayout(x, m)' <=> NeedsLayout(x, m)
      BY SameMeaning DEF Smooth
    <3>5. NeedsLayout(d, D(d).refs[i])' <=> NeedsLayout(d, D(d).refs[i])
      BY <3>4
    <3>6. \A x : Earlier(n, l, x)' <=> Earlier(n, l, x)
      BY DEF Earlier
    <3>7. /\ ~IsAgg(t)' /\ D(t)'.pkg = D(d)'.pkg => Earlier(n, l, t)'
          /\ (NeedsLayout(d, D(d).refs[i])' /\ u # 0 /\ D(u)'.pkg = D(d)'.pkg) => Earlier(n, l, u)'
      BY <1>1, <1>8, <3>2, <3>4, <3>5, <3>6
    <3> QED BY <3>3, <3>7
  <2>2. D(d)' = D(d)
    BY SameMeaning DEF Smooth
  <2> QED BY <1>4, <2>1, <2>2 DEF ComesAfterUses
<1>10. ASSUME NEW p \in Packages, NEW k \in DOMAIN ordered'[p]
       PROVE  ComesAfterUses(ordered[p], k)'
  <2>1. CASE p # q
    BY <1>2, <1>7, <2>1
  <2>2. CASE p = q
    BY <1>2, <1>3, <1>4, <1>6, <1>9, <2>2
  <2> QED BY <2>1, <2>2
<1> QED BY <1>10 DEF Sorted

LEMMA SortedStep ==
  ASSUME Inv, Inv2, Sorted, [Next]_vars
  PROVE  Sorted'
<1>1. /\ Smooth /\ \A d \in Ids : Placed(d) => bound'[d] = bound[d]
      /\ Running /\ (NameFound \/ NameResolved \/ AggregateCompleted) =>
           Lists /\ Course /\ stack # <<>> /\ Proper(Top) /\ Top \in Frames /\ Top.d \in Ids /\ ~Placed(Top.d)
  BY StepIsSmooth
<1>2. CASE UNCHANGED ordered
  <2>1. ASSUME NEW p \in Packages, NEW k \in DOMAIN ordered[p]
        PROVE  ComesAfterUses(ordered[p], k)'
    <3>1. PICK r : r = ordered[p]
      OBVIOUS
    <3>2. ComesAfterUses(r, k)'
      BY <1>1, <3>1, SortedStays DEF Sorted
    <3>3. r = ordered'[p]
      BY <1>2, <3>1
    <3> QED BY <3>2, <3>3
  <2> QED BY <1>2, <2>1 DEF Sorted
<1>3. CASE Running /\ (NameResolved \/ AggregateCompleted)
  <2>1. UNCHANGED bound /\ Append1(Top.d) /\ ~MoreRefs
    BY <1>3 DEF NameResolved, AggregateCompleted, Finished
  <2>2. ~(Top.fn = "agg" /\ tkind[Top.d] = "Error")
    BY <1>3 DEF NameResolved, AggregateCompleted, Finished
  <2>3. \A i \in DOMAIN D(Top.d).refs : Good(Top.d, i)
    BY <1>1, <1>3, <2>1, <2>2, FinishedIsGood DEF Course
  <2>4. PICK d \in Ids : d = Top.d
    BY <1>1, <1>3
  <2>5. Append1(d) /\ ~Placed(d) /\ \A i \in DOMAIN D(d).refs : Good(d, i)
    BY <1>1, <1>3, <2>1, <2>3, <2>4
  <2> QED BY <1>1, <2>1, <2>5, AppendedIsSorted
<1> QED BY <1>2, <1>3, FactsChange DEF RegisterDecls, NameFound

---------------------------------------------------------------------------
(* Names mean what they mean where they are written, as long as the        *)
(* members of structs mean the same everywhere.                            *)

Backwards == \A d \in Ids : dtype[d] # 0 => Turn(dtype[d]) <= Turn(d)
Deep == \A d : OnStack(d) => Turn(d) <= pkg
Lexical == NamesAreLexical /\ Backwards /\ Deep

LEMMA MeansTheSame ==
  ASSUME Inv, MembersMeanTheSame, NEW d \in Ids, NEW m \in Refs(d), NEW k \in Turns, Turn(d) <= k,
         IsAgg(d) \/ Turn(d) = k
  PROVE  Lookup(prog.packages[k], m) = Target(d, m)
<1>1. Turn(d) \in Turns /\ prog.packages[Turn(d)] = D(d).pkg /\ Turns \subseteq Nat
  BY TurnFacts DEF Inv
<1>2. CASE Turn(d) = k
  BY <1>1, <1>2 DEF Target
<1>3. CASE Turn(d) < k /\ IsAgg(d)
  <2>1. \A i, l \in DOMAIN prog.packages :
          prog.packages[i] = D(d).pkg /\ i < l => Lookup(prog.packages[l], m) = Target(d, m)
    BY <1>3 DEF MembersMeanTheSame
  <2>2. Turn(d) \in DOMAIN prog.packages /\ k \in DOMAIN prog.packages
    BY <1>1 DEF Turns
  <2> QED BY <1>1, <1>3, <2>1, <2>2
<1>4. Turn(d) = k \/ Turn(d) < k
  <2>1. Turn(d) \in Nat /\ k \in Nat
    BY <1>1
  <2> QED BY <2>1
<1> QED BY <1>2, <1>3, <1>4

LEMMA TargetIsEarlier ==
  ASSUME Program, NEW d \in Ids, NEW m \in Refs(d), Target(d, m) # 0
  PROVE  Target(d, m) \in Ids /\ Named(Target(d, m)) /\ Turn(Target(d, m)) <= Turn(d)
<1>1. Turn(d) \in Turns /\ prog.packages[Turn(d)] = D(d).pkg /\ Turns \subseteq Nat
  BY TurnFacts
<1>2. LET t == Lookup(prog.packages[Turn(d)], m)
      IN  t \in Ids /\ Named(t) /\ (Turn(t) <= Turn(d) \/ Turn(t) < Turn(d))
  BY <1>1, LookupFinds DEF Target
<1>3. Target(d, m) \in Ids /\ Named(Target(d, m)) /\ (Turn(Target(d, m)) <= Turn(d) \/ Turn(Target(d, m)) < Turn(d))
  BY <1>1, <1>2 DEF Target
<1>4. Turn(Target(d, m)) \in Nat /\ Turn(d) \in Nat
  BY <1>1, <1>3, TurnFacts
<1> QED BY <1>3, <1>4

LEMMA BoundIsTarget ==
  ASSUME Inv, NamesAreLexical, NEW d \in Ids, NEW i \in DOMAIN D(d).refs, bound[d][i] # 0
  PROVE  /\ bound[d][i] = Target(d, D(d).refs[i]) /\ bound[d][i] \in Ids
         /\ Turn(bound[d][i]) <= Turn(d) /\ Turn(bound[d][i]) \in Nat /\ Turn(d) \in Nat
<1>1. bound[d] \in [DOMAIN D(d).refs -> Ids \cup {0}]
  BY DEF Inv, Results
<1>2. bound[d][i] = Target(d, D(d).refs[i])
  BY <1>1 DEF NamesAreLexical
<1>3. D(d).refs[i] \in Refs(d)
  BY DEF Refs
<1> QED BY <1>1, <1>2, <1>3, TargetIsEarlier, TurnFacts DEF Inv

LEMMA LexicalNames ==
  ASSUME Inv, Inv2, MembersMeanTheSame, Lexical, [Next]_vars
  PROVE  NamesAreLexical'
<1>1. /\ Ids' = Ids /\ \A d : D(d)' = D(d)
      /\ \A d, m : Target(d, m)' = Target(d, m)
  BY FactsChange, SameMeaning
<1>2. CASE UNCHANGED bound
  BY <1>1, <1>2 DEF Lexical, NamesAreLexical
<1>3. CASE Running /\ NameFound
  <2>1. Course /\ stack # <<>> /\ Proper(Top) /\ Top.d \in Ids
    BY <1>3, StepIsSmooth
  <2>2. Waits(Top) /\ bound' = [bound EXCEPT ![Top.d][Top.i] = Lookup(active, Ref)]
    BY <1>3, <2>1, TopOfStack DEF NameFound, Called
  <2>3. /\ Top.i \in DOMAIN D(Top.d).refs /\ Ref \in Refs(Top.d) /\ active = Here /\ Ref = D(Top.d).refs[Top.i]
    BY <1>3, <2>1, <2>2, RefIs DEF Ref
  <2>4. Turn(Top.d) <= pkg /\ pkg \in Turns /\ Here = prog.packages[pkg]
    BY <1>3, <2>1, TopIsProper, TurnFacts DEF Lexical, Deep, Inv, Here, Course
  <2>5. IsAgg(Top.d) \/ Turn(Top.d) = pkg
    BY <2>1 DEF Proper
  <2>6. Lookup(active, Ref) = Target(Top.d, Ref)
    BY <2>1, <2>3, <2>4, <2>5, MeansTheSame
  <2>7. \A d \in Ids : DOMAIN bound'[d] = DOMAIN bound[d] /\ DOMAIN bound[d] = DOMAIN D(d).refs
    BY <2>2 DEF Inv, Results
  <2>8. \A d \in Ids : \A i \in DOMAIN bound[d] :
           bound'[d][i] = IF d = Top.d /\ i = Top.i THEN Target(d, D(d).refs[i]) ELSE bound[d][i]
    BY <2>1, <2>2, <2>3, <2>6 DEF Inv, Results
  <2>9. \A d \in Ids : \A i \in DOMAIN bound'[d] : bound'[d][i] \in {0, Target(d, D(d).refs[i])}
    BY <2>7, <2>8 DEF Lexical, NamesAreLexical
  <2> QED BY <1>1, <2>9 DEF NamesAreLexical
<1> QED BY <1>2, <1>3, FactsChange DEF RegisterDecls, NameResolved, AggregateCompleted

LEMMA BackwardsStep ==
  ASSUME Inv, Inv2, Lexical, [Next]_vars
  PROVE  Backwards'
<1>1. /\ Ids' = Ids /\ \A d : D(d)' = D(d) /\ Turn(d)' = Turn(d)
  BY FactsChange, SameMeaning
<1>2. CASE UNCHANGED dtype
  BY <1>1, <1>2 DEF Lexical, Backwards
<1>3. CASE RegisterDecls
  <2>1. \A d \in Ids : dtype'[d] \in {d, dtype[d]}
    BY <1>3 DEF RegisterDecls
  <2>2. \A d \in Ids : Turn(d) \in Nat
    BY TurnFacts DEF Inv
  <2>3. \A d \in Ids : dtype'[d] # 0 => Turn(dtype'[d]) <= Turn(d)
    BY <2>1, <2>2 DEF Lexical, Backwards
  <2> QED BY <1>1, <2>3 DEF Backwards
<1>4. CASE Running /\ NameResolved
  <2>1. Lists /\ Course /\ stack # <<>> /\ Top.d \in Ids
    BY <1>4, StepIsSmooth
  <2>2. PICK d \in Ids : d = Top.d
    BY <2>1
  <2>3. dtype'[d] = TypeOf(d) /\ (\A x \in Ids : x # d => dtype'[x] = dtype[x]) /\ ~MoreRefs /\ Top.fn = "name"
    BY <1>4, <2>2 DEF NameResolved, Finished, Inv, Results
  <2>4. \A j \in DOMAIN D(d).refs : Good(d, j)
    BY <1>4, <2>1, <2>2, <2>3, FinishedIsGood DEF Course
  <2>5. ASSUME TypeOf(d) # 0
        PROVE  Turn(TypeOf(d)) <= Turn(d)
    <3>1. D(d).refs # <<>> /\ TypeOf(d) = dtype[bound[d][1]]
      BY <2>5 DEF TypeOf
    <3>2. DOMAIN D(d).refs = 1 .. Len(D(d).refs) /\ Len(D(d).refs) \in Nat /\ D(d).refs \in Seq(Mention)
      BY ProgramFacts DEF Inv, Declaration
    <3>3. 1 \in DOMAIN D(d).refs
      BY <3>1, <3>2
    <3>4. bound[d][1] \in Ids /\ bound[d][1] # 0
      BY <2>4, <3>3, ProgramFacts DEF Good, GoodName, Usable, Inv
    <3>5. Turn(bound[d][1]) <= Turn(d) /\ Turn(bound[d][1]) \in Nat /\ Turn(d) \in Nat
      BY <3>3, <3>4, BoundIsTarget DEF Lexical
    <3>6. Turn(dtype[bound[d][1]]) <= Turn(bound[d][1]) /\ dtype[bound[d][1]] \in Ids
      BY <2>5, <3>1, <3>4 DEF Lexical, Backwards, Inv, Results
    <3>7. Turn(dtype[bound[d][1]]) \in Nat
      BY <3>6, TurnFacts DEF Inv
    <3> QED BY <3>1, <3>5, <3>6, <3>7
  <2>6. \A x \in Ids : dtype'[x] # 0 => Turn(dtype'[x]) <= Turn(x)
    BY <2>3, <2>5 DEF Lexical, Backwards
  <2> QED BY <1>1, <2>6 DEF Backwards
<1> QED BY <1>2, <1>3, <1>4, FactsChange DEF NameFound, AggregateCompleted

(* What comes on the stack in the last pass.                               *)
LEMMA PushedOn ==
  ASSUME NEW f \in Frames, NEW st \in Seq(Frames), stack' = <<f>> \o st
  PROVE  \A x : OnStack(x)' => x = f.d \/ \E k \in DOMAIN st : st[k].d = x
<1>1. /\ (<<f>> \o st)[1] = f /\ Len(st) \in Nat
      /\ DOMAIN (<<f>> \o st) = 1 .. Len(st) + 1
      /\ \A k \in 2 .. Len(st) + 1 : (<<f>> \o st)[k] = st[k - 1] /\ k - 1 \in DOMAIN st
  BY PushedStack
<1>2. \A k \in 1 .. Len(st) + 1 : k = 1 \/ k \in 2 .. Len(st) + 1
  BY <1>1
<1> QED BY <1>1, <1>2, OnStackIs

LEMMA DeepInLastPass ==
  ASSUME Inv, Inv2, Lexical, pass = "incomplete", Resolve \/ ResolveIncompleteType \/ PassOver
  PROVE  Deep'
<1>1. Course /\ Lists /\ Running /\ UNCHANGED <<prog, pkg>> /\ stack \in Seq(Frames)
  BY DEF Inv2, Running, Resolve, ResolveIncompleteType, PassOver, Step, LookUpName, NameFound, WrongKind, NameFails,
         NameResolved, WeakAggregate, CompleteType, TypeCompleted, MemberFails, AggregateFails, AggregateCompleted,
         NoteFails, NoteResolved, flow, Inv, Walk
<1>2. \A d : Turn(d)' = Turn(d)
  BY <1>1, SameMeaning
<1>3. ASSUME \A x : OnStack(x)' => OnStack(x) \/ Turn(x) <= pkg
      PROVE  Deep'
  BY <1>1, <1>2, <1>3 DEF Deep, Lexical
<1>4. CASE UNCHANGED stack
  BY <1>3, <1>4, OnStackIs
<1>5. CASE stack # <<>> /\ stack' = Tail(stack)
  BY <1>3, <1>5, OnTail, OnStackIs
<1>6. CASE stack # <<>> /\ Top \in Frames /\ (NextRef \/ Continue([Top EXCEPT !.need = "type"]))
  <2>1. PICK f \in Frames : f.d = Top.d /\ stack' = <<f>> \o Tail(stack)
    <3>1. CASE NextRef
      BY <1>6, <3>1, AdvancedFrame DEF NextRef, Continue
    <3>2. CASE Continue([Top EXCEPT !.need = "type"])
      <4>1. [Top EXCEPT !.need = "type"] \in Frames /\ [Top EXCEPT !.need = "type"].d = Top.d
        BY <1>6 DEF Frames
      <4> QED BY <3>2, <4>1 DEF Continue
    <3> QED BY <1>6, <3>1, <3>2
  <2>2. Tail(stack) \in Seq(Frames)
    BY <1>1, <1>6, PoppedStack
  <2>3. \A x : OnStack(x)' => OnStack(x)
    <3> TAKE x
    <3> HAVE OnStack(x)'
    <3>1. x = f.d \/ \E k \in DOMAIN Tail(stack) : Tail(stack)[k].d = x
      BY <2>1, <2>2, PushedOn
    <3>2. OnStack(Top.d) /\ \A k \in DOMAIN Tail(stack) : OnStack(Tail(stack)[k].d)
      BY <1>1, <1>6, OnTail, TopOfStack, PoppedStack DEF OnStack, Top
    <3> QED BY <2>1, <3>1, <3>2
  <2> QED BY <1>3, <2>3
<1>7. ASSUME NEW s \in Ids \cup {0}, ResolveTypeAggregate(s, stack), s # 0 => Turn(s) <= pkg
      PROVE  Deep'
  <2>1. CASE UNCHANGED stack
    BY <1>4, <2>1
  <2>2. CASE s # 0 /\ stack' = <<Frame("agg", s)>> \o stack
    <3>1. PICK f \in Frames : f.d = s /\ stack' = <<f>> \o stack
      BY <2>2 DEF Frame, Frames, Inv
    <3>2. \A x : OnStack(x)' => x = s \/ OnStack(x)
      BY <1>1, <3>1, PushedOn DEF OnStack
    <3> QED BY <1>3, <1>7, <2>2, <3>2
  <2> QED BY <1>7, <2>1, <2>2 DEF ResolveTypeAggregate, TypeIsKnown, TypeIsCyclic, BeginAggregate, Answer, KindOf
<1>8. CASE LookUpName
  <2> DEFINE t == Lookup(active, Ref)
  <2>1. stack # <<>> /\ Waits(Top) /\ ResolveName(t, stack)
    BY <1>1, <1>8, CallingReady DEF LookUpName, Calling
  <2>2. t \in Ids \cup {0} /\ Ref \in Refs(Top.d) /\ active = Here /\ Top.d \in Ids
    BY <1>1, <2>1, RefIs
  <2>3. t # 0 => Named(t)
    BY <2>2, LookupFinds, TurnFacts DEF Inv, Here
  <2>4. t # 0 => dstate[t] # "Unresolved"
    BY <1>1, <2>2, <2>3, Fresh DEF Known, AllKnown
  <2>5. UNCHANGED stack
    BY <2>1, <2>4 DEF ResolveName, Answer
  <2> QED BY <1>4, <2>5
<1>9. CASE CompleteType
  <2>1. stack # <<>> /\ Waits(Top) /\ Top.need = "type" /\ ResolveTypeAggregate(dtype[Found], stack)
    BY <1>1, <1>9, CallingReady DEF CompleteType, Calling
  <2>2. PICK d \in Ids : d = Top.d /\ Turn(d) <= pkg /\ OnStack(d) /\ Top.i \in DOMAIN D(d).refs
    BY <1>1, <2>1, TopIsProper DEF Course, Lexical, Deep, Waits
  <2>3. Found \in Ids /\ Found # 0
    BY <1>1, <2>1, TopIsProper, ProgramFacts DEF Course, Proper, GoodName, Usable, Found, Inv
  <2>4. Turn(Found) <= Turn(d) /\ Turn(Found) \in Nat /\ Turn(d) \in Nat
    BY <2>2, <2>3, BoundIsTarget DEF Found, Lexical
  <2>5. dtype[Found] \in Ids \cup {0} /\ (dtype[Found] # 0 => Turn(dtype[Found]) <= Turn(Found))
    BY <2>3 DEF Inv, Results, Lexical, Backwards
  <2>6. dtype[Found] # 0 => Turn(dtype[Found]) \in Nat /\ pkg \in Nat
    BY <2>5, TurnFacts DEF Inv
  <2>7. dtype[Found] # 0 => Turn(dtype[Found]) <= pkg
    BY <2>2, <2>4, <2>5, <2>6
  <2> QED BY <1>7, <2>1, <2>5, <2>7
<1>10. CASE ResolveIncompleteType
  <2>1. /\ stack = <<>> /\ ResolveTypeAggregate(dtype[next], stack) /\ next \in Ids /\ Turn(next) = pkg
    BY <1>10, LoopAdvances DEF ResolveIncompleteType, Inv2, Course
  <2>2. dtype[next] \in Ids \cup {0} /\ (dtype[next] # 0 => Turn(dtype[next]) <= pkg)
    BY <2>1 DEF Inv, Results, Lexical, Backwards
  <2> QED BY <1>7, <2>1, <2>2
<1>11. CASE NameFound \/ TypeCompleted \/ MemberFails
  <2>1. stack # <<>>
    BY <1>11 DEF NameFound, TypeCompleted, MemberFails, Called
  <2>2. Top \in Frames
    BY <1>1, <2>1, TopOfStack
  <2> QED BY <1>6, <1>11, <2>1, <2>2 DEF NameFound, TypeCompleted, MemberFails
<1>12. CASE WrongKind \/ PassOver
  BY <1>4, <1>12 DEF WrongKind, PassOver
<1>13. CASE NameFails \/ NameResolved \/ WeakAggregate \/ AggregateFails \/ AggregateCompleted \/ NoteFails \/ NoteResolved
  BY <1>5, <1>13 DEF NameFails, NameResolved, WeakAggregate, AggregateFails, AggregateCompleted, NoteFails, NoteResolved,
                     Answer, Finished
<1> QED BY <1>8, <1>9, <1>10, <1>11, <1>12, <1>13 DEF Resolve

LEMMA DeepStep ==
  ASSUME Inv, Inv2, Lexical, [Next]_vars
  PROVE  Deep'
<1>1. Inv' /\ Inv2' /\ UNCHANGED prog /\ \A d : Turn(d)' = Turn(d)
  BY InvStep, Inv2Step, FactsChange, SameMeaning
<1>2. CASE stack' = <<>>
  BY <1>2, OnStackIs DEF Deep
<1>3. CASE UNCHANGED <<stack, pkg>>
  BY <1>1, <1>3, OnStackIs DEF Deep, Lexical
<1>4. CASE pass' = "decls"
  <2>1. \A k \in DOMAIN stack' : Turn(stack[k].d)' <= pkg'
    <3>1. \A k \in DOMAIN stack' : Known(Turn(stack[k].d))' /\ stack'[k].d \in Ids'
      <4>1. Course'
        BY <1>1, <1>4 DEF Inv2
      <4>2. \A k \in DOMAIN stack' : Proper(stack[k])'
        BY <4>1 DEF Course, Calls, Chain
      <4>3. \A k \in DOMAIN stack' : stack'[k].d \in Ids'
        <5>1. stack' \in Seq(Frames') /\ Frames' = Frames
          BY <1>1 DEF Inv, Walk, Sound, Frames, Ids
        <5>2. \A k \in DOMAIN stack' : stack'[k] \in Frames
          BY <5>1
        <5> QED BY <1>1, <5>2 DEF Frames, Ids
      <4> QED BY <4>2, <4>3 DEF Proper
    <3>2. \A k : Known(k)' <=> k < pkg' \/ k = pkg'
      BY <1>4 DEF Known, AllKnown
    <3>3. \A k \in DOMAIN stack' : Turn(stack'[k].d) < pkg' \/ Turn(stack'[k].d) = pkg'
      BY <1>1, <3>1, <3>2
    <3>4. pkg' \in Nat /\ \A d \in Ids : Turn(d) \in Nat
      <4>1. pkg' \in 1 .. Len(prog.packages) /\ Len(prog.packages) \in Nat
        BY <1>1, ProgramFacts DEF Inv, Program
      <4> QED BY <4>1, TurnFacts DEF Inv
    <3>5. Ids' = Ids
      BY <1>1 DEF Ids
    <3> QED BY <1>1, <3>1, <3>3, <3>4, <3>5
  <2> QED BY <1>1, <2>1, OnStackIs DEF Deep
<1>5. CASE pass' \in {"register", "done"}
  BY <1>1, <1>2, <1>5 DEF Inv, Walk, Inv2, Course, Loops
<1>6. CASE pass' = "crashed"
  <2>1. UNCHANGED <<stack, pkg>>
    BY <1>6 DEF Next, RegisterDecls, ResolveDecl, ResolveNote, ResolveIncompleteType, PassOver, InLoop, Step,
                NextPackage, Resolve, Running, AssertAggregate, ReadDeclOfNote, vars, LookUpName, NameFound, WrongKind,
                NameFails, NameResolved, WeakAggregate, CompleteType, TypeCompleted, MemberFails, AggregateFails,
                AggregateCompleted, NoteFails, NoteResolved, flow
  <2> QED BY <1>3, <2>1
<1>7. CASE pass' = "incomplete"
  <2>1. CASE NextPackage
    BY <1>2, <2>1 DEF NextPackage
  <2>2. CASE UNCHANGED vars
    BY <1>3, <2>2 DEF vars
  <2>3. CASE Next /\ ~NextPackage
    <3>1. pass = "incomplete" /\ (Resolve \/ ResolveIncompleteType \/ PassOver)
      BY <1>7, <2>3 DEF Next, RegisterDecls, ResolveDecl, ResolveNote, ResolveIncompleteType, PassOver, InLoop, Step,
                Resolve, Running, AssertAggregate, ReadDeclOfNote, LookUpName, NameFound, WrongKind,
                NameFails, NameResolved, WeakAggregate, CompleteType, TypeCompleted, MemberFails, AggregateFails,
                AggregateCompleted, NoteFails, NoteResolved, flow
    <3> QED BY <3>1, DeepInLastPass
  <2> QED BY <2>1, <2>2, <2>3
<1>8. pass' \in {"register", "decls", "incomplete", "done", "crashed"}
  BY <1>1 DEF Inv, Program
<1> QED BY <1>4, <1>5, <1>6, <1>7, <1>8

---------------------------------------------------------------------------
(* The order of the generated code.                                        *)

LEMMA SizesNeedLayouts ==
  ASSUME Program, NEW d \in Ids, NEW m \in Refs(d), SizeMatters(d, m)
  PROVE  NeedsLayout(d, m)
<1>1. D(d) \in Declaration /\ WellShaped(D(d))
  BY Prog, ProgramFacts DEF Ids, D
<1>2. m.form \in FormsIn(D(d).kind)
  BY <1>1 DEF WellShaped, Refs
<1>3. CASE m.form = "ident" /\ D(d).kind \in {"Const", "Note"}
  BY <1>2, <1>3 DEF FormsIn, ConstForms, Aggregates
<1>4. CASE m.form # "ident" \/ D(d).kind \notin {"Const", "Note"}
  BY <1>1, <1>4 DEF SizeMatters, NeedsLayout, Declaration, Kinds
<1> QED BY <1>3, <1>4

LEMMA EmittedBefore ==
  ASSUME Inv, Inv2, NEW p \in Packages, NEW k \in DOMAIN ordered[p], NEW x \in Ids, Placed(x),
         Turn(x) <= Turn(ordered[p][k]),
         D(x).pkg = D(ordered[p][k]).pkg => Earlier(ordered[p], k, x)
  PROVE  Emitted(x, ordered[p][k])
<1>1. PICK d \in Ids : d = ordered[p][k] /\ D(d).pkg = p
  BY InList
<1>2. /\ Turn(x) \in Turns /\ prog.packages[Turn(x)] = D(x).pkg
      /\ Turn(d) \in Turns /\ prog.packages[Turn(d)] = p /\ Turns \subseteq Nat
      /\ Turns = DOMAIN prog.packages
  BY <1>1, TurnFacts DEF Inv, Turns
<1>3. CASE Turn(x) < Turn(d)
  <2>1. PICK i \in DOMAIN ordered[D(x).pkg] : ordered[D(x).pkg][i] = x
    BY DEF Placed, IsIn
  <2> QED BY <1>1, <1>2, <1>3, <2>1 DEF Emitted
<1>4. CASE Turn(x) = Turn(d)
  <2>1. D(x).pkg = p
    BY <1>2, <1>4
  <2>2. PICK j \in DOMAIN ordered[p] : j < k /\ ordered[p][j] = x
    BY <1>1, <2>1 DEF Earlier
  <2> QED BY <1>1, <1>2, <1>4, <2>1, <2>2 DEF Emitted
<1>5. Turn(x) < Turn(d) \/ Turn(x) = Turn(d)
  <2>1. Turn(x) \in Nat /\ Turn(d) \in Nat
    BY <1>2
  <2> QED BY <1>1, <2>1
<1> QED BY <1>3, <1>4, <1>5

LEMMA UsesAreFirst == Inv /\ Inv2 /\ Sorted /\ Lexical => UsesComeFirst
<1> SUFFICES ASSUME Inv, Inv2, Sorted, Lexical, NEW p \in Packages, NEW k \in DOMAIN ordered[p],
                    NEW i \in DOMAIN bound[ordered[p][k]], bound[ordered[p][k]][i] # 0
             PROVE  LET d == ordered[p][k]
                        t == bound[d][i]
                        m == D(d).refs[i]
                    IN  /\ IsAgg(t) \/ Emitted(t, d)
                        /\ (SizeMatters(d, m) /\ dtype[t] # 0) => Emitted(dtype[t], d)
  BY DEF UsesComeFirst
<1>1. PICK d \in Ids : d = ordered[p][k] /\ D(d).pkg = p /\ PlacedWell(d)
  BY InList
<1>2. i \in DOMAIN D(d).refs
  BY <1>1 DEF Inv, Results
<1>3. PICK t \in Ids : t = bound[d][i] /\ Turn(t) <= Turn(d) /\ Turn(t) \in Nat /\ Turn(d) \in Nat
  BY <1>1, <1>2, BoundIsTarget DEF Lexical
<1>4. Good(d, i) /\ ComesAfterUses(ordered[p], k)
  BY <1>1, <1>2 DEF PlacedWell, Sorted
<1>5. IsAgg(t) \/ Emitted(t, d)
  <2>1. CASE ~IsAgg(t)
    <3>1. Placed(t)
      BY <1>3, <1>4, <2>1, GoodFacts
    <3>2. D(t).pkg = D(d).pkg => Earlier(ordered[p], k, t)
      BY <1>1, <1>2, <1>3, <1>4, <2>1 DEF ComesAfterUses
    <3> QED BY <1>1, <1>3, <3>1, <3>2, EmittedBefore
  <2> QED BY <2>1
<1>6. ASSUME SizeMatters(d, D(d).refs[i]), dtype[t] # 0
      PROVE  Emitted(dtype[t], d)
  <2>1. NeedsLayout(d, D(d).refs[i])
    BY <1>2, <1>6, SizesNeedLayouts DEF Refs, Inv
  <2>2. PICK u \in Ids : u = dtype[t] /\ Placed(u)
    BY <1>3, <1>4, <1>6, <2>1, GoodFacts
  <2>3. Turn(u) <= Turn(t) /\ Turn(u) \in Nat
    BY <1>6, <2>2, TurnFacts DEF Lexical, Backwards, Inv
  <2>4. Turn(u) <= Turn(d)
    BY <1>3, <2>3
  <2>5. D(u).pkg = D(d).pkg => Earlier(ordered[p], k, u)
    BY <1>1, <1>2, <1>3, <1>4, <1>6, <2>1, <2>2 DEF ComesAfterUses
  <2> QED BY <1>1, <2>2, <2>4, <2>5, EmittedBefore
<1> QED BY <1>1, <1>3, <1>5, <1>6

LEMMA InitSorted == Init => Sorted /\ Lexical
<1> SUFFICES ASSUME Init PROVE Sorted /\ Lexical
  OBVIOUS
<1>1. \A p \in Packages : ordered[p] = <<>>
  BY DEF Init
<1>2. Sorted
  BY <1>1 DEF Sorted
<1>3. NamesAreLexical
  BY DEF Init, NamesAreLexical
<1>4. Backwards /\ Deep
  BY DEF Init, Backwards, Deep, OnStack
<1> QED BY <1>2, <1>3, <1>4 DEF Lexical

Meant == MembersMeanTheSame => Lexical
Inv3 == Inv /\ Inv2 /\ Sorted /\ Meant

LEMMA Inv3Step == Inv3 /\ [Next]_vars => Inv3'
<1> SUFFICES ASSUME Inv3, [Next]_vars PROVE Inv3'
  OBVIOUS
<1>1. Inv' /\ Inv2' /\ Sorted'
  BY InvStep, Inv2Step, SortedStep DEF Inv3
<1>2. MembersMeanTheSame' => MembersMeanTheSame
  <2>1. UNCHANGED prog
    BY FactsChange DEF Inv3
  <2> QED BY <2>1, SameMeaning DEF MembersMeanTheSame
<1>3. MembersMeanTheSame => Lexical'
  BY LexicalNames, BackwardsStep, DeepStep DEF Inv3, Meant, Lexical
<1> QED BY <1>1, <1>2, <1>3 DEF Inv3, Meant

LEMMA Invariance3 == Spec => []Inv3
<1>1. Init => Inv3
  BY InitInv, InitLists, InitSorted DEF Inv3, Meant
<1> QED BY <1>1, Inv3Step, PTL DEF Spec

(* tests/test_import_symbol_leak: in every program where the members of a  *)
(* struct mean the same in the later packages, a name means what it means  *)
(* in the package it is written in, whichever package, list or recursion   *)
(* asks for it.                                                            *)
THEOREM NamesMeanTheSame == Spec => [](MembersMeanTheSame => NamesAreLexical)
<1>1. Inv3 => (MembersMeanTheSame => NamesAreLexical)
  BY DEF Inv3, Meant, Lexical
<1> QED BY <1>1, Invariance3, PTL

(* The two appends to first_ordered: nothing is in a list twice, and when  *)
(* the passes are over every declaration without an error is in the list   *)
(* of its package.                                                         *)
THEOREM PlacedOnlyOnce == Spec => []EachIsPlacedOnce
<1>1. Inv3 => EachIsPlacedOnce
  BY PlacedOnce DEF Inv3
<1> QED BY <1>1, Invariance3, PTL

(* The list the C generator prints is complete, has nothing twice, and is  *)
(* in an order C accepts: every name comes after what it mentions and      *)
(* after the structs whose sizes it needs.                                 *)
THEOREM OrderSound == Spec => [](MembersMeanTheSame => OrderIsSound)
<1>1. Inv3 => (MembersMeanTheSame => OrderIsSound)
  BY PlacedOnce, UsesAreFirst DEF Inv3, Meant, OrderIsSound
<1> QED BY <1>1, Invariance3, PTL

---------------------------------------------------------------------------
(* How a struct is laid out.                                               *)

LEMMA Induction ==
  ASSUME NEW S, 0 \in S, \A n \in Nat : n \in S => n + 1 \in S
  PROVE  Nat \subseteq S
<1> SUFFICES ASSUME NEW k \in Nat, k \notin S
             PROVE  FALSE
  OBVIOUS
<1> DEFINE rest == Nat \ S
<1>1. rest \subseteq Nat /\ rest # {}
  OBVIOUS
<1> HIDE DEF rest
<1>2. PICK n \in rest : \A m \in rest : n <= m
  BY <1>1, FirstOfSome
<1>3. n \in Nat /\ n \notin S
  BY <1>2 DEF rest
<1>4. n # 0 /\ n - 1 \in Nat /\ ~(n <= n - 1) /\ (n - 1) + 1 = n
  BY <1>3
<1>5. n - 1 \in S
  BY <1>2, <1>4 DEF rest
<1> QED BY <1>3, <1>4, <1>5

(* A function that starts at a and goes on by the steps of h.              *)
GoesBy(f, N, S, a, h) == f \in [0 .. N -> S] /\ f[0] = a /\ \A n \in 1 .. N : f[n] = h[n][f[n - 1]]

LEMMA StepByStep ==
  ASSUME NEW N \in Nat, NEW S, NEW a \in S, NEW h, h \in [1 .. N -> [S -> S]]
  PROVE  \E f : GoesBy(f, N, S, a, h)
<1> DEFINE Goes(f, k) == f \in [0 .. k -> S] /\ f[0] = a /\ \A n \in 1 .. k : f[n] = h[n][f[n - 1]]
           T == {k \in Nat : k <= N => \E f \in [0 .. k -> S] : Goes(f, k)}
<1>1. 0 \in T
  <2> DEFINE f == [n \in 0 .. 0 |-> a]
  <2>1. f \in [0 .. 0 -> S] /\ f[0] = a /\ \A n \in 1 .. 0 : FALSE
    OBVIOUS
  <2>2. Goes(f, 0)
    BY <2>1
  <2> QED BY <2>1, <2>2
<1>2. ASSUME NEW k \in Nat, k \in T
      PROVE  k + 1 \in T
  <2> SUFFICES ASSUME k + 1 <= N
               PROVE  \E f \in [0 .. k + 1 -> S] : Goes(f, k + 1)
    OBVIOUS
  <2>1. k <= N /\ k + 1 \in 1 .. N
    OBVIOUS
  <2>2. PICK f \in [0 .. k -> S] : Goes(f, k)
    BY <1>2, <2>1
  <2> DEFINE g == [n \in 0 .. k + 1 |-> IF n = k + 1 THEN h[k + 1][f[k]] ELSE f[n]]
  <2>3. \A n \in 0 .. k + 1 : n # k + 1 => n \in 0 .. k
    OBVIOUS
  <2>4. h[k + 1][f[k]] \in S
    BY <2>1, <2>2
  <2>5. g \in [0 .. k + 1 -> S]
    BY <2>2, <2>3, <2>4
  <2>6. g[0] = a
    BY <2>2
  <2>7. \A n \in 1 .. k + 1 : g[n] = h[n][g[n - 1]]
    <3> TAKE n \in 1 .. k + 1
    <3>1. CASE n = k + 1
      <4>1. g[n] = h[k + 1][f[k]] /\ n - 1 = k /\ k \in 0 .. k + 1 /\ k # k + 1
        BY <3>1
      <4>2. g[n - 1] = f[k]
        BY <4>1
      <4> QED BY <3>1, <4>1, <4>2
    <3>2. CASE n # k + 1
      <4>1. n \in 1 .. k /\ n \in 0 .. k + 1 /\ n - 1 \in 0 .. k + 1 /\ n - 1 # k + 1
        BY <3>2
      <4>2. g[n] = f[n] /\ g[n - 1] = f[n - 1]
        BY <3>2, <4>1
      <4> QED BY <2>2, <4>1, <4>2
    <3> QED BY <3>1, <3>2
  <2> QED BY <2>5, <2>6, <2>7
<1>3. N \in T
  <2> HIDE DEF T
  <2>1. Nat \subseteq T
    BY <1>1, <1>2, Induction
  <2> QED BY <2>1
<1>4. PICK f : Goes(f, N)
  BY <1>3
<1> QED BY <1>4 DEF GoesBy

LEMMA Multiple ==
  ASSUME NEW a \in Nat \ {0}, NEW q \in Nat
  PROVE  (a * q) % a = 0
OBVIOUS

LEMMA Quotient ==
  ASSUME NEW n \in Nat, NEW a \in Nat \ {0}
  PROVE  n \div a \in Nat /\ n % a = n - a * (n \div a) /\ n % a \in 0 .. a - 1
<1>1. n \div a \in Nat
  OBVIOUS
<1>2. n % a = n - a * (n \div a)
  OBVIOUS
<1>3. n % a \in 0 .. a - 1
  OBVIOUS
<1> QED BY <1>1, <1>2, <1>3

(* The next multiple of an alignment.                                      *)
LEMMA Aligned ==
  ASSUME NEW n \in Nat, NEW a \in Nat \ {0}
  PROVE  AlignUp(n, a) \in Nat /\ AlignUp(n, a) % a = 0 /\ AlignUp(n, a) \in n .. n + a - 1
<1>1. CASE n % a = 0
  BY <1>1 DEF AlignUp
<1>2. CASE n % a # 0
  <2>1. PICK q \in Nat : n % a = n - a * q
    BY Quotient
  <2>2. PICK r \in 1 .. a - 1 : r = n % a
    BY <1>2, Quotient
  <2>3. PICK p \in Nat : p = a * q
    OBVIOUS
  <2>4. AlignUp(n, a) = n + (a - r)
    BY <1>2, <2>2 DEF AlignUp
  <2>5. n + (a - r) = p + a
    BY <2>1, <2>2, <2>3
  <2>6. p + a = a * (q + 1)
    BY <2>3
  <2>7. AlignUp(n, a) % a = 0
    BY <2>4, <2>5, <2>6, Multiple
  <2> QED BY <2>4, <2>7
<1> QED BY <1>1, <1>2

Layouts == [size : Nat, align : Nat, offsets : Seq(Nat)]
IsMember(m) == m.size \in Nat /\ m.align \in Nat \ {0}
AlignIn(kind, m) == IF kind = "Packed" THEN 1 ELSE m.align

IsPlaced(kind, l, m, a, s, o) ==
  /\ o % a = 0
  /\ kind # "Union" => o \in l.size .. l.size + a - 1
  /\ kind = "Union" => o = 0
  /\ s.offsets = Append(l.offsets, o) /\ s.align = Greater(l.align, a)
  /\ s.size = IF kind = "Union" THEN Greater(l.size, m.size) ELSE o + m.size

LEMMA Placing ==
  ASSUME NEW kind \in Aggregates, NEW l \in Layouts, NEW m, IsMember(m)
  PROVE  /\ AlignIn(kind, m) \in Nat \ {0} /\ Place(kind, l, m) \in Layouts
         /\ \E o \in Nat : IsPlaced(kind, l, m, AlignIn(kind, m), Place(kind, l, m), o)
<1> DEFINE a == AlignIn(kind, m)
<1>1. a \in Nat \ {0} /\ l.size \in Nat /\ l.align \in Nat /\ l.offsets \in Seq(Nat) /\ m.size \in Nat
  BY DEF AlignIn, IsMember, Layouts
<1> HIDE DEF a
<1>2. CASE kind = "Union"
  <2>1. Place(kind, l, m) = [size |-> Greater(l.size, m.size), align |-> Greater(l.align, m.align),
                             offsets |-> Append(l.offsets, 0)]
    BY <1>2 DEF Place, Overlay
  <2>2. a = m.align
    BY <1>2 DEF a, AlignIn
  <2>3. Greater(l.size, m.size) \in Nat /\ Greater(l.align, m.align) \in Nat /\ Append(l.offsets, 0) \in Seq(Nat)
    BY <1>1, <2>2 DEF Greater
  <2>4. 0 % a = 0
    BY <1>1, Multiple
  <2>5. Place(kind, l, m) \in Layouts
    BY <2>1, <2>3 DEF Layouts
  <2>6. IsPlaced(kind, l, m, a, Place(kind, l, m), 0)
    BY <1>2, <2>1, <2>2, <2>4 DEF IsPlaced
  <2> QED BY <1>1, <2>5, <2>6 DEF a
<1>3. CASE kind # "Union"
  <2>1. PICK o \in Nat : o = AlignUp(l.size, a) /\ o % a = 0 /\ o \in l.size .. l.size + a - 1
    BY <1>1, Aligned
  <2>2. kind = "Packed" \/ kind = "Struct"
    BY <1>3 DEF Aggregates
  <2>3. Place(kind, l, m) = AddMember(l, m, a) /\ Greater(l.align, a) \in Nat
    BY <1>1, <2>2 DEF Place, a, AlignIn, Greater
  <2>4. AddMember(l, m, a) = [size |-> o + m.size, align |-> Greater(l.align, a), offsets |-> Append(l.offsets, o)]
    BY <2>1 DEF AddMember
  <2>5. o + m.size \in Nat /\ Append(l.offsets, o) \in Seq(Nat)
    BY <1>1
  <2>6. AddMember(l, m, a) \in Layouts
    BY <2>3, <2>4, <2>5 DEF Layouts
  <2>7. IsPlaced(kind, l, m, a, Place(kind, l, m), o)
    BY <1>3, <2>1, <2>3, <2>4 DEF IsPlaced
  <2> QED BY <1>1, <2>1, <2>3, <2>6, <2>7 DEF a
<1> QED BY <1>2, <1>3

EndOf(kind, members, l, i) == IF i = 0 \/ kind = "Union" THEN 0 ELSE l.offsets[i] + members[i].size

(* The layout of the first n members.                                      *)
Holds(kind, members, n, l) ==
  /\ l \in Layouts /\ Len(l.offsets) = n
  /\ \A i \in 1 .. n : LET a == AlignIn(kind, members[i])
                           e == EndOf(kind, members, l, i - 1)
                       IN  /\ l.offsets[i] % a = 0 /\ l.offsets[i] \in e .. e + a - 1
                           /\ a <= l.align /\ l.offsets[i] + members[i].size <= l.size
  /\ n = 0 => l.align = 0 /\ l.size = 0
  /\ n # 0 => /\ \E i \in 1 .. n : l.align = AlignIn(kind, members[i])
              /\ \E i \in 1 .. n : l.size = l.offsets[i] + members[i].size
  /\ kind # "Union" => l.size = EndOf(kind, members, l, n)

LEMMA PlacingHolds ==
  ASSUME NEW kind \in Aggregates, NEW members, NEW n \in Nat \ {0}, \A i \in 1 .. n : IsMember(members[i]),
         NEW l, Holds(kind, members, n - 1, l)
  PROVE  Holds(kind, members, n, Place(kind, l, members[n]))
<1> DEFINE A(i) == AlignIn(kind, members[i])
<1>1. PICK m : m = members[n] /\ IsMember(m)
  OBVIOUS
<1>2. l \in Layouts /\ l.offsets \in Seq(Nat) /\ Len(l.offsets) = n - 1 /\ l.size \in Nat /\ l.align \in Nat
  BY DEF Holds, Layouts
<1>3. PICK s, a : s = Place(kind, l, m) /\ a = AlignIn(kind, m)
  OBVIOUS
<1>4. PICK o \in Nat : IsPlaced(kind, l, m, a, s, o) /\ s \in Layouts /\ a \in Nat \ {0}
  BY <1>1, <1>2, <1>3, Placing
<1>5. /\ s \in Layouts /\ a \in Nat \ {0} /\ o \in Nat /\ o % a = 0
      /\ kind # "Union" => o \in l.size .. l.size + a - 1
      /\ kind = "Union" => o = 0
      /\ s.offsets = Append(l.offsets, o) /\ s.align = Greater(l.align, a)
      /\ s.size = IF kind = "Union" THEN Greater(l.size, m.size) ELSE o + m.size
  BY <1>4 DEF IsPlaced
<1>6. /\ Len(s.offsets) = n /\ s.offsets[n] = o
      /\ \A i \in 1 .. n - 1 : s.offsets[i] = l.offsets[i] /\ s.offsets[i] \in Nat
  <2>1. PICK os \in Seq(Nat) : os = l.offsets /\ Len(os) = n - 1
    BY <1>2
  <2>2. s.offsets = Append(os, o)
    BY <1>5, <2>1
  <2>3. Len(Append(os, o)) = n /\ Append(os, o)[n] = o
    BY <1>5, <2>1
  <2>4. \A i \in 1 .. n - 1 : Append(os, o)[i] = os[i] /\ os[i] \in Nat
    BY <1>5, <2>1
  <2> QED BY <2>1, <2>2, <2>3, <2>4
<1>7. m.size \in Nat /\ \A i \in 1 .. n : i = n \/ i \in 1 .. n - 1
  BY <1>1 DEF IsMember
<1>8. \A i \in 0 .. n - 1 : EndOf(kind, members, s, i) = EndOf(kind, members, l, i)
  BY <1>6 DEF EndOf
<1>9. s.align \in Nat /\ s.size \in Nat /\ l.align <= s.align /\ a <= s.align
      /\ (s.align = l.align \/ s.align = a)
  BY <1>2, <1>5 DEF Greater, Layouts
<1>10. l.size <= s.size /\ o + m.size <= s.size
      /\ (s.size = o + m.size \/ (kind = "Union" /\ s.size = l.size /\ m.size < l.size))
  BY <1>2, <1>5, <1>7 DEF Greater
<1>11. ASSUME NEW i \in 1 .. n - 1
       PROVE  LET e == EndOf(kind, members, s, i - 1)
              IN  /\ s.offsets[i] % A(i) = 0 /\ s.offsets[i] \in e .. e + A(i) - 1
                  /\ A(i) <= s.align /\ s.offsets[i] + members[i].size <= s.size
  <2>1. LET e == EndOf(kind, members, l, i - 1)
        IN  /\ l.offsets[i] % A(i) = 0 /\ l.offsets[i] \in e .. e + A(i) - 1
            /\ A(i) <= l.align /\ l.offsets[i] + members[i].size <= l.size
    BY DEF Holds
  <2>2. IsMember(members[i]) /\ i - 1 \in 0 .. n - 1
    OBVIOUS
  <2>3. A(i) \in Nat /\ members[i].size \in Nat /\ l.offsets[i] \in Nat
    BY <1>6, <2>2 DEF AlignIn, IsMember
  <2>4. A(i) <= s.align /\ s.offsets[i] + members[i].size <= s.size
    <3>1. PICK x \in Nat, y \in Nat : x = A(i) /\ y = l.offsets[i] + members[i].size
      BY <2>3
    <3>2. x <= l.align /\ y <= l.size
      BY <2>1, <3>1
    <3>3. x <= s.align /\ y <= s.size
      <4>1. s.size \in Nat /\ o + m.size \in Nat /\ l.size <= s.size
        BY <1>5, <1>7, <1>9, <1>10
      <4> QED BY <1>2, <1>9, <3>2, <4>1
    <3> QED BY <1>6, <3>1, <3>3
  <2> QED BY <1>6, <1>8, <2>1, <2>2, <2>4
<1>12. LET e == EndOf(kind, members, s, n - 1)
       IN  /\ s.offsets[n] % a = 0 /\ s.offsets[n] \in e .. e + a - 1
           /\ a <= s.align /\ s.offsets[n] + m.size <= s.size
  <2>1. EndOf(kind, members, s, n - 1) = EndOf(kind, members, l, n - 1) /\ n - 1 \in 0 .. n - 1
    BY <1>8
  <2>2. o \in EndOf(kind, members, l, n - 1) .. EndOf(kind, members, l, n - 1) + a - 1
    <3>1. CASE kind = "Union"
      BY <1>5, <3>1 DEF EndOf
    <3>2. CASE kind # "Union"
      BY <1>5, <3>2 DEF Holds
    <3> QED BY <3>1, <3>2
  <2> QED BY <1>5, <1>6, <1>9, <1>10, <2>1, <2>2
<1>13. \A i \in 1 .. n : LET e == EndOf(kind, members, s, i - 1)
                        IN  /\ s.offsets[i] % A(i) = 0 /\ s.offsets[i] \in e .. e + A(i) - 1
                            /\ A(i) <= s.align /\ s.offsets[i] + members[i].size <= s.size
  BY <1>1, <1>3, <1>7, <1>11, <1>12
<1>14. \E i \in 1 .. n : s.align = A(i)
  <2>1. CASE s.align = a
    BY <1>1, <1>3, <2>1
  <2>2. CASE s.align = l.align /\ n - 1 # 0
    BY <2>2 DEF Holds
  <2>3. CASE s.align = l.align /\ n - 1 = 0
    <3>1. l.align = 0
      BY <2>3 DEF Holds
    <3>2. s.align = a
      BY <1>5, <1>9, <2>3, <3>1
    <3> QED BY <2>1, <3>2
  <2> QED BY <1>9, <2>1, <2>2, <2>3
<1>15. \E i \in 1 .. n : s.size = s.offsets[i] + members[i].size
  <2>1. CASE s.size = o + m.size
    BY <1>1, <1>6, <2>1
  <2>2. CASE s.size = l.size /\ m.size < l.size
    <3>1. n - 1 # 0
      BY <1>7, <2>2 DEF Holds
    <3>2. PICK i \in 1 .. n - 1 : l.size = l.offsets[i] + members[i].size
      BY <3>1 DEF Holds
    <3>3. i \in 1 .. n /\ s.offsets[i] = l.offsets[i]
      BY <1>6
    <3> QED BY <2>2, <3>2, <3>3
  <2> QED BY <1>10, <2>1, <2>2
<1>16. kind # "Union" => s.size = EndOf(kind, members, s, n)
  BY <1>1, <1>5, <1>6 DEF EndOf
<1>17. s \in Layouts /\ Len(s.offsets) = n /\ n # 0
  BY <1>5, <1>6
<1>18. Holds(kind, members, n, s)
  BY <1>13, <1>14, <1>15, <1>16, <1>17 DEF Holds
<1> QED BY <1>1, <1>3, <1>18

LEMMA LaidFits ==
  ASSUME NEW kind \in Aggregates, NEW members, NEW N \in Nat \ {0}, DOMAIN members = 1 .. N, Len(members) = N,
         \A i \in 1 .. N : IsMember(members[i])
  PROVE  /\ IsLayoutInC(Laid(kind, members), kind, members)
         /\ Laid(kind, members) \in Layouts /\ Laid(kind, members).align # 0
<1> DEFINE h == [n \in 1 .. N |-> [l \in Layouts |-> Place(kind, l, members[n])]]
           First == CHOOSE First : First = [n \in 0 .. Len(members) |->
                       IF n = 0 THEN NoLayout ELSE Place(kind, First[n - 1], members[n])]
<1>1. NoLayout \in Layouts
  BY DEF NoLayout, Bytes, Layouts
<1>2. h \in [1 .. N -> [Layouts -> Layouts]]
  BY Placing
<1>3. PICK f : GoesBy(f, N, Layouts, NoLayout, h)
  <2> HIDE DEF h, First
  <2>1. N \in Nat
    OBVIOUS
  <2> QED BY <1>1, <1>2, <2>1, StepByStep
<1>4. f \in [0 .. N -> Layouts] /\ f[0] = NoLayout /\ \A n \in 1 .. N : f[n] = h[n][f[n - 1]]
  <2> HIDE DEF h, First
  <2> QED BY <1>3 DEF GoesBy
<1>5. \A n \in 1 .. N : f[n] = Place(kind, f[n - 1], members[n]) /\ n - 1 \in 0 .. N
  <2> TAKE n \in 1 .. N
  <2>1. n - 1 \in 0 .. N
    OBVIOUS
  <2>2. h[n] = [l \in Layouts |-> Place(kind, l, members[n])]
    OBVIOUS
  <2>3. f[n - 1] \in Layouts /\ f[n] = h[n][f[n - 1]]
    BY <1>4, <2>1
  <2> HIDE DEF h
  <2> QED BY <2>1, <2>2, <2>3
<1>6. f = [n \in 0 .. Len(members) |-> IF n = 0 THEN NoLayout ELSE Place(kind, f[n - 1], members[n])]
  <2>1. \A n \in 0 .. N : n # 0 => n \in 1 .. N
    OBVIOUS
  <2> HIDE DEF h
  <2> QED BY <1>4, <1>5, <2>1
<1>7. First = [n \in 0 .. N |-> IF n = 0 THEN NoLayout ELSE Place(kind, First[n - 1], members[n])]
  BY <1>6
<1> HIDE DEF First
<1>8. First[0] = NoLayout /\ \A n \in 1 .. N : First[n] = Place(kind, First[n - 1], members[n])
  BY <1>7
<1> DEFINE T == {n \in Nat : n <= N => Holds(kind, members, n, First[n])}
<1>9. 0 \in T
  <2>1. First[0] \in Layouts /\ Len(First[0].offsets) = 0 /\ First[0].align = 0 /\ First[0].size = 0
    BY <1>1, <1>8 DEF NoLayout, Bytes
  <2>2. \A i \in 1 .. 0 : FALSE
    OBVIOUS
  <2>3. EndOf(kind, members, First[0], 0) = 0
    BY DEF EndOf
  <2>4. Holds(kind, members, 0, First[0])
    BY <2>1, <2>2, <2>3 DEF Holds
  <2> QED BY <2>4
<1>10. ASSUME NEW n \in Nat, n \in T
      PROVE  n + 1 \in T
  <2> SUFFICES ASSUME n + 1 <= N
               PROVE  Holds(kind, members, n + 1, First[n + 1])
    OBVIOUS
  <2>1. n + 1 \in 1 .. N /\ n + 1 \in Nat \ {0} /\ (n + 1) - 1 = n /\ n <= N
    OBVIOUS
  <2>2. Holds(kind, members, (n + 1) - 1, First[n])
    BY <1>10, <2>1
  <2>3. \A i \in 1 .. n + 1 : IsMember(members[i])
    BY <2>1
  <2>4. Holds(kind, members, n + 1, Place(kind, First[n], members[n + 1]))
    BY <2>1, <2>2, <2>3, PlacingHolds
  <2> QED BY <1>8, <2>1, <2>4
<1>11. Holds(kind, members, N, First[N])
  <2> HIDE DEF T
  <2>1. Nat \subseteq T
    BY <1>9, <1>10, Induction
  <2>2. N \in T
    BY <2>1
  <2> QED BY <2>2 DEF T
<1>12. PICK l : l = First[N]
  OBVIOUS
<1>13. PICK r : r = Laid(kind, members) /\ r = [l EXCEPT !.size = AlignUp(l.size, l.align)]
  BY <1>12 DEF Laid, First
<1>14. l \in Layouts /\ l.size \in Nat /\ l.align \in Nat \ {0}
  <2>1. l \in Layouts /\ l.size \in Nat /\ l.align \in Nat
    BY <1>11, <1>12 DEF Holds, Layouts
  <2>2. PICK i \in 1 .. N : l.align = AlignIn(kind, members[i])
    BY <1>11, <1>12 DEF Holds
  <2>3. l.align # 0
    BY <2>2 DEF AlignIn, IsMember
  <2> QED BY <2>1, <2>3
<1>15. PICK u \in Nat : u = AlignUp(l.size, l.align) /\ u % l.align = 0 /\ u \in l.size .. l.size + l.align - 1
  BY <1>14, Aligned
<1>16. r.size = u /\ r.align = l.align /\ r.offsets = l.offsets /\ r \in Layouts
  BY <1>13, <1>14, <1>15 DEF Layouts
<1>17. Holds(kind, members, N, l)
  BY <1>11, <1>12
<1>18. \A i \in 0 .. N : (IF i = 0 \/ kind = "Union" THEN 0 ELSE r.offsets[i] + members[i].size)
                             = EndOf(kind, members, l, i)
  BY <1>16 DEF EndOf
<1>19. \A i \in 1 .. N : l.offsets[i] \in Nat /\ members[i].size \in Nat /\ members[i].align \in Nat
  <2>1. l.offsets \in Seq(Nat) /\ Len(l.offsets) = N
    BY <1>14, <1>17 DEF Holds, Layouts
  <2> QED BY <2>1 DEF IsMember
<1>20. DOMAIN r.offsets = DOMAIN members
  <2>1. l.offsets \in Seq(Nat) /\ Len(l.offsets) = N
    BY <1>14, <1>17 DEF Holds, Layouts
  <2> QED BY <1>16, <2>1
<1>21. ASSUME NEW i \in 1 .. N
       PROVE  LET e == EndOf(kind, members, l, i - 1)
                  a == AlignIn(kind, members[i])
              IN  /\ r.offsets[i] % a = 0 /\ r.offsets[i] \in e .. e + a - 1 /\ a <= r.align
                  /\ r.offsets[i] + members[i].size <= r.size
  <2>1. LET e == EndOf(kind, members, l, i - 1)
            a == AlignIn(kind, members[i])
        IN  /\ l.offsets[i] % a = 0 /\ l.offsets[i] \in e .. e + a - 1 /\ a <= l.align
            /\ l.offsets[i] + members[i].size <= l.size
    BY <1>17 DEF Holds
  <2>2. PICK x \in Nat : x = l.offsets[i] + members[i].size
    BY <1>19
  <2>3. x <= u
    BY <1>14, <1>15, <2>1, <2>2
  <2> QED BY <1>16, <2>1, <2>2, <2>3
<1>22. PICK i \in 1 .. N : r.align = AlignIn(kind, members[i])
  BY <1>16, <1>17 DEF Holds
<1>23. PICK j \in 1 .. N : l.size = r.offsets[j] + members[j].size
  BY <1>16, <1>17 DEF Holds
<1>24. r.size < l.size + r.align
  BY <1>14, <1>15, <1>16
<1>25. IsLayoutInC(r, kind, members)
  <2> DEFINE Align(m) == IF kind = "Packed" THEN 1 ELSE m.align
             End(k) == IF k = 0 \/ kind = "Union" THEN 0 ELSE r.offsets[k] + members[k].size
             ends == {r.offsets[k] + members[k].size : k \in DOMAIN members}
  <2>1. \A k \in DOMAIN members : /\ r.offsets[k] % Align(members[k]) = 0
                                  /\ r.offsets[k] \in End(k - 1) .. End(k - 1) + Align(members[k]) - 1
                                  /\ Align(members[k]) <= r.align
    <3> TAKE k \in DOMAIN members
    <3>1. k \in 1 .. N /\ k - 1 \in 0 .. N
      OBVIOUS
    <3> QED BY <1>18, <1>21, <3>1 DEF AlignIn
  <2>2. r.align \in {Align(members[k]) : k \in DOMAIN members}
    BY <1>22 DEF AlignIn
  <2>3. r.size % r.align = 0
    BY <1>15, <1>16
  <2>4. \A e \in ends : e <= r.size
    BY <1>21
  <2>5. \E e \in ends : r.size < e + r.align
    BY <1>23, <1>24
  <2> QED BY <1>20, <2>1, <2>2, <2>3, <2>4, <2>5 DEF IsLayoutInC
<1> QED BY <1>13, <1>14, <1>16, <1>25

---------------------------------------------------------------------------
(* Sizes that were read are final.                                         *)

(* Mention i of d asks for nothing that may still change.                  *)
Solid(d, i) ==
  /\ Good(d, i)
  /\ D(d).refs[i].form = "ident" /\ ~NeedsLayout(d, D(d).refs[i]) => dtype[bound[d][i]] = 0

LaidOut(d) ==
  /\ IsAgg(d) => layout[d] = Laid(D(d).kind, Members(d))
  /\ D(d).kind = "Const" => value[d] = ValueOf(layout, value, d)
  /\ IsType(d) /\ ~IsAgg(d) /\ dtype[d] = 0 => layout[d] = WithoutMembers(LayoutOf(layout, value, d, 1))
  /\ IsType(d) /\ (IsAgg(d) \/ dtype[d] = 0) => layout[d].align # 0
Final ==
  /\ layout \in [Ids -> Layouts] /\ value \in [Ids -> Nat]
  /\ \A d \in Ids : Placed(d) => LaidOut(d)

Frozen == \A x \in Ids : Placed(x) => layout'[x] = layout[x] /\ value'[x] = value[x] /\ bound'[x] = bound[x]

LEMMA TypeRead ==
  ASSUME Inv, Lists, NEW d \in Ids, NEW i, Solid(d, i), D(d).refs[i].form \in {"ident", "array", "sizeof"}
  PROVE  \E t, u \in Ids : /\ t = bound[d][i] /\ u = (IF dtype[t] # 0 THEN dtype[t] ELSE t)
                           /\ Settled(t) /\ Placed(u) /\ IsType(u) /\ (IsAgg(u) \/ dtype[u] = 0)
<1>1. PICK t \in Ids : t = bound[d][i] /\ Settled(t) /\ IsRightKind(t, D(d).refs[i])
  BY DEF Solid, Good, GoodName, Usable
<1>2. IsType(t) /\ TypeIsStruct(t) /\ t # 0
  BY <1>1, ProgramFacts DEF IsRightKind, Lists, Inv
<1>3. CASE dtype[t] # 0
  <2>1. dtype[t] \in Ids /\ IsAgg(dtype[t])
    BY <1>2, <1>3 DEF TypeIsStruct, Inv, Results
  <2>2. NeedsLayout(d, D(d).refs[i])
    BY <1>1, <1>3 DEF Solid, NeedsLayout
  <2>3. Placed(dtype[t])
    BY <1>1, <1>3, <2>2 DEF Solid, Good, IsLaid
  <2> QED BY <1>1, <1>3, <2>1, <2>3 DEF IsType
<1>4. CASE dtype[t] = 0
  BY <1>1, <1>2, <1>4 DEF Settled
<1> QED BY <1>3, <1>4

LEMMA ValueRead ==
  ASSUME NEW d \in Ids, NEW i, Solid(d, i), D(d).refs[i].form \in {"size", "value"}
  PROVE  bound[d][i] \in Ids /\ Placed(bound[d][i])
<1>1. bound[d][i] \in Ids /\ Settled(bound[d][i]) /\ D(bound[d][i]).kind = "Const"
  BY DEF Solid, Good, GoodName, Usable, IsRightKind
<1> QED BY <1>1 DEF Settled, IsAgg, Aggregates

LEMMA MemberOfSize ==
  ASSUME Inv, Lists, Final, NEW d \in Ids, NEW i, Solid(d, i),
         D(d).refs[i].form \in {"ident", "pointer", "array", "size", "sizeof"}
  PROVE  LayoutOf(layout, value, d, i) \in Layouts /\ IsMember(LayoutOf(layout, value, d, i))
<1>1. CASE D(d).refs[i].form = "pointer"
  <2>1. LayoutOf(layout, value, d, i) = [size |-> 8, align |-> 8, offsets |-> <<>>]
    BY <1>1 DEF LayoutOf, PointerType, Bytes
  <2> QED BY <2>1 DEF Layouts, IsMember
<1>2. CASE D(d).refs[i].form = "size"
  <2>1. PICK v \in Nat : v = value[bound[d][i]]
    BY <1>2, ValueRead DEF Final
  <2>2. LayoutOf(layout, value, d, i) = [size |-> v * 4, align |-> 4, offsets |-> <<>>]
    BY <1>2, <2>1 DEF LayoutOf, ArrayType, IntType, Bytes
  <2>3. v * 4 \in Nat
    OBVIOUS
  <2> QED BY <2>2, <2>3 DEF Layouts, IsMember
<1>3. CASE D(d).refs[i].form \in {"ident", "array", "sizeof"}
  <2>1. PICK t, u \in Ids : t = bound[d][i] /\ u = (IF dtype[t] # 0 THEN dtype[t] ELSE t)
                            /\ Placed(u) /\ IsType(u) /\ (IsAgg(u) \/ dtype[u] = 0)
    BY <1>3, TypeRead
  <2>2. layout[u] \in Layouts /\ layout[u].align # 0 /\ TypeLayout(layout, t) = layout[u]
    BY <2>1 DEF Final, LaidOut, TypeLayout
  <2>3. layout[u].size \in Nat /\ layout[u].align \in Nat \ {0}
    BY <2>2 DEF Layouts
  <2>4. CASE D(d).refs[i].form = "array"
    <3>1. LayoutOf(layout, value, d, i) = [size |-> 3 * layout[u].size, align |-> layout[u].align, offsets |-> <<>>]
      BY <2>1, <2>2, <2>4 DEF LayoutOf, ArrayType, Bytes
    <3>2. 3 * layout[u].size \in Nat
      BY <2>3
    <3> QED BY <2>3, <3>1, <3>2 DEF Layouts, IsMember
  <2>5. CASE D(d).refs[i].form # "array"
    <3>1. LayoutOf(layout, value, d, i) = layout[u]
      BY <1>3, <2>1, <2>2, <2>5 DEF LayoutOf
    <3> QED BY <2>2, <2>3, <3>1 DEF IsMember
  <2> QED BY <2>4, <2>5
<1> QED BY <1>1, <1>2, <1>3

LEMMA FormOf ==
  ASSUME Program, NEW d \in Ids, NEW i \in DOMAIN D(d).refs
  PROVE  D(d).refs[i].form \in Forms /\ D(d).refs[i].form \in FormsIn(D(d).kind)
<1>1. WellShaped(D(d)) /\ D(d).refs \in Seq(Mention)
  BY Prog, ProgramFacts DEF Declaration
<1>2. D(d).refs[i] \in Mention
  BY <1>1
<1> QED BY <1>1, <1>2 DEF WellShaped, Mention

LEMMA LayoutOfStays ==
  ASSUME Inv, Lists, Smooth, Frozen, NEW d \in Ids, bound'[d] = bound[d], NEW i \in DOMAIN D(d).refs, Solid(d, i),
         D(d).refs[i].form # "value"
  PROVE  LayoutOf(layout, value, d, i)' = LayoutOf(layout, value, d, i)
<1>1. D(d)' = D(d) /\ bound'[d][i] = bound[d][i]
  BY SameMeaning DEF Smooth
<1>2. CASE D(d).refs[i].form = "pointer"
  BY <1>1, <1>2 DEF LayoutOf
<1>3. CASE D(d).refs[i].form = "size"
  BY <1>1, <1>3, ValueRead DEF LayoutOf, Frozen
<1>4. CASE D(d).refs[i].form \in {"ident", "array", "sizeof"}
  <2>1. PICK t, u \in Ids : t = bound[d][i] /\ u = (IF dtype[t] # 0 THEN dtype[t] ELSE t) /\ Settled(t) /\ Placed(u)
    BY <1>4, TypeRead
  <2>2. t = bound'[d][i] /\ dtype'[t] = dtype[t] /\ layout'[u] = layout[u]
    BY <1>1, <2>1 DEF Smooth, Frozen
  <2>3. TypeLayout(layout, t) = layout[u] /\ TypeLayout(layout, t)' = layout'[u]
    BY <2>1, <2>2 DEF TypeLayout
  <2>4. CASE D(d).refs[i].form = "array"
    BY <1>1, <2>1, <2>2, <2>3, <2>4 DEF LayoutOf
  <2>5. CASE D(d).refs[i].form \in {"ident", "sizeof"}
    BY <1>1, <2>1, <2>2, <2>3, <2>5 DEF LayoutOf
  <2> QED BY <1>4, <2>4, <2>5
<1>5. D(d).refs[i].form \in Forms
  BY FormOf DEF Inv
<1> QED BY <1>2, <1>3, <1>4, <1>5 DEF Forms

(* The value of a constant.                                                *)
LEMMA ValueOfStays ==
  ASSUME Inv, Lists, Smooth, Frozen, NEW d \in Ids, bound'[d] = bound[d], D(d).kind = "Const",
         \A i \in DOMAIN D(d).refs : Good(d, i)
  PROVE  ValueOf(layout, value, d)' = ValueOf(layout, value, d)
<1>1. D(d)' = D(d) /\ bound'[d][1] = bound[d][1]
  BY SameMeaning DEF Smooth
<1>2. CASE D(d).refs = <<>>
  BY <1>1, <1>2 DEF ValueOf
<1>3. CASE D(d).refs # <<>>
  <2>1. 1 \in DOMAIN D(d).refs
    BY <1>3, ProgramFacts DEF Inv, Declaration
  <2>2. Good(d, 1) /\ D(d).refs[1].form \in {"value", "sizeof"}
    BY <2>1, FormOf DEF Inv, FormsIn, ConstForms, Aggregates
  <2>3. Solid(d, 1)
    BY <2>2 DEF Solid
  <2>4. CASE D(d).refs[1].form = "value"
    BY <1>1, <1>3, <2>3, <2>4, ValueRead DEF ValueOf, Frozen
  <2>5. CASE D(d).refs[1].form = "sizeof"
    <3>1. PICK t, u \in Ids : t = bound[d][1] /\ u = (IF dtype[t] # 0 THEN dtype[t] ELSE t) /\ Settled(t) /\ Placed(u)
      BY <2>3, <2>5, TypeRead
    <3>2. t = bound'[d][1] /\ dtype'[t] = dtype[t] /\ layout'[u] = layout[u]
      BY <1>1, <3>1 DEF Smooth, Frozen
    <3>3. TypeLayout(layout, t) = layout[u] /\ TypeLayout(layout, t)' = layout'[u]
      BY <3>1, <3>2 DEF TypeLayout
    <3> QED BY <1>1, <1>3, <2>5, <3>1, <3>2, <3>3 DEF ValueOf
  <2> QED BY <2>2, <2>4, <2>5
<1> QED BY <1>2, <1>3

LEMMA ValueIsNat ==
  ASSUME Inv, Lists, Final, NEW d \in Ids, D(d).kind = "Const", \A i \in DOMAIN D(d).refs : Good(d, i)
  PROVE  ValueOf(layout, value, d) \in Nat
<1>1. CASE D(d).refs = <<>>
  BY <1>1 DEF ValueOf
<1>2. CASE D(d).refs # <<>>
  <2>1. 1 \in DOMAIN D(d).refs
    BY <1>2, ProgramFacts DEF Inv, Declaration
  <2>2. Good(d, 1) /\ D(d).refs[1].form \in {"value", "sizeof"}
    BY <2>1, FormOf DEF Inv, FormsIn, ConstForms, Aggregates
  <2>3. Solid(d, 1)
    BY <2>2 DEF Solid
  <2>4. CASE D(d).refs[1].form = "value"
    BY <1>2, <2>3, <2>4, ValueRead DEF ValueOf, Final
  <2>5. CASE D(d).refs[1].form = "sizeof"
    <3>1. PICK t, u \in Ids : t = bound[d][1] /\ u = (IF dtype[t] # 0 THEN dtype[t] ELSE t)
      BY <2>3, <2>5, TypeRead
    <3>2. TypeLayout(layout, t).size \in Nat
      BY <3>1 DEF TypeLayout, Final, Layouts
    <3> QED BY <1>2, <2>5, <3>1, <3>2 DEF ValueOf
  <2> QED BY <2>2, <2>4, <2>5
<1> QED BY <1>1, <1>2

(* The members of a struct, and the char at its end.                       *)
LEMMA MembersOf ==
  ASSUME Inv, Lists, Final, NEW d \in Ids, IsAgg(d), \A i \in DOMAIN D(d).refs : Good(d, i)
  PROVE  LET ms == Members(d)
         IN  \E N \in Nat \ {0} : /\ DOMAIN ms = 1 .. N /\ Len(ms) = N
                                  /\ \A i \in 1 .. N : IsMember(ms[i])
<1>1. PICK n \in Nat : n = Len(D(d).refs) /\ DOMAIN D(d).refs = 1 .. n
  BY ProgramFacts DEF Inv
<1> DEFINE L(i) == LayoutOf(layout, value, d, i)
           S == Layouts
<1>2. \A i \in 1 .. n : L(i) \in Layouts /\ IsMember(L(i))
  <2> TAKE i \in 1 .. n
  <2>1. Good(d, i) /\ D(d).refs[i].form \in TypeForms
    BY <1>1, FormOf DEF Inv, FormsIn, IsAgg, Aggregates
  <2>2. NeedsLayout(d, D(d).refs[i]) \/ D(d).refs[i].form # "ident"
    BY DEF NeedsLayout, IsAgg
  <2> QED BY <2>1, <2>2, MemberOfSize DEF Solid, TypeForms
<1>3. CharType \in Layouts /\ IsMember(CharType)
  BY DEF CharType, Bytes, Layouts, IsMember
<1> DEFINE s == [i \in 1 .. n |-> L(i)]
<1>4. s \in Seq(Layouts) /\ Len(s) = n /\ \A i \in 1 .. n : s[i] = L(i)
  BY <1>2
<1>5. Members(d) = s \o <<CharType>>
  BY <1>1 DEF Members
<1> HIDE DEF L, s
<1>6. /\ DOMAIN (s \o <<CharType>>) = 1 .. n + 1 /\ Len(s \o <<CharType>>) = n + 1
      /\ (s \o <<CharType>>)[n + 1] = CharType /\ \A i \in 1 .. n : (s \o <<CharType>>)[i] = s[i]
  BY <1>3, <1>4
<1>7. \A i \in 1 .. n + 1 : IsMember((s \o <<CharType>>)[i])
  <2>1. \A i \in 1 .. n + 1 : i = n + 1 \/ i \in 1 .. n
    OBVIOUS
  <2> QED BY <1>2, <1>3, <1>4, <1>6, <2>1
<1> QED BY <1>5, <1>6, <1>7

LEMMA MembersStay ==
  ASSUME Inv, Lists, Smooth, Frozen, NEW d \in Ids, bound'[d] = bound[d], IsAgg(d),
         \A i \in DOMAIN D(d).refs : Good(d, i)
  PROVE  Members(d)' = Members(d)
<1>1. D(d)' = D(d)
  BY SameMeaning DEF Smooth
<1>2. \A i \in DOMAIN D(d).refs : LayoutOf(layout, value, d, i)' = LayoutOf(layout, value, d, i)
  <2> TAKE i \in DOMAIN D(d).refs
  <2>1. Good(d, i) /\ D(d).refs[i].form \in TypeForms
    BY FormOf DEF Inv, FormsIn, IsAgg, Aggregates
  <2>2. NeedsLayout(d, D(d).refs[i]) \/ D(d).refs[i].form # "ident"
    BY DEF NeedsLayout, IsAgg
  <2>3. Solid(d, i) /\ D(d).refs[i].form # "value"
    BY <2>1, <2>2 DEF Solid, TypeForms
  <2> QED BY <2>3, LayoutOfStays
<1> QED BY <1>1, <1>2 DEF Members, CharType, Bytes

LEMMA LaidOutStays ==
  ASSUME Inv, Lists, Final, Smooth, Frozen, NEW d \in Ids, Placed(d)
  PROVE  LaidOut(d)'
<1>1. /\ LaidOut(d) /\ PlacedWell(d) /\ bound'[d] = bound[d] /\ layout'[d] = layout[d] /\ value'[d] = value[d]
      /\ \A i \in DOMAIN D(d).refs : Good(d, i)
  BY DEF Final, Lists, Frozen, PlacedWell
<1>2. D(d)' = D(d) /\ (IsAgg(d)' <=> IsAgg(d)) /\ (IsType(d)' <=> IsType(d))
  BY SameMeaning DEF Smooth
<1>3. ~IsAgg(d) => dtype'[d] = dtype[d]
  BY DEF Smooth, Settled
<1>4. IsAgg(d) => layout'[d] = Laid(D(d).kind, Members(d)')
  BY <1>1, MembersStay DEF LaidOut
<1>5. D(d).kind = "Const" => value'[d] = ValueOf(layout, value, d)'
  BY <1>1, ValueOfStays DEF LaidOut
<1>6. ASSUME IsType(d), ~IsAgg(d), dtype[d] = 0
      PROVE  layout'[d] = WithoutMembers(LayoutOf(layout, value, d, 1)')
  <2>1. D(d).kind \in {"Typedef", "WeakTypedef"} /\ TypeOf(d) = 0
    BY <1>1, <1>6 DEF IsType, PlacedWell
  <2>2. 1 \in DOMAIN D(d).refs /\ D(d).refs # <<>>
    BY <2>1, Prog, ProgramFacts DEF Inv, WellShaped
  <2>3. D(d).refs[1].form = "ident" => dtype[bound[d][1]] = 0
    BY <2>1, <2>2 DEF TypeOf
  <2>4. Solid(d, 1) /\ D(d).refs[1].form # "value"
    BY <1>1, <2>1, <2>2, <2>3, FormOf DEF Solid, FormsIn, TypeForms, Inv
  <2> QED BY <1>1, <1>6, <2>2, <2>4, LayoutOfStays DEF LaidOut
<1> QED BY <1>1, <1>2, <1>3, <1>4, <1>5, <1>6 DEF LaidOut, WithoutMembers, Bytes

LEMMA AggregateLaid ==
  ASSUME Inv, Lists, Final, Smooth, Frozen, UNCHANGED <<dtype, bound>>, NEW d \in Ids, IsAgg(d), ~Placed(d),
         \A i \in DOMAIN D(d).refs : Good(d, i),
         layout' = [layout EXCEPT ![d] = Laid(D(d).kind, Members(d))]
  PROVE  LaidOut(d)' /\ layout' \in [Ids -> Layouts]
<1>1. PICK ms, l : ms = Members(d) /\ l = Laid(D(d).kind, Members(d))
  OBVIOUS
<1>2. PICK N \in Nat \ {0} : DOMAIN ms = 1 .. N /\ Len(ms) = N /\ \A i \in 1 .. N : IsMember(ms[i])
  BY <1>1, MembersOf
<1>3. l \in Layouts /\ l.align # 0
  BY <1>1, <1>2, LaidFits DEF IsAgg
<1>4. Members(d)' = ms
  BY <1>1, MembersStay
<1>5. layout'[d] = l /\ layout' \in [Ids -> Layouts]
  BY <1>1, <1>3 DEF Final
<1>6. D(d)' = D(d) /\ (IsAgg(d)' <=> IsAgg(d)) /\ D(d).kind # "Const"
  BY SameMeaning DEF Smooth, IsAgg, Aggregates
<1>7. l = Laid(D(d).kind, ms)
  BY <1>1
<1> QED BY <1>3, <1>4, <1>5, <1>6, <1>7 DEF LaidOut

LEMMA NameLaid ==
  ASSUME Inv, Lists, Final, Smooth, Frozen, UNCHANGED bound, NEW d \in Ids, ~IsAgg(d), ~Placed(d),
         \A i \in DOMAIN D(d).refs : Good(d, i),
         dtype' = [dtype EXCEPT ![d] = TypeOf(d)],
         layout' = IF IsType(d) /\ TypeOf(d) = 0
                   THEN [layout EXCEPT ![d] = WithoutMembers(LayoutOf(layout, value, d, 1))]
                   ELSE layout,
         value' = IF D(d).kind = "Const" THEN [value EXCEPT ![d] = ValueOf(layout, value, d)] ELSE value
  PROVE  LaidOut(d)' /\ layout' \in [Ids -> Layouts] /\ value' \in [Ids -> Nat]
<1>1. D(d)' = D(d) /\ (IsAgg(d)' <=> IsAgg(d)) /\ (IsType(d)' <=> IsType(d))
  BY SameMeaning DEF Smooth
<1>2. layout \in [Ids -> Layouts] /\ value \in [Ids -> Nat] /\ dtype'[d] = TypeOf(d)
  BY DEF Final, Inv, Results
<1>3. value' \in [Ids -> Nat] /\ (D(d).kind = "Const" => value'[d] = ValueOf(layout, value, d)')
  <2>1. CASE D(d).kind = "Const"
    BY <1>2, <2>1, ValueIsNat, ValueOfStays
  <2>2. CASE D(d).kind # "Const"
    BY <1>2, <2>2
  <2> QED BY <2>1, <2>2
<1>4. CASE IsType(d) /\ TypeOf(d) = 0
  <2>1. D(d).kind \in {"Typedef", "WeakTypedef"}
    BY <1>4 DEF IsType
  <2>2. 1 \in DOMAIN D(d).refs /\ D(d).refs # <<>>
    BY <2>1, Prog, ProgramFacts DEF Inv, WellShaped
  <2>3. D(d).refs[1].form = "ident" => dtype[bound[d][1]] = 0
    BY <1>4, <2>1, <2>2 DEF TypeOf
  <2>4. Solid(d, 1) /\ D(d).refs[1].form \in TypeForms
    BY <2>1, <2>2, <2>3, FormOf DEF Solid, FormsIn, Inv
  <2>5. PICK l \in Layouts : l = LayoutOf(layout, value, d, 1) /\ IsMember(l)
    BY <2>4, MemberOfSize DEF TypeForms
  <2>6. LayoutOf(layout, value, d, 1)' = l
    BY <2>2, <2>4, <2>5, LayoutOfStays DEF TypeForms
  <2>7. WithoutMembers(l) \in Layouts /\ WithoutMembers(l).align # 0
    BY <2>5 DEF WithoutMembers, Bytes, Layouts, IsMember
  <2>8. layout'[d] = WithoutMembers(l) /\ layout' \in [Ids -> Layouts]
    BY <1>2, <1>4, <2>5, <2>7
  <2>9. (WithoutMembers(LayoutOf(layout, value, d, 1)))' = WithoutMembers(l)
    BY <2>6 DEF WithoutMembers, Bytes
  <2> QED BY <1>1, <1>3, <2>7, <2>8, <2>9 DEF LaidOut
<1>5. CASE ~(IsType(d) /\ TypeOf(d) = 0)
  BY <1>1, <1>2, <1>3, <1>5 DEF LaidOut
<1> QED BY <1>4, <1>5

LEMMA FinalStep ==
  ASSUME Inv, Inv2, Final, [Next]_vars
  PROVE  Final'
<1>1. /\ Smooth /\ Lists /\ Ids' = Ids /\ \A d \in Ids : Placed(d) => bound'[d] = bound[d]
      /\ Running /\ (NameFound \/ NameResolved \/ AggregateCompleted) =>
           Lists /\ Course /\ stack # <<>> /\ Proper(Top) /\ Top \in Frames /\ Top.d \in Ids /\ ~Placed(Top.d)
  BY StepIsSmooth, FactsChange, SameMeaning DEF Inv2
<1>2. layout \in [Ids -> Layouts] /\ value \in [Ids -> Nat]
  BY DEF Final
<1>3. CASE UNCHANGED <<layout, value, ordered>>
  <2>1. Frozen
    BY <1>1, <1>3 DEF Frozen
  <2>2. \A d \in Ids : Placed(d)' => Placed(d)
    BY <1>1, <1>3, SameMeaning DEF Placed, Smooth
  <2>3. \A d \in Ids : Placed(d)' => LaidOut(d)'
    BY <1>1, <2>1, <2>2, LaidOutStays
  <2> QED BY <1>1, <1>2, <1>3, <2>3 DEF Final
<1>4. CASE Running /\ (NameResolved \/ AggregateCompleted)
  <2>1. PICK d \in Ids : d = Top.d /\ ~Placed(d)
    BY <1>1, <1>4
  <2>2. UNCHANGED bound /\ Append1(d) /\ ~MoreRefs /\ ~(Top.fn = "agg" /\ tkind[Top.d] = "Error")
    BY <1>4, <2>1 DEF NameResolved, AggregateCompleted, Finished
  <2>3. \A i \in DOMAIN D(d).refs : Good(d, i)
    BY <1>1, <1>4, <2>1, <2>2, FinishedIsGood DEF Course
  <2>4. \A x \in Ids : Placed(x)' <=> Placed(x) \/ x = d
    BY <1>1, <2>1, <2>2, PlacedInList DEF Smooth
  <2>5. \A x \in Ids : x # d => layout'[x] = layout[x] /\ value'[x] = value[x]
    BY <1>2, <1>4, <2>1 DEF NameResolved, AggregateCompleted
  <2>6. Frozen
    BY <1>1, <2>1, <2>5 DEF Frozen
  <2>7. LaidOut(d)' /\ layout' \in [Ids -> Layouts] /\ value' \in [Ids -> Nat]
    <3>1. CASE NameResolved
      <4>1. ~IsAgg(d)
        BY <1>1, <1>4, <2>1, <3>1 DEF NameResolved, Finished, Proper
      <4>2. /\ dtype' = [dtype EXCEPT ![d] = TypeOf(d)]
            /\ layout' = IF IsType(d) /\ TypeOf(d) = 0
                         THEN [layout EXCEPT ![d] = WithoutMembers(LayoutOf(layout, value, d, 1))]
                         ELSE layout
            /\ value' = IF D(d).kind = "Const" THEN [value EXCEPT ![d] = ValueOf(layout, value, d)] ELSE value
        BY <2>1, <3>1 DEF NameResolved
      <4> QED BY <1>1, <2>1, <2>2, <2>3, <2>6, <4>1, <4>2, NameLaid
    <3>2. CASE AggregateCompleted
      <4>1. IsAgg(d)
        BY <1>1, <1>4, <2>1, <3>2 DEF AggregateCompleted, Finished, Proper
      <4>2. UNCHANGED <<dtype, bound, value>> /\ layout' = [layout EXCEPT ![d] = Laid(D(d).kind, Members(d))]
        BY <2>1, <3>2 DEF AggregateCompleted
      <4> QED BY <1>1, <1>2, <2>1, <2>3, <2>6, <4>1, <4>2, AggregateLaid
    <3> QED BY <1>4, <3>1, <3>2
  <2>8. \A x \in Ids : Placed(x)' => LaidOut(x)'
    BY <1>1, <2>4, <2>6, <2>7, LaidOutStays
  <2> QED BY <1>1, <2>7, <2>8 DEF Final
<1> QED BY <1>3, <1>4, FactsChange DEF RegisterDecls, NameFound, sizes

LEMMA SizesAreC == Inv /\ Inv2 /\ Final => LayoutIsC
<1> SUFFICES ASSUME Inv, Inv2, Final, pass = "done", NEW d \in Ids, ~HasError(d), IsType(d) \/ D(d).kind = "Const"
             PROVE  /\ IsAgg(d) => IsLayoutInC(layout[d], D(d).kind, Members(d))
                    /\ D(d).kind = "Const" => value[d] = ValueOf(layout, value, d)
                    /\ D(d).kind \in {"Typedef", "WeakTypedef"} =>
                         WithoutMembers(TypeLayout(layout, d)) = WithoutMembers(LayoutOf(layout, value, d, 1))
  BY DEF LayoutIsC, IsType
<1>1. Placed(d) /\ Lists
  BY AtTheEnd DEF HasError, Named, IsType, IsAgg, Aggregates, Inv2
<1>2. LaidOut(d) /\ PlacedWell(d) /\ \A i \in DOMAIN D(d).refs : Good(d, i)
  BY <1>1 DEF Final, Lists, PlacedWell
<1>3. ASSUME IsAgg(d)
      PROVE  IsLayoutInC(layout[d], D(d).kind, Members(d))
  <2>1. PICK ms : ms = Members(d) /\ layout[d] = Laid(D(d).kind, ms)
    BY <1>2, <1>3 DEF LaidOut
  <2>2. PICK N \in Nat \ {0} : DOMAIN ms = 1 .. N /\ Len(ms) = N /\ \A i \in 1 .. N : IsMember(ms[i])
    BY <1>1, <1>2, <1>3, <2>1, MembersOf
  <2>3. IsLayoutInC(Laid(D(d).kind, ms), D(d).kind, ms)
    BY <1>3, <2>2, LaidFits DEF IsAgg
  <2> QED BY <2>1, <2>3
<1>4. ASSUME D(d).kind \in {"Typedef", "WeakTypedef"}
      PROVE  WithoutMembers(TypeLayout(layout, d)) = WithoutMembers(LayoutOf(layout, value, d, 1))
  <2>1. IsType(d) /\ ~IsAgg(d) /\ dtype[d] = TypeOf(d)
    BY <1>2, <1>4 DEF IsType, IsAgg, Aggregates, PlacedWell
  <2>2. CASE dtype[d] = 0
    <3>1. layout[d] = WithoutMembers(LayoutOf(layout, value, d, 1)) /\ TypeLayout(layout, d) = layout[d]
      BY <1>2, <2>1, <2>2 DEF LaidOut, TypeLayout
    <3> QED BY <3>1 DEF WithoutMembers, Bytes
  <2>3. CASE dtype[d] # 0
    <3>1. D(d).refs[1].form = "ident" /\ dtype[d] = dtype[bound[d][1]]
      BY <2>1, <2>3 DEF TypeOf
    <3>2. TypeLayout(layout, d) = layout[dtype[d]] /\ TypeLayout(layout, bound[d][1]) = layout[dtype[d]]
      BY <2>3, <3>1 DEF TypeLayout
    <3>3. LayoutOf(layout, value, d, 1) = TypeLayout(layout, bound[d][1])
      BY <3>1 DEF LayoutOf
    <3> QED BY <3>2, <3>3
  <2> QED BY <2>2, <2>3
<1> QED BY <1>2, <1>3, <1>4 DEF LaidOut

LEMMA Invariance4 == Spec => [](Inv3 /\ Final)
<1>1. Init => Final
  <2> SUFFICES ASSUME Init PROVE Final
    OBVIOUS
  <2>1. \A d \in Ids : ~Placed(d)
    <3>1. \A d \in Ids : D(d).pkg \in Packages
      BY InitInv, ProgramFacts DEF Inv
    <3> QED BY <3>1 DEF Init, Placed, IsIn
  <2>2. NoLayout \in Layouts
    BY DEF NoLayout, Bytes, Layouts
  <2> QED BY <2>1, <2>2 DEF Init, Final
<1>2. Inv3 /\ Final /\ [Next]_vars => Final'
  BY FinalStep DEF Inv3
<1> QED BY <1>1, <1>2, Invariance3, PTL DEF Spec

(* LC_ResolveTypeAggregate, LC_CreateArrayType, LC_CreateTypedef, sizeof:  *)
(* every size the compiler computes is the one C gives the type, and none  *)
(* that went into it, through arrays, typedefs and constants, changed      *)
(* after it was read.                                                      *)
THEOREM LayoutsAreC == Spec => []LayoutIsC
<1>1. Inv3 /\ Final => LayoutIsC
  BY SizesAreC DEF Inv3
<1> QED BY <1>1, Invariance4, PTL

---------------------------------------------------------------------------
(* What can be reached.                                                    *)

IsGraph(n) == \A a \in Ids : n[a] \subseteq Ids
Closed(S, n) == \A a \in S : n[a] \subseteq S

LEMMA FromFacts ==
  ASSUME NEW n, IsGraph(n), NEW d \in Ids
  PROVE  /\ d \in From(d, n) /\ n[d] \subseteq From(d, n) /\ From(d, n) \subseteq Ids
         /\ \A x \in From(d, n) : From(x, n) \subseteq From(d, n)
         /\ \A S \in SUBSET Ids : d \in S /\ Closed(S, n) => From(d, n) \subseteq S
<1>1. \A S \in SUBSET Ids : d \in S /\ Closed(S, n) => From(d, n) \subseteq S
  BY DEF From, Closed
<1>2. d \in From(d, n) /\ From(d, n) \subseteq Ids
  BY DEF From
<1>3. \A S \in SUBSET Ids : (d \in S /\ \A a \in S : n[a] \subseteq S) => n[d] \subseteq S
  OBVIOUS
<1>4. n[d] \subseteq From(d, n)
  BY <1>3 DEF From, IsGraph
<1>5. \A x \in From(d, n) : From(x, n) \subseteq From(d, n)
  <2> TAKE x \in From(d, n)
  <2>1. \A S \in SUBSET Ids : (d \in S /\ \A a \in S : n[a] \subseteq S) => x \in S
    BY DEF From
  <2>2. \A y \in From(x, n) : \A S \in SUBSET Ids : (x \in S /\ \A a \in S : n[a] \subseteq S) => y \in S
    BY DEF From
  <2>3. \A y \in From(x, n) : \A S \in SUBSET Ids : (d \in S /\ \A a \in S : n[a] \subseteq S) => y \in S
    BY <2>1, <2>2
  <2> QED BY <2>3 DEF From
<1> QED BY <1>1, <1>2, <1>4, <1>5

(* One step, and then the rest.                                            *)
LEMMA FromStep ==
  ASSUME NEW n, IsGraph(n), NEW d \in Ids
  PROVE  From(d, n) = {d} \cup UNION {From(a, n) : a \in n[d]}
<1> DEFINE S == {d} \cup UNION {From(a, n) : a \in n[d]}
<1>1. n[d] \subseteq Ids
  BY DEF IsGraph
<1>2. S \subseteq From(d, n)
  BY FromFacts
<1>3. \A a \in n[d] : n[a] \subseteq From(a, n) /\ a \in From(a, n) /\ From(a, n) \subseteq Ids
                      /\ \A x \in From(a, n) : From(x, n) \subseteq From(a, n)
  BY <1>1, FromFacts
<1>4. \A x \in S : n[x] \subseteq S
  <2> TAKE x \in S
  <2>1. CASE x = d
    BY <1>3, <2>1
  <2>2. CASE x # d
    <3>1. PICK a \in n[d] : x \in From(a, n)
      BY <2>2
    <3>2. x \in Ids /\ From(x, n) \subseteq From(a, n)
      BY <1>3, <3>1
    <3>3. n[x] \subseteq From(x, n)
      BY <3>2, FromFacts
    <3> QED BY <3>2, <3>3
  <2> QED BY <2>1, <2>2
<1>5. S \in SUBSET Ids /\ d \in S
  BY <1>2, FromFacts
<1> HIDE DEF S
<1>6. From(d, n) \subseteq S
  BY <1>4, <1>5, FromFacts DEF Closed
<1>7. From(d, n) = S
  BY <1>2, <1>6
<1> QED BY <1>7 DEF S

LEMMA FromLess ==
  ASSUME NEW n, NEW l, \A a \in Ids : l[a] \subseteq n[a], NEW d
  PROVE  From(d, l) \subseteq From(d, n)
<1>1. \A S \in SUBSET Ids : (\A a \in S : n[a] \subseteq S) => \A a \in S : l[a] \subseteq S
  <2> TAKE S \in SUBSET Ids
  <2>1. \A a \in S : a \in Ids
    OBVIOUS
  <2> QED BY <2>1
<1>2. \A x \in From(d, l) : x \in Ids /\ \A S \in SUBSET Ids : (d \in S /\ \A a \in S : l[a] \subseteq S) => x \in S
  BY DEF From
<1>3. \A x \in From(d, l) : \A S \in SUBSET Ids : (d \in S /\ \A a \in S : n[a] \subseteq S) => x \in S
  BY <1>1, <1>2
<1> QED BY <1>2, <1>3 DEF From

LEMMA MentionsAreIds ==
  ASSUME Program, NEW d \in Ids
  PROVE  Mentions(d) \subseteq Ids /\ AliasOf(d) \subseteq Mentions(d)
<1>1. \A m \in Refs(d) : Target(d, m) # 0 => Target(d, m) \in Ids
  BY TargetIsEarlier
<1>2. Mentions(d) \subseteq Ids
  BY <1>1 DEF Mentions
<1>3. AliasOf(d) \subseteq Mentions(d)
  BY DEF AliasOf, Mentions
<1> QED BY <1>2, <1>3

LEMMA Reaches ==
  ASSUME Program, NEW d \in Ids
  PROVE  /\ d \in Reach(d) /\ Mentions(d) \subseteq Reach(d) /\ Reach(d) \subseteq Ids
         /\ \A x \in Reach(d) : Reach(x) \subseteq Reach(d)
         /\ StructsBehind(d) \subseteq Reach(d)
<1> DEFINE n == [a \in Ids |-> Mentions(a)]
           l == [a \in Ids |-> AliasOf(a)]
<1>1. IsGraph(n) /\ \A a \in Ids : l[a] \subseteq n[a]
  BY MentionsAreIds DEF IsGraph
<1>2. n[d] = Mentions(d) /\ \A x : Reach(x) = From(x, n)
  BY DEF Reach
<1>3. StructsBehind(d) \subseteq From(d, l)
  BY DEF StructsBehind
<1> HIDE DEF n, l
<1>4. From(d, l) \subseteq From(d, n)
  BY <1>1, FromLess
<1>5. /\ d \in From(d, n) /\ n[d] \subseteq From(d, n) /\ From(d, n) \subseteq Ids
      /\ \A x \in From(d, n) : From(x, n) \subseteq From(d, n)
  BY <1>1, FromFacts
<1> QED BY <1>2, <1>3, <1>4, <1>5

LEMMA BehindStep ==
  ASSUME Program, NEW d \in Ids
  PROVE  StructsBehind(d) = {x \in {d} : IsAgg(x)} \cup UNION {StructsBehind(a) : a \in AliasOf(d)}
<1> DEFINE l == [a \in Ids |-> AliasOf(a)]
<1>1. \A a \in Ids : AliasOf(a) \subseteq Ids
  BY MentionsAreIds
<1>2. IsGraph(l)
  BY <1>1 DEF IsGraph
<1>3. l[d] = AliasOf(d) /\ \A x : StructsBehind(x) = {s \in From(x, l) : IsAgg(s)}
  BY DEF StructsBehind
<1> HIDE DEF l
<1>4. From(d, l) = {d} \cup UNION {From(a, l) : a \in l[d]}
  BY <1>2, FromStep
<1> QED BY <1>3, <1>4

(* The struct behind an aggregate is itself; behind a typedef of a name,   *)
(* what is behind that name; behind anything else, nothing.                *)
LEMMA BehindIs ==
  ASSUME Program, NEW d \in Ids
  PROVE  /\ IsAgg(d) => StructsBehind(d) = {d}
         /\ ~IsAgg(d) /\ AliasOf(d) = {} => StructsBehind(d) = {}
         /\ \A t : ~IsAgg(d) /\ AliasOf(d) = {t} => StructsBehind(d) = StructsBehind(t)
<1>1. StructsBehind(d) = {x \in {d} : IsAgg(x)} \cup UNION {StructsBehind(a) : a \in AliasOf(d)}
  BY BehindStep
<1>2. IsAgg(d) => AliasOf(d) = {}
  BY DEF IsAgg, Aggregates, AliasOf
<1> QED BY <1>1, <1>2

---------------------------------------------------------------------------
(* What cannot be done.                                                    *)

LEMMA DoomedIs ==
  /\ \A T \in SUBSET Tasks : (\A t \in T : Wrong(t) \/ Needs(t) \cap T # {}) => T \subseteq Doomed
  /\ \A t \in Doomed : t \in Tasks /\ (Wrong(t) \/ Needs(t) \cap Doomed # {})
<1> DEFINE Held(T) == \A t \in T : Wrong(t) \/ Needs(t) \cap T # {}
<1>1. Doomed = UNION {T \in SUBSET Tasks : Held(T)}
  BY DEF Doomed
<1>2. \A T \in SUBSET Tasks : Held(T) => T \subseteq Doomed
  BY <1>1
<1>3. \A t \in Doomed : t \in Tasks /\ (Wrong(t) \/ Needs(t) \cap Doomed # {})
  <2> TAKE t \in Doomed
  <2>1. PICK T \in SUBSET Tasks : Held(T) /\ t \in T
    BY <1>1
  <2>2. T \subseteq Doomed
    BY <1>2, <2>1
  <2> QED BY <2>1, <2>2
<1> QED BY <1>2, <1>3

LEMMA WholeIs ==
  ASSUME NEW d \in Ids
  PROVE  /\ Whole(d) \in Tasks /\ Whole(d)[2] = d /\ Whole(Whole(d)[2]) = Whole(d)
         /\ Whole(d) = IF IsAgg(d) THEN <<"layout", d>> ELSE <<"name", d>>
<1>1. Whole(d) = IF IsAgg(d) THEN <<"layout", d>> ELSE <<"name", d>>
  BY DEF Whole
<1>2. Whole(d) \in Tasks /\ Whole(d)[2] = d
  BY <1>1 DEF Tasks
<1> QED BY <1>1, <1>2

LEMMA NeedsOfWhole ==
  ASSUME NEW d \in Ids
  PROVE  /\ \A x \in Mentions(d) : <<"name", x>> \in Needs(Whole(d))
         /\ \A m \in Refs(d) : \A s \in StructsBehind(Target(d, m)) :
               SizeMatters(d, m) /\ Target(d, m) # 0 => <<"layout", s>> \in Needs(Whole(d))
         /\ \A t \in Needs(Whole(d)) :
               \/ \E x \in Mentions(d) : t = <<"name", x>>
               \/ \E m \in Refs(d) : \E s \in StructsBehind(Target(d, m)) :
                     SizeMatters(d, m) /\ Target(d, m) # 0 /\ t = <<"layout", s>>
<1> DEFINE sized == {m \in Refs(d) : SizeMatters(d, m) /\ Target(d, m) # 0}
           structs == UNION {StructsBehind(Target(d, m)) : m \in sized}
<1>1. Needs(Whole(d)) = ({"name"} \X Mentions(d)) \cup ({"layout"} \X structs)
  BY WholeIs DEF Needs
<1>2. \A s : s \in structs <=> \E m \in Refs(d) : SizeMatters(d, m) /\ Target(d, m) # 0 /\ s \in StructsBehind(Target(d, m))
  OBVIOUS
<1> HIDE DEF structs
<1> QED BY <1>1, <1>2

LEMMA WrongIsBad ==
  ASSUME NEW d \in Ids, IsTaken(d) \/ MentionsWrongly(d)
  PROVE  d \in Bad
<1>1. Wrong(Whole(d)) /\ Whole(d) \in Tasks
  BY WholeIs DEF Wrong
<1>2. {Whole(d)} \subseteq Doomed
  BY <1>1, DoomedIs
<1> QED BY <1>2 DEF Bad

---------------------------------------------------------------------------
(* The struct behind a declaration, and what is not doomed.                *)

BehindIsType == \A t \in Ids : Settled(t) => StructsBehind(t) = IF dtype[t] = 0 THEN {} ELSE {dtype[t]}
NoneDoomed == \A d \in Ids : Placed(d) => Whole(d) \notin Doomed
WeakOk == \A d \in Ids : Placed(d) /\ D(d).kind = "WeakTypedef" /\ dtype[d] # 0 => dstate[dtype[d]] = "Error"

LEMMA SameGraph ==
  ASSUME UNCHANGED prog
  PROVE  /\ \A d : StructsBehind(d)' = StructsBehind(d) /\ Whole(d)' = Whole(d) /\ Reach(d)' = Reach(d)
         /\ Doomed' = Doomed /\ Suspects' = Suspects
<1>1. /\ Ids' = Ids /\ \A d : D(d)' = D(d) /\ Refs(d)' = Refs(d) /\ (IsAgg(d)' <=> IsAgg(d))
      /\ \A d, m : Target(d, m)' = Target(d, m) /\ (IsRightKind(d, m)' <=> IsRightKind(d, m))
                   /\ (SizeMatters(d, m)' <=> SizeMatters(d, m))
      /\ \A p : Taken(p)' = Taken(p)
  BY SameMeaning
<1>2. \A d : Mentions(d)' = Mentions(d)
  BY <1>1 DEF Mentions
<1>3. \A d : AliasOf(d)' = AliasOf(d)
  BY <1>1 DEF AliasOf
<1>4. \A d : Reach(d)' = Reach(d)
  BY <1>1, <1>2 DEF Reach, From
<1>5. \A d : StructsBehind(d)' = StructsBehind(d)
  BY <1>1, <1>3 DEF StructsBehind, From
<1>6. \A d : Whole(d)' = Whole(d)
  BY <1>1 DEF Whole
<1>7. Tasks' = Tasks
  BY <1>1 DEF Tasks
<1>8. \A t : Needs(t)' = Needs(t)
  BY <1>1, <1>2, <1>5, <1>6 DEF Needs
<1>9. \A d : (IsTaken(d)' <=> IsTaken(d)) /\ (MentionsWrongly(d)' <=> MentionsWrongly(d))
  BY <1>1 DEF IsTaken, MentionsWrongly
<1>10. \A t : Wrong(t)' <=> Wrong(t)
  BY <1>6, <1>9 DEF Wrong
<1>11. Doomed' = Doomed
  BY <1>7, <1>8, <1>10 DEF Doomed
<1>12. Bad' = Bad
  BY <1>1, <1>6, <1>11 DEF Bad
<1>13. \A d : IsWeakStruct(d)' <=> IsWeakStruct(d)
  BY <1>1, <1>5 DEF IsWeakStruct
<1>14. Suspects' = Suspects
  BY <1>1, <1>12, <1>13 DEF Suspects
<1> QED BY <1>4, <1>5, <1>6, <1>11, <1>14

(* The one thing a typedef mentions.                                       *)
LEMMA AliasIs ==
  ASSUME Inv, NamesAreLexical, NEW d \in Ids, \A j \in DOMAIN D(d).refs : Good(d, j)
  PROVE  \/ AliasOf(d) = {} /\ TypeOf(d) = 0
         \/ \E t \in Ids : AliasOf(d) = {t} /\ TypeOf(d) = dtype[t] /\ Settled(t)
<1>1. D(d).refs \in Seq(Mention) /\ DOMAIN D(d).refs = 1 .. Len(D(d).refs) /\ Len(D(d).refs) \in Nat
  BY ProgramFacts DEF Inv, Declaration
<1>2. CASE D(d).kind \notin {"Typedef", "WeakTypedef"}
  BY <1>2 DEF AliasOf, TypeOf
<1>3. CASE D(d).kind \in {"Typedef", "WeakTypedef"}
  <2>1. Len(D(d).refs) = 1
    BY <1>3, Prog DEF WellShaped, Inv
  <2>2. Refs(d) = {D(d).refs[1]} /\ 1 \in DOMAIN D(d).refs /\ D(d).refs # <<>>
    <3>1. DOMAIN D(d).refs = {1}
      BY <1>1, <2>1
    <3>2. Refs(d) = {D(d).refs[1]}
      BY <3>1 DEF Refs
    <3>3. D(d).refs # <<>>
      BY <1>1, <2>1
    <3> QED BY <3>1, <3>2, <3>3
  <2>3. CASE D(d).refs[1].form # "ident"
    BY <1>3, <2>2, <2>3 DEF AliasOf, TypeOf
  <2>4. CASE D(d).refs[1].form = "ident"
    <3>1. PICK t \in Ids : t = bound[d][1] /\ Settled(t) /\ t # 0
      BY <2>2, ProgramFacts DEF Good, GoodName, Usable, Inv
    <3>2. t = Target(d, D(d).refs[1])
      BY <2>2, <3>1, BoundIsTarget
    <3>3. {r \in Refs(d) : r.form = "ident"} = {D(d).refs[1]}
      BY <2>2, <2>4
    <3>4. {Target(d, m) : m \in {r \in Refs(d) : r.form = "ident"}} = {t}
      BY <3>2, <3>3
    <3>5. AliasOf(d) = {t}
      BY <1>3, <3>1, <3>4 DEF AliasOf
    <3>6. TypeOf(d) = dtype[t]
      BY <1>3, <2>2, <2>4, <3>1 DEF TypeOf
    <3> QED BY <3>1, <3>5, <3>6
  <2> QED BY <2>3, <2>4
<1> QED BY <1>2, <1>3

(* What a step settles: a struct that is registered, or the declaration    *)
(* whose call returns.                                                     *)
LEMMA NewlyPlaced ==
  ASSUME Inv, Inv2, [Next]_vars, NEW d \in Ids, Placed(d)', ~Placed(d)
  PROVE  /\ Running /\ (NameResolved \/ AggregateCompleted) /\ d = Top.d /\ stack # <<>>
         /\ \A j \in DOMAIN D(d).refs : Good(d, j)
         /\ d \notin Taken(D(d).pkg)
<1>1. UNCHANGED prog
  BY FactsChange
<1>2. ~UNCHANGED ordered
  BY <1>1, SameMeaning DEF Placed
<1>3. Running /\ (NameResolved \/ AggregateCompleted)
  BY <1>2, FactsChange DEF RegisterDecls, NameFound
<1>4. Lists /\ Course /\ stack # <<>> /\ Proper(Top) /\ Top.d \in Ids /\ ~Placed(Top.d)
  BY <1>3, StepIsSmooth
<1>5. Append1(Top.d)
  BY <1>3 DEF NameResolved, AggregateCompleted
<1>6. d = Top.d
  BY <1>1, <1>4, <1>5, PlacedInList
<1>7. ~MoreRefs /\ ~(Top.fn = "agg" /\ tkind[Top.d] = "Error")
  BY <1>3 DEF NameResolved, AggregateCompleted, Finished
<1>8. \A j \in DOMAIN D(d).refs : Good(d, j)
  BY <1>3, <1>4, <1>6, <1>7, FinishedIsGood DEF Course
<1>9. d \notin Taken(D(d).pkg)
  BY <1>4, <1>6, TurnFacts DEF Proper, IsRefused, Inv
<1> QED BY <1>3, <1>4, <1>6, <1>8, <1>9

LEMMA BehindIsTypeStep ==
  ASSUME Inv, Inv2, NamesAreLexical, BehindIsType, [Next]_vars
  PROVE  BehindIsType'
<1>1. UNCHANGED prog /\ Smooth
  BY FactsChange, StepIsSmooth
<1>2. Ids' = Ids /\ \A d : (IsAgg(d)' <=> IsAgg(d)) /\ StructsBehind(d)' = StructsBehind(d)
  BY <1>1, SameMeaning, SameGraph
<1>3. ASSUME NEW t \in Ids, Settled(t)'
      PROVE  StructsBehind(t) = IF dtype'[t] = 0 THEN {} ELSE {dtype'[t]}
  <2>1. CASE Settled(t)
    BY <1>1, <2>1 DEF Smooth, BehindIsType
  <2>2. CASE IsAgg(t)
    <3>1. dtype'[t] = t /\ t # 0
      BY <1>2, <1>3, <2>2, ProgramFacts DEF Settled, Inv
    <3> QED BY <2>2, <3>1, BehindIs DEF Inv
  <2>3. CASE ~Settled(t) /\ ~IsAgg(t)
    <3>1. Placed(t)' /\ ~Placed(t)
      BY <1>2, <1>3, <2>3 DEF Settled
    <3>2. /\ Running /\ (NameResolved \/ AggregateCompleted) /\ t = Top.d /\ stack # <<>>
          /\ \A j \in DOMAIN D(t).refs : Good(t, j)
      BY <3>1, NewlyPlaced
    <3>3. Proper(Top) /\ Top.fn \in {"name", "agg"}
      BY <3>2, StepIsSmooth DEF NameResolved, AggregateCompleted, Finished
    <3>4. NameResolved
      BY <2>3, <3>2, <3>3 DEF Proper, AggregateCompleted, Finished
    <3>5. dtype'[t] = TypeOf(t)
      BY <3>2, <3>4 DEF NameResolved, Inv, Results
    <3>6. CASE AliasOf(t) = {} /\ TypeOf(t) = 0
      BY <2>3, <3>5, <3>6, BehindIs DEF Inv
    <3>7. CASE \E a \in Ids : AliasOf(t) = {a} /\ TypeOf(t) = dtype[a] /\ Settled(a)
      <4>1. PICK a \in Ids : AliasOf(t) = {a} /\ TypeOf(t) = dtype[a] /\ Settled(a)
        BY <3>7
      <4>2. StructsBehind(t) = StructsBehind(a)
        BY <2>3, <4>1, BehindIs DEF Inv
      <4> QED BY <3>5, <4>1, <4>2 DEF BehindIsType
    <3> QED BY <3>2, <3>6, <3>7, AliasIs
  <2> QED BY <2>1, <2>2, <2>3
<1> QED BY <1>2, <1>3 DEF BehindIsType

(* A declaration of which all mentions are good can be done.               *)
LEMMA GoodIsNotDoomed ==
  ASSUME Inv, NamesAreLexical, BehindIsType, NoneDoomed, NEW d \in Ids, d \notin Taken(D(d).pkg),
         \A j \in DOMAIN D(d).refs : Good(d, j)
  PROVE  Whole(d) \notin Doomed
<1> SUFFICES ASSUME Whole(d) \in Doomed PROVE FALSE
  OBVIOUS
<1>1. \A m \in Refs(d) : \E t \in Ids : /\ t = Target(d, m) /\ t # 0 /\ Usable(d, t) /\ IsRightKind(t, m)
                                        /\ NeedsLayout(d, m) => IsLaid(t)
  <2> TAKE m \in Refs(d)
  <2>1. PICK j \in DOMAIN D(d).refs : m = D(d).refs[j]
    BY DEF Refs
  <2>2. PICK t \in Ids : t = bound[d][j] /\ t # 0 /\ Good(d, j)
    BY ProgramFacts DEF Good, GoodName, Usable, Inv
  <2>3. t = Target(d, m)
    BY <2>1, <2>2, BoundIsTarget
  <2> QED BY <2>1, <2>2, <2>3 DEF Good, GoodName
<1>2. ~Wrong(Whole(d))
  <2>1. ~MentionsWrongly(d)
    BY <1>1 DEF MentionsWrongly, Usable
  <2> QED BY <2>1, WholeIs DEF Wrong, IsTaken
<1>3. PICK t \in Needs(Whole(d)) : t \in Doomed
  BY <1>2, DoomedIs
<1>4. CASE \E x \in Mentions(d) : t = <<"name", x>>
  <2>1. PICK x \in Mentions(d) : t = <<"name", x>>
    BY <1>4
  <2>2. PICK m \in Refs(d) : x = Target(d, m)
    BY <2>1 DEF Mentions
  <2>3. Usable(d, x) /\ x \in Ids
    BY <1>1, <2>2
  <2>4. CASE IsAgg(x)
    <3>1. Whole(t[2]) # t /\ t[2] = x
      BY <2>1, <2>3, <2>4, WholeIs
    <3>2. ~Wrong(t) /\ Needs(t) = {}
      BY <2>3, <3>1 DEF Wrong, IsTaken, Usable, Needs
    <3> QED BY <1>3, <3>2, DoomedIs
  <2>5. CASE ~IsAgg(x)
    <3>1. Placed(x) /\ Whole(x) = t
      BY <2>1, <2>3, <2>5, WholeIs DEF Usable, Settled
    <3> QED BY <1>3, <2>3, <3>1 DEF NoneDoomed
  <2> QED BY <2>4, <2>5
<1>5. CASE \E m \in Refs(d) : \E s \in StructsBehind(Target(d, m)) :
              SizeMatters(d, m) /\ Target(d, m) # 0 /\ t = <<"layout", s>>
  <2>1. PICK m \in Refs(d) : \E s \in StructsBehind(Target(d, m)) : SizeMatters(d, m) /\ t = <<"layout", s>>
    BY <1>5
  <2>2. PICK s \in StructsBehind(Target(d, m)) : SizeMatters(d, m) /\ t = <<"layout", s>>
    BY <2>1
  <2>3. PICK x \in Ids : x = Target(d, m) /\ Usable(d, x) /\ (NeedsLayout(d, m) => IsLaid(x))
    BY <1>1
  <2>4. IsLaid(x)
    BY <2>2, <2>3, SizesNeedLayouts DEF Inv
  <2>5. dtype[x] # 0 /\ s = dtype[x]
    BY <2>2, <2>3 DEF BehindIsType, Usable
  <2>6. Placed(s) /\ s \in Ids /\ IsAgg(s)
    BY <2>2, <2>3, <2>4, <2>5 DEF IsLaid, Inv, Results, StructsBehind
  <2>7. Whole(s) = t
    BY <2>2, <2>6, WholeIs
  <2> QED BY <1>3, <2>6, <2>7 DEF NoneDoomed
<1> QED BY <1>3, <1>4, <1>5, NeedsOfWhole

LEMMA NoneDoomedStep ==
  ASSUME Inv, Inv2, NamesAreLexical, BehindIsType, NoneDoomed, [Next]_vars
  PROVE  NoneDoomed'
<1>1. UNCHANGED prog
  BY FactsChange
<1>2. Ids' = Ids /\ Doomed' = Doomed /\ \A d : Whole(d)' = Whole(d)
  BY <1>1, SameMeaning, SameGraph
<1>3. \A d \in Ids : Placed(d)' => Whole(d) \notin Doomed
  <2> TAKE d \in Ids
  <2> HAVE Placed(d)'
  <2>1. CASE Placed(d)
    BY <2>1 DEF NoneDoomed
  <2>2. CASE ~Placed(d)
    <3>1. d \notin Taken(D(d).pkg) /\ \A j \in DOMAIN D(d).refs : Good(d, j)
      BY <2>2, NewlyPlaced
    <3> QED BY <3>1, GoodIsNotDoomed
  <2> QED BY <2>1, <2>2
<1> QED BY <1>2, <1>3 DEF NoneDoomed

(* A struct that was marked stays marked.                                  *)
LEMMA AggregateStaysWrong ==
  ASSUME Inv, Inv2, [Next]_vars, NEW s \in Ids, IsAgg(s), dstate[s] = "Error"
  PROVE  dstate'[s] = "Error"
<1>1. \A t, below : ResolveName(t, below) => dstate'[s] = "Error"
  BY DEF ResolveName, MarkDeclError, Inv, Marks
<1>2. \A t, below : ResolveTypeAggregate(t, below) => dstate'[s] = "Error"
  BY DEF ResolveTypeAggregate, TypeIsKnown, TypeIsCyclic, BeginAggregate, MarkDeclError, Inv, Marks
<1>3. \A d : MarkDeclError(d) => dstate'[s] = "Error"
  BY DEF MarkDeclError, Inv, Marks
<1>4. CASE RegisterDecls
  <2>1. Course /\ ~Known(pkg)
    BY <1>4, TurnFacts DEF RegisterDecls, Inv2, Known, AllKnown, Inv
  <2>2. Known(Turn(s))
    BY <2>1 DEF Course, Declarations, Declared
  <2>3. s \notin Own(Here)
    BY <2>1, <2>2, TurnFacts DEF Own, Inv, Here
  <2> QED BY <1>4, <2>3 DEF RegisterDecls
<1>5. CASE Running /\ NameResolved
  <2>1. Proper(Top) /\ Top.fn = "name"
    BY <1>5, StepIsSmooth DEF NameResolved, Finished
  <2>2. s # Top.d
    BY <2>1 DEF Proper
  <2> QED BY <1>5, <2>2 DEF NameResolved, Inv, Marks
<1>6. CASE UNCHANGED dstate
  BY <1>6
<1>7. CASE Resolve
  BY <1>1, <1>2, <1>3, <1>5, <1>6, <1>7 DEF Resolve, LookUpName, NameFound, WrongKind, NameFails, WeakAggregate,
     CompleteType, TypeCompleted, MemberFails, AggregateFails, AggregateCompleted, NoteFails, NoteResolved
<1> QED BY <1>1, <1>2, <1>4, <1>6, <1>7 DEF Next, vars, ResolveDecl, ResolveNote, ResolveIncompleteType, PassOver,
           NextPackage, AssertAggregate, ReadDeclOfNote

LEMMA WeakOkStep ==
  ASSUME Inv, Inv2, WeakOk, [Next]_vars
  PROVE  WeakOk'
<1>1. UNCHANGED prog /\ Smooth /\ Lists
  BY FactsChange, StepIsSmooth DEF Inv2
<1>2. Ids' = Ids /\ \A d : D(d)' = D(d) /\ (IsAgg(d)' <=> IsAgg(d))
  BY <1>1, SameMeaning
<1>3. \A s \in Ids : IsAgg(s) /\ dstate[s] = "Error" => dstate'[s] = "Error"
  BY AggregateStaysWrong
<1>4. ASSUME NEW d \in Ids, Placed(d)', D(d).kind = "WeakTypedef", dtype'[d] # 0
      PROVE  dstate'[dtype'[d]] = "Error"
  <2>1. ~IsAgg(d)
    BY <1>4 DEF IsAgg, Aggregates
  <2>2. CASE Placed(d)
    <3>1. dtype'[d] = dtype[d] /\ dtype[d] \in Ids
      BY <1>1, <1>4, <2>1, <2>2 DEF Smooth, Settled, Inv, Results
    <3>2. dstate[dtype[d]] = "Error" /\ IsAgg(dtype[d])
      BY <1>1, <1>4, <2>2, <3>1 DEF WeakOk, Lists, TypeIsStruct
    <3> QED BY <1>3, <3>1, <3>2
  <2>3. CASE ~Placed(d)
    <3>1. /\ Running /\ (NameResolved \/ AggregateCompleted) /\ d = Top.d
          /\ \A j \in DOMAIN D(d).refs : Good(d, j)
      BY <1>4, <2>3, NewlyPlaced
    <3>2. Proper(Top)
      BY <3>1, StepIsSmooth
    <3>3. NameResolved
      BY <2>1, <3>1, <3>2 DEF Proper, AggregateCompleted, Finished
    <3>4. dtype'[d] = TypeOf(d) /\ ~IsWeakAggregate(d) /\ \A x \in Ids : x # d => dstate'[x] = dstate[x]
      BY <3>1, <3>3 DEF NameResolved, Inv, Results, Marks
    <3>5. dstate[TypeOf(d)] = "Error"
      BY <1>4, <3>4 DEF IsWeakAggregate
    <3>6. TypeOf(d) \in Ids /\ IsAgg(TypeOf(d))
      <4>1. Inv' /\ Inv2'
        BY InvStep, Inv2Step
      <4>2. dtype'[d] \in Ids /\ IsAgg(dtype[d])'
        BY <1>2, <1>4, <4>1 DEF Inv, Results, Inv2, Lists, TypeIsStruct
      <4>3. PICK x : x = dtype'[d]
        OBVIOUS
      <4>4. x \in Ids /\ IsAgg(x)'
        BY <4>2, <4>3
      <4> QED BY <1>2, <3>4, <4>3, <4>4
    <3> QED BY <2>1, <3>4, <3>5, <3>6
  <2> QED BY <2>2, <2>3
<1> QED BY <1>2, <1>4 DEF WeakOk

(* What is known of the notes that are behind the loop.                    *)
NotesAreGood ==
  \A d \in Ids : ~Named(d) /\ Visited(d) /\ ~OnStack(d) /\ d \notin noteErr => \A j \in DOMAIN D(d).refs : Good(d, j)
Notes == pass # "crashed" => NotesAreGood

LEMMA NotesStay ==
  ASSUME Inv, Inv2, NotesAreGood, [Next]_vars,
         \A d \in Ids : ~Named(d) /\ Visited(d)' /\ ~OnStack(d)' /\ d \notin noteErr' =>
                         Visited(d) /\ ~OnStack(d) /\ bound'[d] = bound[d],
         noteErr \subseteq noteErr'
  PROVE  NotesAreGood'
<1>1. UNCHANGED prog /\ Smooth
  BY FactsChange, StepIsSmooth
<1>2. Ids' = Ids /\ \A d : (Named(d)' <=> Named(d)) /\ D(d)' = D(d)
  BY <1>1, SameMeaning
<1>3. ASSUME NEW d \in Ids, ~Named(d), Visited(d)', ~OnStack(d)', d \notin noteErr', NEW j \in DOMAIN D(d).refs
      PROVE  Good(d, j)'
  <2>1. Good(d, j) /\ bound'[d] = bound[d]
    BY <1>3 DEF NotesAreGood
  <2> QED BY <1>1, <2>1, GoodStays
<1> QED BY <1>2, <1>3 DEF NotesAreGood

(* The loop leaves a note behind when its call returns.                    *)
LEMMA NoteResolvedIsGood ==
  ASSUME Inv, Inv2, Course, NotesAreGood, Running, NoteResolved
  PROVE  NotesAreGood'
<1>1. /\ UNCHANGED <<prog, pkg, pass, next, bound, dtype, ordered, noteErr>> /\ stack # <<>> /\ ~MoreRefs
      /\ Top.fn = "note" /\ stack' = Tail(stack)
  BY DEF NoteResolved, Finished, flow, facts, Answer
<1>2. Smooth /\ Calls
  BY <1>1, SmoothLists DEF Course
<1>3. Ids' = Ids /\ \A d : (Named(d)' <=> Named(d)) /\ D(d)' = D(d)
  BY <1>1, SameMeaning
<1>4. \A d \in Ids : Visited(d)' <=> Visited(d)
  BY <1>1, SameTurn
<1>5. \A j \in DOMAIN D(Top.d).refs : Good(Top.d, j)
  BY <1>1, <1>2, FinishedIsGood
<1>6. \A d : OnStack(d) => OnStack(d)' \/ d = Top.d
  BY <1>1, OnTail, OnStackIs
<1>7. ASSUME NEW d \in Ids, ~Named(d), Visited(d)', ~OnStack(d)', d \notin noteErr', NEW j \in DOMAIN D(d).refs
      PROVE  Good(d, j)'
  <2>1. Good(d, j)
    BY <1>1, <1>4, <1>5, <1>6, <1>7 DEF NotesAreGood
  <2> QED BY <1>1, <1>2, <2>1, GoodStays
<1> QED BY <1>3, <1>7 DEF NotesAreGood

LEMMA Wider ==
  ASSUME NEW S, NEW f, NEW st \in Seq(S)
  PROVE  st \in Seq(S \cup {f})
<1>1. Len(st) \in Nat /\ DOMAIN st = 1 .. Len(st) /\ \A i \in 1 .. Len(st) : st[i] \in S
  OBVIOUS
<1>2. st = [i \in 1 .. Len(st) |-> st[i]]
  OBVIOUS
<1>3. \A i \in 1 .. Len(st) : st[i] \in S \cup {f}
  BY <1>1
<1>4. [i \in 1 .. Len(st) |-> st[i]] \in Seq(S \cup {f})
  BY <1>1, <1>3
<1> QED BY <1>2, <1>4

(* Who is still on the stack after a step of the recursion.                *)
LEMMA KeptByPush ==
  ASSUME NEW f, NEW S, f \in S, NEW st \in Seq(S), stack' = <<f>> \o st
  PROVE  OnStack(f.d)' /\ \A k \in DOMAIN st : \A x : x = st[k].d => OnStack(x)'
<1>1. /\ (<<f>> \o st)[1] = f /\ Len(st) \in Nat
      /\ DOMAIN (<<f>> \o st) = 1 .. Len(st) + 1
      /\ \A k \in 2 .. Len(st) + 1 : (<<f>> \o st)[k] = st[k - 1] /\ k - 1 \in DOMAIN st
  BY PushedStack
<1>2. DOMAIN st = 1 .. Len(st)
  OBVIOUS
<1>3. \A k \in DOMAIN st : k + 1 \in 2 .. Len(st) + 1 /\ (k + 1) - 1 = k /\ k + 1 \in 1 .. Len(st) + 1
  BY <1>1, <1>2
<1>4. \A k \in DOMAIN st : k + 1 \in DOMAIN stack' /\ stack'[k + 1] = st[k]
  BY <1>1, <1>3
<1>5. 1 \in DOMAIN stack' /\ stack'[1] = f
  BY <1>1
<1> QED BY <1>4, <1>5, OnStackIs

LEMMA KeptOnStack ==
  ASSUME Inv, Inv2, Running, Resolve, NEW d, OnStack(d), stack # <<>> => d # Top.d
  PROVE  OnStack(d)'
<1>1. stack \in Seq(Frames) /\ stack # <<>>
  BY DEF Inv, Walk, OnStack
<1>2. PICK k \in DOMAIN Tail(stack) : Tail(stack)[k].d = d
  BY <1>1, OnTail
<1>3. Tail(stack) \in Seq(Frames) /\ Top \in Frames
  BY <1>1, PoppedStack DEF Top
<1>4. CASE stack' = Tail(stack)
  BY <1>2, <1>4, OnStackIs
<1>5. CASE UNCHANGED stack
  BY <1>5, OnStackIs
<1>6. ASSUME NEW f, stack' = <<f>> \o stack
      PROVE  OnStack(d)'
  <2>1. stack \in Seq(Frames \cup {f}) /\ f \in Frames \cup {f}
    BY <1>1, Wider
  <2>2. PICK j \in DOMAIN stack : d = stack[j].d
    BY DEF OnStack
  <2> QED BY <1>6, <2>1, <2>2, KeptByPush
<1>7. ASSUME NEW f, Continue(f)
      PROVE  OnStack(d)'
  <2>1. Tail(stack) \in Seq(Frames \cup {f}) /\ f \in Frames \cup {f}
    BY <1>3, Wider
  <2> QED BY <1>2, <1>7, <2>1, KeptByPush DEF Continue
<1>8. \A t : ResolveName(t, stack) => OnStack(d)'
  BY <1>5, <1>6 DEF ResolveName, Answer
<1>9. \A s : ResolveTypeAggregate(s, stack) => OnStack(d)'
  BY <1>5, <1>6 DEF ResolveTypeAggregate, TypeIsKnown, TypeIsCyclic, BeginAggregate, Answer
<1>10. CASE NameFound \/ TypeCompleted \/ MemberFails
  BY <1>7, <1>10 DEF NameFound, TypeCompleted, MemberFails, NextRef
<1>11. CASE NameFails \/ NameResolved \/ WeakAggregate \/ AggregateFails \/ AggregateCompleted \/ NoteFails \/ NoteResolved
  BY <1>4, <1>11 DEF NameFails, NameResolved, WeakAggregate, AggregateFails, AggregateCompleted, NoteFails, NoteResolved,
                     Answer, Finished
<1> QED BY <1>5, <1>8, <1>9, <1>10, <1>11 DEF Resolve, LookUpName, CompleteType, WrongKind

(* The frame on top stays there unless its call returns.                   *)
LEMMA KeptTop ==
  ASSUME Inv, Inv2, Running, Resolve, stack # <<>>, NEW d, d = Top.d,
         ~(NameFails \/ NameResolved \/ WeakAggregate \/ AggregateFails \/ AggregateCompleted \/ NoteFails \/ NoteResolved)
  PROVE  OnStack(d)'
<1>1. stack \in Seq(Frames) /\ 1 \in DOMAIN stack
  BY PoppedStack DEF Inv, Walk
<1>2. OnStack(d)
  BY <1>1 DEF OnStack, Top
<1>3. Tail(stack) \in Seq(Frames) /\ Top \in Frames
  BY <1>1, PoppedStack DEF Top
<1>4. CASE UNCHANGED stack
  BY <1>2, <1>4, OnStackIs
<1>5. ASSUME NEW f, stack' = <<f>> \o stack
      PROVE  OnStack(d)'
  <2>1. stack \in Seq(Frames \cup {f}) /\ f \in Frames \cup {f}
    BY <1>1, Wider
  <2>2. d = stack[1].d
    BY DEF Top
  <2> QED BY <1>1, <1>5, <2>1, <2>2, KeptByPush
<1>6. ASSUME NEW f, Continue(f), f.d = d
      PROVE  OnStack(d)'
  <2>1. Tail(stack) \in Seq(Frames \cup {f}) /\ f \in Frames \cup {f}
    BY <1>3, Wider
  <2>2. \A x : x = f.d => OnStack(x)'
    BY <1>6, <2>1, KeptByPush DEF Continue
  <2> QED BY <1>6, <2>2
<1>7. \A t : ResolveName(t, stack) => OnStack(d)'
  BY <1>4, <1>5 DEF ResolveName, Answer
<1>8. \A s : ResolveTypeAggregate(s, stack) => OnStack(d)'
  BY <1>4, <1>5 DEF ResolveTypeAggregate, TypeIsKnown, TypeIsCyclic, BeginAggregate, Answer
<1>9. [Top EXCEPT !.need = "type"].d = d /\ [Top EXCEPT !.i = @ + 1, !.need = "name"].d = d
  BY <1>2, <1>3 DEF Frames
<1>10. CASE NameFound \/ TypeCompleted \/ MemberFails
  <2>1. CASE Continue([Top EXCEPT !.need = "type"])
    BY <1>6, <1>9, <2>1
  <2>2. CASE Continue([Top EXCEPT !.i = @ + 1, !.need = "name"])
    BY <1>6, <1>9, <2>2
  <2> QED BY <1>10, <2>1, <2>2 DEF NameFound, TypeCompleted, MemberFails, NextRef
<1> QED BY <1>4, <1>7, <1>8, <1>10 DEF Resolve, LookUpName, WrongKind, CompleteType

(* The recursion keeps what the loop knows of the notes behind it.         *)
LEMMA NotesInResolve ==
  ASSUME Inv, Inv2, NotesAreGood, Running, Resolve, ~NoteResolved
  PROVE  NotesAreGood'
<1>1. UNCHANGED flow /\ UNCHANGED prog /\ noteErr \subseteq noteErr'
  BY DEF Resolve, LookUpName, ResolveName, NameFound, WrongKind, NameFails, NameResolved, WeakAggregate,
         CompleteType, ResolveTypeAggregate, TypeIsKnown, TypeIsCyclic, BeginAggregate, TypeCompleted,
         MemberFails, AggregateFails, AggregateCompleted, NoteFails, NoteResolved, facts
<1>2. \A d : Visited(d)' <=> Visited(d)
  BY <1>1, SameTurn DEF flow
<1>3. stack # <<>> /\ Calls
  BY DEF Resolve, LookUpName, NameFound, WrongKind, NameFails, NameResolved, WeakAggregate, CompleteType, TypeCompleted,
         MemberFails, AggregateFails, AggregateCompleted, NoteFails, Calling, Called, Finished, Inv2, Course, Running
<1>4. Proper(Top) /\ Top.d \in Ids
  BY <1>3, TopIsProper
<1>5. NoteFails => Top.d \in noteErr'
  BY DEF NoteFails
<1>6. \A d \in Ids : NameFound /\ d # Top.d => bound'[d] = bound[d]
  BY DEF NameFound, Inv, Results
<1>7. ~NameFound => UNCHANGED bound
  BY DEF Resolve, LookUpName, ResolveName, WrongKind, NameFails, NameResolved, WeakAggregate,
         CompleteType, ResolveTypeAggregate, TypeIsKnown, TypeIsCyclic, BeginAggregate, TypeCompleted,
         MemberFails, AggregateFails, AggregateCompleted, NoteFails, facts
<1>8. \A d : ~Named(d) /\ d = Top.d => ~(NameFails \/ NameResolved \/ WeakAggregate \/ AggregateFails \/ AggregateCompleted)
  BY <1>4 DEF NameFails, NameResolved, WeakAggregate, AggregateFails, AggregateCompleted, Finished, Proper, IsAgg, Named, Aggregates
<1>9. ASSUME NEW d \in Ids, ~Named(d), ~OnStack(d)', d \notin noteErr'
      PROVE  ~OnStack(d) /\ bound'[d] = bound[d]
  <2>1. d # Top.d
    BY <1>3, <1>5, <1>8, <1>9, KeptTop
  <2>2. ~OnStack(d)
    BY <1>9, <2>1, KeptOnStack
  <2> QED BY <1>6, <1>7, <2>1, <2>2
<1>10. [Next]_vars
  BY DEF Next
<1> QED BY <1>1, <1>2, <1>9, <1>10, NotesStay

LEMMA NotesStep ==
  ASSUME Inv, Inv2, Notes, [Next]_vars
  PROVE  Notes'
<1> SUFFICES ASSUME pass' # "crashed" PROVE NotesAreGood'
  BY DEF Notes
<1>1. CASE UNCHANGED vars
  <2>1. pass # "crashed"
    BY <1>1 DEF vars
  <2>2. UNCHANGED <<pkg, next, pass, prog, stack, bound, noteErr>>
    BY <1>1 DEF vars
  <2>3. \A d : (Visited(d)' <=> Visited(d)) /\ (OnStack(d)' <=> OnStack(d))
    BY <2>2, SameTurn, OnStackIs
  <2> QED BY <2>1, <2>2, <2>3, NotesStay DEF Notes
<1>2. pass = "crashed" => UNCHANGED vars
  BY DEF Next, RegisterDecls, ResolveDecl, ResolveNote, ResolveIncompleteType, PassOver, NextPackage, Resolve,
         AssertAggregate, ReadDeclOfNote, InLoop, Running
<1>3. ASSUME pass # "crashed", stack = <<>>, UNCHANGED <<bound, noteErr>>,
             \A d \in Ids : ~Named(d) /\ Visited(d)' => Visited(d) \/ OnStack(d)'
      PROVE  NotesAreGood'
  <2>1. \A d : ~OnStack(d)
    BY <1>3 DEF OnStack
  <2> QED BY <1>3, <2>1, NotesStay DEF Notes
<1>4. CASE RegisterDecls
  <2>1. /\ pass = "register" /\ pass' = "decls" /\ UNCHANGED <<prog, pkg, next, bound, noteErr>> /\ stack = <<>>
    BY <1>4 DEF RegisterDecls, Inv, Walk
  <2>2. Course
    BY <2>1 DEF Inv2
  <2>3. \A d \in Ids : Visited(d)' => Visited(d)
    BY <2>1, <2>2, SameMeaning DEF Visited, AllKnown, Course, Loops
  <2> QED BY <1>3, <2>1, <2>3
<1>5. CASE ResolveDecl
  <2>1. /\ stack = <<>> /\ pass = "decls" /\ Named(next)
        /\ \A d \in Ids : Visited(d)' => Visited(d) \/ d = next
    BY <1>2, <1>5, LoopAdvances DEF ResolveDecl, Inv2, Course, InLoop
  <2>2. UNCHANGED <<bound, noteErr>>
    BY <1>5 DEF ResolveDecl, ResolveName, facts
  <2> QED BY <1>3, <2>1, <2>2
<1>6. CASE ResolveNote
  <2>1. /\ stack = <<>> /\ pass = "decls" /\ next \in Ids
        /\ \A d \in Ids : Visited(d)' => Visited(d) \/ d = next
    BY <1>6, LoopAdvances DEF ResolveNote, Inv2, Course, InLoop
  <2>2. UNCHANGED <<bound, noteErr>>
    BY <1>6 DEF ResolveNote, facts
  <2>3. PICK f : f = Frame("note", next)
    OBVIOUS
  <2>4. stack \in Seq({f}) /\ f.d = next
    BY <2>1, <2>3 DEF Frame
  <2>5. stack' = <<f>> \o stack
    BY <1>6, <2>1, <2>3 DEF ResolveNote
  <2>6. \A x : x = f.d => OnStack(x)'
    BY <2>4, <2>5, KeptByPush
  <2> QED BY <1>3, <2>1, <2>2, <2>4, <2>6
<1>7. CASE ResolveIncompleteType \/ PassOver
  <2>1. stack = <<>> /\ pass = "incomplete"
    BY <1>7 DEF ResolveIncompleteType, PassOver, InLoop
  <2>2. UNCHANGED <<bound, noteErr>>
    BY <1>7 DEF ResolveIncompleteType, PassOver, ResolveTypeAggregate, TypeIsKnown, TypeIsCyclic, BeginAggregate, facts
  <2> QED BY <1>3, <2>1, <2>2 DEF Visited, AllKnown
<1>8. CASE NextPackage
  <2>1. UNCHANGED <<bound, noteErr, prog>> /\ stack = <<>> /\ pass \in {"decls", "incomplete"}
    BY <1>8 DEF NextPackage, facts, Running
  <2>2. Course
    BY <2>1 DEF Inv2
  <2>3. \A d \in Ids : Visited(d)' => Visited(d)
    <3> DEFINE last == pkg = Len(prog.packages)
    <3>1. /\ pkg' = IF last THEN 1 ELSE pkg + 1
          /\ next' = IF last THEN 1 ELSE next
          /\ pass' = CASE pass = "decls" /\ ~last -> "register"
                   [] pass = "decls" /\ last -> "incomplete"
                   [] pass = "incomplete" /\ ~last -> "incomplete"
                   [] OTHER -> "done"
      BY <1>8 DEF NextPackage
    <3>2. \A d \in Ids : /\ Turn(d) \in Turns /\ Turn(d) \in Nat /\ d \in Nat /\ d >= 1
                         /\ Turn(d) <= pkg => d < next
      BY <1>8, <2>2, PackageIsOver, TurnFacts, ProgramFacts DEF Inv, Course
    <3>3. Turns = 1 .. Len(prog.packages) /\ Len(prog.packages) \in Nat /\ pkg \in Nat /\ pkg <= Len(prog.packages)
          /\ next \in Nat
      BY TurnFacts, ProgramFacts DEF Inv, Program
    <3> QED BY <2>1, <3>1, <3>2, <3>3, SameMeaning DEF Visited, AllKnown
  <2> QED BY <1>3, <2>1, <2>3
<1>9. CASE Resolve
  <2>1. Running /\ pass # "crashed"
    BY <1>9 DEF Resolve, Running
  <2>2. NotesAreGood /\ Course
    BY <2>1 DEF Notes, Inv2
  <2> QED BY <1>9, <2>1, <2>2, NotesInResolve, NoteResolvedIsGood
<1> QED BY <1>1, <1>2, <1>3, <1>4, <1>5, <1>6, <1>7, <1>8, <1>9 DEF Next, AssertAggregate, ReadDeclOfNote

(* Whatever cannot be done was marked when the passes are over.            *)
LEMMA ErrorsReach ==
  ASSUME Inv, Inv2, NamesAreLexical, BehindIsType, NoneDoomed, WeakOk, Notes
  PROVE  ErrorsReachUsers
<1> SUFFICES ASSUME pass = "done"
             PROVE  /\ \A d \in Bad : HasError(d)
                    /\ \A d \in Ids : IsWeakStruct(d) => \E e \in {d} \cup StructsBehind(d) : HasError(e)
  BY DEF ErrorsReachUsers
<1>1. NotesAreGood /\ stack = <<>>
  BY DEF Notes, Inv2, Course, Loops
<1>2. ASSUME NEW d \in Bad
      PROVE  HasError(d)
  <2> SUFFICES ASSUME ~HasError(d) PROVE FALSE
    OBVIOUS
  <2>1. d \in Ids /\ Whole(d) \in Doomed
    BY <1>2 DEF Bad
  <2>2. CASE Named(d)
    <3>1. Placed(d)
      BY <2>1, <2>2, AtTheEnd DEF HasError
    <3> QED BY <2>1, <3>1 DEF NoneDoomed
  <2>3. CASE ~Named(d)
    <3>1. ~OnStack(d) /\ Visited(d)
      BY <1>1 DEF OnStack, Visited, AllKnown
    <3>2. \A j \in DOMAIN D(d).refs : Good(d, j)
      BY <1>1, <2>1, <2>3, <3>1 DEF NotesAreGood, HasError
    <3>3. d \notin Taken(D(d).pkg)
      BY <2>3 DEF Taken, InScope
    <3> QED BY <2>1, <3>2, <3>3, GoodIsNotDoomed
  <2> QED BY <2>2, <2>3
<1>3. ASSUME NEW d \in Ids, IsWeakStruct(d), ~HasError(d)
      PROVE  \E e \in StructsBehind(d) : HasError(e)
  <2>1. Named(d) /\ ~IsAgg(d) /\ D(d).kind = "WeakTypedef" /\ StructsBehind(d) # {}
    BY <1>3 DEF IsWeakStruct, Named, IsAgg, Aggregates
  <2>2. Placed(d)
    BY <1>3, <2>1, AtTheEnd DEF HasError
  <2>3. dtype[d] # 0 /\ StructsBehind(d) = {dtype[d]}
    BY <2>1, <2>2 DEF BehindIsType, Settled
  <2>4. dstate[dtype[d]] = "Error"
    BY <2>1, <2>2, <2>3 DEF WeakOk
  <2> QED BY <2>3, <2>4 DEF HasError
<1> QED BY <1>2, <1>3

---------------------------------------------------------------------------
(* Errors stay local.                                                      *)

Suspect(d) == Reach(d) \cap Suspects # {}
Local ==
  /\ \A d \in Ids : HasError(d) => Suspect(d)
  /\ ret = "error" => Suspect(Top.d)

LEMMA SuspectReached ==
  ASSUME Program, NEW d \in Ids
  PROVE  /\ d \in Suspects => Suspect(d)
         /\ d \in Bad => d \in Suspects
         /\ \A x \in Reach(d) : Suspect(x) => Suspect(d)
<1>1. d \in Reach(d) /\ \A x \in Reach(d) : Reach(x) \subseteq Reach(d)
  BY Reaches
<1>2. d \in Suspects => Suspect(d)
  BY <1>1 DEF Suspect
<1>3. d \in Bad => d \in Suspects
  BY DEF Suspects
<1>4. \A x \in Reach(d) : Suspect(x) => Suspect(d)
  BY <1>1 DEF Suspect
<1> QED BY <1>2, <1>3, <1>4

(* What a frame that is at a mention asks for.                             *)
Asks(g, x) ==
  IF g.need = "name" THEN x = HereFinds[D(g.d).refs[g.i]] ELSE x = dtype[bound[g.d][g.i]]

LEMMA LinkAsks ==
  ASSUME NEW f, NEW g, Link(f, g)
  PROVE  Asks(g, f.d) /\ (f.fn = "name" <=> g.need = "name") /\ f.fn \in {"name", "agg"}
BY DEF Link, Asks

LEMMA NameIsTarget ==
  ASSUME Inv, MembersMeanTheSame, NEW g \in Frames, Proper(g), Waits(g), Turn(g.d) <= pkg
  PROVE  /\ g.d \in Ids /\ D(g.d).refs[g.i] \in Refs(g.d)
         /\ HereFinds[D(g.d).refs[g.i]] = Target(g.d, D(g.d).refs[g.i])
<1>1. g.d \in Ids /\ g.fn \in {"name", "agg", "note"}
  BY DEF Frames
<1>2. D(g.d).refs[g.i] \in Refs(g.d)
  BY DEF Waits, Refs
<1>3. pkg \in Turns /\ Here = prog.packages[pkg]
  BY TurnFacts DEF Inv, Here
<1>4. IsAgg(g.d) \/ Turn(g.d) = pkg
  BY <1>1 DEF Proper
<1>5. Lookup(Here, D(g.d).refs[g.i]) = Target(g.d, D(g.d).refs[g.i])
  BY <1>1, <1>2, <1>3, <1>4, MeansTheSame
<1>6. D(g.d).refs[g.i] \in Mention
  <2>1. D(g.d).refs \in Seq(Mention)
    BY <1>1, ProgramFacts DEF Inv, Declaration
  <2> QED BY <2>1 DEF Waits
<1> QED BY <1>1, <1>2, <1>5, <1>6 DEF HereFinds

LEMMA AskedFor ==
  ASSUME Inv, MembersMeanTheSame, NamesAreLexical, BehindIsType,
         NEW g \in Frames, Proper(g), Waits(g), Turn(g.d) <= pkg, NEW x \in Ids, Asks(g, x)
  PROVE  /\ g.d \in Ids /\ x \in Reach(g.d)
         /\ g.need = "name" => <<"name", x>> \in Needs(Whole(g.d))
         /\ g.need # "name" => IsAgg(x) /\ <<"layout", x>> \in Needs(Whole(g.d))
<1>1. g.d \in Ids /\ D(g.d).refs[g.i] \in Refs(g.d) /\ x # 0
  BY NameIsTarget, ProgramFacts DEF Inv
<1>2. CASE g.need = "name"
  <2>1. x = Target(g.d, D(g.d).refs[g.i])
    BY <1>2, NameIsTarget DEF Asks
  <2>2. x \in Mentions(g.d)
    BY <1>1, <2>1 DEF Mentions
  <2> QED BY <1>1, <1>2, <2>2, Reaches, NeedsOfWhole DEF Inv
<1>3. CASE g.need # "name"
  <2>1. g.need = "type"
    BY <1>3 DEF Frames
  <2>2. PICK m \in Refs(g.d) : m = D(g.d).refs[g.i]
    BY <1>1
  <2>3. PICK t \in Ids : t = bound[g.d][g.i] /\ t # 0 /\ Settled(t) /\ NeedsLayout(g.d, m) /\ IsRightKind(t, m)
    BY <1>1, <2>1, <2>2, ProgramFacts DEF Proper, GoodName, Usable, Inv
  <2>4. t = Target(g.d, m)
    BY <1>1, <2>2, <2>3, BoundIsTarget DEF Waits
  <2>5. x = dtype[t]
    BY <1>3, <2>3 DEF Asks
  <2>6. x \in StructsBehind(t)
    BY <1>1, <2>3, <2>5 DEF BehindIsType
  <2>7. SizeMatters(g.d, m)
    BY <2>3 DEF NeedsLayout, SizeMatters, Aggregates
  <2>8. <<"layout", x>> \in Needs(Whole(g.d))
    BY <1>1, <2>3, <2>4, <2>6, <2>7, NeedsOfWhole
  <2>9. t \in Mentions(g.d)
    BY <2>3, <2>4 DEF Mentions
  <2>10. t \in Reach(g.d) /\ x \in Reach(t) /\ Reach(t) \subseteq Reach(g.d)
    BY <1>1, <2>3, <2>6, <2>9, Reaches DEF Inv
  <2> QED BY <1>1, <1>3, <2>6, <2>8, <2>10 DEF StructsBehind
<1> QED BY <1>2, <1>3

(* Along the stack everything is needed by the frame below it.             *)
LEMMA StackNeeds ==
  ASSUME Inv, Calls, MembersMeanTheSame, Lexical, BehindIsType, NEW k \in DOMAIN stack \ {1}
  PROVE  /\ stack[k - 1].d \in Ids /\ stack[k].d \in Ids
         /\ stack[k - 1].d \in Reach(stack[k].d)
         /\ Whole(stack[k - 1].d) \in Needs(Whole(stack[k].d))
<1>1. /\ stack[k] \in Frames /\ stack[k - 1] \in Frames
      /\ Proper(stack[k]) /\ Proper(stack[k - 1]) /\ Link(stack[k - 1], stack[k]) /\ Waits(stack[k])
  <2>1. stack \in Seq(Frames) /\ AreCalls(stack, ret, bound)
    BY DEF Inv, Walk, Sound
  <2>2. k - 1 \in DOMAIN stack /\ k > 1
    BY <2>1
  <2> QED BY <2>1, <2>2 DEF Calls, Chain, AreCalls
<1>2. PICK f \in Frames : f = stack[k - 1]
  BY <1>1
<1>3. PICK g \in Frames : g = stack[k]
  BY <1>1
<1>4. Asks(g, f.d) /\ (f.fn = "name" <=> g.need = "name") /\ f.fn \in {"name", "agg"} /\ f.d \in Ids
  BY <1>1, <1>2, <1>3, LinkAsks DEF Frames
<1>5. Turn(g.d) <= pkg
  BY <1>3 DEF Lexical, Deep, OnStack
<1>6. /\ g.d \in Ids /\ f.d \in Reach(g.d)
      /\ g.need = "name" => <<"name", f.d>> \in Needs(Whole(g.d))
      /\ g.need # "name" => IsAgg(f.d) /\ <<"layout", f.d>> \in Needs(Whole(g.d))
  BY <1>1, <1>3, <1>4, <1>5, AskedFor DEF Lexical
<1>7. f.fn = "name" => ~IsAgg(f.d)
  BY <1>1, <1>2 DEF Proper
<1>8. Whole(f.d) \in Needs(Whole(g.d))
  BY <1>4, <1>6, <1>7, WholeIs
<1> QED BY <1>2, <1>3, <1>4, <1>6, <1>8

(* Who asks for what is on the stack has found a cycle.                    *)
LEMMA CycleIsBad ==
  ASSUME Inv, Calls, Running, MembersMeanTheSame, Lexical, BehindIsType, stack # <<>>, Waits(Top),
         NEW x \in Ids, OnStack(x), Asks(Top, x), Top.need = "name" => ~IsAgg(x)
  PROVE  x \in Bad
<1>1. PICK k \in DOMAIN stack : stack[k].d = x
  BY DEF OnStack
<1>2. stack \in Seq(Frames) /\ Proper(Top) /\ Top \in Frames /\ OnStack(Top.d)
  BY TopIsProper DEF Inv, Walk
<1>3. DOMAIN stack = 1 .. Len(stack) /\ Len(stack) \in Nat /\ Top = stack[1]
  BY <1>2 DEF Top
<1>4. Whole(x) \in Needs(Whole(Top.d))
  <2>1. Turn(Top.d) <= pkg
    BY <1>2 DEF Lexical, Deep
  <2>2. /\ Top.need = "name" => <<"name", x>> \in Needs(Whole(Top.d))
        /\ Top.need # "name" => IsAgg(x) /\ <<"layout", x>> \in Needs(Whole(Top.d))
    BY <1>2, <2>1, AskedFor DEF Lexical
  <2> QED BY <2>2, WholeIs
<1> DEFINE T == {Whole(stack[j].d) : j \in 1 .. k}
<1>5. ASSUME NEW t \in T
      PROVE  t \in Tasks /\ Needs(t) \cap T # {}
  <2>1. PICK j \in 1 .. k : t = Whole(stack[j].d)
    OBVIOUS
  <2>2. j \in DOMAIN stack /\ k \in 1 .. k
    BY <1>1, <1>3
  <2>3. t \in Tasks
    BY <2>1, <2>2, StackInIds, WholeIs
  <2>4. CASE j = 1
    <3>1. Whole(x) \in Needs(t)
      BY <1>3, <1>4, <2>1, <2>4
    <3>2. Whole(x) \in T
      BY <1>1, <2>2
    <3> QED BY <2>3, <3>1, <3>2
  <2>5. CASE j # 1
    <3>1. Whole(stack[j - 1].d) \in Needs(t)
      BY <2>1, <2>2, <2>5, StackNeeds
    <3>2. j - 1 \in 1 .. k
      BY <1>1, <1>3, <2>5
    <3>3. Whole(stack[j - 1].d) \in T
      BY <3>2
    <3> QED BY <2>3, <3>1, <3>3
  <2> QED BY <2>4, <2>5
<1>6. Whole(x) \in T
  <2>1. k \in 1 .. k
    BY <1>1, <1>3
  <2> QED BY <1>1, <2>1
<1> HIDE DEF T
<1>7. T \subseteq Doomed
  BY <1>5, DoomedIs
<1> QED BY <1>6, <1>7 DEF Bad

LEMMA LocalStays ==
  ASSUME Local, UNCHANGED prog, \A d \in Ids : HasError(d)' => HasError(d) \/ Suspect(d),
         ret' = "error" => \E d : d = Top'.d /\ Suspect(d)
  PROVE  Local'
<1>1. Ids' = Ids /\ \A d : Suspect(d)' <=> Suspect(d)
  BY SameMeaning, SameGraph DEF Suspect
<1>2. \A d \in Ids : HasError(d)' => Suspect(d)'
  BY <1>1 DEF Local
<1>3. ret' = "error" => Suspect(Top.d)'
  BY <1>1
<1> QED BY <1>1, <1>2, <1>3 DEF Local

(* A type is an error only with its declaration, and what is in progress   *)
(* is on the stack.                                                        *)
LEMMA MarksOf ==
  ASSUME Inv, Course, NEW d \in Ids
  PROVE  /\ tkind[d] = "Error" => HasError(d)
         /\ dstate[d] = "Resolving" => OnStack(d) /\ ~IsAgg(d)
         /\ tkind[d] = "Completing" => OnStack(d)
<1>1. Declared(d)
  BY DEF Course, Declarations
<1>2. tkind[d] = "Error" => HasError(d)
  BY <1>1 DEF Declared, HasError
<1>3. dstate[d] = "Resolving" \/ tkind[d] = "Completing" => OnStack(d)
  BY DEF Course, Calls
<1>4. dstate[d] = "Resolving" => ~IsAgg(d)
  BY <1>1 DEF Declared
<1> QED BY <1>2, <1>3, <1>4

LEMMA LookUpNameLocal ==
  ASSUME Inv, Course, Running, MembersMeanTheSame, Lexical, BehindIsType, Local, LookUpName
  PROVE  Local'
<1>1. /\ stack # <<>> /\ Waits(Top) /\ ret = "none" /\ Top.need = "name" /\ UNCHANGED prog
      /\ ResolveName(Lookup(active, Ref), stack)
  BY CallingReady DEF LookUpName, Calling
<1>2. PICK t : t = Lookup(active, Ref)
  OBVIOUS
<1>3. PICK g \in Frames : g = Top /\ Proper(g) /\ OnStack(g.d) /\ g.d \in Ids /\ Turn(g.d) <= pkg
  BY <1>1, TopIsProper DEF Course, Lexical, Deep
<1>4. t = HereFinds[D(g.d).refs[g.i]] /\ t \in Ids \cup {0} /\ Asks(g, t)
  BY <1>1, <1>2, <1>3, RefIs DEF Ref, Asks
<1>5. t = Target(g.d, D(g.d).refs[g.i]) /\ D(g.d).refs[g.i] \in Refs(g.d)
  BY <1>1, <1>3, <1>4, NameIsTarget
<1>6. t # 0 => t \in Reach(g.d)
  BY <1>1, <1>3, <1>4, AskedFor DEF Lexical
<1>7. UNCHANGED noteErr
  BY <1>1 DEF ResolveName, facts
<1>8. CASE t = 0 /\ UNCHANGED <<stack, dstate>>
  <2>1. MentionsWrongly(g.d)
    BY <1>5, <1>8 DEF MentionsWrongly
  <2>2. Suspect(g.d)
    BY <1>3, <2>1, WrongIsBad, SuspectReached DEF Inv
  <2> QED BY <1>1, <1>3, <1>7, <1>8, <2>2, LocalStays DEF HasError, Top
<1>9. CASE t # 0 /\ dstate[t] = "Resolving" /\ UNCHANGED stack /\ MarkDeclError(t)
  <2>1. t \in Ids /\ OnStack(t) /\ ~IsAgg(t)
    BY <1>4, <1>9, MarksOf
  <2>2. t \in Bad
    BY <1>1, <1>3, <1>4, <2>1, CycleIsBad DEF Course
  <2>3. Suspect(t) /\ Suspect(g.d)
    BY <1>3, <1>6, <1>9, <2>1, <2>2, SuspectReached DEF Inv
  <2>4. \A d \in Ids : d # t => dstate'[d] = dstate[d]
    BY <1>9 DEF MarkDeclError, Inv, Marks
  <2> QED BY <1>1, <1>3, <1>7, <1>9, <2>3, <2>4, LocalStays DEF HasError, Top
<1>10. CASE t # 0 /\ dstate[t] \in {"Error", "Resolved"} /\ UNCHANGED <<stack, dstate>>
            /\ (ret' = "error" => dstate[t] = "Error")
  <2>1. ret' = "error" => Suspect(t)
    BY <1>4, <1>10 DEF Local, HasError
  <2>2. ret' = "error" => Suspect(g.d)
    BY <1>3, <1>6, <1>10, <2>1, SuspectReached DEF Inv
  <2> QED BY <1>1, <1>3, <1>7, <1>10, <2>2, LocalStays DEF HasError, Top
<1>11. CASE t # 0 /\ dstate' = [dstate EXCEPT ![t] = "Resolving"] /\ ret' = "none"
  <2>1. \A d \in Ids : dstate'[d] = "Error" => dstate[d] = "Error"
    BY <1>11 DEF Inv, Marks
  <2> QED BY <1>1, <1>7, <1>11, <2>1, LocalStays DEF HasError
<1>12. ResolveName(t, stack)
  BY <1>1, <1>2
<1> QED BY <1>8, <1>9, <1>10, <1>11, <1>12 DEF ResolveName, Answer

LEMMA CompleteTypeLocal ==
  ASSUME Inv, Course, Running, MembersMeanTheSame, Lexical, BehindIsType, Local, CompleteType
  PROVE  Local'
<1>1. /\ stack # <<>> /\ Waits(Top) /\ ret = "none" /\ Top.need = "type" /\ UNCHANGED prog
      /\ ResolveTypeAggregate(dtype[Found], stack)
  BY CallingReady DEF CompleteType, Calling
<1>2. PICK s : s = dtype[Found]
  OBVIOUS
<1>3. PICK g \in Frames : g = Top /\ Proper(g) /\ OnStack(g.d) /\ g.d \in Ids /\ Turn(g.d) <= pkg
  BY <1>1, TopIsProper DEF Course, Lexical, Deep
<1>4. s \in Ids \cup {0} /\ Asks(g, s)
  <2>1. bound[g.d][g.i] \in Ids
    BY <1>1, <1>3 DEF Proper, GoodName, Usable
  <2> QED BY <1>1, <1>2, <1>3, <2>1 DEF Found, Asks, Inv, Results
<1>5. s # 0 => s \in Reach(g.d)
  BY <1>1, <1>3, <1>4, AskedFor DEF Lexical
<1>6. UNCHANGED noteErr
  BY <1>1 DEF ResolveTypeAggregate, TypeIsKnown, TypeIsCyclic, BeginAggregate, facts
<1>7. CASE TypeIsKnown(s, stack)
  <2>1. UNCHANGED <<stack, dstate>> /\ (ret' = "error" => s # 0 /\ tkind[s] = "Error")
    BY <1>7 DEF TypeIsKnown, Answer, KindOf
  <2>2. ret' = "error" => Suspect(s)
    BY <1>4, <2>1, MarksOf DEF Local
  <2>3. ret' = "error" => Suspect(g.d)
    BY <1>3, <1>5, <2>1, <2>2, SuspectReached DEF Inv
  <2> QED BY <1>1, <1>3, <1>6, <2>1, <2>3, LocalStays DEF HasError, Top
<1>8. CASE TypeIsCyclic(s, stack)
  <2>1. s # 0 /\ tkind[s] = "Completing" /\ UNCHANGED stack /\ MarkDeclError(s)
    BY <1>8 DEF TypeIsCyclic, Answer, KindOf
  <2>2. s \in Ids /\ OnStack(s)
    BY <1>4, <2>1, MarksOf
  <2>3. s \in Bad
    BY <1>1, <1>3, <1>4, <2>2, CycleIsBad DEF Course
  <2>4. Suspect(s) /\ Suspect(g.d)
    BY <1>3, <1>5, <2>1, <2>2, <2>3, SuspectReached DEF Inv
  <2>5. \A d \in Ids : d # s => dstate'[d] = dstate[d]
    BY <2>1 DEF MarkDeclError, Inv, Marks
  <2> QED BY <1>1, <1>3, <1>6, <2>1, <2>4, <2>5, LocalStays DEF HasError, Top
<1>9. CASE BeginAggregate(s, stack)
  <2>1. UNCHANGED dstate /\ ret' = "none"
    BY <1>9 DEF BeginAggregate
  <2> QED BY <1>1, <1>6, <2>1, LocalStays DEF HasError
<1> QED BY <1>1, <1>2, <1>7, <1>8, <1>9 DEF ResolveTypeAggregate

LEMMA WrongKindLocal ==
  ASSUME Inv, Course, Running, MembersMeanTheSame, Lexical, Local, WrongKind
  PROVE  Local'
<1>1. /\ stack # <<>> /\ Top.need = "name" /\ ret = "ok" /\ ~IsRightKind(Lookup(active, Ref), Ref)
      /\ UNCHANGED <<prog, stack, dstate, noteErr>>
  BY DEF WrongKind, Called, flow, facts
<1>2. PICK g \in Frames : g = Top /\ Proper(g) /\ Waits(g) /\ g.d \in Ids /\ Turn(g.d) <= pkg
  BY <1>1, TopIsProper, TopOfStack DEF Course, Lexical, Deep
<1>3. PICK m \in Refs(g.d) : m = Ref /\ Lookup(active, Ref) = Target(g.d, m)
  BY <1>1, <1>2, RefIs, NameIsTarget DEF Ref
<1>4. MentionsWrongly(g.d)
  BY <1>1, <1>3 DEF MentionsWrongly
<1>5. Suspect(g.d)
  BY <1>2, <1>4, WrongIsBad, SuspectReached DEF Inv
<1> QED BY <1>1, <1>2, <1>5, LocalStays DEF HasError, Top

(* The frame below a call that returns reaches what the call was about.    *)
LEMMA ReturnIsLocal ==
  ASSUME Inv, Course, Running, MembersMeanTheSame, Lexical, BehindIsType, Local, stack # <<>>,
         UNCHANGED prog, Suspect(Top.d), stack' = Tail(stack), Tail(stack) = <<>> => ret' # "error",
         \A d \in Ids : d # Top.d /\ HasError(d)' => HasError(d)
  PROVE  Local'
<1>1. PICK x \in Ids : x = Top.d
  BY TopIsProper DEF Course
<1>2. ASSUME Tail(stack) # <<>>
      PROVE  \E d : d = Top'.d /\ Suspect(d)
  <2>1. stack \in Seq(Frames)
    BY DEF Inv, Walk
  <2>2. Tail(stack)[1] = stack[2] /\ 2 \in DOMAIN stack \ {1} /\ 2 - 1 = 1
    BY <1>2, <2>1
  <2>3. stack[2 - 1].d \in Reach(stack[2].d) /\ stack[2].d \in Ids
    BY <2>2, StackNeeds DEF Course
  <2>4. x \in Reach(stack[2].d)
    BY <1>1, <2>2, <2>3 DEF Top
  <2>5. Suspect(stack[2].d)
    BY <1>1, <2>3, <2>4, SuspectReached DEF Inv
  <2> QED BY <2>2, <2>5 DEF Top
<1> QED BY <1>1, <1>2, LocalStays

LEMMA WeakIsSuspect ==
  ASSUME NEW d \in Ids, IsWeakStruct(d)
  PROVE  d \in Suspects
<1> DEFINE weak == {a \in Ids : IsWeakStruct(a)}
           others == Bad \cup (UNION {Taken(p) : p \in Packages})
<1>1. Suspects = others \cup weak
  BY DEF Suspects
<1>2. d \in weak
  OBVIOUS
<1> HIDE DEF weak, others
<1> QED BY <1>1, <1>2

(* A weak typedef of a struct.                                             *)
LEMMA WeakAggregateIsWrong ==
  ASSUME Inv, Course, Running, NamesAreLexical, BehindIsType, WeakAggregate
  PROVE  Top.d \in Suspects
<1>1. stack # <<>> /\ ~MoreRefs /\ Top.fn = "name" /\ IsWeakAggregate(Top.d)
  BY DEF WeakAggregate, Finished
<1>2. PICK d \in Ids : d = Top.d /\ Proper(Top)
  BY <1>1, TopIsProper DEF Course
<1>3. D(d).kind = "WeakTypedef" /\ TypeOf(d) # 0 /\ ~IsAgg(d)
  BY <1>1, <1>2 DEF IsWeakAggregate, IsAgg, Aggregates
<1>4. \A j \in DOMAIN D(d).refs : Good(d, j)
  BY <1>1, <1>2, FinishedIsGood DEF Course
<1>5. PICK t \in Ids : AliasOf(d) = {t} /\ TypeOf(d) = dtype[t] /\ Settled(t)
  BY <1>3, <1>4, AliasIs
<1>6. StructsBehind(d) = {dtype[t]}
  BY <1>3, <1>5, BehindIs DEF BehindIsType, Inv
<1>7. IsWeakStruct(d)
  BY <1>3, <1>6 DEF IsWeakStruct
<1> QED BY <1>2, <1>7, WeakIsSuspect

LEMMA ResolveLocal ==
  ASSUME Inv, Course, MembersMeanTheSame, Lexical, BehindIsType, Local, Resolve
  PROVE  Local'
<1>1. Running
  BY DEF Resolve
<1>2. CASE NameFound \/ TypeCompleted \/ NameResolved \/ NoteResolved \/ AggregateCompleted
  <2>1. UNCHANGED <<prog, noteErr>> /\ ret' # "error"
    BY <1>2 DEF NameFound, TypeCompleted, NameResolved, NoteResolved, AggregateCompleted, Continue, NextRef, Answer, flow, facts
  <2>2. \A d \in Ids : dstate'[d] = "Error" => dstate[d] = "Error"
    BY <1>2 DEF NameFound, TypeCompleted, NameResolved, NoteResolved, AggregateCompleted, Inv, Marks
  <2> QED BY <2>1, <2>2, LocalStays DEF HasError
<1>3. CASE MemberFails
  <2>1. stack # <<>> /\ UNCHANGED <<prog, noteErr>> /\ ret' # "error" /\ MarkDeclError(Top.d) /\ Suspect(Top.d)
    BY <1>3 DEF MemberFails, Continue, NextRef, flow, facts, Local
  <2>2. \A d \in Ids : d # Top.d => dstate'[d] = dstate[d]
    BY <2>1 DEF MarkDeclError, Inv, Marks
  <2> QED BY <2>1, <2>2, LocalStays DEF HasError
<1>4. CASE NameFails \/ WeakAggregate \/ AggregateFails \/ NoteFails
  <2>1. stack # <<>> /\ UNCHANGED prog /\ Answer("error", Tail(stack))
    BY <1>4 DEF NameFails, WeakAggregate, AggregateFails, NoteFails, Finished, flow
  <2>2. stack' = Tail(stack) /\ (Tail(stack) = <<>> => ret' # "error")
    BY <2>1 DEF Answer
  <2>3. \A d \in Ids : d # Top.d /\ HasError(d)' => HasError(d)
    <3>1. \A d \in Ids : d # Top.d => dstate'[d] = dstate[d]
      BY <1>4 DEF NameFails, WeakAggregate, AggregateFails, NoteFails, MarkDeclError, Inv, Marks
    <3>2. noteErr' \subseteq noteErr \cup {Top.d}
      BY <1>4 DEF NameFails, WeakAggregate, AggregateFails, NoteFails, facts
    <3> QED BY <3>1, <3>2 DEF HasError
  <2>4. Top.d \in Ids
    BY <1>1, <2>1, TopIsProper DEF Course
  <2>5. CASE NameFails \/ NoteFails
    <3>1. Suspect(Top.d)
      BY <2>5 DEF NameFails, NoteFails, Local
    <3> QED BY <1>1, <2>1, <2>2, <2>3, <3>1, ReturnIsLocal
  <2>6. CASE AggregateFails
    <3>1. tkind[Top.d] = "Error"
      BY <2>6 DEF AggregateFails
    <3>2. Suspect(Top.d)
      BY <2>4, <3>1, MarksOf DEF Local
    <3> QED BY <1>1, <2>1, <2>2, <2>3, <3>2, ReturnIsLocal
  <2>7. CASE WeakAggregate
    <3>1. Suspect(Top.d)
      BY <1>1, <2>4, <2>7, WeakAggregateIsWrong, SuspectReached DEF Inv, Lexical
    <3> QED BY <1>1, <2>1, <2>2, <2>3, <3>1, ReturnIsLocal
  <2> QED BY <1>4, <2>5, <2>6, <2>7
<1> QED BY <1>1, <1>2, <1>3, <1>4, LookUpNameLocal, CompleteTypeLocal, WrongKindLocal DEF Resolve

LEMMA LocalStep ==
  ASSUME Inv, Inv2, MembersMeanTheSame, Lexical, BehindIsType, Local, [Next]_vars
  PROVE  Local'
<1>1. UNCHANGED prog
  BY FactsChange
<1>2. CASE UNCHANGED <<dstate, noteErr, ret, stack>>
  <2>1. ret' = "error" => \E d : d = Top'.d /\ Suspect(d)
    BY <1>2 DEF Local, Top
  <2>2. \A d \in Ids : HasError(d)' => HasError(d)
    BY <1>2 DEF HasError
  <2> QED BY <1>1, <2>1, <2>2, LocalStays
<1>3. CASE RegisterDecls
  <2>1. UNCHANGED noteErr /\ ret' # "error"
    BY <1>3 DEF RegisterDecls, Inv, Walk
  <2>2. \A d \in Ids : dstate'[d] = "Error" => d \in Taken(Here) \/ dstate[d] = "Error"
    BY <1>3 DEF RegisterDecls
  <2>3. Here \in Packages
    BY ProgramFacts DEF Inv, Program, Here
  <2>4. Taken(Here) \subseteq Suspects
    <3>1. Taken(Here) \subseteq UNION {Taken(p) : p \in Packages}
      BY <2>3
    <3> QED BY <3>1 DEF Suspects
  <2>5. \A d \in Ids : HasError(d)' => HasError(d) \/ Suspect(d)
    BY <2>1, <2>2, <2>4, SuspectReached DEF HasError, Inv
  <2> QED BY <1>1, <2>1, <2>5, LocalStays
<1>4. CASE ResolveDecl
  <2>1. Course /\ stack = <<>> /\ ret = "none"
    BY <1>4 DEF ResolveDecl, InLoop, Inv, Walk, Inv2
  <2>2. PICK t : ResolveName(t, <<>>)
    BY <1>4 DEF ResolveDecl
  <2>3. t = Find(InScope(active), D(next).name) => t \in Ids \cup {0}
    BY Finds, ScopesAreIds DEF Inv
  <2>4. \A d \in Ids : dstate[d] # "Resolving"
    BY <2>1 DEF Course, Calls, OnStack
  <2>5. UNCHANGED noteErr /\ ret' # "error"
    BY <2>2 DEF ResolveName, facts, Answer
  <2>6. \A d \in Ids : dstate'[d] = "Error" => dstate[d] = "Error"
    BY <2>2, <2>4 DEF ResolveName, MarkDeclError, Inv, Marks
  <2>7. \A d \in Ids : HasError(d)' => HasError(d)
    BY <2>5, <2>6 DEF HasError
  <2> QED BY <1>1, <2>5, <2>7, LocalStays
<1>5. CASE ResolveNote
  <2>1. UNCHANGED <<noteErr, dstate>> /\ ret' # "error"
    BY <1>5 DEF ResolveNote, InLoop, Inv, Walk, facts
  <2> QED BY <1>1, <2>1, LocalStays DEF HasError
<1>6. CASE ResolveIncompleteType
  <2>1. Course /\ stack = <<>> /\ ret = "none" /\ next \in Ids
    BY <1>6 DEF ResolveIncompleteType, InLoop, Inv, Walk, Inv2, Own
  <2>2. PICK s \in Ids \cup {0} : ResolveTypeAggregate(s, <<>>)
    BY <1>6, <2>1 DEF ResolveIncompleteType, Inv, Results
  <2>3. \A d \in Ids : tkind[d] # "Completing"
    BY <2>1 DEF Course, Calls, OnStack
  <2>4. UNCHANGED <<noteErr, dstate>> /\ ret' # "error"
    BY <2>2, <2>3 DEF ResolveTypeAggregate, TypeIsKnown, TypeIsCyclic, BeginAggregate, facts, Answer, KindOf
  <2> QED BY <1>1, <2>4, LocalStays DEF HasError
<1>7. CASE Resolve
  <2>1. Course
    BY <1>7 DEF Resolve, Running, Inv2
  <2> QED BY <1>7, <2>1, ResolveLocal
<1>8. CASE PassOver \/ NextPackage \/ AssertAggregate \/ ReadDeclOfNote
  BY <1>2, <1>8 DEF PassOver, NextPackage, AssertAggregate, ReadDeclOfNote, facts
<1> QED BY <1>2, <1>3, <1>4, <1>5, <1>6, <1>7, <1>8 DEF Next, vars

(* What is marked, and why.                                                *)
Exact == MembersMeanTheSame => BehindIsType /\ NoneDoomed /\ Local
Inv5 == Inv3 /\ WeakOk /\ Notes /\ Exact

LEMMA InitExact == Init => Inv5
<1> SUFFICES ASSUME Init PROVE Inv5
  OBVIOUS
<1>1. Inv3
  BY InitInv, InitLists, InitSorted DEF Inv3, Meant
<1>2. \A d \in Ids : D(d).pkg \in Packages /\ d \in Nat /\ d >= 1
  BY <1>1, ProgramFacts DEF Inv3, Inv
<1>3. \A d \in Ids : ~Placed(d) /\ dtype[d] # d
  BY <1>2 DEF Init, Placed, IsIn
<1>4. WeakOk /\ NoneDoomed
  BY <1>3 DEF WeakOk, NoneDoomed
<1>5. BehindIsType
  BY <1>3 DEF BehindIsType, Settled
<1>6. Local
  BY DEF Init, Local, HasError
<1>7. \A d \in Ids : ~Visited(d)
  BY <1>1, <1>2, TurnFacts DEF Init, Visited, AllKnown, Inv3, Inv
<1>8. Notes
  BY <1>7 DEF Notes, NotesAreGood
<1> QED BY <1>1, <1>4, <1>5, <1>6, <1>8 DEF Inv5, Exact

LEMMA ExactStep == Inv5 /\ [Next]_vars => Inv5'
<1> SUFFICES ASSUME Inv5, [Next]_vars PROVE Inv5'
  OBVIOUS
<1>1. Inv3' /\ WeakOk' /\ Notes'
  BY Inv3Step, WeakOkStep, NotesStep DEF Inv5, Inv3
<1>2. MembersMeanTheSame' => MembersMeanTheSame
  <2>1. UNCHANGED prog
    BY FactsChange DEF Inv5, Inv3
  <2> QED BY <2>1, SameMeaning DEF MembersMeanTheSame
<1>3. ASSUME MembersMeanTheSame
      PROVE  BehindIsType' /\ NoneDoomed' /\ Local'
  <2>1. Inv /\ Inv2 /\ Lexical /\ NamesAreLexical /\ BehindIsType /\ NoneDoomed /\ Local
    BY <1>3 DEF Inv5, Inv3, Meant, Lexical, Exact
  <2> QED BY <1>3, <2>1, BehindIsTypeStep, NoneDoomedStep, LocalStep
<1> QED BY <1>1, <1>2, <1>3 DEF Inv5, Exact

(* LC_MarkDeclError, LC_ReportASTError: in every program where the members *)
(* of a struct mean the same in the later packages, an error is marked on  *)
(* whatever cannot be done, at whatever distance from the cause, on        *)
(* nothing that reaches no cause, and never without a report.              *)
THEOREM ErrorsExact == Spec => [](MembersMeanTheSame => ErrorsAreExact)
<1>1. Inv5 => (MembersMeanTheSame => ErrorsAreExact)
  <2> SUFFICES ASSUME Inv5, MembersMeanTheSame PROVE ErrorsAreExact
    OBVIOUS
  <2>1. Inv /\ Inv2 /\ NamesAreLexical /\ BehindIsType /\ NoneDoomed /\ Local /\ WeakOk /\ Notes
    BY DEF Inv5, Inv3, Meant, Lexical, Exact
  <2>2. ErrorsReachUsers
    BY <2>1, ErrorsReach
  <2>3. ErrorsStayLocal
    BY <2>1 DEF Local, Suspect, ErrorsStayLocal
  <2> QED BY <2>1, <2>2, <2>3 DEF ErrorsAreExact, Inv
<1> QED BY <1>1, InitExact, ExactStep, PTL DEF Spec
=============================================================================
