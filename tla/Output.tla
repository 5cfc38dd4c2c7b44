------------------------------- MODULE Output --------------------------------
(***************************************************************************)
(* What gets into the C program: the names of global declarations in C     *)
(* (LC_PutGlobalDecl, src/src/compiler/resolver.c), and the extended pass  *)
(* that counts references from the first package, removes what nobody      *)
(* references and reports unused locals (extended_passes.c).               *)
(*                                                                         *)
(* Names are sequences of words: an underscore separates two words, so     *)
(* that different pairs of a package and a name can have one name in C.    *)
(***************************************************************************)
EXTENDS Naturals, Sequences, FiniteSets

CONSTANTS
  Programs,   \* see Program
  First,      \* L->first_package
  MaxDepth    \* bound on the recursion of the walk: the stack of the process

(* The declarations in the order of LC_PutGlobalDecl, and the local        *)
(* variables, numbered after them.  refs is all that the syntax tree of    *)
(* the declaration mentions, in order; that of a procedure includes the    *)
(* initial values of its locals, and only it mentions them.  Only a global *)
(* type is mentioned through an import.                                    *)
Words == Seq(STRING)
Mention == [to : Nat, by : {"name", "import type"}]
Declaration == [pkg : Words, name : Words, note : {"none", "dont_mangle", "foreign"},
                as : Words, refs : Seq(Mention)]
Local == [home : Nat, unused : BOOLEAN, refs : Seq(Mention)]

Mentions(s, p) ==
  \A i \in DOMAIN s : s[i].to \in IF s[i].by = "name" THEN 1..(Len(p.decls) + Len(p.locals))
                                 ELSE DOMAIN p.decls
IsProgram(p) ==
  /\ p \in [decls : Seq(Declaration), locals : Seq(Local)]
  /\ \A i \in DOMAIN p.decls : Mentions(p.decls[i].refs, p)
  /\ \A i \in DOMAIN p.locals : LET l == p.locals[i] IN
       /\ Mentions(l.refs, p) /\ l.home \in DOMAIN p.decls
       /\ \A k \in DOMAIN l.refs : \E j \in DOMAIN p.decls[l.home].refs :
            p.decls[l.home].refs[j] = l.refs[k]
       /\ \A d \in DOMAIN p.decls : \A k \in DOMAIN p.decls[d].refs :
            p.decls[d].refs[k].to = Len(p.decls) + i => d = l.home

ASSUME OutputAssumption == (\A p \in Programs : IsProgram(p)) /\ MaxDepth \in Nat

VARIABLES
  prog,
  pc,       \* "names", "count", "recount", "done"
  at,       \* the declaration the loop of pc is at
  cname,    \* decl->foreign_name, by declaration; <<>> before
  owner,    \* L->foreign_names
  errors,   \* L->errors
  stack,    \* the calls of WalkAndCountDeclRefs: whose tree, and how far
  count,    \* map_of_visits
  removed,  \* the declarations taken out of first_ordered
  unused    \* the locals reported as unused

vars == <<prog, pc, at, cname, owner, errors, stack, count, removed, unused>>

Decls == DOMAIN prog.decls
D(d) == prog.decls[d]
Locals == {Len(prog.decls) + i : i \in DOMAIN prog.locals}
L(l) == prog.locals[l - Len(prog.decls)]
Refs(n) == IF n \in Decls THEN D(n).refs ELSE L(n).refs

Init ==
  /\ prog \in Programs
  /\ pc = "names" /\ at = 1
  /\ cname = [d \in Decls |-> <<>>] /\ owner = <<>> /\ errors = FALSE
  /\ stack = <<>> /\ count = [n \in Decls \cup Locals |-> 0]
  /\ removed = {} /\ unused = {}
-----------------------------------------------------------------------------
(* Names.                                                                  *)

IsMain(d) == D(d).name = <<"main">> /\ D(d).pkg = First

CName(d) ==
  CASE D(d).note = "foreign" -> D(d).as
    [] D(d).note = "dont_mangle" \/ IsMain(d) -> D(d).name
    [] OTHER -> <<"lc">> \o D(d).pkg \o D(d).name

InScope(d) ==                         \* LC_ThereIsNoDecl finds another one
  \E e \in Decls : e < d /\ D(e).pkg = D(d).pkg /\ D(e).name = D(d).name

Conflict_Foreign(d) ==                \* mutant: foreign declarations may share with all
  CName(d) \in DOMAIN owner /\ D(owner[CName(d)]).note # "foreign" /\ D(d).note # "foreign"

Conflict(d) == CName(d) \in DOMAIN owner /\ D(d).note # "foreign"

PutGlobalDecl ==
  /\ pc = "names" /\ at \in Decls /\ at' = at + 1
  /\ IF InScope(at)
     THEN errors' = TRUE /\ UNCHANGED <<cname, owner>>
     ELSE /\ cname' = [cname EXCEPT ![at] = CName(at)]
          /\ IF Conflict(at)
             THEN errors' = TRUE /\ UNCHANGED owner
             ELSE /\ owner' = [n \in DOMAIN owner \cup {CName(at)} |->
                                 IF n = CName(at) THEN at ELSE owner[n]]
                  /\ UNCHANGED errors
  /\ UNCHANGED <<prog, pc, stack, count, removed, unused>>

(* LC_FindUnusedLocalsAndRemoveUnusedGlobalDeclsPass does nothing after an *)
(* error.                                                                  *)
StartPass ==
  /\ pc = "names" /\ at \notin Decls
  /\ pc' = (IF errors THEN "done" ELSE "count") /\ at' = 1
  /\ UNCHANGED <<prog, cname, owner, errors, stack, count, removed, unused>>
-----------------------------------------------------------------------------
(* The walk.                                                               *)

Frame(n) == [of |-> n, next |-> 1]
Top == stack[Len(stack)]
Advanced == [stack EXCEPT ![Len(stack)].next = @ + 1]
Ref == Refs(Top.of)[Top.next]
HasRef == Top.next \in DOMAIN Refs(Top.of)
Walking == pc \in {"count", "recount"} /\ stack # <<>>

(* The first package is walked as a whole, and later what was removed.     *)
IsStart_Main(d) ==                     \* mutant: from main alone
  IF pc = "count" THEN IsMain(d) ELSE d \in removed
IsStart(d) == IF pc = "count" THEN D(d).pkg = First ELSE d \in removed

WalkDecl ==
  /\ pc \in {"count", "recount"} /\ stack = <<>> /\ at \in Decls /\ at' = at + 1
  /\ stack' = IF IsStart(at) THEN <<Frame(at)>> ELSE <<>>
  /\ UNCHANGED <<prog, pc, cname, owner, errors, count, removed, unused>>

Enters_AtHome(n) ==                    \* mutant: stays in the first package
  count[n] = 0 /\ n \in Decls /\ D(n).pkg = First
Enters(n) == count[n] = 0

Visit ==
  /\ Walking /\ HasRef /\ Ref.by = "name"
  /\ count' = [count EXCEPT ![Ref.to] = @ + 1]
  /\ IF Enters(Ref.to)
     THEN Len(stack) < MaxDepth /\ stack' = Append(Advanced, Frame(Ref.to))
     ELSE stack' = Advanced
  /\ UNCHANGED <<prog, pc, at, cname, owner, errors, removed, unused>>

(* WalkAndCountDeclRefs has no case for LC_ASTKind_TypespecField.          *)
PassOver ==
  /\ Walking /\ HasRef /\ Ref.by = "import type"
  /\ stack' = Advanced
  /\ UNCHANGED <<prog, pc, at, cname, owner, errors, count, removed, unused>>

Return ==
  /\ Walking /\ ~HasRef
  /\ stack' = SubSeq(stack, 1, Len(stack) - 1)
  /\ UNCHANGED <<prog, pc, at, cname, owner, errors, count, removed, unused>>
-----------------------------------------------------------------------------
(* LC_RemoveUnreferencedGlobalDeclsPass.                                   *)

Unreferenced(d) == count[d] = 0 /\ cname[d] # <<"main">>

Remove ==
  /\ pc = "count" /\ stack = <<>> /\ at \notin Decls
  /\ removed' = {d \in Decls : Unreferenced(d)}
  /\ pc' = "recount" /\ at' = 1
  /\ UNCHANGED <<prog, cname, owner, errors, stack, count, unused>>

(* LC_ErrorOnUnreferencedLocalsPass.                                       *)
ReportUnused_AtOnce ==                 \* mutant: before the removed ones are walked
  /\ pc = "recount" /\ stack = <<>>
  /\ unused' = {l \in Locals : count[l] = 0 /\ ~L(l).unused}
  /\ errors' = (unused' # {}) /\ pc' = "done"
  /\ UNCHANGED <<prog, at, cname, owner, stack, count, removed>>

ReportUnused ==
  /\ pc = "recount" /\ stack = <<>> /\ at \notin Decls
  /\ unused' = {l \in Locals : count[l] = 0 /\ ~L(l).unused}
  /\ errors' = (unused' # {}) /\ pc' = "done"
  /\ UNCHANGED <<prog, at, cname, owner, stack, count, removed>>

Next ==
  \/ PutGlobalDecl \/ StartPass
  \/ WalkDecl \/ Visit \/ PassOver \/ Return \/ Remove \/ ReportUnused

Spec == Init /\ [][Next]_vars /\ WF_vars(Next)
-----------------------------------------------------------------------------
(* What LC_GenerateUnityBuild prints, when it prints anything.             *)
Generates == pc = "done" /\ ~errors
Kept == Decls \ removed
Printed == {d \in Kept : D(d).note # "foreign"}

TypeOK ==
  /\ pc \in {"names", "count", "recount", "done"} /\ at \in 1..(Cardinality(Decls) + 1)
  /\ count \in [Decls \cup Locals -> Nat] /\ removed \subseteq Decls /\ unused \subseteq Locals
  /\ \A n \in DOMAIN owner : owner[n] \in Decls /\ cname[owner[n]] = n
  /\ \A i \in DOMAIN stack : stack[i].next \in 1..(Len(Refs(stack[i].of)) + 1)

(* "found two global declarations with the same foreign name": no two      *)
(* declarations are printed under one name in C, also when an @foreign one *)
(* has taken the entry over in between, and however package and name are   *)
(* put together.                                                           *)
NamesAreDistinct ==
  pc # "names" /\ ~errors =>
    \A d, e \in Decls : d # e /\ cname[d] = cname[e] => "foreign" \in {D(d).note, D(e).note}

(* The printed program is complete: whatever a printed declaration         *)
(* mentions, through any number of others and around cycles, is there.     *)
OutputIsComplete ==
  Generates => \A d \in Printed : \A i \in DOMAIN Refs(d) : Refs(d)[i].to \notin removed

(* What the pass leaves is exactly what something in the first package, in *)
(* the end, mentions, the declarations of that package included, and what  *)
(* is called main in C: nothing that is reached is removed, and nothing    *)
(* else is kept.                                                           *)
Mentioned(F) == {d \in Decls : \E n \in F : \E i \in DOMAIN Refs(n) : Refs(n)[i].to = d}
Roots == {d \in Decls : D(d).pkg = First}
Reaches(d) == \A F \in SUBSET Decls : Mentioned(Roots) \cup Mentioned(F) \subseteq F => d \in F
KeptIsExact ==
  Generates => Kept = {d \in Decls : cname[d] = <<"main">> \/ Reaches(d)}

(* What is printed is closed under mentioning, and is exactly what is      *)
(* reached.                                                                *)
OutputIsExact == OutputIsComplete /\ KeptIsExact

(* "unused local variable": exactly the locals that no code mentions, be   *)
(* it in a procedure that is printed, removed, or reached only by what was *)
(* removed.                                                                *)
UnusedIsExact ==
  pc = "done" /\ (errors => unused # {}) =>
    unused = {l \in Locals : /\ ~L(l).unused
                             /\ \A d \in Decls : \A i \in DOMAIN Refs(d) : Refs(d)[i].to # l}

=============================================================================
