---------------------------- MODULE DeclResolve ----------------------------
(* Resolution of top level declarations (src/src/compiler/resolve.c).      *)
(*                                                                         *)
(* Declarations may be written in any order, so a declaration is resolved  *)
(* on demand, by recursion from the names it mentions (LC_ResolveName),    *)
(* and the layout of a struct is completed later and by a recursion of its *)
(* own (LC_ResolveTypeAggregate), because a pointer does not need it.      *)
(* The two recursions interleave on one call stack.  Each has its own mark *)
(* for "in progress", which is how cycles are found, and the order in      *)
(* which they finish is the order in which the generated C code declares   *)
(* things.                                                                 *)
(*                                                                         *)
(* A program is a constant of the run: a sequence of declarations, grouped *)
(* by package in the order in which the packages are resolved (module      *)
(* Packages says how that order comes about).                              *)
EXTENDS Naturals, Sequences, FiniteSets

CONSTANTS
    Programs,   \* the programs that may be compiled
    Names,      \* the identifiers they use
    Packages    \* the names of their packages

VARIABLES
    prog,       \* the program being compiled
    pass,       \* which pass over the packages is running
    pkg,        \* the package it is at, an index of prog.packages
    next,       \* the declaration its loop is at
    stack,      \* the calls in progress, innermost first
    ret,        \* what the last call returned to the frame below it
    dstate,     \* decl->state, with "Error" for kind and ast Error as well
    tkind,      \* type->kind of the struct or union a declaration introduces
    dtype,      \* decl->type: the struct or union behind it, or 0
    layout,     \* type->size and align, and the offsets of the members
    value,      \* decl->val of a constant
    bound,      \* which declaration each mention of a name resolved to
    noteErr,    \* the notes whose AST was turned into LC_ASTKind_Error
    ordered,    \* apackage.ext->first_ordered of each package
    active,     \* L->resolver.active_scope, by the package it belongs to
    errors      \* was an error reported (L->errors > 0)

flow == <<pass, pkg, next>>
sizes == <<layout, value>>
facts == <<dtype, bound, ordered, noteErr, sizes>>
vars == <<prog, pass, pkg, next, stack, ret, dstate, tkind, dtype, sizes, bound,
          noteErr, ordered, active, errors>>

---------------------------------------------------------------------------
(* The program.  A mention of a name in a declaration is one of            *)
(*   ident    T          the type itself                                   *)
(*   pointer  *T                                                           *)
(*   array    [N]T                                                         *)
(*   size     [C]int     a constant as the size of an array                *)
(*   value    C          a constant in an expression                       *)
(*   sizeof   sizeof(:T) in an expression                                  *)
(* and goes through a named import when via is a package.                  *)

Forms == {"ident", "pointer", "array", "size", "value", "sizeof"}
Aggregates == {"Struct", "Packed", "Union"}   \* Packed: a struct with the note @packed
Kinds == Aggregates \cup {"Typedef", "WeakTypedef", "Const", "Var", "Proc", "Note"}
Mention == [name : Names, via : Packages \cup {""}, form : Forms]
Declaration == [pkg : Packages, name : Names, kind : Kinds, refs : Seq(Mention)]

(* The forms a mention can have in a declaration of each kind; a typedef   *)
(* mentions one thing, and a constant at most one.                         *)
TypeForms == {"ident", "pointer", "array", "size"}
ConstForms == {"value", "sizeof"}
FormsIn(kind) == CASE kind \in Aggregates \cup {"Typedef", "WeakTypedef"} -> TypeForms
                   [] kind \in {"Const", "Note"} -> ConstForms
                   [] OTHER -> Forms
WellShaped(decl) ==
    /\ \A i \in DOMAIN decl.refs : decl.refs[i].form \in FormsIn(decl.kind)
    /\ decl.kind \in {"Typedef", "WeakTypedef"} => Len(decl.refs) = 1
    /\ decl.kind = "Const" => Len(decl.refs) <= 1

(* What the ordering of the packages hands over: a package comes after the *)
(* ones it imports, and one whose imports circle or take a name from one   *)
(* another is not resolved at all (LC_OrderPackagesAndBasicResolve).       *)
InOrder(p) ==
    LET At(d, k) == p.decls[d].pkg = p.packages[k]
        all == DOMAIN p.decls
        turns == DOMAIN p.packages
    IN  /\ \A k, l \in turns : p.packages[k] = p.packages[l] => k = l
        /\ \A d \in all : \E k \in turns : At(d, k)
        /\ \A d, e \in all : \A k, l \in turns : At(d, k) /\ At(e, l) /\ d < e => k <= l
        /\ \A o \in p.open : \E k, l \in turns : o = <<p.packages[k], p.packages[l]>> /\ l < k
        /\ \A d \in all : \A i \in DOMAIN p.decls[d].refs :
               LET via == p.decls[d].refs[i].via
               IN  via # "" => \E k, l \in turns : At(d, k) /\ via = p.packages[l] /\ l < k
        /\ \A o, q \in p.open : \A d, e \in all :
               (/\ o[1] = q[1] /\ o[2] = p.decls[d].pkg /\ q[2] = p.decls[e].pkg
                /\ p.decls[d].name = p.decls[e].name
                /\ "Note" \notin {p.decls[d].kind, p.decls[e].kind}) => o = q

ASSUME ProgramsAssumption ==
    \A p \in Programs : /\ p.decls \in Seq(Declaration)
                        /\ p.packages \in Seq(Packages) /\ p.packages # <<>>
                        /\ \A d \in DOMAIN p.decls : WellShaped(p.decls[d])
                        /\ InOrder(p)

Ids == DOMAIN prog.decls
D(d) == prog.decls[d]
Here == prog.packages[pkg]
Own(p) == {d \in Ids : D(d).pkg = p}
Named(d) == D(d).kind # "Note"
IsAgg(d) == D(d).kind \in Aggregates
IsType(d) == IsAgg(d) \/ D(d).kind \in {"Typedef", "WeakTypedef"}

(* What the scope of a package holds: its own declarations and those of    *)
(* the packages it imports without a name.  A named import has a scope of  *)
(* its own, with the declarations of the imported package only.            *)
InScope(p) == {d \in Ids : Named(d) /\ (D(d).pkg = p \/ <<p, D(d).pkg>> \in prog.open)}
Exports(p) == {d \in Own(p) : Named(d)}

(* The map lookup: the declaration registered first keeps the name, and    *)
(* imports are registered before the package's own declarations.           *)
Find(scope, name) ==
    LET same == {d \in scope : D(d).name = name}
    IN  IF same = {} THEN 0 ELSE CHOOSE d \in same : \A e \in same : d <= e

Lookup(scope, m) ==
    IF m.via = "" THEN Find(InScope(scope), m.name) ELSE Find(Exports(m.via), m.name)

\* The names declared by a package that its scope already holds, and the
\* declarations that hold them.
Taken(p) ==
    {d \in InScope(p) : \E e \in InScope(p) : e # d /\ D(e).name = D(d).name /\ p \in {D(d).pkg, D(e).pkg}}

---------------------------------------------------------------------------
(* Sizes and alignments, on a machine of 64 bits.  An array [N]T has three *)
(* elements, a constant that mentions nothing is 3, and every struct and   *)
(* union has a member of type char after the ones it mentions.             *)

Bytes(size, align) == [size |-> size, align |-> align, offsets |-> <<>>]
NoLayout == Bytes(0, 0)
PointerType == Bytes(8, 8)
IntType == Bytes(4, 4)
CharType == Bytes(1, 1)
ArrayType(n, l) == Bytes(n * l.size, l.align)
WithoutMembers(l) == Bytes(l.size, l.align)

(* decl->type of a declaration: its own, or the struct or union it names.  *)
TypeLayout(ls, t) == ls[IF dtype[t] # 0 THEN dtype[t] ELSE t]

(* LC_ResolveType for mention i of declaration d, under layouts ls and     *)
(* constants vs.                                                           *)
LayoutOf(ls, vs, d, i) ==
    LET m == D(d).refs[i]
        t == bound[d][i]
    IN  CASE m.form = "pointer" -> PointerType
          [] m.form = "array"   -> ArrayType(3, TypeLayout(ls, t))
          [] m.form = "size"    -> ArrayType(vs[t], IntType)
          [] OTHER              -> TypeLayout(ls, t)

ValueOf(ls, vs, d) ==
    CASE D(d).refs = <<>> -> 3
      [] D(d).refs # <<>> /\ D(d).refs[1].form = "value" -> vs[bound[d][1]]
      [] OTHER -> TypeLayout(ls, bound[d][1]).size

Members(d) == [i \in DOMAIN D(d).refs |-> LayoutOf(layout, value, d, i)] \o <<CharType>>

AlignUp(n, align) == IF n % align = 0 THEN n ELSE n + (align - (n % align))
Greater(a, b) == IF a > b THEN a ELSE b

\* Mutant: the offset is taken before it is aligned.
AddMember_Early(l, m, align) ==
    [size    |-> AlignUp(l.size, align) + m.size,
     align   |-> Greater(l.align, align),
     offsets |-> Append(l.offsets, l.size)]

AddMember(l, m, align) ==
    [size    |-> AlignUp(l.size, align) + m.size,
     align   |-> Greater(l.align, align),
     offsets |-> Append(l.offsets, AlignUp(l.size, align))]

Overlay(l, m) ==
    [size    |-> Greater(l.size, m.size),
     align   |-> Greater(l.align, m.align),
     offsets |-> Append(l.offsets, 0)]

Place(kind, l, m) ==
    CASE kind = "Struct" -> AddMember(l, m, m.align)
      [] kind = "Packed" -> AddMember(l, m, 1)
      [] kind = "Union"  -> Overlay(l, m)

Laid(kind, members) ==
    LET First[n \in 0 .. Len(members)] == IF n = 0 THEN NoLayout ELSE Place(kind, First[n - 1], members[n])
        l == First[Len(members)]
    IN  [l EXCEPT !.size = AlignUp(@, l.align)]

---------------------------------------------------------------------------
(* Calls and returns.  A frame is at mention i of declaration d and either *)
(* looks the name up or completes the type it found.  The loops over the   *)
(* declarations ignore what the outermost call returns.                    *)

Frame(fn, d) == [fn |-> fn, d |-> d, i |-> 1, need |-> "name", prev |-> active]
Top == stack[1]
Ref == D(Top.d).refs[Top.i]
MoreRefs == Top.i <= Len(D(Top.d).refs)
Running == pass \in {"decls", "incomplete"}

Answer(v, below) ==
    /\ stack' = below
    /\ ret' = IF below = <<>> THEN "none" ELSE v

MarkDeclError(d) == dstate' = [dstate EXCEPT ![d] = "Error"]

Append1(d) == ordered' = [ordered EXCEPT ![D(d).pkg] = Append(@, d)]

(* LC_ResolveName for the declaration t the lookup found (0: none).        *)
ResolveName(t, below) ==
    /\ UNCHANGED <<tkind, facts, active>>
    /\ \/ /\ t = 0
          /\ errors' = TRUE
          /\ Answer("error", below)
          /\ UNCHANGED dstate
       \/ /\ t # 0 /\ dstate[t] = "Resolving"
          /\ errors' = TRUE
          /\ MarkDeclError(t)
          /\ Answer("error", below)
       \/ /\ t # 0 /\ dstate[t] \in {"Error", "Resolved"}
          /\ Answer(IF dstate[t] = "Error" THEN "error" ELSE "ok", below)
          /\ UNCHANGED <<dstate, errors>>
       \/ /\ t # 0 /\ dstate[t] = "Unresolved"
          /\ dstate' = [dstate EXCEPT ![t] = "Resolving"]
          /\ stack' = <<Frame("name", t)>> \o below
          /\ ret' = "none"
          /\ UNCHANGED errors

(* LC_ResolveTypeAggregate for the struct s behind a type (0: none).       *)
KindOf(s) == IF s = 0 THEN "Complete" ELSE tkind[s]

TypeIsKnown(s, below) ==
    /\ KindOf(s) \in {"Error", "Complete"}
    /\ Answer(IF KindOf(s) = "Error" THEN "error" ELSE "ok", below)
    /\ UNCHANGED <<dstate, tkind, facts, active, errors>>

TypeIsCyclic(s, below) ==
    /\ KindOf(s) = "Completing"
    /\ tkind' = [tkind EXCEPT ![s] = "Error"]
    /\ MarkDeclError(s)
    /\ errors' = TRUE
    /\ Answer("error", below)
    /\ UNCHANGED <<facts, active>>

Broken(s) == KindOf(s) = "Incomplete" /\ dstate[s] = "Error"

\* Mutant: the members are looked up in the struct's own package, and the
\* early returns still leave that scope active.
BeginAggregate_OwnScope(s, below) ==
    /\ KindOf(s) = "Incomplete" /\ ~Broken(s)
    /\ tkind' = [tkind EXCEPT ![s] = "Completing"]
    /\ active' = D(s).pkg
    /\ stack' = <<Frame("agg", s)>> \o below
    /\ ret' = "none"
    /\ UNCHANGED <<dstate, facts, errors>>

BeginAggregate(s, below) ==
    /\ KindOf(s) = "Incomplete" /\ ~Broken(s)
    /\ tkind' = [tkind EXCEPT ![s] = "Completing"]
    /\ active' = Here
    /\ stack' = <<Frame("agg", s)>> \o below
    /\ ret' = "none"
    /\ UNCHANGED <<dstate, facts, errors>>

ResolveTypeAggregate(s, below) ==
    TypeIsKnown(s, below) \/ TypeIsCyclic(s, below) \/ BeginAggregate(s, below)

---------------------------------------------------------------------------
(* The passes over the packages.                                           *)

Init ==
    /\ prog \in Programs
    /\ pass = "register" /\ pkg = 1 /\ next = 1
    /\ stack = <<>> /\ ret = "none"
    /\ dstate = [d \in Ids |-> "Unresolved"]
    /\ tkind = [d \in Ids |-> "None"]
    /\ dtype = [d \in Ids |-> 0]
    /\ layout = [d \in Ids |-> NoLayout]
    /\ value = [d \in Ids |-> 0]
    /\ bound = [d \in Ids |-> [i \in DOMAIN D(d).refs |-> 0]]
    /\ noteErr = {}
    /\ ordered = [p \in Packages |-> <<>>]
    /\ active = prog.packages[1]
    /\ errors = FALSE

(* LC_RegisterDeclsFromFile.  A name that is taken makes errors of both    *)
(* declarations, wherever the first one comes from.                        *)
RegisterDecls ==
    LET taken == Taken(Here)
        structs == {d \in Own(Here) : IsAgg(d)}
    IN  /\ pass = "register"
        /\ pass' = "decls"
        /\ dstate' = [d \in Ids |-> CASE d \in taken -> "Error"
                                      [] d \in structs \ taken -> "Resolved"
                                      [] OTHER -> dstate[d]]
        /\ tkind' = [d \in Ids |-> IF d \in structs THEN "Incomplete" ELSE tkind[d]]
        /\ dtype' = [d \in Ids |-> IF d \in structs THEN d ELSE dtype[d]]
        /\ active' = Here
        /\ errors' = (errors \/ taken # {})
        /\ UNCHANGED <<prog, pkg, next, stack, ret, bound, noteErr, ordered, sizes>>

InLoop(p) == pass = p /\ stack = <<>> /\ next \in Own(Here)
Step == next' = next + 1 /\ UNCHANGED <<prog, pass, pkg>>

(* LC_ResolveDeclsFromFile.                                                *)
ResolveDecl ==
    /\ InLoop("decls") /\ Named(next)
    /\ ResolveName(Find(InScope(active), D(next).name), <<>>)
    /\ Step

ResolveNote ==
    /\ InLoop("decls") /\ ~Named(next)
    /\ stack' = <<Frame("note", next)>>
    /\ Step
    /\ UNCHANGED <<ret, dstate, tkind, facts, active, errors>>

(* LC_ResolveIncompleteTypes.                                              *)
ResolveIncompleteType ==
    /\ InLoop("incomplete") /\ IsType(next) /\ dstate[next] # "Error"
    /\ ResolveTypeAggregate(dtype[next], <<>>)
    /\ Step

\* Mutant: the loop stays at a declaration it has nothing to do for.
PassOver_Stay ==
    /\ InLoop("incomplete") /\ next \notin noteErr
    /\ IsType(next) => dstate[next] = "Error"
    /\ UNCHANGED vars

PassOver ==
    /\ InLoop("incomplete") /\ next \notin noteErr
    /\ IsType(next) => dstate[next] = "Error"
    /\ Step
    /\ UNCHANGED <<stack, ret, dstate, tkind, facts, active, errors>>

(* A note whose AST became LC_ASTKind_Error is not skipped, and it has no  *)
(* declaration to read the kind of.                                        *)
ReadDeclOfNote ==
    /\ InLoop("incomplete") /\ next \in noteErr
    /\ pass' = "crashed"
    /\ UNCHANGED <<prog, pkg, next, stack, ret, dstate, tkind, facts, active, errors>>

NextPackage ==
    LET last == pkg = Len(prog.packages)
    IN  /\ Running /\ stack = <<>> /\ next \notin Own(Here)
        /\ pkg' = IF last THEN 1 ELSE pkg + 1
        /\ next' = IF last THEN 1 ELSE next
        /\ pass' = CASE pass = "decls" /\ ~last -> "register"
                     [] pass = "decls" /\ last -> "incomplete"
                     [] pass = "incomplete" /\ ~last -> "incomplete"
                     [] OTHER -> "done"
        /\ active' = prog.packages[pkg']
        /\ UNCHANGED <<prog, stack, ret, dstate, tkind, facts, errors>>

---------------------------------------------------------------------------
(* The calls in progress.                                                  *)

Calling(need) == stack # <<>> /\ MoreRefs /\ Top.need = need /\ ret = "none"
Called(need, v) == stack # <<>> /\ Top.need = need /\ ret = v
Continue(f) == stack' = <<f>> \o Tail(stack) /\ ret' = "none"
NextRef == Continue([Top EXCEPT !.i = @ + 1, !.need = "name"])
Found == bound[Top.d][Top.i]

LookUpName ==
    /\ Calling("name")
    /\ ResolveName(Lookup(active, Ref), stack)
    /\ UNCHANGED <<prog, flow>>

\* Mutant: an array does not ask for the layout of its elements.
NeedsLayout_NotArrays(d, m) ==
    \/ m.form = "sizeof"
    \/ m.form = "ident" /\ D(d).kind \in Aggregates \cup {"Var", "Proc"}

(* Who calls LC_ResolveTypeAggregate on the type a mention stands for:     *)
(* arrays, sizeof, members, variables, arguments and results.              *)
NeedsLayout(d, m) ==
    \/ m.form \in {"array", "sizeof"}
    \/ m.form = "ident" /\ D(d).kind \in Aggregates \cup {"Var", "Proc"}

IsRightKind(t, m) == IF m.form \in {"size", "value"} THEN D(t).kind = "Const" ELSE IsType(t)

NameFound ==
    LET t == Lookup(active, Ref)
    IN  /\ Called("name", "ok") /\ IsRightKind(t, Ref)
        /\ bound' = [bound EXCEPT ![Top.d][Top.i] = t]
        /\ IF NeedsLayout(Top.d, Ref) THEN Continue([Top EXCEPT !.need = "type"]) ELSE NextRef
        /\ UNCHANGED <<prog, flow, dstate, tkind, dtype, noteErr, ordered, active, errors, sizes>>

WrongKind ==
    /\ Called("name", "ok") /\ ~IsRightKind(Lookup(active, Ref), Ref)
    /\ ret' = "error"
    /\ errors' = TRUE
    /\ UNCHANGED <<prog, flow, stack, dstate, tkind, facts, active>>

CompleteType ==
    /\ Calling("type")
    /\ ResolveTypeAggregate(dtype[Found], stack)
    /\ UNCHANGED <<prog, flow>>

TypeCompleted ==
    /\ Called("type", "ok")
    /\ NextRef
    /\ UNCHANGED <<prog, flow, dstate, tkind, facts, active, errors>>

(* The assertion that the AST of an incomplete type is still a struct: it  *)
(* is not once the declaration was marked, and the assertion is fatal.     *)
AssertAggregate ==
    /\ \/ Calling("type") /\ Broken(dtype[Found])
       \/ /\ InLoop("incomplete") /\ IsType(next) /\ dstate[next] # "Error"
          /\ Broken(dtype[next])
    /\ pass' = "crashed"
    /\ errors' = TRUE
    /\ UNCHANGED <<prog, pkg, next, stack, ret, dstate, tkind, facts, active>>

(* An error ends LC_ResolveName and LC_ResolveNote ...                     *)
NameFails ==
    /\ stack # <<>> /\ Top.fn = "name" /\ ret = "error"
    /\ MarkDeclError(Top.d)
    /\ Answer("error", Tail(stack))
    /\ UNCHANGED <<prog, flow, tkind, facts, active, errors>>

NoteFails ==
    /\ stack # <<>> /\ Top.fn = "note" /\ ret = "error"
    /\ noteErr' = noteErr \cup {Top.d}
    /\ Answer("error", Tail(stack))
    /\ UNCHANGED <<prog, flow, dstate, tkind, dtype, bound, ordered, active, errors, sizes>>

\* Mutant: a member that does not resolve spoils the type, and the
\* declaration stays as it was.
MemberFails_Unmarked ==
    /\ stack # <<>> /\ Top.fn = "agg" /\ ret = "error"
    /\ tkind' = [tkind EXCEPT ![Top.d] = "Error"]
    /\ NextRef
    /\ UNCHANGED <<prog, flow, dstate, facts, active, errors>>

(* ... but a struct goes on with its other members.                        *)
MemberFails ==
    /\ stack # <<>> /\ Top.fn = "agg" /\ ret = "error"
    /\ MarkDeclError(Top.d)
    /\ tkind' = [tkind EXCEPT ![Top.d] = "Error"]
    /\ NextRef
    /\ UNCHANGED <<prog, flow, facts, active, errors>>

Finished(fn) == stack # <<>> /\ Top.fn = fn /\ ret = "none" /\ ~MoreRefs

\* decl->type: a typedef of a struct is the struct, any other is scalar.
TypeOf(d) ==
    IF D(d).kind \in {"Typedef", "WeakTypedef"} /\ D(d).refs # <<>> /\ D(d).refs[1].form = "ident"
    THEN dtype[bound[d][1]] ELSE 0

\* LC_IsAgg asks the AST, which is no struct any more once it was marked.
IsWeakAggregate(d) == D(d).kind = "WeakTypedef" /\ TypeOf(d) # 0 /\ dstate[TypeOf(d)] # "Error"

NameResolved ==
    LET d == Top.d
    IN  /\ Finished("name")
        /\ ~IsWeakAggregate(d)
        /\ dtype' = [dtype EXCEPT ![d] = TypeOf(d)]
        /\ layout' = IF IsType(d) /\ TypeOf(d) = 0
                     THEN [layout EXCEPT ![d] = WithoutMembers(LayoutOf(layout, value, d, 1))]
                     ELSE layout
        /\ value' = IF D(d).kind = "Const" THEN [value EXCEPT ![d] = ValueOf(layout, value, d)] ELSE value
        /\ dstate' = [dstate EXCEPT ![d] = "Resolved"]
        /\ Append1(d)
        /\ Answer("ok", Tail(stack))
        /\ UNCHANGED <<prog, flow, tkind, bound, noteErr, active, errors>>

WeakAggregate ==
    /\ Finished("name") /\ IsWeakAggregate(Top.d)
    /\ MarkDeclError(Top.d)
    /\ errors' = TRUE
    /\ Answer("error", Tail(stack))
    /\ UNCHANGED <<prog, flow, tkind, facts, active>>

NoteResolved ==
    /\ Finished("note")
    /\ Answer("ok", Tail(stack))
    /\ UNCHANGED <<prog, flow, dstate, tkind, facts, active, errors>>

(* The early return of a struct with an error does not restore the scope.  *)
AggregateFails ==
    /\ Finished("agg") /\ tkind[Top.d] = "Error"
    /\ Answer("error", Tail(stack))
    /\ UNCHANGED <<prog, flow, dstate, tkind, facts, active, errors>>

AggregateCompleted ==
    /\ Finished("agg") /\ tkind[Top.d] # "Error"
    /\ tkind' = [tkind EXCEPT ![Top.d] = "Complete"]
    /\ layout' = [layout EXCEPT ![Top.d] = Laid(D(Top.d).kind, Members(Top.d))]
    /\ Append1(Top.d)
    /\ active' = Top.prev
    /\ Answer("ok", Tail(stack))
    /\ UNCHANGED <<prog, flow, dstate, dtype, bound, noteErr, errors, value>>

Resolve ==
    /\ Running
    /\ \/ LookUpName \/ NameFound \/ WrongKind \/ NameFails \/ NameResolved \/ WeakAggregate
       \/ CompleteType \/ TypeCompleted \/ MemberFails \/ AggregateFails \/ AggregateCompleted
       \/ NoteFails \/ NoteResolved

Next == \/ RegisterDecls \/ ResolveDecl \/ ResolveNote \/ ResolveIncompleteType \/ PassOver
        \/ NextPackage \/ Resolve \/ AssertAggregate \/ ReadDeclOfNote

Spec == Init /\ [][Next]_vars /\ WF_vars(Next)

---------------------------------------------------------------------------
(* What the program means, without the order in which it is resolved.      *)

Target(d, m) == Lookup(D(d).pkg, m)
Refs(d) == {D(d).refs[i] : i \in DOMAIN D(d).refs}
Mentions(d) == {Target(d, m) : m \in Refs(d)} \ {0}

(* What can be reached along next, a function from declarations to sets of *)
(* them: the declarations that every set with d closed under next has.     *)
From(d, next_) ==
    {x \in Ids : \A S \in SUBSET Ids : (d \in S /\ \A a \in S : next_[a] \subseteq S) => x \in S}

\* The struct a type name stands for, directly or through typedefs of names.
AliasOf(d) ==
    IF D(d).kind \in {"Typedef", "WeakTypedef"}
    THEN {Target(d, m) : m \in {r \in Refs(d) : r.form = "ident"}} \ {0}
    ELSE {}
StructsBehind(d) == {s \in From(d, [a \in Ids |-> AliasOf(a)]) : IsAgg(s)}

(* What must be known before what: the name of a declaration, and the      *)
(* layout of a struct, where C needs to know a size.                       *)
SizeMatters(d, m) ==
    /\ m.form \in {"ident", "array", "sizeof"}
    /\ m.form = "ident" => D(d).kind \notin {"Typedef", "WeakTypedef"}
Tasks == {"name", "layout"} \X Ids
Whole(d) == IF IsAgg(d) THEN <<"layout", d>> ELSE <<"name", d>>

Needs(t) ==
    IF Whole(t[2]) # t THEN {}
    ELSE ({"name"} \X Mentions(t[2]))
         \cup ({"layout"} \X UNION {StructsBehind(Target(t[2], m)) :
                  m \in {r \in Refs(t[2]) : SizeMatters(t[2], r) /\ Target(t[2], r) # 0}})

\* Wrong by itself: the name is taken; or what is mentioned is unknown, has
\* its name taken, or is of the wrong kind.
IsTaken(d) == d \in Taken(D(d).pkg)
MentionsWrongly(d) ==
    \E m \in Refs(d) : LET t == Target(d, m)
                       IN  t = 0 \/ t \in Taken(D(d).pkg) \/ ~IsRightKind(t, m)
Wrong(t) == IsTaken(t[2]) \/ (Whole(t[2]) = t /\ MentionsWrongly(t[2]))

\* What cannot be done in any order, each task after the ones it needs,
\* because it depends on a cycle or on something wrong.
Doomed ==
    LET needs == [t \in Tasks |-> Needs(t)]
        wrong == {t \in Tasks : Wrong(t)}
    IN  UNION {T \in SUBSET Tasks : \A t \in T : t \in wrong \/ needs[t] \cap T # {}}
Bad == LET doomed == Doomed IN {d \in Ids : Whole(d) \in doomed}

\* Where an error can begin: what is bad, a name that another package takes,
\* and a weak typedef of a struct, which is wrong unless the struct was
\* marked before.
IsWeakStruct(d) == D(d).kind = "WeakTypedef" /\ StructsBehind(d) # {}
Suspects == Bad \cup (UNION {Taken(p) : p \in Packages}) \cup {d \in Ids : IsWeakStruct(d)}

\* Everything a declaration mentions, in the end, pointers included.
Reach(d) == From(d, [a \in Ids |-> Mentions(a)])

HasError(d) == dstate[d] = "Error" \/ d \in noteErr

---------------------------------------------------------------------------
(* Properties.                                                             *)

IsFrame(f) ==
    /\ f.fn \in {"name", "agg", "note"} /\ f.d \in Ids /\ f.i \in 1 .. Len(D(f.d).refs) + 1
    /\ f.need \in {"name", "type"} /\ f.prev \in Packages

\* The declarations and types have the states the resolver knows, and a
\* call in progress belongs to a declaration that is in progress.
TypeOK ==
    /\ prog.decls \in Seq(Declaration) /\ pkg \in DOMAIN prog.packages /\ next \in 1 .. Len(prog.decls) + 1
    /\ pass \in {"register", "decls", "incomplete", "done", "crashed"}
    /\ ret \in {"none", "ok", "error"} /\ errors \in BOOLEAN
    /\ \A i \in DOMAIN stack : IsFrame(stack[i])
    /\ dstate \in [Ids -> {"Unresolved", "Resolving", "Resolved", "Error"}]
    /\ tkind \in [Ids -> {"None", "Incomplete", "Completing", "Complete", "Error"}]
    /\ dtype \in [Ids -> Ids \cup {0}] /\ noteErr \subseteq Ids
    /\ \A d \in Ids : bound[d] \in [DOMAIN D(d).refs -> Ids \cup {0}]
    /\ DOMAIN ordered = Packages /\ \A p \in Packages : \A i \in DOMAIN ordered[p] : ordered[p][i] \in Ids
    /\ active \in Packages

\* LC_ResolveName, LC_ResolveTypeAggregate: when the passes are over, no
\* declaration that depends on a cycle or on a wrong name, at whatever
\* distance and through either recursion, is left without an error; and a
\* weak typedef of a struct is not accepted unless the struct is an error.
ErrorsReachUsers ==
    pass = "done" =>
        /\ \A d \in Bad : HasError(d)
        /\ \A d \in Ids : IsWeakStruct(d) => \E e \in {d} \cup StructsBehind(d) : HasError(e)

\* LC_MarkDeclError: a declaration becomes an error only if something it
\* mentions, in the end, is wrong; the recursion never blames a bystander.
ErrorsStayLocal ==
    pass \in {"done", "crashed"} =>
        LET suspects == Suspects
        IN  \A d \in Ids : HasError(d) => Reach(d) \cap suspects # {}

\* LC_DLLAdd on first_ordered: in the order of the generated C code, by
\* package and then by list, every name a declaration mentions comes before
\* it, and so does every struct whose layout it needs.
Emitted(x, d) ==
    \E p, q \in DOMAIN prog.packages :
        LET P == ordered[prog.packages[p]]
            Q == ordered[prog.packages[q]]
        IN  \E i \in DOMAIN P, j \in DOMAIN Q :
                P[i] = x /\ Q[j] = d /\ (p < q \/ (p = q /\ i < j))
UsesComeFirst ==
    \A p \in Packages : \A k \in DOMAIN ordered[p] :
        LET d == ordered[p][k]
        IN  \A i \in DOMAIN bound[d] :
                LET t == bound[d][i]
                    m == D(d).refs[i]
                IN  t # 0 => /\ IsAgg(t) \/ Emitted(t, d)
                             /\ (SizeMatters(d, m) /\ dtype[t] # 0) => Emitted(dtype[t], d)

\* The two appends to first_ordered: at the end every declaration without
\* an error is in the list of its package, and none is there twice.
EachIsPlacedOnce ==
    /\ \A p \in Packages : \A i, j \in DOMAIN ordered[p] :
           ordered[p][i] = ordered[p][j] => i = j
    /\ pass = "done" => \A d \in Ids : Named(d) /\ ~HasError(d) =>
                            \E i \in DOMAIN ordered[D(d).pkg] : ordered[D(d).pkg][i] = d

\* The list of a package is complete, has nothing twice, and is in an order
\* that the C compiler accepts.
OrderIsSound == UsesComeFirst /\ EachIsPlacedOnce

\* LC_ResolveTypeAggregate, LC_CreateArrayType, LC_CreateTypedef and sizeof:
\* the layout the compiler computes, step by step and in whatever order it
\* comes to the declarations, is the one C gives the types it generates; no
\* size that went into it, through arrays, typedefs and constants, was read
\* before it was final.  The generated program mixes the two, sizeof as a
\* number from here and the struct from C.
IsLayoutInC(l, kind, members) ==
    LET Align(m) == IF kind = "Packed" THEN 1 ELSE m.align
        End(i) == IF i = 0 \/ kind = "Union" THEN 0 ELSE l.offsets[i] + members[i].size
        ends == {l.offsets[i] + members[i].size : i \in DOMAIN members}
    IN  /\ DOMAIN l.offsets = DOMAIN members
        /\ \A i \in DOMAIN members :
               /\ l.offsets[i] % Align(members[i]) = 0
               /\ l.offsets[i] \in End(i - 1) .. End(i - 1) + Align(members[i]) - 1
        /\ l.align \in {Align(members[i]) : i \in DOMAIN members}
        /\ \A i \in DOMAIN members : Align(members[i]) <= l.align
        /\ l.size % l.align = 0
        /\ \A e \in ends : e <= l.size
        /\ \E e \in ends : l.size < e + l.align
LayoutIsC ==
    pass = "done" => \A d \in Ids : ~HasError(d) =>
        /\ IsAgg(d) => IsLayoutInC(layout[d], D(d).kind, Members(d))
        /\ D(d).kind = "Const" => value[d] = ValueOf(layout, value, d)
        /\ D(d).kind \in {"Typedef", "WeakTypedef"} =>
               WithoutMembers(TypeLayout(layout, d)) = WithoutMembers(LayoutOf(layout, value, d, 1))

\* LC_ReportASTError: an error mark on a declaration, a type or a note, or
\* an error on its way up the stack, has been reported to the user.
ErrorsAreReported ==
    (ret = "error" \/ noteErr # {} \/ \E d \in Ids : "Error" \in {dstate[d], tkind[d]}) => errors

\* All three: the marks are exactly what the meaning of the program asks for,
\* whatever declaration, list or package the recursion started from, and
\* none of them is silent.
ErrorsAreExact == ErrorsReachUsers /\ ErrorsStayLocal /\ ErrorsAreReported

\* LC_PUSH_SCOPE in LC_ResolveTypeAggregate: the early returns that do not
\* restore the scope never make the loops look names up in another one.
ScopeRestored == Running /\ stack = <<>> => active = Here

\* The recursion and the three passes come to an end.
Terminates == <>(pass \in {"done", "crashed"})

\* tests/test_import_symbol_leak: a name means what it means in the package
\* it is written in, whichever package asks for it to be resolved.
NamesAreLexical ==
    \A d \in Ids : \A i \in DOMAIN bound[d] : bound[d][i] \in {0, Target(d, D(d).refs[i])}

\* The programs of which that is true: the members of a struct are looked up
\* in the package that asks for its layout, which may be a later one, so
\* their names must mean the same there.
MembersMeanTheSame ==
    \A d \in Ids : IsAgg(d) =>
        \A m \in Refs(d) : \A k, l \in DOMAIN prog.packages :
            prog.packages[k] = D(d).pkg /\ k < l => Lookup(prog.packages[l], m) = Target(d, m)

\* packages.c, LC_OrderAndResolveTopLevelPass: "even if something broke in
\* package ordering it should still be fine to go forward with this".
GoesForward == pass # "crashed"

=============================================================================
