----------------------------- MODULE Compounds ------------------------------
(***************************************************************************)
(* Calls and compound literals (resolve.c, LC_ResolveCompoCall,            *)
(* LC_ResolveCompoAggregate, LC_ResolveCompoArray).  Items are bound to    *)
(* parameters, members or elements by position, by name or by index; what  *)
(* a call leaves out comes from default values; a variadic procedure takes *)
(* the rest.  The generator prints the items in the order in which they    *)
(* were matched (genc.c): for a call, C binds them by position again.      *)
(*                                                                         *)
(* This module goes on where Expressions stops: the expression that was    *)
(* built becomes an item, next to others, and is typed by its member.      *)
(***************************************************************************)
EXTENDS Expressions, SequencesExt

CONSTANTS
  Shapes,     \* what can be called or filled in
  ItemLists,  \* the lists of items, without their expressions
  Other,      \* the expression of the items beside the one that was built
  MaxItems    \* bound: items of a list, an operator in one of them counts as two

VARIABLE
  compo    \* the shape, the items and the matches of an accepted compound

compoVars == <<node, size, stage, compo>>

NoName == ""
NoIndex == <<>>
NoCompo == [shape |-> [kind |-> "none"], items |-> <<>>, matches |-> <<>>]

\* A shape has a kind, "proc", "struct", "union" or "array", and
\*   members : what is bound, each with a name, a type and whether it has a default
\*   vargs   : of a procedure, "no", "c" or "any"
\* The members of an array are its elements.
ShapeOf(kind, members, vargs) == [kind |-> kind, members |-> members, vargs |-> vargs]

\* An item has a name, an index, or neither.
Plain(it) == it.name = NoName /\ it.index = NoIndex
Prefix(items) ==
  CHOOSE n \in 0..Len(items) :
    /\ \A k \in 1..n : Plain(items[k])
    /\ n < Len(items) => ~Plain(items[n + 1])
Mixed(items) == \E j \in 1..Len(items) : j > Prefix(items) /\ Plain(items[j])
Named(items) == \E j \in 1..Len(items) : items[j].name # NoName
Indexed(items) == \E j \in 1..Len(items) : items[j].index # NoIndex

\* A match binds an item to a member; item 0 is the default value of the member,
\* member 0 is the rest of the arguments.
Match(member, item) == [member |-> member, item |-> item]
ByPosition(n) == [k \in 1..n |-> Match(k, k)]

Lesser(m, n) == IF m < n THEN m ELSE n
FirstOf(S) == IF S = {} THEN 0 ELSE CHOOSE k \in S : \A j \in S : k <= j
Holds(ms, item) == \E k \in 1..Len(ms) : ms[k].item = item
Duplicates(ms) == \E j, k \in 1..Len(ms) : j < k /\ ms[j].member = ms[k].member

Matched(ms) == [st |-> "ok", matches |-> ms]

-----------------------------------------------------------------------------
(* Matching *)

\* A variant: named arguments are matched in the order they are written in.
ByItem(shape, items, p) ==
  LET found(k) == FirstOf({m \in (p + 1)..Len(shape.members) :
                             shape.members[m].name = items[k].name})
      named == [k \in 1..(Len(items) - p) |-> Match(found(p + k), p + k)]
      left == [m \in 1..Len(shape.members) |-> Match(m, 0)]
  IN SelectSeq(named, LAMBDA c : c.member # 0)
       \o SelectSeq(left, LAMBDA c : c.member > p /\ shape.members[c.member].default
                            /\ \A k \in 1..Len(named) : named[k].member # c.member)

\* After the positional ones, every parameter takes the first item with its
\* name, or its default value.
ByParameter(shape, items, p) ==
  LET found(m) == FirstOf({k \in (p + 1)..Len(items) : items[k].name = shape.members[m].name})
      rest == [j \in 1..(Len(shape.members) - p) |-> Match(p + j, found(p + j))]
  IN SelectSeq(rest, LAMBDA c : c.item # 0 \/ shape.members[c.member].default)

MatchCall(shape, items) ==
  LET p == Lesser(Prefix(items), Len(shape.members))
      rest == IF shape.vargs # "no"
              THEN [k \in 1..(Len(items) - p) |-> Match(0, p + k)]
              ELSE ByParameter(shape, items, p)
      ms == ByPosition(p) \o rest
  IN IF \/ shape.vargs # "no" /\ (Len(items) < Len(shape.members) \/ Named(items))
        \/ Indexed(items)
        \/ Mixed(items)
        \/ \E k \in 1..Len(items) : ~Holds(ms, k)
        \/ shape.vargs = "no" /\ Len(ms) # Len(shape.members)
     THEN Error ELSE Matched(ms)

MatchAggregate(shape, items) ==
  LET p == Prefix(items)
      found(k) == FirstOf({m \in 1..Len(shape.members) : shape.members[m].name = items[k].name})
      ms == ByPosition(p) \o [k \in 1..(Len(items) - p) |-> Match(found(p + k), p + k)]
  IN IF \/ shape.kind = "union" /\ (Len(items) > 1 \/ p > 0)
        \/ Len(items) > Len(shape.members)
        \/ Indexed(items)
        \/ Mixed(items)
        \/ \E k \in 1..Len(ms) : ms[k].member = 0
        \/ Duplicates(ms)
     THEN Error ELSE Matched(ms)

\* An index is refused when it is greater than the size, and members are counted
\* from 1: an index that equals the size is one past the last element.
BadIndex(shape, i) == i > Len(shape.members)

MatchArray(shape, items) ==
  LET p == Prefix(items)
      index(k) == items[k].index[1]
      bad == FirstOf({k \in (p + 1)..Len(items) :
                        ConstInt(Literal(UTInt, IntVal(index(k)))).st # "ok"
                          \/ BadIndex(shape, index(k))})
      ms == ByPosition(p) \o [k \in 1..(Len(items) - p) |-> Match(index(p + k) + 1, p + k)]
  IN CASE Len(items) > Len(shape.members) \/ Mixed(items) \/ Named(items) -> Error
       [] bad # 0 -> IF ConstInt(Literal(UTInt, IntVal(index(bad)))).st = "crash"
                     THEN Crash ELSE Error
       [] Duplicates(ms) -> Error
       [] OTHER -> Matched(ms)

MatchItems(shape, items) ==
  CASE shape.kind = "proc" -> MatchCall(shape, items)
    [] shape.kind = "array" -> MatchArray(shape, items)
    [] OTHER -> MatchAggregate(shape, items)

-----------------------------------------------------------------------------
(* Typing the items *)

\* What C makes of an argument beyond the parameters.
ResolveTypeVargs(t) ==
  LET d == Default(t)
  IN IF IsTypedInt(d) /\ Bits[d[1]] < Bits["int"] THEN TInt
     ELSE IF d = TFloat THEN TDouble ELSE d

\* One past the end has the type of the elements.
MemberType(shape, m) == shape.members[Lesser(m, Len(shape.members))].type

\* Nothing looks at the type of an argument beyond the parameters: it may even
\* be void.
ResolveVararg(shape, e) ==
  LET to == IF shape.vargs = "any" THEN TAny ELSE ResolveTypeVargs(e.type)
      te == TryTyping(e, to)
      ok == IF to = TAny THEN CInitializes(TAny, te) ELSE Generated(te).ok
  IN IF TypingCrashes(e, ResolveTypeVargs(e.type)) THEN Crash
     ELSE Used({te}, CText(te.type, FALSE, ok /\ e.type # TVoid),
               AnyQuirk(to, te) \/ e.type = TVoid)

ResolveItem(shape, match, e) ==
  IF match.member = 0 THEN ResolveVararg(shape, e)
  ELSE DeclareAs(MemberType(shape, match.member), e)

\* The items are typed in the order of the matches; the first that fails decides.
UseAll(used) ==
  LET failed == FirstOf({k \in DOMAIN used : used[k].st # "ok"})
      all == {used[k] : k \in DOMAIN used}
  IN IF failed # 0 THEN used[failed]
     ELSE Used(all, CText(TVoid, FALSE, \A u \in all : u.c.ok), FALSE)

ResolveMatched(shape, m, exprs) ==
  IF m.st # "ok" THEN m
  ELSE UseAll([k \in {j \in 1..Len(m.matches) : m.matches[j].item # 0} |->
                 ResolveItem(shape, m.matches[k], exprs[m.matches[k].item])])

ResolveCompo(shape, items, exprs) == ResolveMatched(shape, MatchItems(shape, items), exprs)

-----------------------------------------------------------------------------
(* Behaviours: the expression takes one place in a list of items. *)

CompoInit == Init /\ compo = NoCompo

Indexes(items) ==
  {Literal(UTInt, IntVal(it.index[1])) : it \in {i \in ToSet(items) : i.index # NoIndex}}

Compound ==
  /\ stage = "expression" /\ 2*size < MaxItems
  /\ \E shape \in Shapes :
       \E items \in {list \in ItemLists : 2*size + Len(list) <= MaxItems} :
         \E place \in 1..Len(items) :
           LET exprs == [k \in 1..Len(items) |-> IF k = place THEN node ELSE Other]
               r == ResolveCompo(shape, items, exprs)
           IN /\ Use(r, ToSet(exprs) \cup Indexes(items))
              /\ compo' = [shape |-> shape, items |-> items,
                           matches |-> IF r.st = "ok" THEN MatchItems(shape, items).matches
                                       ELSE <<>>]

Expression == Next /\ UNCHANGED compo

CompoNext == Expression \/ Compound

CompoSpec == CompoInit /\ [][CompoNext]_compoVars
-----------------------------------------------------------------------------
(* What binding items means, said without an algorithm. *)

\* The member that an item means, 0 for the rest of the arguments.
Means(shape, items, k) ==
  LET n == Len(shape.members)
      it == items[k]
  IN IF it.index # NoIndex THEN {it.index[1] + 1}
     ELSE IF it.name # NoName THEN {m \in 1..n : shape.members[m].name = it.name}
     ELSE IF k <= n THEN {k}
     ELSE IF shape.vargs # "no" THEN {0} ELSE {}

\* Every item means one member, no two the same one, and a call leaves nothing
\* open that has no default value.
Bindable(shape, items) ==
  /\ ~Mixed(items)
  /\ shape.kind = "array" => ~Named(items)
  /\ shape.kind # "array" => ~Indexed(items)
  /\ shape.vargs # "no" => ~Named(items)
  /\ shape.kind = "union" => Len(items) <= 1 /\ Prefix(items) = 0
  /\ \A k \in 1..Len(items) : Means(shape, items, k) # {}
  /\ \A j, k \in 1..Len(items) :
       j # k /\ Means(shape, items, j) = Means(shape, items, k) => Means(shape, items, j) = {0}
  /\ shape.kind = "proc" =>
       \A m \in 1..Len(shape.members) :
          \/ shape.members[m].default /\ shape.vargs = "no"
          \/ \E k \in 1..Len(items) : Means(shape, items, k) = {m}

InBounds(shape, items) ==
  \A k \in 1..Len(items) :
    items[k].index # NoIndex => items[k].index[1] \in 0..(Len(shape.members) - 1)

(* The items of an accepted call or literal could be bound, and were bound  *)
(* to what they mean, each once; the arguments of a call are printed in the *)
(* order of the parameters, which is how C binds them again.  A list that   *)
(* can be bound, to members of the type of the literals in it, is accepted. *)
(* Array indexes are left out: see IndexesInBounds.                         *)
BindingIsExact ==
  LET c == compo
      n == Len(c.shape.members)
  IN /\ c.matches # <<>> =>
          /\ Bindable(c.shape, c.items)
          /\ \A k \in 1..Len(c.items) :
               \E j \in 1..Len(c.matches) :
                 /\ c.matches[j].item = k
                 /\ {c.matches[j].member} = Means(c.shape, c.items, k)
                 /\ \A i \in 1..Len(c.matches) : c.matches[i].item = k => i = j
          /\ c.shape.kind = "proc" =>
               /\ Len(c.matches) >= n
               /\ \A j \in 1..Len(c.matches) : c.matches[j].member = (IF j <= n THEN j ELSE 0)
     /\ (stage = "refused" /\ c # NoCompo /\ size = 0 /\ node = [Other EXCEPT !.marks = node.marks])
          => ~(Bindable(c.shape, c.items) /\ InBounds(c.shape, c.items))

(* The message of resolve.c:373, "array index out of bounds": no accepted   *)
(* literal names an element that the array does not have.                   *)
IndexesInBounds == compo.matches # <<>> => InBounds(compo.shape, compo.items)
=============================================================================
