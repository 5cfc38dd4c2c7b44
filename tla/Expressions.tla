---------------------------- MODULE Expressions -----------------------------
(***************************************************************************)
(* The expression resolver (resolve.c, value.c).  It goes over a tree      *)
(* bottom up: every node gets a type and, when it can be folded, a         *)
(* constant; the flags of its operand say whether it is an lvalue, an      *)
(* untyped constant, or constant enough for a global variable.  Literals   *)
(* have no type of their own.  They get one from the operator, the         *)
(* declaration or the assignment that uses them (LC_TryTyping), and only   *)
(* then is it known whether they fit.                                      *)
(*                                                                         *)
(* A behaviour builds one expression from the inside out and then uses it  *)
(* in a statement.  A use is accepted, refused with a message, or stops    *)
(* the compiler at an assertion.  Beside each node the module keeps what   *)
(* the C generator prints for it (genc.c) as a C compiler reads it.        *)
(*                                                                         *)
(* Abstractions.  A type is the path of its constructors, <<"*","char">>.  *)
(* A float constant is a fraction, rounding and range are left out.  There *)
(* is one structure with one member, and a procedure type keeps only what  *)
(* the procedure returns: its arguments are the matter of Compounds.       *)
(***************************************************************************)
EXTENDS BigInts, Sequences, FiniteSets

CONSTANTS
  IntTypes,    \* names of the typed integers, "int", "bool", "llong" and "ullong" among them
  Bits,        \* the width of each of them
  Unsigned,    \* those without a sign
  PointerBits, \* the width of a pointer
  Leaves,      \* the literals and names expressions are made of
  CastTypes,   \* the types that casts and declarations name
  BinaryOps,   \* the binary operators that are tried
  Addresses,   \* what a digit holds when it is really a pointer to digits
  MaxSize,     \* bound: operators in an expression
  MaxValue     \* bound: magnitude of a constant that is computed with

ASSUME TypesAssumption ==
  /\ {"int", "bool", "llong", "ullong"} \subseteq IntTypes
  /\ Bits \in [IntTypes -> Nat \ {0}]
  /\ PointerBits \in Nat
  /\ Addresses \subseteq 1..(Radix - 1)
  /\ MaxValue < Radix^2

VARIABLES
  node,   \* the expression built so far, in the end the statement
  size,   \* the operators in it
  stage   \* "expression", "accepted", "refused", "crashed" or "exhausted"

vars == <<node, size, stage>>
-----------------------------------------------------------------------------
(* Types *)

TInt    == <<"int">>
TFloat  == <<"float">>
TDouble == <<"double">>
TVoid   == <<"void">>
TpVoid == <<"*", "void">>
TpChar == <<"*", "char">>
TString == <<"String">>
TAny    == <<"Any">>
UTInt  == <<"UntypedInt">>
UTBool == <<"UntypedBool">>
UTNil  == <<"UntypedNil">>
UTFloat  == <<"UntypedFloat">>
UTString == <<"UntypedString">>

PointerTo(t) == <<"*">> \o t
Base(t) == Tail(t)
IsPtr(t)    == t[1] = "*"
IsArray(t)  == t[1] = "[]"
IsProc(t)   == t[1] = "proc"
IsPtrLike(t) == IsPtr(t) \/ IsProc(t)
IsUTInt(t)  == t \in {UTInt, UTBool, UTNil}
IsUntyped(t) == IsUTInt(t) \/ t \in {UTFloat, UTString}
IsTypedInt(t) == t[1] \in IntTypes
IsInt(t)    == IsTypedInt(t) \/ IsUTInt(t)
IsFloat(t)  == t \in {TFloat, TDouble, UTFloat}
IsNum(t)    == IsTypedInt(t) \/ t \in {TFloat, TDouble}
IsStr(t)    == t \in {TpChar, TString}
IsAggType(t) == t[1] \in {"struct", "String", "Any"}

\* tbase of an untyped type: what a literal becomes when nothing else decides.
Default(t) ==
  CASE t = UTInt -> TInt
    [] t = UTBool -> <<"bool">>
    [] t = UTNil -> <<"ullong">>
    [] t = UTFloat -> TDouble
    [] t = UTString -> TpChar
    [] OTHER -> t

GetTypeCategory(t) ==
  CASE IsTypedInt(t) -> "INT"
    [] t \in {TFloat, TDouble} -> "FLOAT"
    [] IsUTInt(t) -> "UT_INT"
    [] t = UTFloat -> "UT_FLOAT"
    [] t = UTString -> "UT_STR"
    [] t = TpVoid -> "VOID_PTR"
    [] t = TAny -> "ANY"
    [] IsPtr(t) -> "PTR"
    [] IsProc(t) -> "PROC"
    [] IsAggType(t) -> "AGG"
    [] IsArray(t) -> "ARRAY"
    [] OTHER -> "VOID"

-----------------------------------------------------------------------------
(* The tables of rules.  What a row does not list is LC_NO. *)

\* A variant: the tables are read with row and column swapped.
RuleSwapped(table, row, column) ==
  IF column \in DOMAIN table /\ row \in DOMAIN table[column]
  THEN table[column][row] ELSE "NO"

Rule(table, row, column) ==
  IF row \in DOMAIN table /\ column \in DOMAIN table[row]
  THEN table[row][column] ELSE "NO"

CastingRules ==
  [INT      |-> [INT |-> "OK", FLOAT |-> "OK", UT_INT |-> "OK", UT_FLOAT |-> "OK",
                 PTR |-> "LPS", VOID_PTR |-> "LPS"],
   FLOAT    |-> [INT |-> "OK", FLOAT |-> "OK", UT_INT |-> "OK", UT_FLOAT |-> "OK"],
   PTR      |-> [INT |-> "RPS", UT_INT |-> "OK", UT_STR |-> "SR", PTR |-> "OK",
                 VOID_PTR |-> "OK", PROC |-> "OK"],
   VOID_PTR |-> [INT |-> "RPS", UT_INT |-> "OK", UT_STR |-> "OK", PTR |-> "OK",
                 VOID_PTR |-> "OK", PROC |-> "OK"],
   PROC     |-> [PTR |-> "OK", VOID_PTR |-> "OK", PROC |-> "OK"],
   AGG      |-> [UT_STR |-> "SR"]]

NotApplicable == [INT |-> "NA", FLOAT |-> "NA", UT_INT |-> "NA", UT_FLOAT |-> "NA",
                  UT_STR |-> "NA", PTR |-> "NA", VOID_PTR |-> "NA", PROC |-> "NA",
                  AGG |-> "NA", ARRAY |-> "NA"]

AssignRules ==
  [INT      |-> [INT |-> "TEQ", UT_INT |-> "OK"],
   FLOAT    |-> [FLOAT |-> "TEQ", UT_INT |-> "OK", UT_FLOAT |-> "OK"],
   UT_INT   |-> NotApplicable,
   UT_FLOAT |-> NotApplicable,
   UT_STR   |-> [NotApplicable EXCEPT !.PTR = "NO"],
   PTR      |-> [UT_INT |-> "RO0", UT_STR |-> "SR", PTR |-> "TEQ", VOID_PTR |-> "OK"],
   VOID_PTR |-> [UT_INT |-> "RO0", UT_STR |-> "OK", PTR |-> "OK", VOID_PTR |-> "OK",
                 PROC |-> "OK"],
   PROC     |-> [UT_INT |-> "RO0", VOID_PTR |-> "OK", PROC |-> "TEQ"],
   AGG      |-> [UT_STR |-> "SR", AGG |-> "TEQ", ANY |-> "TEQ"],
   ARRAY    |-> [ARRAY |-> "TEQ"],
   ANY      |-> [INT |-> "OK", FLOAT |-> "OK", UT_INT |-> "OK", UT_FLOAT |-> "OK",
                 UT_STR |-> "OK", PTR |-> "OK", PROC |-> "OK", AGG |-> "OK",
                 ARRAY |-> "OK", ANY |-> "OK"]]

BinaryRules ==
  [INT      |-> [INT |-> "TEQ", UT_INT |-> "RT", VOID_PTR |-> "OK", PROC |-> "OK"],
   FLOAT    |-> [FLOAT |-> "TEQ", UT_INT |-> "RT", UT_FLOAT |-> "RT"],
   UT_INT   |-> [INT |-> "LT", FLOAT |-> "LT", UT_INT |-> "OK", UT_FLOAT |-> "LF",
                 PTR |-> "OK", VOID_PTR |-> "OK", PROC |-> "OK"],
   UT_FLOAT |-> [FLOAT |-> "LT", UT_INT |-> "RF", UT_FLOAT |-> "OK"],
   UT_STR   |-> [UT_STR |-> "OK"],
   PTR      |-> [INT |-> "OK", UT_INT |-> "OK", PTR |-> "OK", VOID_PTR |-> "OK"],
   VOID_PTR |-> [INT |-> "OK", UT_INT |-> "OK", PTR |-> "OK", VOID_PTR |-> "OK"],
   PROC     |-> [INT |-> "OK", UT_INT |-> "OK"]]

-----------------------------------------------------------------------------
(* Constants: <<>> for none, <<"i", n>>, <<"d", n, m>> for n/m, <<"s">>. *)

NoVal == <<>>
IntVal(n) == <<"i", n>>
StrVal == <<"s">>
BoolVal(p) == IntVal(IF p THEN 1 ELSE 0)
IsIntVal(v) == v # NoVal /\ v[1] = "i"
IsStrVal(v) == v # NoVal /\ v[1] = "s"

\* An untyped type has size 0, so only 0 fits into it.
WidthOf(t) == IF IsTypedInt(t) THEN Bits[t[1]] ELSE 0
IsUnsigned(t) == t[1] \in Unsigned
BigIntFits(n, t) == FitsInBits(n, WidthOf(t), IsUnsigned(t))

AsFloat(v) == IF IsIntVal(v) THEN <<"d", AsDouble(v[2]), 1>> ELSE v
AsInt(v)   == IF v[1] = "d" THEN IntVal(OfDouble(v[2], v[3])) ELSE v

-----------------------------------------------------------------------------
(* Nodes.  A node that is not typed yet is typed by LC_TryTyping. *)

Crash == [st |-> "crash"]
Error == [st |-> "error"]
Exhausted == [st |-> "exhausted"]

Mark(m, p) == IF p THEN {m} ELSE {}

\* What the C compiler makes of printed text: its type, whether it is an
\* lvalue, whether it is valid.  The constants of long types are printed with
\* the suffix of unsigned numbers.
CText(t, lv, ok) == [type |-> t, lv |-> lv, ok |-> ok]
CLiteral(t, v) ==
  CText(CASE IsStrVal(v) -> (IF t = TString THEN t ELSE TpChar)
          [] IsPtrLike(t) -> (IF v = IntVal(0) THEN <<"zero">> ELSE <<"ullong">>)
          [] t = <<"llong">> -> <<"ullong">>
          [] OTHER -> Default(t),
        t = TString, TRUE)

Generated(n) == IF n.const # NoVal THEN CLiteral(n.type, n.const) ELSE n.c

\* What is wrong with the constant that is printed for a node: it is not of the
\* kind of the type or out of its range when its fit was to be checked, it is a
\* negative one that the check lets into an unsigned type, or it has no text.
InRange(n, t) ==
  LET w == WidthOf(t)
  IN IF IsUnsigned(t) THEN n \in 0..(2^w - 1) ELSE n \in -(2^(w-1))..(2^(w-1) - 1)
Wraps(n, t) == IsUnsigned(t) /\ n < 0 /\ WidthOf(t) >= DigitBits
ConstantMarks(n) ==
  LET v == n.const
      misfit == n.checked /\ IsTypedInt(n.type) /\ IsIntVal(v) /\ ~InRange(v[2], n.type)
  IN Mark("kind", IsNum(n.type) /\ v[1] # (IF IsTypedInt(n.type) THEN "i" ELSE "d"))
       \cup Mark("range", misfit /\ ~Wraps(v[2], n.type))
       \cup Mark("wraps", misfit /\ Wraps(v[2], n.type))
       \cup Mark("textless", IsIntVal(v) /\ HasNoText(v[2]))
Printed(n) == IF n.const # NoVal THEN ConstantMarks(n) ELSE n.printed

\* What only a literal, a comparison or an unusual constant brings in.
Odd(n) ==
  \/ IsUntyped(n.type) /\ n.const = NoVal
  \/ IsStrVal(n.const)
  \/ IsIntVal(n.const) /\ (n.const[2] < 0 \/ Wide(n.const[2]))

\* The marks of a node are those of what it is made of, and
\*   bad   : a literal in it did not fit, which was reported
\*   fatal : the number that did not fit had no text for the report
\*   odd   : it is Odd
\*   lost  : a constant in it is not what arithmetic gives
\*   signs : C takes an operator in it for signed numbers, the language does not,
\*           or the other way round
\*   quirk : one of the things that AcceptedIsC lists
Mk(t, flags, const, c, from) ==
  LET n == [st |-> "ok", type |-> t, flags |-> flags, const |-> const,
            checked |-> TRUE, c |-> c,
            marks   |-> UNION {m.marks : m \in from},
            printed |-> UNION {Printed(m) : m \in from}]
  IN [n EXCEPT !.marks = @ \cup Mark("odd", Odd(n))]

Marked(n, m, p) == [n EXCEPT !.marks = @ \cup Mark(m, p)]
MarkedIfOk(n, m, p) == IF n.st = "ok" THEN Marked(n, m, p) ELSE n

UTConst(n) == "UTConst" \in n.flags
ConstFlags == {"UTConst", "Const"}

Literal(t, v) ==
  Mk(t, ConstFlags \cup (IF t = UTString THEN {"LValue"} ELSE {}), v, CText(t, FALSE, TRUE), {})
Variable(t) == Mk(t, {"LValue", "Const"}, NoVal, CText(t, TRUE, TRUE), {})

TypingCrashes(n, t) == IsUTInt(n.type) /\ IsFloat(t) /\ n.const = NoVal

\* An integer that is not the same number as a float.
FloatLost(v) == IsIntVal(v) /\ AsDouble(v[2]) # v[2]

Typed(n, t) ==
  LET float == IsUTInt(n.type) /\ IsFloat(t)
      typed == [n EXCEPT !.type = (IF t = TAny THEN Default(n.type) ELSE t),
                         !.const = (IF float THEN AsFloat(n.const) ELSE n.const)]
  IN Marked(typed, "lost", float /\ FloatLost(n.const))

\* A variant: the fit is not looked at.
TryTypingUnchecked(n, t) == IF ~IsUntyped(n.type) THEN n ELSE Typed(n, t)

CheckFit(n) ==
  LET misfit == IsIntVal(n.const) /\ IsInt(n.type) /\ ~BigIntFits(n.const[2], n.type)
  IN Marked(Marked(n, "bad", misfit), "fatal", misfit /\ HasNoText(n.const[2]))

TryTyping(n, t) == IF ~IsUntyped(n.type) THEN n ELSE CheckFit(Typed(n, t))

\* Used where no type is asked for: there the fit is not looked at.
TryDefaultTyping(n) ==
  IF IsUntyped(n.type) THEN [n EXCEPT !.type = Default(n.type), !.checked = FALSE] ELSE n

-----------------------------------------------------------------------------
(* The C compiler's view of operators, after the usual arithmetic           *)
(* conversions; GNU C, where pointers to void have arithmetic.              *)

CArithmetic(t) == IsTypedInt(t) \/ IsFloat(t)
CPointer(t) == IsPtrLike(t) \/ IsArray(t) \/ t = <<"zero">>
CScalar(t) == CArithmetic(t) \/ CPointer(t)

Comparisons == {"==", "<"}
Connectives == {"&&", "||"}
IntegerOps  == {"%", "<<", ">>", "&", "|", "^"}

\* <<"zero">> is an integer literal, printed where a pointer was asked for.
COperands(op, a, b) ==
  LET p == CPointer(a) /\ a # <<"zero">>
      q == CPointer(b) /\ b # <<"zero">>
      whole(t) == IsTypedInt(t) \/ t = <<"zero">>
  IN CASE op \in Comparisons \cup Connectives -> CScalar(a) /\ CScalar(b)
       [] op \in IntegerOps -> whole(a) /\ whole(b)
       [] op = "+" -> (p => whole(b)) /\ (q => whole(a)) /\ CScalar(a) /\ CScalar(b)
       [] op = "-" -> (q => p) /\ (p => whole(b) \/ q) /\ CScalar(a) /\ CScalar(b)
       [] OTHER -> ~p /\ ~q /\ CScalar(a) /\ CScalar(b)

CBinary(op, a, b) ==
  CText(CASE op \in Comparisons \cup Connectives -> TInt
          [] CPointer(a.type) /\ a.type # <<"zero">> -> a.type
          [] CPointer(b.type) /\ b.type # <<"zero">> -> b.type
          [] IsFloat(a.type) \/ op \in {"<<", ">>"} -> a.type
          [] a.type[1] \in Unsigned /\ IsTypedInt(b.type) -> a.type
          [] OTHER -> b.type,
        FALSE, a.ok /\ b.ok /\ COperands(op, a.type, b.type))

\* Some operators mean one thing for signed numbers and another for unsigned
\* ones.  C computes with unsigned ones when either side is unsigned.
SignDependent == {"/", "%", "<", ">>", "%="}
SignsAgree(op, t, a, b) ==
  op \in SignDependent /\ IsTypedInt(t)
    => (IsUnsigned(t) <=> \E c \in (IF op = ">>" THEN {a} ELSE {a, b}) : IsUnsigned(c.type))

\* Assignment and initialization: numbers convert to numbers, pointers and
\* integer zero to pointers, the rest only to itself.
CAssignable(t, c) ==
  /\ c.ok
  /\ \/ CArithmetic(t) /\ (CArithmetic(c.type) \/ c.type = <<"zero">>)
     \/ IsPtrLike(t) /\ CPointer(c.type)
     \/ t = c.type

\* What becomes an Any is printed as the element of an array, its type followed
\* by brackets.  Behind the type of a procedure, or of an array, that is not C.
CElement(t) == ~IsArray(t) /\ \A k \in DOMAIN t : t[k] # "proc"
CInitializes(t, n) ==
  IF t = TAny /\ n.type # TAny THEN CElement(n.type) /\ CAssignable(n.type, Generated(n))
  ELSE CAssignable(t, Generated(n))
AnyQuirk(t, n) == t = TAny /\ n.type # TAny /\ ~CElement(n.type)
-----------------------------------------------------------------------------
(* Folding *)

EvalFloat(op, a, b) ==
  LET n == a[2]*b[3]
      m == b[2]*a[3]
      d == a[3]*b[3]
      float(x, y) == Literal(UTFloat, IF y < 0 THEN <<"d", -x, -y>> ELSE <<"d", x, y>>)
      bool(p) == Literal(UTBool, BoolVal(p))
  IN CASE op = "+" -> float(n + m, d)
       [] op = "-" -> float(n - m, d)
       [] op = "*" -> float(a[2]*b[2], d)
       [] op = "/" -> IF b[2] = 0 THEN Error ELSE float(a[2]*b[3], a[3]*b[2])
       [] op = "==" -> bool(n = m)
       [] op = "<" -> bool(n < m)
       [] OTHER -> Error

EvalInt(op, t, x, y) ==
  LET int(v) == Literal(t, IntVal(v))
      folded(v, exact) == Marked(int(v), "lost", v # exact)
      bool(p) == Literal(UTBool, BoolVal(p))
  IN CASE op = "+" -> folded(Sum(x, y), x + y)
       [] op = "-" -> folded(Sum(x, -y), x - y)
       [] op = "*" -> int(x * y)
       [] op \in {"/", "%"} /\ y = 0 -> Error
       [] op = "/" -> IF DivCrashes(x, y) THEN Crash ELSE int(Div(x, y))
       [] op = "%" -> IF ModCrashes(x, y) THEN Crash ELSE int(Mod(x, y))
       [] op = "<<" -> IF ShlCrashes(x, y) THEN Crash
                       ELSE IF ShlExhausts(x, y) THEN Exhausted
                       ELSE folded(Shl(x, y), IF x = 0 THEN 0 ELSE x * 2^y)
       [] op = ">>" -> IF ShrCrashes(x, y) THEN Crash ELSE int(Shr(x, y))
       [] op \in {"&", "|", "^"} -> folded(Bitwise(op, x, y), BitwiseExact(op, x, y))
       [] op = "&&" -> bool(x # 0 /\ y # 0)
       [] op = "||" -> bool(x # 0 \/ y # 0)
       [] op = "==" -> bool(x = y)
       [] op = "<" -> bool(x < y)

\* Both operands are untyped constants, of one kind once the rule has been
\* applied.  An addptr of a string literal keeps the flag but has a type.
EvalBinary(op, l, r) ==
  CASE ~IsUntyped(l.type) \/ ~IsUntyped(r.type) -> Crash
    [] IsStrVal(l.const) -> Error
    [] IsFloat(l.type) \/ IsFloat(r.type) -> EvalFloat(op, AsFloat(l.const), AsFloat(r.const))
    [] OTHER -> EvalInt(op, l.type, l.const[2], r.const[2])

EvalUnary(op, e, address) ==
  LET v == e.const
      int(n) == [e EXCEPT !.const = IntVal(n)]
      w == WidthOf(Default(e.type))
      unsigned == IsUnsigned(Default(e.type))
      not == Not(v[2], w, unsigned, address)
  IN CASE ~IsUntyped(e.type) -> Crash
       [] IsStrVal(v) -> Error
       [] op = "+" -> e
       [] op = "-" -> IF IsFloat(e.type) THEN [e EXCEPT !.const = <<"d", -v[2], v[3]>>]
                      ELSE int(-v[2])
       [] IsFloat(e.type) -> Error
       [] op = "!" -> [e EXCEPT !.type = UTBool, !.const = BoolVal(v[2] = 0)]
       [] OTHER -> IF NotCrashes(v[2], unsigned) THEN Crash
                   ELSE Marked(int(not), "lost", not # NotExact(v[2], w, unsigned))

-----------------------------------------------------------------------------
(* Operators that are left to C *)

\* A variant: pointers have arithmetic.
IsValidForPointersToo(op, t) ==
  CASE op \in Comparisons /\ (IsFloat(t) \/ IsInt(t) \/ IsPtrLike(t)) -> "Bool"
    [] op \in Connectives /\ (IsInt(t) \/ IsPtrLike(t)) -> "Bool"
    [] op \in IntegerOps /\ IsInt(t) -> "Ok"
    [] op \in {"+", "-", "*", "/"} /\ (IsFloat(t) \/ IsInt(t) \/ IsPtrLike(t)) -> "Ok"
    [] OTHER -> "Error"

IsBinaryExprValidForType(op, t) ==
  CASE op \in Comparisons /\ (IsFloat(t) \/ IsInt(t) \/ IsPtrLike(t)) -> "Bool"
    [] op \in Connectives /\ (IsInt(t) \/ IsPtrLike(t)) -> "Bool"
    [] op \in IntegerOps /\ IsInt(t) -> "Ok"
    [] op \in {"+", "-", "*", "/"} /\ (IsFloat(t) \/ IsInt(t)) -> "Ok"
    [] OTHER -> "Error"

IsUnaryOpValidForType(op, t) ==
  CASE op \in {"+", "-"} /\ (IsFloat(t) \/ IsInt(t)) -> "Ok"
    [] op = "~" /\ IsInt(t) -> "Ok"
    [] op = "!" /\ (IsInt(t) \/ IsPtrLike(t)) -> "Bool"
    [] OTHER -> "Error"

IsAssignValidForType(op, t) ==
  \/ op = "="
  \/ op \in {"+=", "*="} /\ (IsInt(t) \/ IsFloat(t))
  \/ op \in {"%=", "<<="} /\ IsInt(t)

\* An operator of integers whose right side is a pointer gets the type of the
\* left: nothing then looks at the pointer any more.
PointerOnTheRight(op, l, r) ==
  IsInt(l.type) /\ IsPtrLike(r.type) /\ op \notin Comparisons \cup Connectives

TypedBinary(op, l, r, t) ==
  LET valid == IsBinaryExprValidForType(op, t)
      tl == TryTyping(l, t)
      tr == TryTyping(r, t)
      n == Mk(IF valid = "Bool" THEN UTBool ELSE t, l.flags \cap r.flags \cap {"Const"},
              NoVal, CBinary(op, Generated(tl), Generated(tr)), {tl, tr})
  IN CASE valid = "Error" -> Error
       [] TypingCrashes(l, t) \/ TypingCrashes(r, t) -> Crash
       [] OTHER -> Marked(Marked(n, "quirk", PointerOnTheRight(op, l, r)),
                          "signs", ~SignsAgree(op, t, Generated(tl), Generated(tr)))

ResolveBinaryExpr(op, l, r) ==
  LET rule == Rule(BinaryRules, GetTypeCategory(l.type), GetTypeCategory(r.type))
  IN CASE rule = "NO" \/ (rule = "TEQ" /\ l.type # r.type) -> Error
       [] (rule = "LF" /\ ~UTConst(l)) \/ (rule = "RF" /\ ~UTConst(r)) -> Crash
       [] UTConst(l) /\ UTConst(r) ->
            LET v == EvalBinary(op, l, r)
                float == IsFloat(l.type) \/ IsFloat(r.type)
            IN IF v.st # "ok" THEN v
               ELSE Marked([v EXCEPT !.marks = @ \cup l.marks \cup r.marks],
                           "lost", float /\ (FloatLost(l.const) \/ FloatLost(r.const)))
       [] OTHER -> TypedBinary(op, l, r, IF rule = "LT" THEN r.type
                                         ELSE IF rule = "LF" THEN UTFloat ELSE l.type)

\* A unary operator keeps the flags of its operand, an lvalue's included.
ResolveUnary(op, e, address) ==
  LET valid == IsUnaryOpValidForType(op, e.type)
      g == Generated(e)
      n == Mk(IF valid = "Bool" THEN UTBool ELSE e.type, e.flags, NoVal,
              CText(IF op = "!" THEN TInt ELSE g.type, FALSE,
                    g.ok /\ (op = "!" \/ CArithmetic(g.type))), {e})
      v == EvalUnary(op, e, address)
  IN CASE UTConst(e) -> IF v.st = "ok" THEN Marked(v, "odd", Odd(v)) ELSE v
       [] valid = "Error" -> Error
       [] OTHER -> n

ResolveTypeCast(t, e) ==
  LET rule == Rule(CastingRules, GetTypeCategory(t), GetTypeCategory(e.type))
      te == TryTyping(e, t)
      g == Generated(te)
  IN CASE rule = "NO" -> Error
       [] rule = "RPS" /\ WidthOf(e.type) # PointerBits -> Error
       [] rule = "LPS" /\ WidthOf(t) # PointerBits -> Error
       [] rule = "SR" /\ ~IsStr(t) -> Error
       [] rule = "SR" -> Crash
       [] TypingCrashes(e, t) -> Crash
       [] OTHER -> Mk(t, e.flags \cap {"LValue", "Const"}, NoVal,
                      CText(t, FALSE, g.ok /\ CScalar(g.type)), {te})

\* The fit of a number into the type it is cast to is C's business.
CastConstant(t, e) ==
  LET n == Mk(t, e.flags \cap {"Const"}, NoVal, e.c, {e})
      is(v) == [n EXCEPT !.const = v, !.checked = FALSE]
  IN CASE IsStr(t) -> IF e.type = UTString THEN is(e.const) ELSE Error
       [] ~IsUntyped(e.type) -> Crash
       [] e.type = UTString -> Error
       [] IsFloat(t) -> Marked(is(AsFloat(e.const)), "lost", FloatLost(e.const))
       [] OTHER -> is(AsInt(e.const))

ResolveCast(t, e) ==
  IF UTConst(e) /\ (IsNum(t) \/ IsStr(t)) THEN CastConstant(t, e) ELSE ResolveTypeCast(t, e)

\* An element, a member or a pointee can be assigned to again.
Place(t, flags, c, from) == Mk(t, {"LValue"} \cup flags, NoVal, c, from)

\* The address keeps every flag of the pointer, and a literal left of it keeps
\* the flag of an untyped constant though it has a type now.
ResolveAddPtr(l, r) ==
  LET tl == IF l.type = UTString THEN TryDefaultTyping(l) ELSE l
      t == IF IsArray(tl.type) THEN PointerTo(Base(tl.type)) ELSE tl.type
      tr == TryTyping(r, t)
  IN IF ~IsInt(r.type) \/ (~IsPtr(tl.type) /\ ~IsArray(tl.type)) THEN Error
     ELSE Mk(t, IF UTConst(r) THEN l.flags ELSE l.flags \ {"Const"}, NoVal,
             CBinary("+", [Generated(tl) EXCEPT !.type = t], Generated(tr)), {tl, tr})

ResolveIndex(b, i) ==
  LET tb == IF b.type = UTString THEN TryDefaultTyping(b) ELSE b
      ti == TryDefaultTyping(i)
  IN IF ~IsInt(i.type) \/ (~IsPtr(tb.type) /\ ~IsArray(tb.type)) \/ tb.type = TpVoid THEN Error
     ELSE Place(Base(tb.type), {},
                CText(Base(tb.type), TRUE, Generated(tb).ok /\ Generated(ti).ok), {tb, ti})

\* Whatever has the flag has an address, even where C has no object for it.
ResolveGetPointerOfValue(e) ==
  LET g == Generated(e)
      n == Mk(PointerTo(e.type), e.flags \cap {"Const"}, NoVal,
              CText(PointerTo(e.type), FALSE, g.ok /\ g.lv), {e})
  IN IF "LValue" \notin e.flags THEN Error
     ELSE Marked(n, "quirk", ~g.lv)

ResolveGetValueOfPointer(e) ==
  LET g == Generated(e)
  IN IF ~IsPtr(e.type) THEN Error
     ELSE Place(Base(e.type), {}, CText(Base(e.type), TRUE, g.ok /\ IsPtr(g.type)), {e})

\* The member of the structure is an int.
ResolveField(e) ==
  LET t == IF IsPtr(e.type) THEN Base(e.type) ELSE e.type
  IN IF ~IsAggType(t) THEN Error
     ELSE Place(TInt, {"Const"}, CText(TInt, TRUE, Generated(e).ok), {e})

ResolveCall(e) ==
  IF ~IsProc(e.type) THEN Error
  ELSE Place(Tail(e.type), {}, CText(Tail(e.type), FALSE, Generated(e).ok), {e})

-----------------------------------------------------------------------------
(* Statements.  A use of an expression: "ok" with what was typed, "error"   *)
(* or "crash".  What is accepted is printed.                                *)

Used(ns, c, quirk) ==
  LET n == [st |-> "ok", type |-> TVoid, flags |-> {}, const |-> NoVal, checked |-> TRUE,
            c |-> c,
            marks   |-> Mark("quirk", quirk) \cup UNION {m.marks : m \in ns},
            printed |-> UNION {Printed(m) : m \in ns}]
  IN CASE "fatal" \in n.marks -> Crash
       [] "bad" \in n.marks -> Error
       [] "textless" \in n.printed -> Crash
       [] OTHER -> n

\* Refused, or the assertion after the rules: a literal on the left is LC_NA.
VarDeclRule(t, e) ==
  LET rule == Rule(AssignRules, GetTypeCategory(t), GetTypeCategory(e.type))
  IN CASE t = TVoid \/ e.type = TVoid -> "error"
       [] rule = "NO" -> "error"
       [] rule = "TEQ" /\ t # e.type -> "error"
       [] rule = "RO0" /\ e.type # UTNil -> "error"
       [] rule = "SR" /\ ~IsStr(t) -> "error"
       [] rule = "NA" -> "crash"
       [] TypingCrashes(e, t) -> "crash"
       [] OTHER -> "ok"

\* nil takes part in arithmetic and stays nil.
NilQuirk(t, e) == IsPtrLike(t) /\ e.type = UTNil /\ e.const # IntVal(0)

DeclareAs(t, e) ==
  LET te == TryTyping(e, t)
      v == VarDeclRule(t, e)
  IN CASE v = "error" -> Error
       [] v = "crash" -> Crash
       [] OTHER -> Used({te}, CText(t, FALSE, CInitializes(t, te) /\ ~IsArray(t)),
                        NilQuirk(t, e) \/ AnyQuirk(t, te) \/ IsArray(t))

DeclareByValue(e) ==
  LET t == Default(e.type)
      te == TryTyping(e, t)
  IN IF e.type = TVoid THEN Error
     ELSE Used({te}, CText(t, FALSE, CAssignable(t, Generated(te)) /\ ~IsArray(t)), IsArray(t))

Assign(op, l, r) ==
  LET t == l.type
      tr == TryTyping(r, t)
      v == VarDeclRule(t, r)
  IN CASE "LValue" \notin l.flags \/ ~IsAssignValidForType(op, t) -> Error
       [] v = "error" -> Error
       [] v = "crash" -> Crash
       [] OTHER ->
            MarkedIfOk(Used({l, tr}, CText(t, FALSE, Generated(l).ok /\ Generated(l).lv
                                             /\ CInitializes(t, tr) /\ ~IsArray(t)),
                            ~Generated(l).lv \/ NilQuirk(t, r) \/ AnyQuirk(t, tr) \/ IsArray(t)),
                       "signs", ~SignsAgree(op, t, Generated(l), Generated(tr)))

\* Nothing is printed for a constant.
DeclareConst(e) ==
  IF UTConst(e) /\ IsUntyped(e.type) THEN Used({}, CText(TVoid, FALSE, TRUE), FALSE) ELSE Error

Condition(e) ==
  LET te == TryDefaultTyping(e)
      t == te.type
  IN IF ~(IsInt(t) \/ IsPtrLike(t)) THEN Error
     ELSE Used({te}, CText(TVoid, FALSE, Generated(te).ok /\ CScalar(Generated(te).type)), FALSE)

\* A fatal misfit stops the compiler where the literal gets its type.
OrFatal(rule, n) == IF rule = "ok" /\ "fatal" \in n.marks THEN "crash" ELSE rule
Earliest(a, b) == IF a # "ok" THEN a ELSE b

\* Two cases.  They are compared as unsigned numbers, which asserts the sign.
Switch(e, a, b) ==
  LET t == Default(e.type)
      case(x) == IF UTConst(x) THEN OrFatal(VarDeclRule(t, x), TryTyping(x, t)) ELSE "error"
      cases == Earliest(case(a), case(b))
      fit(x) == BigIntFits(x.const[2], t)
  IN CASE ~IsInt(e.type) -> Error
       [] cases = "crash" -> Crash
       [] cases = "error" -> Error
       [] fit(a) /\ fit(b) /\ (a.const[2] < 0 \/ b.const[2] < 0) -> Crash
       [] fit(a) /\ fit(b) /\ a.const = b.const -> Error
       [] OTHER -> Used({TryDefaultTyping(e), TryTyping(a, t), TryTyping(b, t)},
                        CText(TVoid, FALSE, Generated(TryDefaultTyping(e)).ok), FALSE)

\* The size of an array, or an index of a compound literal, is taken unsigned.
ConstInt(e) ==
  CASE ~UTConst(e) \/ ~IsUTInt(e.type) -> Error
    [] ~BigIntFits(e.const[2], TInt) -> IF HasNoText(e.const[2]) THEN Crash ELSE Error
    [] e.const[2] < 0 -> Crash
    [] OTHER -> Used({TryTyping(e, TInt)}, CText(TInt, FALSE, TRUE), FALSE)

-----------------------------------------------------------------------------
(* Behaviours *)

Init ==
  /\ node \in Leaves
  /\ size = 0
  /\ stage = "expression"

Foldable(n) == IsIntVal(n.const) => Magnitude(n.const[2]) <= MaxValue

\* What follows from a node: a fatal misfit stops the compiler at once.
Outcome(n, next) ==
  CASE n.st = "crash" -> "crashed"
    [] n.st = "error" -> "refused"
    [] n.st = "exhausted" -> "exhausted"
    [] OTHER -> IF "fatal" \in n.marks THEN "crashed" ELSE next

Kept(n, from) ==
  IF n.st = "ok" THEN n
  ELSE [node EXCEPT !.marks = Mark("odd", \E m \in from : "odd" \in m.marks)]

\* The expression grows by one operator, unless that is refused.
Grow(n, from) ==
  /\ size' = size + 1
  /\ node' = Kept(n, from)
  /\ stage' = Outcome(n, "expression")

Unary ==
  /\ Foldable(node)
  /\ \E op \in {"!", "-", "+", "~"}, address \in Addresses :
        Grow(ResolveUnary(op, node, address), {node})
Cast == \E t \in CastTypes : Grow(ResolveCast(t, node), {node})

Binary ==
  /\ Foldable(node)
  /\ \E op \in BinaryOps, leaf \in Leaves :
        \/ Grow(ResolveBinaryExpr(op, node, leaf), {node, leaf})
        \/ Grow(ResolveBinaryExpr(op, leaf, node), {node, leaf})

AddPtr ==
  \E leaf \in Leaves :
     \/ Grow(ResolveAddPtr(node, leaf), {node, leaf})
     \/ Grow(ResolveAddPtr(leaf, node), {node, leaf})

Index ==
  \E leaf \in Leaves :
     \/ Grow(ResolveIndex(node, leaf), {node, leaf})
     \/ Grow(ResolveIndex(leaf, node), {node, leaf})

GetPointerOfValue == Grow(ResolveGetPointerOfValue(node), {node})
GetValueOfPointer == Grow(ResolveGetValueOfPointer(node), {node})
Field == Grow(ResolveField(node), {node})
Call == Grow(ResolveCall(node), {node})

\* The expression is used, with what else the statement needs.
Use(n, from) ==
  /\ node' = Kept(n, from)
  /\ stage' = Outcome(n, "accepted")
  /\ UNCHANGED size

Declaration ==
  \/ \E t \in CastTypes : Use(DeclareAs(t, node), {node})
  \/ Use(DeclareByValue(node), {node})
  \/ Use(DeclareConst(node), {node})

\* With one operator of each kind.
Assignment ==
  \E op \in {"=", "*=", "%="}, leaf \in Leaves :
     \/ Use(Assign(op, node, leaf), {node, leaf})
     \/ Use(Assign(op, leaf, node), {node, leaf})

Control ==
  \/ Use(Condition(node), {node})
  \/ \E a, b \in {leaf \in Leaves : UTConst(leaf)} : Use(Switch(node, a, b), {node, a, b})
  \/ \E e, b \in Leaves :
        IsInt(e.type) /\ UTConst(b) /\ Use(Switch(e, node, b), {node, e, b})
  \/ Use(ConstInt(node), {node})

Next ==
  /\ stage = "expression"
  /\ \/ /\ size < MaxSize
        /\ \/ Unary \/ Cast \/ Binary \/ AddPtr \/ Index
           \/ GetPointerOfValue \/ GetValueOfPointer \/ Field \/ Call
     \/ Declaration \/ Assignment \/ Control

Spec == Init /\ [][Next]_vars
-----------------------------------------------------------------------------
(* README.md:109: "the values are also bounds checked for safety".  In an  *)
(* accepted statement every constant that is printed for a number is of    *)
(* the kind of its type, and fits unless it was cast or used where no type *)
(* was asked for.  But for one thing that the check misses: a negative     *)
(* constant in an unsigned type as wide as a digit (BoundsAreChecked).     *)
ConstantsFit == stage = "accepted" => node.printed \cap {"kind", "range"} = {}

(* README.md:109 without the exception.                                    *)
BoundsAreChecked == stage = "accepted" => node.printed \cap {"kind", "range", "wraps"} = {}

(* Assertions are reached, and NULL is written to, only for expressions    *)
(* with a string literal, a negative constant, a constant of more than 64  *)
(* bits, or the result of a comparison or a negation used without a type:  *)
(* programs made of typed values and other literals stop the compiler only *)
(* by a shift to the left that makes a number longer than its memory.      *)
CrashesAreOdd == stage = "crashed" => "odd" \in node.marks

(* What the resolver accepts the C compiler accepts, but for six things    *)
(* the resolver lets through: an integer operator with a pointer on its    *)
(* right; the address of what C has no object for; an assignment to such a *)
(* thing; arithmetic on nil; arrays assigned or declared by value; and an  *)
(* Any made of a procedure, a pointer to one, or an array.                 *)
AcceptedIsC == stage = "accepted" => node.c.ok \/ "quirk" \in node.marks

(* README.md:109: "no random overflows".  What is folded into an accepted  *)
(* statement is what arithmetic gives, bit operators in two's complement.  *)
FoldsAreExact == stage = "accepted" => "lost" \notin node.marks

(* README.md:109: "There are no suffixes like 'ull', no random overflows". *)
(* An operator that means different things for signed and for unsigned     *)
(* numbers is signed in C exactly when the type of its operands is.        *)
SignsAreKept == stage = "accepted" => "signs" \notin node.marks

(* The assertions of the resolver, LC_ASSERT in value.c and resolve.c:     *)
(* none of them fails, whatever the program.                               *)
AssertionsHold == stage # "crashed"
=============================================================================
