---------------------------- MODULE CompoundsMC -----------------------------
(***************************************************************************)
(* The expressions of Expressions, used in calls and literals too.         *)
(*                                                                         *)
(* Procedures of three parameters with and without default values and with *)
(* the two kinds of variadic arguments, a structure and a union of two     *)
(* members, and an array of two elements.                                  *)
(***************************************************************************)
EXTENDS Compounds

MCBits == [t \in IntTypes |-> CASE t \in {"llong", "ullong"} -> 5 [] t = "int" -> 4 [] OTHER -> 3]

MCLeaves ==
  {Literal(UTInt, IntVal(n)) : n \in {0, 3, 5, 40}}
    \cup {Literal(UTBool, IntVal(1)), Literal(UTNil, IntVal(0)), Literal(UTString, StrVal),
          Literal(UTFloat, <<"d", 3, 2>>)}
    \cup {Variable(t) : t \in {TInt, <<"char">>, <<"llong">>, <<"ullong">>, TFloat, <<"*", "int">>,
                               TpVoid, <<"[]", "int">>, <<"struct">>,
                               <<"proc", "int">>, <<"proc", "void">>}}

MCCastTypes == {TInt, <<"char">>, <<"llong">>, <<"ullong">>, TFloat, <<"*", "int">>, TpVoid, TpChar,
                <<"proc", "int">>, TString, TAny}

MCOther == Literal(UTInt, IntVal(3))

Member(name, type, default) == [name |-> name, type |-> type, default |-> default]

MCShapes ==
  {ShapeOf("proc", <<Member("a", TInt, d), Member("b", TInt, e), Member("c", <<"ullong">>, f)>>, "no") :
     d, e, f \in BOOLEAN}
    \cup {ShapeOf("proc", <<Member("a", TInt, FALSE)>>, v) : v \in {"c", "any"}}
    \cup {ShapeOf(k, <<Member("a", TInt, FALSE), Member("b", TFloat, FALSE)>>, "no") :
            k \in {"struct", "union"}}
    \cup {ShapeOf("array", <<Member("", TInt, FALSE), Member("", TInt, FALSE)>>, "no")}

\* No name is "x", and the array has no element 2.
MCNames == {[name |-> s, index |-> NoIndex] : s \in {NoName, "a", "b", "c", "x"}}
MCIndexes == {[name |-> NoName, index |-> i] : i \in {NoIndex, <<-1>>, <<0>>, <<1>>, <<2>>, <<3>>}}

MCItemLists ==
  UNION {[1..n -> MCNames] : n \in 1..3} \cup UNION {[1..n -> MCIndexes] : n \in 1..2}
    \cup {<<x, y>> : x \in MCNames, y \in MCIndexes}
=============================================================================
