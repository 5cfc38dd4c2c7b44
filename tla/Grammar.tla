------------------------------- MODULE Grammar ------------------------------
(***************************************************************************)
(* The language as a grammar, to hold the parser against.                  *)
(*                                                                         *)
(* Each operator is a rule, read as a relation on places in the text: it   *)
(* takes the set of places where its phrase may begin to the set of places *)
(* where it may then end.  Nothing is carried along, there is no boundary  *)
(* and no recovery.  A rule ends where the longest phrase ends: a filter   *)
(* names the tokens that may not come next.                                *)
(***************************************************************************)
EXTENDS Parser

InfixOps == {"||", "&&", "==", "!=", ">", ">=", "<", "<=", "-", "+", "|", "^",
             ">>", "<<", "&", "*", "/", "%"}
PostfixOps == {".", "[", "("}
Aggregates == {"struct", "union"}

Only(x, I, ks) == {i \in I : x[i] \in ks}
NotNext(x, I, ks) == {i \in I : x[i] \notin ks}
T(x, I, ks) == {i + 1 : i \in Only(x, I, ks \ {"eof"})}

(* The rules use each other: G(rule, x, I) is the rule of that name.        *)
RECURSIVE G(_, _, _), GUnary(_, _), GPostfix(_, _), GChain(_, _), GName(_, _),
          GItems(_, _, _)

GName(x, I) ==
  IF I = {} THEN {} ELSE T(x, I, Idents) \cup T(x, GName(x, T(x, I, {"("})), {")"})

\* Items of a literal ("}") or of a call (")"), up to and with the closing token.
GItems(x, I, close) ==
  LET index == T(x, T(x, G("expr", x, T(x, Only(x, I, IF close = "}" THEN {"["} ELSE {}), {"["})),
                      {"]"}), {"="})
      item == G("expr", x, NotNext(x, I, {"["}) \cup index \cup T(x, GName(x, I), {"="}))
  IN  IF I = {} THEN {}
      ELSE T(x, I \cup item, {close}) \cup GItems(x, T(x, item, {","}), close)

GOperand(x, I) ==
  LET type == G("type", x, T(x, I, {":"}))
  IN  T(x, I, Literals \cup {"str", "raw"} \cup Idents)
      \cup T(x, G("expr", x, T(x, I, {"("})), {")"})
      \cup G("compound", x, T(x, I, {"{"}))
      \cup T(x, G("expr", x, T(x, G("expr", x, T(x, T(x, I, {"addptr"}), {"("})), {","})), {")"})
      \cup NotNext(x, type, {"{", "("})
      \cup G("compound", x, T(x, type, {"{"}))
      \cup T(x, G("expr", x, T(x, type, {"("})), {")"})

GPostfix(x, I) ==
  LET one == T(x, T(x, I, {"."}), Idents)
             \cup T(x, G("expr", x, T(x, I, {"["})), {"]"})
             \cup G("call", x, T(x, I, {"("}))
  IN  IF I = {} THEN {} ELSE I \cup GPostfix(x, one)

GUnary(x, I) ==
  IF I = {} THEN {}
  ELSE GUnary(x, T(x, I, UnaryOps)) \cup NotNext(x, GPostfix(x, GOperand(x, I)), PostfixOps)

GChain(x, I) ==
  LET one == GUnary(x, I) IN IF I = {} THEN {} ELSE one \cup GChain(x, T(x, one, InfixOps))

GExpr(x, I) == NotNext(x, GChain(x, I), InfixOps)

\* Arguments, up to and with the closing parenthesis.
GArgs(x, I) ==
  LET type == G("type", x, T(x, T(x, I, Idents), {":"}))
      arg == G("notes", x, NotNext(x, type, {"="}) \cup G("expr", x, T(x, type, {"="})))
      rest == T(x, I, {"..."})
  IN  IF I = {} THEN {}
      ELSE T(x, arg \cup rest \cup T(x, rest, {"Any"}), {")"}) \cup G("args", x, T(x, arg, {","}))

GProcType(x, I) ==
  LET open == T(x, I, {"("})
      args == T(x, open, {")"}) \cup G("args", x, open)
  IN  NotNext(x, args, {":"}) \cup G("type", x, T(x, args, {":"}))

GType(x, I) ==
  LET id == T(x, I, Idents)
      open == T(x, I, {"["})
  IN  IF I = {} THEN {}
      ELSE NotNext(x, id, {"."}) \cup T(x, T(x, id, {"."}), Idents)
           \cup G("type", x, T(x, I, {"*"}))
           \cup G("type", x, T(x, open, {"]"}) \cup T(x, G("expr", x, open), {"]"}))
           \cup GProcType(x, T(x, I, {"proc"}))

GNote(x, I) ==
  LET name == T(x, I, Notes)
  IN  T(x, I, {"raw"}) \cup NotNext(x, name, {"("}) \cup G("call", x, T(x, name, {"("}))

GNotes(x, I) ==
  IF I = {} THEN {} ELSE NotNext(x, I, {"@"}) \cup G("notes", x, GNote(x, T(x, I, {"@"})))

-----------------------------------------------------------------------------
(* Statements. *)
RECURSIVE GStmts(_, _), GElses(_, _), GCases(_, _, _), GValues(_, _)

GBlock(x, I) ==
  LET open == T(x, I, {"{"}) IN T(x, open, {"}"}) \cup GStmts(x, open)

\* One statement or more, up to and with the closing brace.
GStmts(x, I) ==
  LET one == G("stmt", x, I)
  IN  IF I = {} THEN {} ELSE T(x, one, {"}"}) \cup GStmts(x, NotNext(x, one, {"}"}))

GBody(x, I) == GBlock(x, I) \cup G("stmt", x, NotNext(x, I, {"{"}))

GInitializer(x, I) == G("expr", x, I) \cup GNote(x, T(x, I, {"#"}))

GLocal(x, I) ==      \* a local variable
  LET colon == T(x, T(x, I, Idents), {":"})
      type == G("type", x, colon)
  IN  G("expr", x, T(x, colon, {"="})) \cup NotNext(x, type, {"="})
      \cup GInitializer(x, T(x, type, {"="}))

GAssign(x, I) == G("expr", x, T(x, G("expr", x, NotNext(x, I, {"{"})), AssignOps))
GExprStmt(x, I) ==   \* an expression or an assignment
  NotNext(x, G("expr", x, NotNext(x, I, {"{"})), AssignOps) \cup GAssign(x, I)

GSimple(x, I) ==
  LET return == T(x, I, {"return"})
      jump == T(x, I, {"break", "continue"})
  IN  Only(x, return, {";"}) \cup G("expr", x, return) \cup NotNext(x, jump, Idents)
      \cup T(x, jump, Idents) \cup GNote(x, T(x, I, {"#"})) \cup GLocal(x, I)
      \cup G("expr", x, T(x, T(x, T(x, I, Idents), {":"}), {":"})) \cup GExprStmt(x, I)

\* for {}, for C, for C; S, and three parts of which the last ones may be missing.
GFor(x, I) ==
  LET cond == G("notes", x, NotNext(x, G("expr", x, NotNext(x, I, {"{", ";"})), AssignOps))
      init == Only(x, I, {";"}) \cup G("notes", x, GLocal(x, I) \cup GAssign(x, I))
      semi == T(x, init, {";"})
      round == cond \cup NotNext(x, init, {";"}) \cup Only(x, semi, {";"}) \cup G("expr", x, semi)
      last == G("notes", x, GExprStmt(x, T(x, round, {";"})))
  IN  GBlock(x, I) \cup GBody(x, NotNext(x, round, {";"}) \cup last)

GValues(x, I) ==
  LET one == G("expr", x, I) IN IF I = {} THEN {} ELSE one \cup GValues(x, T(x, one, {","}))

GCases(x, I, some) ==
  LET case == G("notes", x, GBody(x, T(x, GValues(x, T(x, I, {"case"})), {":"})))
      default == GBody(x, T(x, T(x, I, {"default"}), {":"}))
  IN  IF I = {} THEN {}
      ELSE (IF some THEN T(x, I, {"}"}) ELSE {}) \cup GCases(x, case, TRUE) \cup T(x, default, {"}"})

GElses(x, I) ==
  LET else == T(x, I, {"else"})
      one == GBody(x, NotNext(x, else, {"if"}) \cup G("expr", x, T(x, else, {"if"})))
  IN  IF I = {} THEN {} ELSE NotNext(x, I, {"else"}) \cup GElses(x, one)

GStmt(x, I) ==
  LET label == T(x, T(x, I, Idents), {":"})
      for == T(x, I \cup label, {"for"})
  IN  IF I = {} THEN {}
      ELSE G("notes", x, T(x, GSimple(x, I), {";"}) \cup GBody(x, T(x, I, {"defer"})) \cup GFor(x, for)
                     \cup GCases(x, T(x, G("expr", x, T(x, I, {"switch"})), {"{"}), FALSE)
                     \cup GElses(x, GBody(x, G("expr", x, T(x, I, {"if"})))) \cup GBlock(x, I))

G(rule, x, I) ==
  CASE rule = "expr" -> GExpr(x, I)
    [] rule = "compound" -> GItems(x, I, "}")
    [] rule = "call" -> GItems(x, I, ")")
    [] rule = "type" -> GType(x, I)
    [] rule = "args" -> GArgs(x, I)
    [] rule = "notes" -> GNotes(x, I)
    [] rule = "stmt" -> GStmt(x, I)

-----------------------------------------------------------------------------
(* Declarations. *)
RECURSIVE GMembers(_, _), GDecls(_, _, _), GImports(_, _)

GMembers(x, I) ==
  LET one == G("notes", x, T(x, G("type", x, T(x, T(x, I, Idents), {":"})), {";"}))
  IN  IF I = {} THEN {} ELSE T(x, one, {"}"}) \cup GMembers(x, one)

GSignature(x, I) ==
  GProcType(x, T(x, T(x, T(x, T(x, I, Idents), {":"}), {":"}), {"proc"}))

\* A constant; "^" and "<<" need one right before, so that it begins in C.
GConst(x, I, C) ==
  LET define(J) == T(x, T(x, T(x, J, Idents), {":"}), {":"})
  IN  G("notes", x, T(x, G("expr", x, define(I)) \cup T(x, define(C), {"^", "<<"}), {";"}))

GDecl(x, I) ==
  LET colons == T(x, T(x, T(x, I, Idents), {":"}), {":"})
      sig == GSignature(x, I)
      var == GLocal(x, I) \cup GNote(x, T(x, I, {"#"}))
  IN  G("notes", x, T(x, sig, {";"}) \cup GBlock(x, sig) \cup GMembers(x, T(x, T(x, colons, Aggregates), {"{"}))
                \cup T(x, G("type", x, T(x, colons, {"typedef"})) \cup var, {";"}))

\* Declarations; C are the places among I that a constant ends at.
GDecls(x, I, C) ==
  LET docs(J) == J \cup T(x, J, {"doc"})
      const == GConst(x, docs(I), docs(C))
  IN  IF I = {} THEN {} ELSE docs(I) \cup GDecls(x, const \cup GDecl(x, docs(I)), const)

GImports(x, I) ==
  LET import == T(x, I, {"import"})
  IN  IF I = {} THEN {}
      ELSE NotNext(x, I, {"import"})
           \cup GImports(x, T(x, T(x, NotNext(x, import, Idents) \cup T(x, import, Idents), {"str"}), {";"}))

\* The condition of a file is a constant.
RECURSIVE GConstant(_, _)
GConstant(x, I) ==
  LET one == T(x, I, {"int", "true"}) \cup T(x, GConstant(x, T(x, I, {"("})), {")"})
  IN  IF I = {} THEN {}
      ELSE one \cup GConstant(x, T(x, I, UnaryOps \ {"&", "*"}) \cup T(x, one, InfixOps))

GHeader(x, I) ==
  LET pkgdoc == T(x, I, {"pkgdoc"}) \cup NotNext(x, I, {"pkgdoc"})
      filedoc == T(x, pkgdoc, {"filedoc"}) \cup NotNext(x, pkgdoc, {"filedoc"})
      if == {i \in filedoc : x[i] = "#" /\ x[i + 1] = "build_if"}
      condition == GConstant(x, T(x, T(x, T(x, if, {"#"}), {"build_if"}), {"("}))
      end == condition \cup T(x, condition, {","})
  IN  (filedoc \ if) \cup T(x, T(x, end, {")"}), {";"})

\* The regions of a file: it is cut before each procedure and type.
Cuts(x) == {i \in DOMAIN x : IsDeclStart(x, i)}
Starts(x) == {1} \cup Cuts(x)
After(x, r) == Min({i \in Cuts(x) \cup {Len(x)} : i > r \/ i = Len(x)})

InGrammar(x, r) ==
  After(x, r) \in GDecls(x, IF r = 1 THEN GImports(x, GHeader(x, {1})) ELSE {r}, {})
=============================================================================
