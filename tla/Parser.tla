------------------------------- MODULE Parser -------------------------------
(***************************************************************************)
(* The parser (parse.c): a file of tokens becomes imports, declarations    *)
(* and error reports.                                                      *)
(*                                                                         *)
(* A parser p has the tokens of a file and, as LC_Parser, a cursor `at'    *)
(* and a boundary `end'; `n' is the tree that was parsed last.  ok is      *)
(* FALSE while an error is on its way up (LC_PROP_ERROR): every operator   *)
(* returns such a parser as it is.  A tree is a tuple of its kind and its  *)
(* parts; names and values are not kept.  An error is its position, 0 for  *)
(* L->NullToken.  One action is one round of a loop of LC_ParseFileEx.     *)
(***************************************************************************)
EXTENDS Integers, Sequences, FiniteSets, FiniteSetsExt

CONSTANT Texts   \* the files, as sequences of tokens that end in "eof"

ASSUME TextsAssumption ==
  \A x \in Texts : Len(x) > 0 /\ \A i \in DOMAIN x : x[i] = "eof" <=> i = Len(x)

VARIABLES
  p,        \* L->parser
  pc,       \* the loop LC_ParseFileEx is in
  imports,  \* afile.fimport, as names
  decls,    \* afile.fdecl
  doc,      \* does this file have a package doc comment
  doc0,     \* did a file before it, package->apackage.ext->doc_comment
  turn      \* changes with every step

vars == <<p, pc, imports, decls, doc, doc0, turn>>

-----------------------------------------------------------------------------
(* Tokens. *)
Notes    == {"c", "build_if"}                 \* registered names of notes
Idents   == {"id", "Any"} \cup Notes
Literals == {"int", "float", "true"}
Keywords == {"for", "import", "if", "else", "return", "defer", "continue", "break", "default",
             "case", "typedef", "switch", "proc", "struct", "union"}
AssignOps == {"=", "/=", "*=", "%=", "-=", "+=", "&=", "|=", "^=", "<<=", ">>="}
UnaryOps  == {"!", "~", "+", "-", "&", "*"}

None == <<>>
Error == <<"error">>
DocError == -1

\* LC_GetI and LC_Get; a token that is not there is L->NullToken, of kind EOF.
Pos(q, i) == IF q.at + i \in 1..(q.end - 1) THEN q.at + i ELSE 0
Tok(q, i) == IF Pos(q, i) = 0 THEN "eof" ELSE q.text[Pos(q, i)]
Get(q) == Tok(q, 0)

Is(q, k) == q.ok /\ Get(q) = k
IsIdent(q) == q.ok /\ Get(q) \in Idents

Advance(q) == IF q.at < q.end THEN [q EXCEPT !.at = @ + 1] ELSE q
Match(q, k) == IF Is(q, k) THEN Advance(q) ELSE q
Warn(q, pos) == [q EXCEPT !.errs = @ \cup {pos}]
Fail(q, pos) == [q EXCEPT !.errs = @ \cup {pos}, !.ok = FALSE, !.n = Error]
Put(q, tree) == IF q.ok THEN [q EXCEPT !.n = tree] ELSE q

Expect(q, k) ==
  IF ~q.ok THEN q ELSE IF Get(q) = k THEN Advance(q) ELSE Fail(q, Pos(q, 0))
ExpectIdent(q) ==
  IF ~q.ok THEN q ELSE IF Get(q) \in Idents THEN Advance(q) ELSE Fail(q, Pos(q, 0))
Semicolon(q) ==
  IF ~q.ok THEN q ELSE IF Get(q) = ";" THEN Advance(q) ELSE Fail(q, Pos(q, -1))

Rewind(q, at) == IF q.ok THEN q ELSE [q EXCEPT !.at = at]

-----------------------------------------------------------------------------
(* LC_GetPrecedence.                                                       *)
PrefixRight == 20
PostfixLeft == 21
IsPostfix(t) == t \in {".", "[", "("}

Infix_Right(t) ==     \* MUTANT: a chain of one level nests to the right
  CASE t = "||" -> <<10, 9>>
    [] t = "&&" -> <<12, 11>>
    [] t \in {"==", "!=", ">", ">=", "<", "<="} -> <<14, 13>>
    [] t \in {"-", "+", "|", "^"} -> <<16, 15>>
    [] t \in {">>", "<<", "&", "*", "/", "%"} -> <<18, 17>>
    [] OTHER -> <<0, 0>>

Infix(t) ==
  CASE t = "||" -> <<9, 10>>
    [] t = "&&" -> <<11, 12>>
    [] t \in {"==", "!=", ">", ">=", "<", "<="} -> <<13, 14>>
    [] t \in {"-", "+", "|", "^"} -> <<15, 16>>
    [] t \in {">>", "<<", "&", "*", "/", "%"} -> <<17, 18>>
    [] OTHER -> <<0, 0>>

(* The rules of the language use each other: Parse(rule, q) is the         *)
(* function for a rule, with what else it is given, in the parser q.       *)
RECURSIVE Parse(_, _), ParseOperators(_, _), ParseItems(_, _, _)

ParseExpr(q) == Parse(<<"expr", 0>>, q)

(* One item of a compound literal or a call.                               *)
ParseItem(q, call) ==
  IF Is(q, "[")
  THEN IF call THEN Fail(Advance(q), Pos(q, 0))
       ELSE LET i == ParseExpr(Advance(q))
                e == ParseExpr(Expect(Expect(i, "]"), "="))
            IN  Put(e, <<"item", "", i.n, e.n>>)
  ELSE LET e == ParseExpr(q)
           v == ParseExpr(Advance(e))
       IN  IF ~Is(e, "=") THEN Put(e, <<"item", "", None, e.n>>)
           ELSE IF e.n[1] # "ident" THEN Fail(Advance(e), Pos(e, 0))
           ELSE Put(v, <<"item", e.n[2], None, v.n>>)

ParseItems(q, call, items) ==
  LET close == IF call THEN ")" ELSE "}"
      i == ParseItem(q, call)
      more == Append(items, i.n)
  IN  IF ~q.ok THEN q
      ELSE IF Get(q) = close THEN Put(Advance(q), items)
      ELSE IF Is(i, ",") THEN ParseItems(Advance(i), call, more)
      ELSE Put(Expect(i, close), more)

\* LC_ParseCompo, behind the opening token.
ParseCompound(q, name) ==
  LET r == Parse(<<"items", FALSE>>, q) IN Put(r, <<"compound", name, r.n>>)
ParseCall(q, name) ==
  LET r == Parse(<<"items", TRUE>>, q) IN Put(r, <<"call", name, r.n>>)

ParseAddPtr(q) ==
  LET l == ParseExpr(Expect(q, "("))
      r == ParseExpr(Expect(l, ","))
  IN  Put(Expect(r, ")"), <<"addptr", l.n, r.n>>)

\* A type, a compound literal or a cast, behind the colon at position at.
ParseColon(q, at) ==
  LET t == Parse(<<"type">>, q)
      e == ParseExpr(Advance(t))
  IN  IF Is(t, "{") THEN Rewind(ParseCompound(Advance(t), <<"type", t.n>>), at)
      ELSE IF Is(t, "(") THEN Put(Expect(e, ")"), <<"cast", t.n, e.n>>)
      ELSE Put(t, <<"type", t.n>>)

ParsePrefix(q) ==
  LET t == Get(q)
      r == Advance(q)
      e == Parse(<<"expr", PrefixRight>>, r)
      prev == Pos(q, -1)
  IN  CASE t \in Literals -> Put(r, <<"literal", t>>)
        [] t \in {"str", "raw"} -> Put(r, <<"literal", "raw">>)
        [] t \in Idents -> Put(r, <<"ident", t>>)
        [] t \in Keywords -> Fail(r, Pos(q, 0))
        [] t = "addptr" -> ParseAddPtr(r)
        [] t = ":" -> ParseColon(r, q.at)
        [] t = "{" -> Rewind(ParseCompound(r, None), prev)
        [] t \in UnaryOps -> Put(e, <<"unary", t, e.n>>)
        [] t = "(" -> Expect(ParseExpr(r), ")")
        [] OTHER -> Fail(r, prev)

ParsePostfix(q, left) ==
  LET r == Advance(q)
      i == ParseExpr(r)
  IN  CASE Get(q) = "[" -> Put(Expect(i, "]"), <<"index", left, i.n>>)
        [] Get(q) = "(" -> ParseCall(r, left)
        [] Get(q) = "." -> Put(ExpectIdent(r), <<"field", left, Get(r)>>)

\* The loop behind the prefix expression.
ParseOperators(q, min) ==
  LET t == Get(q)
      r == Parse(<<"expr", Infix(t)[2]>>, Advance(q))
  IN  IF ~q.ok THEN q
      ELSE IF IsPostfix(t) /\ PostfixLeft > min THEN ParseOperators(ParsePostfix(q, q.n), min)
      ELSE IF Infix(t)[1] > min THEN ParseOperators(Put(r, <<"binary", t, q.n, r.n>>), min)
      ELSE q

ParseExprEx(q, min) == IF q.ok THEN ParseOperators(ParsePrefix(q), min) ELSE q

-----------------------------------------------------------------------------
(* Types. *)
ParseVargs(q) == IF Get(q) = "Any" THEN Put(Advance(q), "any") ELSE Put(q, "yes")

\* One argument: its name, its type and its default value.
ParseArg(q) ==
  LET t == Parse(<<"type">>, Expect(ExpectIdent(q), ":"))
      d == ParseExpr(Advance(t))
  IN  IF Is(t, "=") THEN Parse(<<"notes">>, Put(d, <<Get(q), t.n, d.n>>))
      ELSE Parse(<<"notes">>, Put(t, <<Get(q), t.n, None>>))

\* The arguments up to and with the closing parenthesis.
ParseArgs(q, args) ==
  LET a == ParseArg(q)
      v == ParseVargs(Advance(q))
      more == Append(args, a.n)
  IN  IF ~q.ok THEN q
      ELSE IF Get(q) = "..." THEN Put(Expect(v, ")"), <<args, v.n>>)
      ELSE IF Is(a, ",") THEN Parse(<<"args", more>>, Advance(a))
      ELSE Put(Expect(a, ")"), <<more, "no">>)

ParseProcType(q) ==
  LET open == Expect(q, "(")
      a == IF Is(open, ")") THEN Put(Advance(open), <<<<>>, "no">>) ELSE Parse(<<"args", <<>>>>, open)
      r == Parse(<<"type">>, Advance(a))
  IN  IF Is(a, ":") THEN Put(r, <<"proc", a.n[1], a.n[2], r.n>>)
      ELSE Put(a, <<"proc", a.n[1], a.n[2], None>>)

ParseType(q) ==
  LET r == Advance(q)
      base == Parse(<<"type">>, r)
      size == ParseExpr(r)
      elem == Parse(<<"type">>, IF Is(r, "]") THEN Advance(r) ELSE Expect(size, "]"))
  IN  CASE ~q.ok -> q
        [] IsIdent(q) /\ Get(r) = "." ->
             Put(ExpectIdent(Advance(r)), <<"field", <<"ident", Get(q)>>, Get(Advance(r))>>)
        [] IsIdent(q) /\ Get(r) # "." -> Put(r, <<"ident", Get(q)>>)
        [] Is(q, "*") -> Put(base, <<"pointer", base.n>>)
        [] Is(q, "[") -> Put(elem, <<"array", IF Is(r, "]") THEN None ELSE size.n, elem.n>>)
        [] Is(q, "proc") -> Parse(<<"proc">>, r)
        [] OTHER -> Fail(r, Pos(q, 0))

-----------------------------------------------------------------------------
(* Notes.  An error in the arguments of a note is counted, and forgotten.  *)
ParseNote(q) ==
  LET r == IF Get(q) \in Notes THEN Advance(q) ELSE Warn(Advance(q), Pos(q, 0))
      items == Parse(<<"items", TRUE>>, Advance(r))
      args == IF items.ok THEN items.n ELSE <<>>
  IN  IF Is(q, "raw")
      THEN Put(Advance(q), <<"note", "c", <<<<"item", "", None, <<"literal", "raw">>>>>>>>)
      ELSE IF ~IsIdent(q) THEN ExpectIdent(q)
      ELSE IF Is(r, "(") THEN [items EXCEPT !.ok = TRUE, !.n = <<"note", Get(q), args>>]
      ELSE Put(r, <<"note", Get(q), <<>>>>)

\* LC_ParseNotes; its caller goes on with what it has.
RECURSIVE NotesOf(_)
NotesOf(q) ==
  LET r == Parse(<<"note">>, [Advance(q) EXCEPT !.ok = TRUE])
  IN  IF Get(q) # "@" THEN q ELSE NotesOf([r EXCEPT !.ok = q.ok, !.n = q.n])

ParseNotes(q) == IF q.ok THEN NotesOf(q) ELSE q

-----------------------------------------------------------------------------
(* Statements. *)
RECURSIVE ParseStmts(_, _, _), ParseValues(_, _), Recover(_)

\* "Eat until next statement in case of error".
Recover(q) ==
  IF Get(q) \in {"eof", "{"} THEN q
  ELSE IF Get(q) = "}" THEN Advance(q)
  ELSE IF Get(q) = ";" THEN [Advance(q) EXCEPT !.ok = TRUE]
  ELSE Recover(Advance(q))

\* The statements of a block that was opened at position open, up to and
\* with its closing brace.
ParseStmts(q, stmts, open) ==
  LET s == Parse(<<"stmt", TRUE>>, q)
      r == IF s.ok THEN s ELSE Recover(s)
      more == Append(stmts, r.n)
  IN  IF ~r.ok THEN r
      ELSE IF Get(r) = "eof" THEN Fail(Advance(r), open)
      ELSE IF Get(r) = "}" THEN Put(Advance(r), <<"block", more>>)
      ELSE ParseStmts(r, more, open)

ParseStmtBlock(q) ==
  LET r == Expect(q, "{")
  IN  IF Is(r, "}") THEN Put(Advance(r), <<"block", <<>>>>)
      ELSE IF r.ok THEN ParseStmts(r, <<>>, q.at) ELSE r

\* ParseStmtBlock_AllowSingleStmt.
ParseBody(q) ==
  LET s == Parse(<<"stmt", TRUE>>, q)
  IN  IF Is(q, "{") THEN Parse(<<"block">>, q) ELSE Put(s, <<"block", <<s.n>>>>)

ParseForBody(q, init, cond, inc, label) ==
  LET b == ParseBody(q) IN Put(b, <<"for", init, cond, inc, b.n, label>>)

\* Behind skip_to_last: the statement that ends a round, and the body.
ParseForLast(q, init, cond, label) ==
  LET inc == Parse(<<"stmt", FALSE>>, Advance(q))
  IN  IF ~q.ok THEN q
      ELSE IF Get(q) # ";" THEN ParseForBody(q, init, cond, None, label)
      ELSE IF inc.ok /\ inc.n[1] \notin {"assign", "expr"} THEN Fail(inc, Pos(Advance(q), 0))
      ELSE ParseForBody(inc, init, cond, inc.n, label)

\* An expression where the first statement belongs is the condition.
ParseFor(q, label) ==
  LET init == Parse(<<"stmt", FALSE>>, q)
      rest == IF Is(q, ";") THEN q ELSE init
      first == IF Is(q, ";") THEN None ELSE init.n
      cond == ParseExpr(Advance(rest))
  IN  IF Is(q, "{") THEN ParseForBody(q, None, None, None, label)
      ELSE IF ~rest.ok THEN rest
      ELSE IF first # None /\ first[1] = "expr" THEN ParseForLast(init, None, first[2], label)
      ELSE IF first # None /\ first[1] \notin {"var", "assign"} THEN Fail(init, Pos(q, 0))
      ELSE IF Get(rest) # ";" THEN ParseForLast(rest, first, None, label)
      ELSE IF Tok(rest, 1) = ";" THEN ParseForLast(Advance(rest), first, None, label)
      ELSE ParseForLast(cond, first, cond.n, label)

ParseValues(q, values) ==
  LET e == ParseExpr(q)
      more == Append(values, e.n)
  IN  IF Is(e, ",") THEN ParseValues(Advance(e), more) ELSE Put(e, more)

ParseCases(q, e, cases) ==
  LET values == ParseValues(Advance(q), <<>>)
      case == ParseBody(Expect(values, ":"))
      next == Parse(<<"notes">>, case)
      more == Append(cases, <<"case", values.n, case.n>>)
      default == ParseBody(Expect(Advance(q), ":"))
  IN  IF ~q.ok THEN q
      ELSE IF Get(q) = "case"
           THEN IF ~case.ok THEN case
                ELSE IF Get(next) = "eof" THEN Fail(Advance(next), Pos(q, 0))
                ELSE IF Get(next) = "}" THEN Put(Advance(next), <<"switch", e, more>>)
                ELSE Parse(<<"cases", e, more>>, next)
      ELSE IF Get(q) = "default"
           THEN LET last == Expect(default, "}")
                IN  IF last.ok
                    THEN Put(Parse(<<"notes">>, last), <<"switch", e, Append(cases, <<"default", default.n>>)>>)
                    ELSE last
      ELSE Fail(q, Pos(q, 0))

ParseSwitch(q) == LET e == ParseExpr(q) IN Parse(<<"cases", e.n, <<>>>>, Expect(e, "{"))

\* What follows the body of an if: q.n is the list of alternatives so far.
ParseElses(q, elses) ==
  LET r == Advance(q)
      cond == ParseExpr(Advance(r))
      b == ParseBody(IF Is(r, "if") THEN cond ELSE r)
      else == IF Is(r, "if") THEN <<"elseif", cond.n, b.n>> ELSE <<"else", b.n>>
  IN  IF Is(q, "else") THEN Parse(<<"elses", Append(elses, else)>>, b) ELSE Put(q, elses)

ParseIf(q) ==
  LET cond == ParseExpr(q)
      b == ParseBody(cond)
      elses == Parse(<<"elses", <<>>>>, b)
  IN  Put(elses, <<"if", cond.n, b.n, elses.n>>)

\* An initializer may be a note: "= #...".
ParseInitializer(q) ==
  LET note == Parse(<<"note">>, Advance(q)) IN IF Is(q, "#") THEN note ELSE ParseExpr(q)

\* A local declaration, behind its name and colon.
ParseLocal(q) ==
  LET e == ParseExpr(Advance(q))
      t == Parse(<<"type">>, q)
      i == ParseInitializer(Advance(t))
  IN  IF Is(q, "=") THEN Put(e, <<"var", None, e.n>>)
      ELSE IF Is(q, ":") THEN Put(e, <<"const", e.n>>)
      ELSE IF Is(t, "=") THEN Put(i, <<"var", t.n, i.n>>)
      ELSE Put(t, <<"var", t.n, None>>)

ParseExprStmt(q) ==
  LET l == ParseExpr(q)
      r == ParseExpr(Advance(l))
  IN  IF l.ok /\ Get(l) \in AssignOps THEN Put(r, <<"assign", Get(l), l.n, r.n>>)
      ELSE Put(l, <<"expr", l.n>>)

\* The kinds of statement: those that end in a semicolon, and the others.
Simple(q) ==
  LET t == Get(q)
      r == Advance(q)
      e == ParseExpr(r)
      note == Parse(<<"note">>, r)
      label == IF IsIdent(r) THEN Get(r) ELSE ""
  IN  CASE t = "return" -> IF Get(r) = ";" THEN Put(r, <<"return", None>>) ELSE Put(e, <<"return", e.n>>)
        [] t \in {"break", "continue"} -> Put(IF IsIdent(r) THEN Advance(r) ELSE r, <<t, label>>)
        [] t = "#" -> Put(note, <<"note stmt", note.n>>)
        [] IsIdent(q) /\ Get(r) = ":" -> ParseLocal(Advance(r))
        [] OTHER -> ParseExprStmt(q)

IsLabelled(q) == IsIdent(q) /\ Tok(q, 1) = ":" /\ Tok(q, 2) = "for"
IsCompound(q) == Get(q) \in {"defer", "for", "switch", "if", "{"} \/ IsLabelled(q)

CompoundStmt(q) ==
  LET t == Get(q)
      r == Advance(q)
      b == ParseBody(r)
  IN  CASE t = "defer" -> Put(b, <<"defer", b.n>>)
        [] t = "for" -> ParseFor(r, "")
        [] t = "switch" -> ParseSwitch(r)
        [] t = "if" -> ParseIf(r)
        [] t = "{" -> NotesOf(Parse(<<"block">>, q))   \* also where the block has failed
        [] OTHER -> ParseFor(Advance(Advance(r)), t)

ParseStmt(q, semicolon) ==
  LET s == IF IsCompound(q) THEN CompoundStmt(q)
           ELSE IF semicolon THEN Semicolon(Simple(q)) ELSE Simple(q)
  IN  IF q.ok THEN Parse(<<"notes">>, s) ELSE q
-----------------------------------------------------------------------------
(* Declarations. *)
IsDeclStart(x, i) ==
  /\ i + 3 \in DOMAIN x
  /\ x[i] \in Idents /\ x[i + 1] = ":" /\ x[i + 2] = ":"
  /\ x[i + 3] \in {"proc", "struct", "union", "typedef"}

\* LC_EatUntilNextValidDecl.
Eat(q) ==
  LET stops == {i \in q.at..q.end : i = q.end \/ q.text[i] = "import" \/ IsDeclStart(q.text, i)}
  IN  [q EXCEPT !.at = Min(stops), !.ok = TRUE]

ParseProcBody_NoEnd(q) ==   \* MUTANT: the body may go on behind its procedure
  LET next == Min({i \in q.at..q.end : i = q.end \/ IsDeclStart(q.text, i)})
      open == {i \in q.at..(next - 1) : q.text[i] = "{"}
      close == {i \in q.at..(next - 1) : q.text[i] = "}"}
  IN  IF Cardinality(open) # Cardinality(close) THEN Fail([q EXCEPT !.at = next], Max(open))
      ELSE Parse(<<"block">>, q)

\* The boundary for the body of a procedure is the last brace before the next
\* procedure or type declaration.
ParseProcBody(q) ==
  LET next == Min({i \in q.at..q.end : i = q.end \/ IsDeclStart(q.text, i)})
      open == {i \in q.at..(next - 1) : q.text[i] = "{"}
      close == {i \in q.at..(next - 1) : q.text[i] = "}"}
      b == Parse(<<"block">>, [q EXCEPT !.end = Max(close) + 1])
  IN  IF Cardinality(open) # Cardinality(close) THEN Fail([q EXCEPT !.at = next], Max(open))
      ELSE [b EXCEPT !.end = q.end]

ParseProcDecl(q) ==
  LET type == Parse(<<"proc">>, q)
      b == ParseProcBody(type)
  IN  IF Is(type, "{") THEN Put(b, <<"proc decl", type.n, b.n>>)
      ELSE Put(Expect(type, ";"), <<"proc decl", type.n, None>>)

RECURSIVE ParseMembers(_, _)
ParseMembers(q, members) ==
  LET t == Parse(<<"type">>, Expect(ExpectIdent(q), ":"))
      r == Parse(<<"notes">>, Expect(t, ";"))
      more == Append(members, t.n)
  IN  IF ~r.ok THEN r
      ELSE IF Get(r) = "eof" THEN Fail(Advance(r), q.at)
      ELSE IF Get(r) = "}" THEN Put(Advance(r), more)
      ELSE ParseMembers(r, more)

ParseStruct(q, kind) ==
  LET m == ParseMembers(Expect(q, "{"), <<>>) IN Put(m, <<kind, m.n>>)

\* "^" and "<<" continue from the constant before: PREV + 1 and PREV << 1.
ParseConst(q, last) ==
  LET op == IF Get(q) = "^" THEN "+" ELSE "<<"
      e == ParseExpr(q)
  IN  IF Get(q) \notin {"^", "<<"} THEN Put(e, <<"const decl", e.n>>)
      ELSE IF last = None \/ last[1] # "const decl" THEN Fail(Advance(q), Pos(q, 0))
      ELSE Put(Advance(q), <<"const decl", <<"binary", op, <<"ident", "id">>, <<"literal", "int">>>>>>)

ParseNamed(q, last) ==
  LET r == Advance(q)
      t == Parse(<<"type">>, r)
      v == Parse(<<"type">>, q)
      e == ParseExpr(r)
      i == ParseInitializer(Advance(v))
  IN  IF Is(q, ":")
      THEN CASE Get(r) = "proc" -> ParseProcDecl(Advance(r))
             [] Get(r) \in {"struct", "union"} -> ParseStruct(Advance(r), Get(r))
             [] Get(r) = "typedef" ->
                  LET a == Parse(<<"type">>, Advance(r)) IN Semicolon(Put(a, <<"typedef", a.n>>))
             [] OTHER -> Semicolon(ParseConst(r, last))
      ELSE IF Is(q, "=") THEN Semicolon(Put(e, <<"var decl", None, e.n>>))
      ELSE IF Is(v, "=") THEN Semicolon(Put(i, <<"var decl", v.n, i.n>>))
      ELSE Semicolon(Put(v, <<"var decl", v.n, None>>))

\* LC_ParseDecl; the tree is None at the end of the file.
ParseDecl(p0, last) ==
  LET q == Match(p0, "doc")
      r == Advance(q)
      note == Parse(<<"note">>, r)
      d == IF IsIdent(q)
           THEN IF Get(r) = ":" THEN ParseNamed(Advance(r), last) ELSE Fail(r, Pos(q, 0))
           ELSE IF Get(q) = "#" THEN Semicolon(Put(note, <<"note decl", note.n>>))
           ELSE IF Get(q) = "import" THEN Fail(r, Pos(r, 0))
           ELSE Fail(q, Pos(q, 0))
  IN  IF Get(q) = "eof" THEN Put(q, None) ELSE Parse(<<"notes">>, d)

Parse(rule, q) ==
  CASE rule[1] = "expr" -> ParseExprEx(q, rule[2])
    [] rule[1] = "items" -> ParseItems(q, rule[2], <<>>)
    [] rule[1] = "type" -> ParseType(q)
    [] rule[1] = "proc" -> ParseProcType(q)
    [] rule[1] = "note" -> ParseNote(q)
    [] rule[1] = "notes" -> ParseNotes(q)
    [] rule[1] = "stmt" -> ParseStmt(q, rule[2])
    [] rule[1] = "block" -> ParseStmtBlock(q)
    [] rule[1] = "args" -> ParseArgs(q, rule[2])
    [] rule[1] = "cases" -> ParseCases(q, rule[2], rule[3])
    [] rule[1] = "elses" -> ParseElses(q, rule[2])
    [] rule[1] = "decl" -> ParseDecl(q, rule[2])

ParseImport(q) ==
  LET r == Advance(q)
      name == IF IsIdent(r) THEN Advance(r) ELSE r
  IN  IF Get(name) # "str" THEN Fail(name, Pos(name, -1))
      ELSE Semicolon(Put(Advance(name), IF IsIdent(r) THEN Get(r) ELSE ""))

\* LC_ResolveBuildIf: is the condition as it should be.  What the resolver has
\* to report about it beforehand is left out.
RECURSIVE IsConstInt(_)
IsConstInt(e) ==
  CASE e[1] = "literal" -> e[2] \in {"int", "true"}
    [] e[1] = "unary" -> e[2] \notin {"&", "*"} /\ IsConstInt(e[3])
    [] e[1] = "binary" -> IsConstInt(e[3]) /\ IsConstInt(e[4])
    [] OTHER -> FALSE

IsCondition(items) ==
  Len(items) = 1 /\ items[1][2] = "" /\ items[1][3] = None /\ IsConstInt(items[1][4])

ParseHashBuildIf(q) ==
  LET note == Parse(<<"note">>, Advance(q))
  IN  IF Get(q) # "#" \/ Tok(q, 1) # "build_if" THEN q
      ELSE IF Get(note) # ";" THEN Eat(Warn(note, Pos(note, -1)))
      ELSE IF IsCondition(note.n[3]) THEN Advance(note)
      ELSE Warn(Advance(note), Pos(note, 0))

-----------------------------------------------------------------------------
Parser0(x) == [text |-> x, at |-> 1, end |-> Len(x) + 1, ok |-> TRUE, n |-> None, errs |-> {}]

Init ==
  /\ p \in {Parser0(x) : x \in Texts}
  /\ pc = "start" /\ imports = <<>> /\ decls = <<>>
  /\ doc = FALSE /\ doc0 = FALSE /\ turn = FALSE

Last(s) == IF s = <<>> THEN None ELSE s[Len(s)]
Forget(q) == [q EXCEPT !.n = None]

\* The comments and the condition of a file.
ParseHeader ==
  /\ pc = "start" /\ pc' = "imports"
  /\ doc' = (Get(p) = "pkgdoc")
  /\ p' = Forget(ParseHashBuildIf(Match(Match(p, "pkgdoc"), "filedoc")))
  /\ UNCHANGED <<imports, decls, doc0>>

AddImport ==
  /\ pc = "imports" /\ Get(p) = "import"
  /\ LET i == ParseImport(p)
         q == IF i.ok THEN i ELSE Eat(i)
     IN  /\ p' = Forget(q)
         /\ imports' = IF i.ok THEN Append(imports, i.n) ELSE imports
         /\ pc' = IF i.ok \/ Get(q) = "import" THEN pc ELSE "decls"
  /\ UNCHANGED <<decls, doc, doc0>>

EndOfImports ==
  /\ pc = "imports" /\ Get(p) # "import" /\ pc' = "decls"
  /\ UNCHANGED <<p, imports, decls, doc, doc0>>

AddDecl_Stays ==      \* MUTANT: after an error the next declaration is not looked for
  /\ pc = "decls" /\ Get(p) # "eof"
  /\ LET d == Parse(<<"decl", Last(decls)>>, p)
     IN  /\ p' = Forget([d EXCEPT !.ok = TRUE])
         /\ decls' = IF d.ok /\ d.n # None THEN Append(decls, d.n) ELSE decls
  /\ UNCHANGED <<pc, imports, doc, doc0>>

AddDecl ==
  /\ pc = "decls" /\ Get(p) # "eof"
  /\ LET d == Parse(<<"decl", Last(decls)>>, p)
     IN  /\ p' = Forget(IF d.ok THEN d ELSE Eat(d))
         /\ decls' = IF d.ok /\ d.n # None THEN Append(decls, d.n) ELSE decls
  /\ UNCHANGED <<pc, imports, doc, doc0>>

\* The file is added to its package, which may have one doc comment.
AddFileToPackage ==
  /\ pc = "decls" /\ Get(p) = "eof" /\ pc' = "done"
  /\ doc0' \in BOOLEAN
  /\ p' = IF doc0' THEN Warn(p, DocError) ELSE p
  /\ UNCHANGED <<imports, decls, doc>>

Next ==
  /\ turn' = ~turn
  /\ ParseHeader \/ AddImport \/ EndOfImports \/ AddDecl \/ AddFileToPackage

\* Every step is a turn, and there is one until the file is done: this is
\* the fairness of Next, with a condition that is cheap to evaluate.
Turn == pc # "done" /\ turn' = ~turn

Spec == Init /\ [][Next]_vars /\ WF_turn(Turn)
=============================================================================
