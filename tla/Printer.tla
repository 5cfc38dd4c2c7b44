------------------------------- MODULE Printer ------------------------------
(***************************************************************************)
(* The printer (printer.c): LC_GenLCNode writes a tree of the parser back  *)
(* as text, here as the tokens that the lexer would find in that text.     *)
(* Notes that are attached with "@" and doc comments are not in the trees: *)
(* the printer leaves them out.  Names of declarations are one name, "id". *)
(***************************************************************************)
EXTENDS Parser

(* Two tokens that are written without a space between them become one,    *)
(* where the lexer knows a longer one; "/" and "*" open a comment.         *)
Glue(l, r) ==
  CASE l = "&" /\ r = "&" -> <<"&&">>
    [] l = "/" /\ r = "*" -> <<"comment">>
    [] OTHER -> <<l, r>>

Join(l, r) ==
  IF l = <<>> THEN r ELSE IF r = <<>> THEN l
  ELSE SubSeq(l, 1, Len(l) - 1) \o Glue(l[Len(l)], r[1]) \o Tail(r)

RECURSIVE Expr(_), Type(_), Stmt(_), Block(_), Listed(_, _)

\* Parts, each printed, with commas between them.
Listed(parts, comma) ==
  IF parts = <<>> THEN <<>> ELSE IF Len(parts) = 1 THEN parts[1]
  ELSE parts[1] \o comma \o Listed(Tail(parts), comma)

Comma(parts) == Listed(parts, <<",">>)
Optional(t, F(_)) == IF t = None THEN <<>> ELSE F(t)

Item(i) ==
  LET name == IF i[2] = "" THEN <<>> ELSE <<i[2], "=">>
      index == IF i[3] = None THEN <<>> ELSE <<"[">> \o Expr(i[3]) \o <<"]", "=">>
  IN  name \o index \o Expr(i[4])

Items(is) == Comma([i \in DOMAIN is |-> Item(is[i])])
Note(n) == <<n[2], "(">> \o Items(n[3]) \o <<")">>

Expr(e) ==
  CASE e[1] \in {"ident", "literal"} -> <<e[2]>>
    [] e[1] = "type" -> <<":">> \o Type(e[2])
    [] e[1] = "cast" -> <<":">> \o Type(e[2]) \o <<"(">> \o Expr(e[3]) \o <<")">>
    [] e[1] = "compound" -> Optional(e[2], Expr) \o <<"{">> \o Items(e[3]) \o <<"}">>
    [] e[1] = "call" -> Expr(e[2]) \o <<"(">> \o Items(e[3]) \o <<")">>
    [] e[1] = "unary" -> <<e[2], "(">> \o Expr(e[3]) \o <<")">>
    [] e[1] = "binary" -> <<"(">> \o Join(Expr(e[3]) \o <<e[2]>>, Expr(e[4])) \o <<")">>
    [] e[1] = "index" -> <<"(">> \o Expr(e[2]) \o <<"[">> \o Expr(e[3]) \o <<"]", ")">>
    [] e[1] = "field" -> Expr(e[2]) \o <<".", e[3]>>
    [] e[1] = "addptr" -> <<"addptr", "(">> \o Expr(e[2]) \o <<",">> \o Expr(e[3]) \o <<")">>
    [] e[1] = "note" -> <<"#">> \o Note(e)

Argument(a) == <<a[1], ":">> \o Type(a[2]) \o IF a[3] = None THEN <<>> ELSE <<"=">> \o Expr(a[3])

Proc(t) ==
  LET vargs == CASE t[3] = "no" -> <<>>
                 [] t[3] = "yes" -> <<",", "...">>
                 [] t[3] = "any" -> <<",", "...", "Any">>
      ret == IF t[4] = None THEN <<>> ELSE <<":">> \o Type(t[4])
  IN  <<"proc", "(">> \o Comma([i \in DOMAIN t[2] |-> Argument(t[2][i])]) \o vargs \o <<")">> \o ret

Type(t) ==
  CASE t[1] = "ident" -> <<t[2]>>
    [] t[1] = "field" -> <<t[2][2], ".", t[3]>>
    [] t[1] = "pointer" -> <<"*">> \o Type(t[2])
    [] t[1] = "array" -> <<"[">> \o Optional(t[2], Expr) \o <<"]">> \o Type(t[3])
    [] t[1] = "proc" -> Proc(t)

\* The type and the initializer of a variable, behind its name.
Variable(type, e) ==
  <<":">> \o Optional(type, Type) \o IF e = None THEN <<>> ELSE <<"=">> \o Expr(e)

Label(l) == IF l = "" THEN <<>> ELSE <<l>>

\* An init is followed by its condition; without one, what ends a round is lost.
For(s) ==
  LET init == IF s[2] = None THEN <<>> ELSE Stmt(s[2]) \o IF s[3] = None THEN <<>> ELSE <<";">>
      inc == IF s[4] = None THEN <<>> ELSE <<";">> \o Stmt(s[4])
      cond == IF s[3] = None THEN <<>> ELSE Expr(s[3]) \o inc
      label == IF s[6] = "" THEN <<>> ELSE <<s[6], ":">>
  IN  label \o <<"for">> \o init \o cond \o Block(s[5])

Case(c) ==
  IF c[1] = "default" THEN <<"default", ":">> \o Block(c[2])
  ELSE <<"case">> \o Comma([i \in DOMAIN c[2] |-> Expr(c[2][i])]) \o <<":">> \o Block(c[3])

Else(e) ==
  IF e[1] = "else" THEN <<"else">> \o Block(e[2])
  ELSE <<"else", "if">> \o Expr(e[2]) \o Block(e[3])

Stmt(s) ==
  CASE s[1] = "return" -> <<"return">> \o Optional(s[2], Expr)
    [] s[1] \in {"break", "continue"} -> <<s[1]>> \o Label(s[2])
    [] s[1] = "note stmt" -> <<"#">> \o Note(s[2])
    [] s[1] = "var" -> <<"id">> \o Variable(s[2], s[3])
    [] s[1] = "const" -> <<"id", ":", ":">> \o Expr(s[2])
    [] s[1] = "assign" -> Expr(s[3]) \o <<s[2]>> \o Expr(s[4])
    [] s[1] = "expr" -> Expr(s[2])
    [] s[1] = "block" -> Block(s)
    [] s[1] = "defer" -> <<"defer">> \o Block(s[2])
    [] s[1] = "for" -> For(s)
    [] s[1] = "switch" -> <<"switch">> \o Expr(s[2]) \o <<"{">>
                          \o Listed([i \in DOMAIN s[3] |-> Case(s[3][i])], <<>>) \o <<"}">>
    [] s[1] = "if" -> <<"if">> \o Expr(s[2]) \o Block(s[3])
                      \o Listed([i \in DOMAIN s[4] |-> Else(s[4][i])], <<>>)

Line_Always(s) == Stmt(s) \o <<";">>   \* MUTANT: a semicolon after blocks, too

Line(s) == Stmt(s) \o IF s[1] \in {"block", "defer", "for", "if", "switch"} THEN <<>> ELSE <<";">>
Block(b) == <<"{">> \o Listed([i \in DOMAIN b[2] |-> Line(b[2][i])], <<>>) \o <<"}">>

\* LC_GenLCNode of a declaration.
PrintDecl(d) ==
  CASE d[1] = "proc decl" ->
         <<"id", ":", ":">> \o Proc(d[2]) \o IF d[3] = None THEN <<";">> ELSE Block(d[3])
    [] d[1] \in {"struct", "union"} ->
         <<"id", ":", ":", d[1], "{">>
         \o Listed([i \in DOMAIN d[2] |-> <<"id", ":">> \o Type(d[2][i]) \o <<";">>], <<>>) \o <<"}">>
    [] d[1] = "typedef" -> <<"id", ":", ":", "typedef">> \o Type(d[2]) \o <<";">>
    [] d[1] = "const decl" -> <<"id", ":", ":">> \o Expr(d[2]) \o <<";">>
    [] d[1] = "var decl" -> <<"id">> \o Variable(d[2], d[3]) \o <<";">>
    [] d[1] = "note decl" -> <<"#">> \o Note(d[2]) \o <<";">>
=============================================================================
