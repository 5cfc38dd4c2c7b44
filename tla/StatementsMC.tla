---------------------------- MODULE StatementsMC ----------------------------
(* The procedure bodies on which Statements and Generation are             *)
(* model-checked.  Blocks 2 and 3 are in the body of the procedure, 4 is   *)
(* in 2, and 5 to 9 are deferred blocks.                                   *)
EXTENDS Generation, FiniteSets

S(op, bodies, last, label) == [op |-> op, bodies |-> bodies, last |-> last, label |-> label, fall |-> {}]
Plain == S("plain", <<>>, FALSE, "")
Return0 == S("return", <<>>, FALSE, "")
DeferTo(b) == S("defer", <<b>>, FALSE, "")
Jump(op, label) == S(op, <<>>, FALSE, label)
Exits == {Return0, Jump("break", ""), Jump("continue", ""), Jump("break", "out"), Jump("continue", "out")}
Block(kind, label, stmts) == [kind |-> kind, label |-> label, stmts |-> stmts]

\* A statement with inner blocks, and what kind of block the first one is.
Compound(b, others) ==
    {[s |-> S("block", <<b>>, FALSE, ""), kind |-> "Norm", label |-> ""],
     [s |-> S("if", <<b>>, FALSE, ""), kind |-> "Norm", label |-> ""],
     [s |-> S("switch", <<b>>, TRUE, ""), kind |-> "Norm", label |-> ""],
     [s |-> S("for", <<b>>, FALSE, ""), kind |-> "Loop", label |-> "out"],
     [s |-> S("for", <<b>>, TRUE, ""), kind |-> "Loop", label |-> ""]}
    \cup {[s |-> S("if", <<b, o>>, TRUE, ""), kind |-> "Norm", label |-> ""] : o \in others}
    \cup {[s |-> S("switch", <<b, o>>, FALSE, ""), kind |-> "Norm", label |-> ""] : o \in others}
    \cup {[s |-> [S("switch", <<b, o>>, FALSE, "") EXCEPT !.fall = {1}], kind |-> "Norm", label |-> ""] : o \in others}

\* The deferred blocks; the body of one of them may hold an exit.
DeferBlocks(d) == <<Block("Defer", "", <<Plain>>), Block("Defer", "", <<>>), Block("Defer", "", d),
                    Block("Defer", "", <<>>), Block("Defer", "", <<>>)>>

Body(first, outer, last, in1, inner, in3, w, x, d, returns) ==
    [returns |-> returns,
     blocks |-> <<Block("Proc", "", first \o <<outer.s>> \o last),
                  Block(outer.kind, outer.label, in1 \o <<inner.s>> \o in3),
                  Block("Norm", "", x),
                  Block(inner.kind, inner.label, w)>> \o DeferBlocks(d)]

\* Defers wherever they may be, early exits at the innermost place.
Deep ==
    {Body(a, o, z, u, i, v, w, <<Return0>>, <<Plain>>, r) :
        a \in {<<>>, <<DeferTo(5)>>}, z \in {<<>>, <<Return0>>, <<DeferTo(6)>>},
        o \in Compound(2, {3}), i \in Compound(4, {}), u \in {<<>>, <<DeferTo(7)>>},
        v \in {<<>>, <<Return0>>, <<DeferTo(8)>>},
        w \in {<<DeferTo(9), e>> : e \in Exits} \cup {<<e>> : e \in Exits}, r \in BOOLEAN}

\* Two defers in one block, and what a deferred block must not hold.
Deferred ==
    {Body(<<DeferTo(5), DeferTo(6)>>, o, <<Return0>>, <<DeferTo(7), DeferTo(8)>>, i, <<>>, w, <<>>, d, TRUE) :
        o \in Compound(2, {3}), i \in Compound(4, {}), w \in {<<Plain>>, <<DeferTo(9)>>},
        d \in {<<e>> : e \in Exits \cup {Plain}} \cup {<<S("block", <<10>>, FALSE, "")>>}}

\* A jump to the label of a loop it is not in, and to a label that is not.
Stray ==
    {[returns |-> FALSE,
      blocks |-> <<Block("Proc", "", <<S("for", <<2>>, FALSE, ""), S("for", <<3>>, FALSE, "")>>),
                   Block("Loop", "", <<Jump(op, "out")>>), Block("Loop", label, <<Plain>>)>>] :
        op \in {"break", "continue"}, label \in {"out", ""}}

WithInnermost(p, e) == [p EXCEPT !.blocks = @ \o <<Block("Norm", "", <<e>>)>>]
All == Deep \cup Stray \cup {WithInnermost(p, e) : p \in Deferred, e \in {Return0, Plain}}

---------------------------------------------------------------------------
(* What keeps to the part of the language that is translated as it is      *)
(* written: defers come before anything that may leave their block, break  *)
(* has a label inside a switch, and no loop has to return.                 *)

StmtsIn(p, b) == {p.blocks[b].stmts[i] : i \in DOMAIN p.blocks[b].stmts}
Under(p, s) ==
    LET In[n \in Nat] == IF n = 0 THEN {s.bodies[i] : i \in DOMAIN s.bodies}
                         ELSE In[n - 1] \cup UNION {UNION {{t.bodies[i] : i \in DOMAIN t.bodies} : t \in StmtsIn(p, b)} : b \in In[n - 1]}
    IN  In[3]
MayLeave(p, s) ==
    s.op # "defer" /\
    \/ s.op \in {"return", "break", "continue"}
    \/ \E b \in Under(p, s) : \E t \in StmtsIn(p, b) : t.op \in {"return", "break", "continue"}
DefersFirst(p) ==
    \A b \in DOMAIN p.blocks : \A i, j \in DOMAIN p.blocks[b].stmts :
        i < j /\ p.blocks[b].stmts[j].op = "defer" => ~MayLeave(p, p.blocks[b].stmts[i])
LabelledInSwitch(p) ==
    \A b \in DOMAIN p.blocks : \A s \in StmtsIn(p, b) :
        s.op = "switch" => \A c \in Under(p, s) : \A t \in StmtsIn(p, c) : t.op = "break" => t.label # ""
NoLoopReturns(p) ==
    LET Returned[b \in DOMAIN p.blocks] == \E s \in StmtsIn(p, b) : StmtReturns(s, Returned)
    IN  p.returns => \A b \in DOMAIN p.blocks : \A s \in StmtsIn(p, b) : s.op = "for" => ~Returned[s.bodies[1]]

IsAsWritten(p) == DefersFirst(p) /\ LabelledInSwitch(p) /\ NoLoopReturns(p)
AsWritten == {p \in All : IsAsWritten(p)}
WithoutLoopReturns == {p \in All : DefersFirst(p) /\ LabelledInSwitch(p)}
---------------------------------------------------------------------------
(* What is printed: the bodies above with any exit at the innermost place. *)
(* Those that are as written are also run.  Of those that differ only in   *)
(* the result, or in an exit with statements behind it, one is enough.     *)

PrintedOrRun ==
    {p \in Deep : IsAsWritten(p) \/ (~p.returns /\ Return0 \notin StmtsIn(p, 1))}
    \cup Stray \cup {WithInnermost(q, e) : q \in Deferred, e \in Exits \cup {Plain}}

Whatever(p) == TRUE
=============================================================================
