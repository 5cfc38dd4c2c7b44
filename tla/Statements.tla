----------------------------- MODULE Statements -----------------------------
(* Procedure bodies: what the resolver accepts (LC_ResolveStmt in          *)
(* src/src/compiler/resolve.c) and what the C code does that is generated  *)
(* for them (LC_GenCStmt in src/src/compiler/genc.c).                      *)
(*                                                                         *)
(* C has no defer and no labelled break.  The generator prints the         *)
(* deferred blocks again at every place where control leaves a block, and  *)
(* turns labels into goto.  Which blocks are left is worked out from the   *)
(* stack of blocks being printed, as the resolver works out what is legal  *)
(* from the stack of blocks being resolved.  The module runs the generated *)
(* code; beside it, each block remembers which defers control has really   *)
(* reached, which is what the source means.                                *)
EXTENDS Integers, Sequences, SequencesExt

CONSTANTS
    Procs,      \* the procedure bodies that may be compiled
    MaxIter     \* bound: how often a loop goes round before it has to end

(* A statement has its inner blocks, whether the last of them is an else   *)
(* or a default, or a loop has no condition, the label of a break or       *)
(* continue, and the cases with @fallthrough.  The first block of a        *)
(* procedure is its body; the others come after the block they are written *)
(* in.  Only loops have labels, and a block is written in one place.       *)
Statement == [op : {"plain", "defer", "block", "if", "switch", "for", "return", "break", "continue"},
              bodies : Seq(Nat), last : BOOLEAN, label : STRING, fall : SUBSET Nat]
StmtBlock == [kind : {"Proc", "Norm", "Loop", "Defer"}, label : STRING, stmts : Seq(Statement)]
BodyKind(op) == CASE op = "for" -> "Loop" [] op = "defer" -> "Defer" [] OTHER -> "Norm"
IsProc(p) ==
    LET In(a) == p.blocks[a].stmts
        Places == UNION {UNION {{<<a, i, k>> : k \in DOMAIN In(a)[i].bodies} : i \in DOMAIN In(a)} :
                           a \in DOMAIN p.blocks}
        BodyAt(x) == In(x[1])[x[2]].bodies[x[3]]
    IN  /\ p \in [returns : BOOLEAN, blocks : Seq(StmtBlock)] /\ p.blocks # <<>>
        /\ \A b \in DOMAIN p.blocks : /\ (p.blocks[b].kind = "Proc") = (b = 1)
                                      /\ p.blocks[b].label # "" => p.blocks[b].kind = "Loop"
                                      /\ \A i \in DOMAIN In(b) :
                                           In(b)[i].op \in {"block", "for"} => Len(In(b)[i].bodies) = 1
        /\ \A x \in Places : /\ BodyAt(x) \in DOMAIN p.blocks /\ BodyAt(x) > x[1]
                             /\ p.blocks[BodyAt(x)].kind = BodyKind(In(x[1])[x[2]].op)
                             /\ In(x[1])[x[2]].op \in {"defer", "block", "if", "switch", "for"}
        /\ \A x, y \in Places : BodyAt(x) = BodyAt(y) => x = y

ASSUME StatementsAssumption == (\A p \in Procs : IsProc(p)) /\ MaxIter \in Nat

VARIABLES
    proc,       \* the procedure
    status,     \* how far it has got
    stack,      \* the blocks control is in, innermost first
    meant,      \* the blocks and defers the last exit should have gone through
    did         \* the blocks and defers the generated code went through

vars == <<proc, status, stack, meant, did>>

Blocks == DOMAIN proc.blocks
Stmts(b) == proc.blocks[b].stmts
Kind(b) == proc.blocks[b].kind
Label(b) == proc.blocks[b].label
StmtsOf(b) == {Stmts(b)[i] : i \in DOMAIN Stmts(b)}
Holds(s, b) == \E i \in DOMAIN s.bodies : s.bodies[i] = b
Parent(b) ==
    LET in == {a \in Blocks : \E s \in StmtsOf(a) : Holds(s, b)}
    IN  IF in = {} THEN 0 ELSE CHOOSE a \in in : TRUE

---------------------------------------------------------------------------
(* The resolver.                                                           *)

\* L->resolver.stmt_block_stack while block b is being resolved, innermost
\* first.
BlockStack[b \in Nat] == IF b = 0 THEN <<>> ELSE <<b>> \o BlockStack[Parent(b)]

MakeSureNoDeferBlock(b) == \A i \in DOMAIN BlockStack[b] : Kind(BlockStack[b][i]) # "Defer"
MakeSureInsideLoopBlock(b) == \E i \in DOMAIN BlockStack[b] : Kind(BlockStack[b][i]) = "Loop"

\* Mutant: a label may be that of any loop of the procedure.
MatchLabeledBlock_Anywhere(s, b) == s.label = "" \/ \E a \in Blocks : Label(a) = s.label

MatchLabeledBlock(s, b) ==
    s.label = "" \/ \E i \in DOMAIN BlockStack[b] : Label(BlockStack[b][i]) = s.label

\* Mutant: only the innermost block is asked whether it is deferred.
StmtIsLegal_Nearest(s, b) ==
    /\ s.op \in {"return", "break", "continue", "defer"} => Kind(b) # "Defer"
    /\ s.op \in {"break", "continue"} => MakeSureInsideLoopBlock(b) /\ MatchLabeledBlock(s, b)

\* Mutant: a break or continue may be deferred.
StmtIsLegal_Jumps(s, b) ==
    /\ s.op \in {"return", "defer"} => MakeSureNoDeferBlock(b)
    /\ s.op \in {"break", "continue"} => MakeSureInsideLoopBlock(b) /\ MatchLabeledBlock(s, b)

StmtIsLegal(s, b) ==
    /\ s.op \in {"return", "break", "continue", "defer"} => MakeSureNoDeferBlock(b)
    /\ s.op \in {"break", "continue"} => MakeSureInsideLoopBlock(b) /\ MatchLabeledBlock(s, b)

\* Mutant: a chain of ifs without an else counts as returning.
StmtReturns_NoElse(s, Returned) ==
    \/ s.op = "return"
    \/ s.op \in {"block", "for"} /\ Returned[s.bodies[1]]
    \/ s.op \in {"if", "switch"} /\ \A i \in DOMAIN s.bodies : Returned[s.bodies[i]]

\* LC_OPF_Returned of a statement, from that of its blocks.
StmtReturns(s, Returned) ==
    \/ s.op = "return"
    \/ s.op \in {"block", "for"} /\ Returned[s.bodies[1]]
    \/ /\ s.op \in {"if", "switch"} /\ s.last
       /\ \A i \in DOMAIN s.bodies : Returned[s.bodies[i]]

ResolveStmtBlock[b \in Blocks] ==
    \E i \in DOMAIN Stmts(b) : StmtReturns(Stmts(b)[i], ResolveStmtBlock)

Accepted ==
    /\ \A b \in Blocks : \A s \in StmtsOf(b) : StmtIsLegal(s, b)
    /\ proc.returns => ResolveStmtBlock[1]

---------------------------------------------------------------------------
(* The generator.                                                          *)

\* sblock.first_defer after so many statements: each defer is put in front
\* of the ones before it.  By the time code is generated all of the block's
\* are there, last first.
FirstDefer[b \in Blocks] ==
    LET first[i \in 0 .. Len(Stmts(b))] ==
            IF i = 0 THEN <<>>
            ELSE IF Stmts(b)[i].op = "defer" THEN Stmts(b)[i].bodies \o first[i - 1]
            ELSE first[i - 1]
    IN  first
GenCDefers(b) == FirstDefer[b][Len(Stmts(b))]

\* The statement of the parent that block b belongs to.
StmtOf(b) == CHOOSE s \in StmtsOf(Parent(b)) : Holds(s, b)
IsCase(b) == Parent(b) # 0 /\ StmtOf(b).op = "switch"

\* The blocks whose defers a break or continue prints: all of the stack up
\* to the first loop, or the first loop with the label; -1 when the
\* assertions that there is one would fail.
Length(S) == IF S = {} THEN -1 ELSE CHOOSE i \in S : \A j \in S : i <= j

GenCDefersLoopBreak(s, blocks) ==
    Length({i \in DOMAIN blocks : /\ Kind(blocks[i]) = "Loop"
                                  /\ s.label = "" \/ Label(blocks[i]) = s.label})

\* The blocks the printed C statement leaves: goto goes to the label, break
\* to the end of the nearest loop or switch, continue to that of the loop.
JumpC(s, blocks) ==
    IF s.label # "" THEN Length({i \in DOMAIN blocks : Label(blocks[i]) = s.label})
    ELSE Length({i \in DOMAIN blocks : \/ Kind(blocks[i]) = "Loop"
                                       \/ s.op = "break" /\ IsCase(blocks[i])})

DefersOf(blocks) == FlattenSeq([i \in DOMAIN blocks |-> GenCDefers(blocks[i])])

---------------------------------------------------------------------------
(* Running the generated code.                                             *)

Activation(b) == [b |-> b, pc |-> 1, iter |-> 0, reached |-> <<>>]
Top == stack[1]
Stmt == Stmts(Top.b)[Top.pc]
At(op) == status = "running" /\ Top.pc <= Len(Stmts(Top.b)) /\ Stmt.op = op
InBlocks == [i \in DOMAIN stack |-> stack[i].b]
Past(frame) == [frame EXCEPT !.pc = @ + 1, !.iter = 0]
Within(frame, rest) == stack' = <<frame>> \o rest
Enter(b, rest) == stack' = <<Activation(b)>> \o rest
Below == Tail(stack)
NoExit == UNCHANGED <<meant, did>>

\* The loop a break or continue of the source is about.
Target(s, blocks) ==
    Length({i \in DOMAIN blocks : IF s.label = "" THEN Kind(blocks[i]) = "Loop" ELSE Label(blocks[i]) = s.label})

\* What the source means by leaving the n innermost blocks, and what the
\* code has done that prints the defers of m blocks and leaves n.
Means(n) ==
    meant' = [blocks |-> n, defers |-> FlattenSeq([i \in 1 .. n |-> stack[i].reached])]
Does(m, n) ==
    did' = [blocks |-> n, defers |-> DefersOf(SubSeq(InBlocks, 1, m))]

NoDefers == [blocks |-> 0, defers |-> <<>>]

Init ==
    /\ proc \in Procs
    /\ status = "parsed"
    /\ stack = <<>>
    /\ meant = NoDefers /\ did = NoDefers

ResolveProcBody ==
    /\ status = "parsed"
    /\ status' = IF Accepted THEN "running" ELSE "rejected"
    /\ IF Accepted THEN Enter(1, <<>>) ELSE UNCHANGED stack
    /\ UNCHANGED <<proc, meant, did>>

Simple ==
    /\ At("plain")
    /\ Within(Past(Top), Below)
    /\ NoExit /\ UNCHANGED <<proc, status>>

\* Nothing is printed here.
Defer ==
    /\ At("defer")
    /\ Within([Past(Top) EXCEPT !.reached = Stmt.bodies \o @], Below)
    /\ NoExit /\ UNCHANGED <<proc, status>>

EnterBlock ==
    /\ At("block") \/ At("if") \/ At("switch")
    /\ \/ \E i \in DOMAIN Stmt.bodies : Enter(Stmt.bodies[i], <<Past(Top)>> \o Below)
       \/ Stmt.op # "block" /\ ~Stmt.last /\ Within(Past(Top), Below)
    /\ NoExit /\ UNCHANGED <<proc, status>>

Iterate ==
    /\ At("for") /\ Top.iter < MaxIter
    /\ Enter(Stmt.bodies[1], <<[Top EXCEPT !.iter = @ + 1]>> \o Below)
    /\ NoExit /\ UNCHANGED <<proc, status>>

EndLoop ==
    /\ At("for") /\ ~Stmt.last
    /\ Within(Past(Top), Below)
    /\ NoExit /\ UNCHANGED <<proc, status>>

\* The end of a block; a case breaks out of its switch, or falls through.
EndBlock ==
    LET cases == StmtOf(Top.b).bodies
        next == {i \in 2 .. Len(cases) : cases[i - 1] = Top.b /\ IsCase(Top.b)
                                          /\ (i - 1) \in StmtOf(Top.b).fall}
    IN  /\ status = "running" /\ Top.pc > Len(Stmts(Top.b)) /\ Len(stack) > 1
        /\ IF next = {} THEN stack' = Below ELSE \E i \in next : Enter(cases[i], Below)
        /\ Means(1) /\ Does(1, 1)
        /\ UNCHANGED <<proc, status>>

EndProc ==
    /\ status = "running" /\ Top.pc > Len(Stmts(Top.b)) /\ Len(stack) = 1
    /\ stack' = <<>>
    /\ status' = IF proc.returns THEN "no value" ELSE "returned"
    /\ Means(1) /\ Does(1, 1)
    /\ UNCHANGED proc

\* Mutant: a return prints the defers of its own block only.
Return_OneBlock ==
    /\ At("return")
    /\ stack' = <<>> /\ status' = "returned"
    /\ Means(Len(stack)) /\ Does(1, Len(stack))
    /\ UNCHANGED proc

\* LC_GenCDefersReturn goes down to the block of the procedure.
Return ==
    /\ At("return")
    /\ stack' = <<>> /\ status' = "returned"
    /\ Means(Len(stack)) /\ Does(Len(stack), Len(stack))
    /\ UNCHANGED proc

Break ==
    LET printed == GenCDefersLoopBreak(Stmt, InBlocks)
        left == JumpC(Stmt, InBlocks)
        rest == SubSeq(stack, left + 1, Len(stack))
    IN  /\ At("break") \/ At("continue")
        /\ printed # -1
        /\ IF Stmt.op = "break" /\ Kind(stack[left].b) = "Loop"
           THEN Within(Past(rest[1]), Tail(rest)) ELSE stack' = rest
        /\ Means(Target(Stmt, InBlocks)) /\ Does(printed, left)
        /\ UNCHANGED <<proc, status>>

Next == \/ ResolveProcBody \/ Simple \/ Defer \/ EnterBlock \/ Iterate \/ EndLoop
        \/ EndBlock \/ EndProc \/ Return \/ Break

Spec == Init /\ [][Next]_vars /\ WF_vars(Next)

---------------------------------------------------------------------------
(* Properties.                                                             *)

IsActivation(f) ==
    /\ f.b \in Blocks /\ f.pc \in 1 .. Len(Stmts(f.b)) + 1 /\ f.iter \in 0 .. MaxIter
    /\ \A i \in DOMAIN f.reached : f.reached[i] \in Blocks

\* Control is in a chain of blocks, each written in the one below it.
TypeOK ==
    /\ status \in {"parsed", "rejected", "running", "returned", "no value"}
    /\ \A i \in DOMAIN stack : IsActivation(stack[i])
    /\ status = "running" => InBlocks = BlockStack[Top.b]
    /\ meant.blocks \in Nat /\ did.blocks \in Nat

\* GenCDefers and the jumps: whenever control leaves blocks, at their end or
\* by return, break or continue, the generated code leaves those the source
\* says and runs the defers that were reached in them, each once, inner
\* blocks first and within a block the last one first.
ExitsAsWritten == meant = did

\* The assertions of LC_GenCDefersLoopBreak and LC_GenCDefersReturn: what the
\* resolver lets through always has the loop, and the procedure, that the
\* generator looks for on its own stack of blocks.
ExitsHaveATarget ==
    /\ At("break") \/ At("continue") =>
           LET n == GenCDefersLoopBreak(Stmt, InBlocks)
           IN  n # -1 /\ \A i \in 1 .. n : Kind(stack[i].b) # "Proc"
    /\ At("return") => Kind(stack[Len(stack)].b) = "Proc"

\* LC_ResolveProcBody: a procedure with a result that is accepted without
\* the complaint "add a return to cover all control paths" never reaches
\* the end of its body.
AllPathsReturn == status # "no value"

=============================================================================
