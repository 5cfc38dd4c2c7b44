----------------------------- MODULE Generation ------------------------------
(* How the generator prints a procedure body (LC_GenCStmtBlock, LC_GenCStmt *)
(* and LC_GenCDefers in src/src/compiler/genc.c).  It walks the blocks by   *)
(* recursion, and at an exit it looks down its own stack of blocks being    *)
(* printed and prints the deferred blocks of those it finds there, by the   *)
(* same recursion: a deferred block that holds an exit is printed from      *)
(* inside itself, and an exit that is printed in a place where it was not   *)
(* written finds other blocks than the resolver did.                        *)
(*                                                                          *)
(* Statements takes what an exit prints from the blocks that control is in; *)
(* here is why the generator, which comes first, sees the same ones.  A     *)
(* behaviour prints a procedure, or follows its C code, or does both.       *)
EXTENDS Statements

CONSTANTS
    MaxDepth,   \* bound on the recursion: the stack of the process
    Executed(_) \* bound: the procedures whose C code is followed

ASSUME GenerationAssumption == MaxDepth \in Nat

VARIABLE
    out_block_stack   \* L->printer.out_block_stack, innermost first: the blocks,
                      \* each with its next statement and with the blocks
                      \* still to be printed before that

gvars == <<vars, out_block_stack>>

Begun(b) == [b |-> b, next |-> 1, todo |-> <<>>]
Innermost == out_block_stack[1]
Outer == Tail(out_block_stack)
OutBlocks == [i \in DOMAIN out_block_stack |-> out_block_stack[i].b]
Idle == out_block_stack # <<>> /\ Innermost.todo = <<>>
End == Len(Stmts(Innermost.b)) + 1
Current == Stmts(Innermost.b)[Innermost.next]
Prints(ops) == Idle /\ Innermost.next < End /\ Current.op \in ops
Replace(frame) == out_block_stack' = <<frame>> \o Outer
GoOnWith(blocks) == Replace([b |-> Innermost.b, next |-> Innermost.next + 1, todo |-> blocks])

\* What LC_GenCDefersReturn looks for.
GenCDefersReturn(blocks) == Length({i \in DOMAIN blocks : Kind(blocks[i]) = "Proc"})

GenInit == Init /\ out_block_stack = <<>>

Compile ==
    /\ ResolveProcBody
    /\ out_block_stack' = IF Accepted THEN <<Begun(1)>> ELSE <<>>

\* LC_GenCStmt, of a statement that prints no block, ...
GenPlain == Prints({"plain", "defer"}) /\ GoOnWith(<<>>)

\* ... of one that prints its own, ...
GenCompound == Prints({"block", "if", "switch", "for"}) /\ GoOnWith(Current.bodies)

\* ... and of an exit; the assertions that there is a loop, or a procedure.
GenExit ==
    LET n == IF Current.op = "return" THEN GenCDefersReturn(OutBlocks)
             ELSE GenCDefersLoopBreak(Current, OutBlocks)
    IN  /\ Prints({"return", "break", "continue"}) /\ n # -1
        /\ GoOnWith(DefersOf(SubSeq(OutBlocks, 1, n)))

\* LC_GenCStmtBlock of the next block.
GenBlock ==
    /\ out_block_stack # <<>> /\ ~Idle /\ Len(out_block_stack) < MaxDepth
    /\ out_block_stack' = <<Begun(Head(Innermost.todo)), [Innermost EXCEPT !.todo = Tail(@)]>> \o Outer

\* The block's own defers, behind its statements; and its end.
GenDefers ==
    /\ Idle /\ Innermost.next = End
    /\ GoOnWith(GenCDefers(Innermost.b))

PopBlock == Idle /\ Innermost.next > End /\ out_block_stack' = Outer

Run == out_block_stack = <<>> /\ Executed(proc) /\ Next /\ UNCHANGED out_block_stack

GenNext ==
    \/ Compile
    \/ Run
    \/ /\ GenPlain \/ GenCompound \/ GenExit \/ GenBlock \/ GenDefers \/ PopBlock
       /\ UNCHANGED vars

GenSpec == GenInit /\ [][GenNext]_gvars /\ WF_gvars(GenNext)

---------------------------------------------------------------------------
(* Properties.                                                             *)

\* LC_GenCStmtBlock: no block is printed from inside itself, so that the
\* recursion is no deeper than the procedure has blocks.  It takes the
\* checks for "inside of defer": a deferred block is printed at every exit
\* of the blocks around it, and an exit in it would print it again.
NothingPrintsItself ==
    \A i, j \in DOMAIN out_block_stack : out_block_stack[i].b = out_block_stack[j].b => i = j

\* LC_GenCDefersLoopBreak and LC_GenCDefersReturn: whenever an exit is
\* printed, the stack of the generator holds the blocks that the exit is
\* written in, which are those the resolver had when it accepted it and
\* those control is in when it gets there, whatever has been printed before.
ExitsSeeTheirBlocks ==
    Prints({"return", "break", "continue"}) => OutBlocks = BlockStack[Innermost.b]

\* Every procedure is rejected or gets printed to its end: no assertion of
\* the generator fails, and its recursion ends.
GenerationEnds == <>(status = "rejected" \/ (status = "running" /\ out_block_stack = <<>>))

=============================================================================
