# lib_compiler in TLA+

`lib_compiler` is the front end of a compiler for a small statically typed
language, written as one C library (`src/src/compiler/`; all paths in
PROJECT.json are relative to the parent of `src`). It reads packages, lexes,
parses and typechecks them, and prints C. A build tool on top of it compiles
and runs a project's build program. This directory holds a model of each part
of it that decides something, what each part should guarantee, the runs that
check this on small instances, and proofs of the most important guarantees for
all instances.

The library has one thread and no network. What makes it hard is recursion
that runs into itself (cyclic imports, cyclic types, cyclic references),
several recursions interleaved on one call stack, error marks that must reach
everything that depends on an error and nothing else, tables whose entries
outlive what they were computed from, memory that moves inside a lookup, and
two places of the code that must agree on one decision made far apart: lexing
and interning, parsing and printing, resolving an expression and what C makes
of it. Only the build tool keeps something on disk, and can be killed.

    tlc -config packages.cfg PackagesMC.tla            model-check one run
    tlapm PackagesProofs.tla                           check the proofs

## Inventory

| Part | Source | State | Hard behaviour | Module |
|---|---|---|---|---|
| lexer | `lex.c`, `intern.c` | cursor, tokens | two passes over one text, ends of files inside of tokens | `Lexer` |
| parser | `parse.c` | cursor, boundary, tree, errors | recovery behind an error, precedence | `Parser`, `Grammar` |
| printer | `printer.c` | output | what it writes is parsed again | `Printer` |
| package pipeline | `packages.c` | package list and order, states, scopes, imports | recursion over a cyclic import graph, partial failure, repeated typechecks | `Packages`, `BuildOrder` |
| declaration resolution, struct layout | `resolve.c`, `resolver.c`, `ast.c` | states of declarations and types, active scope, ordered list, sizes and offsets | two interleaved recursions, error propagation, emission order, numbers read before they are final | `DeclResolve` |
| expressions and constants | `resolve.c`, `value.c`, `bigint.c`, `genc.c` | type, constant and flags of an operand | untyped constants, numbers of one digit and of more, flags trusted far away, C's reading of the result | `Expressions`, `BigInts` |
| calls and compound literals | `resolve.c`, `genc.c` | matches of items | positions, names and defaults together | `Compounds` |
| statements | `resolve.c`, `genc.c` | stacks of blocks | code printed in many places must act as written once | `Statements` |
| generator of procedure bodies | `genc.c` | `out_block_stack` | defers are printed by the recursion that prints exits | `Generation` |
| type table | `ast.c`, `resolve.c` | type objects, `L->type_map` | keys made of bytes that change later | `TypeTable` |
| names in C, unused declarations | `resolver.c`, `extended_passes.c` | `L->foreign_names`, reference counts | the answer depends on the order; recursion through counts | `Output` |
| hash map | `common.c` | entries, capacity | a mere lookup moves all entries | `HashMap`, `Dictionary` |
| arenas, interning | `arena.c`, `unix_arena.c`, `intern.c` | length, commit, blocks, table of names | the end of a reservation, temporary regions | `Memory` |
| build tool | `build_tool/main.cpp`, `cache.cpp` | cache file, executable | edits, failures and kills between two writes | `BuildCache` |

The components with status `not_modelled` in PROJECT.json are listed under
[Not modelled](#not-modelled) with the reasons.

**How they interact.** A client calls `LC_ParseAndResolve(name)`. The
*pipeline* has the *lexer* and *parser* read the files of each package, orders
the packages, and for each package in that order registers and resolves its
*declarations* into the package's scope. Declarations ask the *type table* for
types, ask for *expressions* where a constant or a value is needed, and call
each other recursively. Later loops over the ordered packages complete
aggregates that nothing needed yet and check the *statements* of procedure
bodies. When no error was reported, an optional pass counts references and
removes *unused* declarations, and the *C generator* prints declarations in the
order in which they were resolved. All of it shares one context `L` with one
*arena*, one table of *interned* names, and *hash maps* in both. The *build
tool* is a client that compiles a program which is itself a client.

Between modules the interfaces are: `Lexer` makes of characters the tokens that
`Parser` takes; `Printer` makes tokens of the trees of `Parser`; `Packages` has
the result of parsing as the kind of a file and its imports and declarations;
`DeclResolve` has an expression as the names and layouts it needs, and
`Compounds` extends `Expressions`, whose operands it binds, and that `BigInts`;
`Generation` extends `Statements`, which says what the printed code does; `Memory` contains
the growth that `HashMap` does in a lookup; `HashMap` implements `Dictionary`,
and `Packages` implements `BuildOrder`.

## The modules

### Lexer

`LexStream` is one round of `LC_LexStream`'s loop, `LexComment` the call
`LC_LexNext` makes of itself behind a comment, `InternTokens` one round of the
second pass, with each function of `lex.c` as an operator. Characters are
letters or names of characters; a few digits and letters stand for their class,
and `lead` and `cont` for the bytes of a two-byte character. A file comes from
`LC_ParseFile`, which gives up after a lexing error, or from
`LC_MakeParserQuick`, which does not look (`quick`).

`LexerMC` says what the tokens should be without any scanning: the lexemes at a
place are given by all places at which they may end, and the longest one is
taken. It also names the four places where the code is known to read something
else (`Departs`). The model was compared with the compiled lexer on all 21378
texts of an earlier, larger instance: tokens, places, lengths, lines, values
and error counts agree on every one.

### Parser, Grammar, Printer

`Parser` has an operator for each function of `parse.c`, with its cursor,
boundary (`end`), error propagation (`LC_PROP_ERROR`) and recovery; its actions
are rounds of the loops of `LC_ParseFileEx`. `Parse(rule, q)` is the call of
one of the functions that call one another. Tokens have kinds and no text.
`Grammar` is the same language as a grammar: relations between the places where
a phrase may begin and end, with no cursor, error or recovery. `Printer` is
`LC_GenLCNode`, as the tokens that the lexer finds in what it writes, so that
two operators printed next to each other may become another one. Model and
compiled parser were compared on all 10833 files of the run: they report errors
at the same tokens in all but one, `#build_if(!id)`, about whose condition the
resolver has a message of its own, which the model leaves out.

### Packages and BuildOrder

One behaviour is one client: it registers packages, calls `LC_ParseAndResolve`
one or more times with various roots, and may add a generated file in between,
as `examples/generate_type_info` does. `phase` says which pass runs. The two
recursive passes keep their C call stack in `stack`, `idx` (how far the loop
over imports of each active package is), `wrong` (`wrong_import > 0`) and `ret`
(what the last call returned). One action is one stretch of code between two
points at which something else can be observed: a call, a return, or the end of
a loop body. The contents of directories are constants (`Worlds`): a path may
be missing, found once or twice, a directory empty, unparsable or ill typed. A
declaration is its name and the package that owns it.

`BuildOrder` is what all of it promises: items are completed one after the
other, each after all it needs, none that failed, and what a completed item
needs is fixed. `Packages!BO` maps the packages to it: needs are the imports
that are live, done is `ordered`, failed are the packages in error.

### DeclResolve

A program is a list of declarations, grouped by package, each with the names it
mentions and how (`T`, `*T`, `[N]T`, an array size, a value, `sizeof`). Frames
of `stack` are calls of `LC_ResolveName` ("name"), `LC_ResolveTypeAggregate`
("agg") and `LC_ResolveNote` ("note"), with the mention the call is at. The
module has both in-progress marks (`dstate` "Resolving", `tkind` "Completing"),
the active scope that `LC_PUSH_SCOPE` changes, and the list the generator
prints. What the program *means* is defined without any order: `Needs` says
what must be known before what, and `Doomed` is what cannot be done in any order
because it depends on a cycle or on something wrong (the union of the sets of
tasks of which each is wrong or needs another of the set). An error may begin at
one of the `Suspects`: what is doomed, a name that two declarations of a scope
take, and a weak typedef of a struct, which `LC_ResolveName` refuses unless the
struct was marked before. The properties compare what the recursion did to these
definitions.

A program of the model is one the earlier passes hand over
(`ProgramsAssumption`): a declaration has the mentions its kind can have
(`WellShaped`), and the packages come in the order `Packages` gives them, each
after its imports, and no scope sees two imported declarations of one name
(`InOrder`).

`layout` and `value` are the numbers: what `LC_ResolveTypeAggregate` makes of
the members of a struct, a packed struct or a union when it is done with it
(`Laid`, one `Place` per member),
what a typedef copies from another type, and the value of a constant, which may
be a `sizeof` and the length of an array. Each is computed from what the other
declarations have at that moment, so that one that is read too early would stay
wrong. The machine has 64 bits; every aggregate ends in a `char`, so that
alignment matters.

### Expressions, BigInts and Compounds

A behaviour builds one expression from the inside out (`Grow`, one operator at
a time, each by the rule of `LC_ResolveExprEx` for it), then uses it: in a
declaration, assignment, condition, return, as an argument, as an item of a
call or a literal. `Use` and `CompoNext` say whether the use is accepted,
refused or stops the compiler. Beside the compiler's view of each node (type,
constant, flags) the module keeps the C compiler's: the C type of what
`genc.c` prints, whether it is an object of C, whether constants fit. The
tables of casting, typing and binary rules (`LC_GetCastRule`...) are the code's
tables over kinds of types. Integers have 3 to 5 bits, floats are exact
fractions. What becomes an `Any` is printed as an element of an array
(`CInitializes`), which is C only for types that an array can have.

A node also carries `marks`: what went wrong, or unusually, in the expressions
it was made of, so that it is not forgotten when a constant of a part is folded
away. `printed` holds what is wrong with the constants C will see.

`BigInts` is `bigint.c`. A number is an integer and its digits are counted; the
module has, for each operation, where the code asks how many there are: which
amounts of a shift and which divisions stop the compiler, which shifts, sums and
bit operators lose digits, what fits a type, what cannot be printed. A digit has
5 bits, as the widest type: in the code both have 64. Where the code takes the
address of the digits for a digit, the value is one of `Addresses`. A shift that
makes a number longer than the arena has memory for ends as "exhausted".

`Compounds` is the matching of items to parameters, members or elements, in the
three loops of the code, and says on its own what a list of items means
(`Means`), in terms of places and names only.

### Statements

A procedure body is a tree of blocks. The resolver's part (`StmtIsLegal`,
`StmtReturns`) decides which bodies are accepted. Then the module *runs the
generated code*, keeping beside it what the source means: `did` is what the C
code goes through when it leaves blocks, worked out as `LC_GenCDefers`,
`LC_GenCDefersLoopBreak` and `LC_GenCDefersReturn` do from the stack of blocks;
`meant` is the list of defers that control has reached in the blocks the
statement leaves.

### Generation

How the code of a procedure gets printed: `out_block_stack` is the stack of the
printer, and each of its blocks has its next statement and the blocks that are
still to be printed before it, which is the C call stack. `GenBlock` pushes one
(`LC_GenCStmtBlock`), `GenCompound` is a statement with blocks of its own,
`GenExit` a `return`, `break` or `continue`: it looks down the stack, and the
deferred blocks it finds are printed by the same recursion; `GenDefers` are the
defers at the end of a block and `PopBlock` that end. Nothing in these actions
looks at what was accepted: that printing ends, and that an exit printed in a
deferred block, or a block printed twenty times, finds the blocks it was written
in, is a matter of which bodies `StmtIsLegal` accepts. `Statements` takes what an
exit prints from the blocks that control is in; `ExitsSeeTheirBlocks` is why it
may. A behaviour prints a procedure, or follows its C code (`Run`, a step of
`Statements`, for the procedures that are `Executed`), or does both.

### TypeTable

`types` is the memory of all `LC_Type` objects, `table` is `L->type_map`,
`means` the type, as the source writes it, that each object was made for. A key
holds a *copy* of the record of a component type, because the code hashes its
bytes; actions that write to an object later (`BeginAggregate`, `EndAggregate`,
`DeclareProc`) do not change keys already in the table. The model lets types be
requested in any order over the types there are.

### Output

The names of declarations in C are sequences of words, since an underscore
joins a package to a name and may be in both. `PutGlobalDecl` is one round of
registering a name, with the table of conflicts; then the pass of
`extended_passes.c` walks references with its stack, counts, removes, counts
again and reports unused locals.

### HashMap and Dictionary

A request (`get`, `put`, `putnew`, `clear`) begins; if the table is half full,
`Grow` replaces it, and `Move` inserts one old entry after another by a lookup
in the new table, in which nothing must grow again; then the request is served.
`Dictionary` has one function from keys to values and serves a request in one
step. The mapping: the value of a key is the one in the new table, or in the
part of the old one that is still to be moved.

### Memory

An arena has a length, a committed and a reserved size; blocks are what
somebody still holds a pointer to. A push over a block that was popped while
held spoils it. Names are interned into a table that lives in the same arena
and grows there by a push of its own; the pass over unused declarations works
in a temporary region. Sizes are those of the code divided by a large number.

### BuildCache

An invocation hashes the build file and its includes recursively, with the
stack of `SRC_HashFile` and the in-memory cache, decides whether to compile,
compiles, runs, and writes or deletes the cache file. Between any two steps
files may be edited; where the world allows it they may change back, the
executable may be deleted, or the process may be killed.

## The runs

| Run | Result | Distinct states | Shows |
|---|---|---|---|
| `packages` | holds | 733406 | every import graph of three packages, and worlds of missing, ambiguous, empty and broken directories; typechecks and generated files, three in all |
| `decls_resolve` | holds | 306516 | some 16000 programs of one or two packages |
| `statements` | holds | 333492 | some 20000 procedure bodies, printed; and run, if they are as written |
| `statements_defer` | violated | | bodies without that restriction: defers that were not reached run |
| `types_shared` | holds | 469029 | every order of making up to five types over one builtin type |
| `map_implements` | holds | 308568 | three keys, every pattern of collisions, two growths |
| `build_cache` | holds | 70572 | a build file and two headers with all includes, edits, failures, kills |
| `memory_regions` | holds | 77267 | an arena of nine pages filled to its end |
| `output` | holds | 191586 | names of three declarations; references between three declarations and two locals |
| `expressions` | holds | 130987 | every expression of up to three operators, in every use |
| `parser` | holds | 86472 | 10833 files: whole ones, with one token wrong, and expressions |
| `lexer` | holds | 231364 | some 17000 short texts, from each of two callers |

What the properties say, in short (each is stated above its definition):

* `packages`: `PackagesInOrder` (each package after its imports, and the
  assertions of the later loops), `ImportsAreFollowed` (all imports are looked into in spite of
  errors, and linked), `OutcomeIsExact` (a package fails exactly if it is on or
  reaches a cycle or has or reaches a clash of two imported names, a name that is
  generated after the import was made not counting as one; success means every
  pass for every reachable package), `ScopeIsExact` (imports bring in what a package owns, all
  of it, and are not transitive; but what a file generated later declares is not
  seen where the package had been imported before), `FailuresAreReported`, `CompilationEnds`,
  `ImplementsBuildOrder`.
* `decls_resolve`: `ErrorsAreExact` (what is doomed has an error in the end, and
  so has a weak typedef of a struct or the struct; what has an error reaches a
  suspect; and none is silent: whatever the recursion started from),
  `OrderIsSound` (the emitted list is complete and in an order C accepts),
  `LayoutIsC` (the sizes, offsets and constants are those of the C types that
  are printed, which the program uses together with them), `NamesAreLexical` (a
  name means what it means in the package it is written in), `Terminates`.
  `NamesAreLexical` holds because the member names of the structs of these
  programs mean the same in the packages ordered later (`MembersMeanTheSame`);
  `decls_defects.cfg` shows that it fails without that. That the early returns
  which do not restore the scope never disturb the loops, `ScopeRestored`, is
  proved.
* `statements`: `ExitsAsWritten`, `AllPathsReturn`, `NothingPrintsItself` (no block is
  printed from inside itself), `ExitsSeeTheirBlocks` (an exit finds on the
  generator's stack the blocks that the resolver had when it accepted it, also
  when it is printed again by another exit), `GenerationEnds` (no assertion of
  the generator fails and its recursion comes to an end).
* `types_shared`: `EqualTypesAreIdentical`, `LookupIsSound`.
* `map_implements`: `ChainsAreUnbroken`, `ImplementsDictionary`,
  `RequestsAreServed`.
* `build_cache`: `RunsCurrent` (what runs was compiled from the files as they
  were during the invocation), `OnlyIfChanged`.
* `memory_regions`: `BlocksAreIntact`, `FailsOnlyWhenFull` (an assertion of the
  arena never fails because of how memory was committed), `InternsAreStable`.
* `output`: `NamesAreDistinct`, `OutputIsExact` (what is kept is exactly what the
  declarations of the first package mention at any distance, and what is called
  `main`; so a declaration of the first package that nothing mentions goes too;
  and the printed program is closed under mentioning), `UnusedIsExact`.
* `expressions`: `ConstantsFit` (a constant that C gets has the kind of its type
  and is in its range, but for a negative one in an unsigned type as wide as a
  digit, `Wraps`), `CrashesAreOdd` (the compiler stops only over a string
  literal, a negative constant or one of more than 64 bits, or a comparison or
  negation that is used without a type; a shift whose result is longer than the
  memory ends it too, for any operands), `AcceptedIsC` (what the resolver accepts,
  C accepts, but for six named things), `BindingIsExact`. `expressions_defects.cfg` violates
  `BoundsAreChecked`, which is `ConstantsFit` without its exception, and
  `FoldsAreExact`, that folding is arithmetic.
* `parser`: `ErrorsStayInside`, `TreesBind` (precedence, associativity and
  every token in its place), `PrintedParsesBack`, `ParsingEnds`.
* `lexer`: `TokensAreExact`, `LexingEnds`.

**Further configurations.** These are not among the runs of PROJECT.json; each
violates the properties it names, and shows a defect listed below.

| Configuration | Module | Violates |
|---|---|---|
| `packages_defects.cfg` (with `-continue`, to see all) | `PackagesMC` | `ImportsAreLinked`, `WrongImportIsSurvived` |
| `decls_defects.cfg` (with `-continue`) | `DeclResolveMC` | `NamesAreLexical`, `GoesForward` |
| `statements_return.cfg` | `StatementsMC` | `AllPathsReturn` |
| `types_procs.cfg` | `TypeTable` | `EqualTypesAreIdentical` |
| `memory_interns.cfg` | `MemoryMC` | `InternsAreStable` |
| `build_interrupted.cfg` | `BuildCacheMC` | `RunsCurrent` |
| `output_types.cfg` | `OutputMC` | `OutputIsComplete` |
| `expressions_defects.cfg` (with `-continue`) | `CompoundsMC` | `BoundsAreChecked`, `FoldsAreExact`, `SignsAreKept`, `AssertionsHold`, `IndexesInBounds` |
| `parser_defects.cfg` (with `-continue`) | `ParserMC` | `NothingIsSpoiled`, `DocsAreCounted` |
| `lexer_comments.cfg` | `LexerMC` | `CommentsNest` |

**Bounds, and why they are enough.**

* `packages`: three packages. With three there are cycles of length one, two
  and three, a cycle off the path to the root, a diamond, a package reached
  first through a failing and then through a good one, and both orders of two
  imports. `MaxCalls = 3` gives typecheck, generate, typecheck, and a typecheck of
  another root before the file is generated: with two calls no file is ever
  generated into a package that was resolved and imported before, and
  `ImportsAreVisible` would hold without its condition on `late`. A clash with a
  name that was generated after the import was made takes four calls (typecheck,
  typecheck of the imported package, generate into it, typecheck): without
  `Offered` in its definition `OutcomeIsExact` holds for three and fails for four.
  With four it takes TLC some four minutes and holds, as it is proved to for any
  number of calls. The path `x/b`
  is another spelling of `b`, and `9` a name that cannot be listed. Only one of
  the three packages of a graph imports a package twice.
* `decls_resolve`: three or four declarations. The shortest cycle through both
  recursions takes two, and a third declaration to look at it from outside. For
  layouts, two aggregates of every kind and a constant, a typedef or an array
  between them; sizes stay below a few hundred, far from 2^31.
* `statements`: blocks nested three deep below the procedure, and deferred
  blocks, with an exit, a defer or nothing at their innermost place; a loop goes
  round at most twice (`MaxIter`), so that a second iteration starts with defers
  of the first behind it. All of them are printed, and those in `Executed` are
  run, which are those that are as written. `MaxDepth = 12` is more than any of
  them has blocks, so that printing stops there only when it has no end. In
  `statements_defer` and `statements_return.cfg` it is 0: nothing is printed.
* `types_shared`: five objects: a struct, an array of it, a second array of it
  after its layout, a pointer or procedure over one of them.
* `map_implements`: keys may collide, be neighbours and wrap around in tables
  of 2, 4 and 8 slots (`MaxHash`); the third insertion moves entries whose
  chains cross the end of the table.
* `build_cache`: one build file, two headers with two versions each, three
  edits: enough for a change in a header of a header, a file included twice, an
  edit while the tool hashes, and an edit that is undone. `MaxDepth` is the
  stack of the process: only includes in a cycle reach it.
* `memory_regions`: nine pages; the arena commits more than once, is filled to
  the last page, and the clamp at the end of the reservation is reached with
  pushes that fit and pushes that do not. `MaxPushes` bounds pushes other than
  those of names.
* `output`: two lists of two mentions in each of three declarations contain
  every cycle and every sharing between three; names of up to three words make
  every way for a package and a name to meet. `MaxDepth` is not reached.
* `expressions`: `MaxSize = 3` operators; the flags and constants of an operand
  travel through at most two operators to where they matter. Integers of 3, 4
  and 5 bits, with one type without a sign, have all relations of widths; a
  digit has the 5 bits of the widest type (`DigitBits`), as in the code.
  `MaxValue = 45` bounds numbers that are folded further: they have up to two
  digits, their sums and products up to three, and 33 is the least amount of a
  shift that is not a digit. `RoomDigits = 3` is the memory for a number,
  `FloatBits = 3` the bits a float is made of at a time; the two `Addresses` are
  an even and an odd one. `MaxItems` bounds items.
* `parser`: twelve files that contain every construct; with one token dropped,
  replaced or inserted at every place, of nine tokens that open, close, separate
  or start something. Expressions: all pairs of infix operators' operands, and
  chains of three and four with one operator of each level.
* `lexer`: every text up to four or five characters behind the first of a
  lexeme, over the characters that matter to it; and every two of 28 pieces
  with nothing, a blank or a line between them.

The passing runs are restricted to inputs on which the known defects do not
show, or their properties name the exception; each is a named definition:
`Leaking` is not in `AllPrograms`; `DefersFirst`, `LabelledInSwitch` and
`NoLoopReturns` in `IsAsWritten`; `ProcsInside = FALSE`; `Generated` without
imports; `Orderly` worlds do not kill and revert; `RoomAtPass`; programs whose
only `main` is in the first package; `Odd`, `Wraps` and the exceptions in `AcceptedIsC`;
`Spoiled` in `ParserMC`; `Departs` in `LexerMC`.

**Deadlock** is not checked, since every one of these systems may stop: the
client stops calling, the passes end, the file is read, the procedure returns,
the program needs no more types.

**Fairness.** The compiler is one thread that, once called, runs until it
returns. `Packages` has `WF_vars(Compiler)`: the client may stop at any time,
the compiler may not. `HashMap` has `WF_vars(Map)`, with no fairness for the
callers; `DeclResolve`, `Statements`, `Output` and `Lexer` have `WF_vars(Next)`,
and `Generation` has `WF_gvars(GenNext)`, since all of their steps are the
compiler's (or, in `Statements`, the compiled program's). The parser's steps may
leave its state as it is, which is exactly a parser that does not advance; so
each round of a loop also changes `turn`, and fairness is `WF_turn(Turn)`: the
parser goes on, but only progress of its own can bring it to the end. `Memory`,
`BuildCache`, `TypeTable` and `Expressions` promise nothing that must happen.

## Where the code and its documentation disagree

The one that a run shows is also a finding of PROJECT.json, with a quotation. All were met
while modelling, and each of those in this section was confirmed by running the
compiler, or the part of it, on a small input.

*Pipeline and declarations.*

1. `packages.c:276` promises that typecheck, generate, typecheck works. A
   generated file with an `import` reaches the internal error of
   `resolve.c:40`: a package that is resolved does not follow imports again. For
   the same reason a name that a generated file declares in a package is
   undeclared in the packages that had imported it before.
2. `packages.c:295` promises that a wrong import is survived. One that names a
   listed package with a directory in front (`"x/b"`) is found by the parse
   pass, not found by the order pass, and the package has no scope.
3. A struct of an imported package gets its layout when the importer first
   needs it, and its members' types are then looked up in the importer's scope
   (`resolve.c:1419`).
4. After a failed `#static_assert`, and after a clash with an imported struct,
   the pass over incomplete types crashes, although `packages.c:327` says it is
   fine to go forward.
5. A type that is only named through an import (`a.T`) is not counted as used
   and is removed from the output (`extended_passes.c:3`). Code reached only
   from a `main` that was kept in another package is not walked at all.

*Statements and types.*

6. `defer` postpones an action "to the end of scope", but an early exit also
   runs the defers that are written after it (`genc.c:325`).
7. An unlabelled `break` in a `switch` in a loop leaves the C `switch`, after
   running the defers of the blocks up to the loop (`genc.c:440`).
8. A `return` inside a loop counts as a return on every path
   (`resolve.c:1064`).
9. `[1]proc(x: int): int` written before and after the declaration of a
   procedure of that type is two types that cannot be assigned to each other
   (`resolve.c:1146`).

*Expressions.*

10. Constants of the signed types `long` and `llong` are printed with the
    suffix `ull`, so that C compares and divides unsigned (`genc.c:135`), against
    README.md:109 "There are no suffixes like 'ull'".
11. Against "no random overflows and the values are also bounds checked"
    (README.md:109): `1 << 0` folds to 0 (`bigint.c:1162` returns without writing
    the result), `3 << 63` loses a bit (`bigint.c:1184`), a difference of long
    numbers may end at a digit that needs no borrow (`bigint.c:440`), bit
    operators have no room for the sign of a long negative number, a long
    negative number becomes the wrong float, and `~` of a long number reads the
    address of its digits. A negative constant fits any unsigned type of 64 bits
    (`bigint.c:251`). Constant division and modulo of negative numbers round down,
    C rounds to 0.
12. Assertions are reached by legal-looking programs: an untyped bool with a
    float, negative constants as shifts, sizes, indexes and cases, `~(nil-1)`,
    shifts by 2^64 or more (`bigint.c:1165`), `"a" = "b"`, `!i = 5`,
    `:*char(*(&"abc"))`. A division of numbers of more than 64 bits whose quotient
    is 0 or 1 writes to NULL (`bigint.c:731`), and the message about
    `-18446744073709551617`, that it does not fit, stops at an assertion.
13. Accepted, but not C: `&(-i)`, `-i = 5`, `:float(i) = 3`, `f() = 3`, `&f()`,
    `addptr(p,1) = p`, an integer operator with a pointer on its right,
    arithmetic on nil, arrays by value, `&"abc"`; void and array values as
    variadic arguments; procedures, pointers to procedures and arrays as `Any`
    (`genc.c:152` prints `(int (*)(void)[]){f}`). Refused by accident: `5 == p`, `5 && p`, `(i==j)+300`.
14. An index equal to the size of an array literal is accepted
    (`resolve.c:373`). `compo_context_type` is not restored after an error
    (`resolve.c:553`), and the check for duplicates in `LC_ResolveCompoCall` can
    not be reached.

*Text.*

15. A string that ends in an escaped backslash, `"\\"`, is lexed as unclosed
    (`lex.c:187`). `/**/` is not closed by its own end, and may hide the code up
    to the next `*/`. `/* /* */*/` is refused, although README.md:645 says that
    comments nest: behind the end of a nested comment one character is skipped.
16. An unclosed raw string is accepted, without its last character
    (`lex.c:196`). A back quote as the last character of a file is a token of
    length -1, whose interning reads out of bounds.
17. A unicode literal of several bytes has the bytes as its value, not the code
    point. A doc comment `/** filename` is a file doc comment.
18. After a package has a doc comment, every later file is refused with "more
    then 1 package doc comments" at no place, even one without any
    (`parse.c:996`).
19. `if` accepts an `else` or `else if` behind an `else`, and the C is invalid;
    `for x; ; {}` is refused.
20. The printer writes `(*p).x` as `*(p).x`, `a & &b` as `a&&b`, `a / *p` as
    the start of a comment; it drops the last part of a `for` that has no
    condition, and parentheses around a type in front of a block.

*Memory and build tool.*

21. The string `77kepQFQ8Kl` has the hash 0, which the map reserves for free
    slots: it stops the compiler at the assertion of `common.c:95`.
22. If the table of interned strings grows while the pass over unused
    declarations works in its temporary region (`extended_passes.c:35`), the
    table is in memory that is then given away.
23. The build tool, killed after compiling and before it wrote the cache file
    (`main.cpp:87`), runs the executable of the newer sources when the files are
    put back to the older ones. Files that include each other recurse until
    there is no stack (`cache.cpp:84`).

## The proofs

TLC looks at small instances. The theorems below hold for every value of the
constants that satisfies the modules' named assumptions. All modules check with `tlapm` from nothing.

**PackagesProofs**: any number of packages, any file system, any number of
compilations. `TypeCorrect`, `AssertionsHold`, `NoSilentFailure`,
`DependenciesInOrder`, `OrderIsKept`, `VerdictsAreFinal`,
`PipelineIsBuildOrder`, `EveryImportIsFollowed`, `ScopesAreExact`,
`OutcomesAreExact`.

None of the invariants is inductive as it stands, because nothing in them says
that the call stack makes sense while the recursion runs. The strengthening is
`Walk`: `Quiet` (outside the two recursive passes there is no stack), `Active`
(no package is active twice, and an active one is parsed and inside its list of
imports), `CallChain` (each active package was called for the import its caller
is at), `Result` (what the last call returned is for the import the topmost
package is at, and a package that is returned has resolved), `StateFollows`
(only active packages are Resolving), together with `AssertedResolved` itself.
`AssertionsHold` is a part of it, and `NoSilentFailure` is proved from it.

`DependenciesInOrder` adds `PassedAreListed` (of an active package that is not
marked wrong, every import it has stepped past is in the order) and
`DiscardedFits` (what `#build_if` discarded from a package does not change once
it is in the order). It has the hypothesis that generated files have no
imports, which is exactly where `packages_defects.cfg` shows that it
fails. `OrderIsKept` puts it together with `AssertionsHold`.

`VerdictsAreFinal` is an action property. A cyclic import marks a package Error
in the *middle* of the stack while its loop is still running; that it does not
become Resolved when the recursion gets back to it needs `BlameIsPassedOn`: a
NULL result is on its way to it, or a package above it is wrong and will
return one.

`PipelineIsBuildOrder` is the refinement, under the same hypothesis as
`DependenciesInOrder`: `BuildOrderStep` takes each action of `Packages` to a
step of `BuildOrder` or a stutter, from the invariants above and `ErrorsStay`.

`EveryImportIsFollowed` and `ScopesAreExact` have that hypothesis too. What an
order step does to the walk is one of four things (`OrderSteps`): it rests,
passes an import, enters a package, or leaves one; so each fact about the
imports a package has passed is proved over these four. `PassedAreDecided` and
`PassedAreLinked` say that of a package on the stack all imports it has passed
have a verdict and, if nothing is wrong, are linked; when it leaves the stack
that is all its imports, which `GivenUpAreLookedInto` and `ListedAreLinked` keep.
For a failed package the first is the promise of `packages.c:295`, which needs
`ReturnIsDecided`: what a call returns is for a package that has its verdict.

For scopes, a name once bound stays bound (`ScopeChanges`), what is bound to
another package was declared there (`BoundAreParsed`), and a resolved package has
declarations that are not in its scope only as the root, between the generating
of a file and the order pass (`RefilledAtRoot`). Then a package that has passed
an unnamed import `Sees` all that its target owns, and goes on doing so until it is
listed (`PassedAreVisible`); and what a generated file adds later is `late`. The
variable `late` is there for this statement and the next only: it holds how long
the order was when a generated file declared a name, and no action reads it.

`OutcomesAreExact`, with the same hypothesis, says what becomes of every package,
so it needs both directions. *Who fails had to*: a package that is given up
reaches a cycle or a clash (`ErrorsAreDoomed`). A cyclic import is one because
every package on the stack reaches those above it (`StackReaches`); a failed
import because the package behind it is itself in error (`NullIsError`); a
collision because what is in the scope of an active package is a builtin, the
namespace of an import it has passed or a name that one of them brought
(`BoundByPassed`), and what another package exports is never a builtin
(`Builtins`). *Who resolves could*: what a listed package reaches is listed
before it, so it is on no cycle, and it has no clash, because the name of an
import is never what a later one brought (`ListedKeepNames`) and of two unnamed
ones it sees both. What a package reaches is the least set closed under imports
(`ReachOf`), so that both directions go through without induction. That every
package the root reaches has one of the two verdicts is `GivenUpAreLookedInto`
from the root on (`RootDecided`), and that success means every pass is
`LoopsProgress`.

**DeclResolveProofs**: any set of programs, with any number of packages,
declarations and mentions. Every property of `decls_resolve` but termination is
a theorem here.

*Types and the scope*: `DeclarationsTyped`, `ErrorsAreNotSilent`,
`ScopeIsRestored`. One invariant `Inv` carries all three, and its heart is
`Walk`, that the call stack makes sense (`Sound`): a frame that has called
something is at a mention (`Waits`), the name at that mention was found and will
be found again when the call returns (`HasName`, because neither the program nor
the package whose turn it is changes under the frame), a frame knows what the
mentions behind it are bound to unless it belongs to a struct that goes on
after an error (`Knows`), and every frame would restore the scope of the package
whose turn it is (`FromHere`). The last is what makes the early returns of
`LC_ResolveTypeAggregate`, which restore nothing, harmless to the loops: no scope
but that one is ever active. A lookup finds the declaration that was registered
first; that there is one is `FirstOfSome`, that a set of numbers has a least
element.

*The order*: `PlacedOnlyOnce`, `NamesMeanTheSame`, `OrderSound`. The second
invariant, `Inv2`, relates the lists to the stack. `Lists`: what is in a list is
there once and is not in progress, and each of its mentions is `Good`, bound to
a usable declaration of the right kind that is settled, with its struct placed
where a layout is needed. `Course`: where the loops are (`Loops`), what is known
of a declaration by the turn of its package (`Declared`), that every frame is
called from the mention the frame below is at and that everything in progress has
one frame (`Calls`), what the value of a call promises (`Answered`), and what the
last pass leaves behind (`Swept`). That needs the states a crash leaves to be
exempt, because the call that crashed never returns. Then `Sorted` (a
declaration is behind what it needs in its list) is kept by the two appends.
Names are looked up in the package whose turn it is and not in the one they are
written in; what is on the stack belongs to the former or to an earlier one
(`Deep`), and only structs can belong to an earlier one, so that
`MembersMeanTheSame` is exactly the hypothesis under which the two agree. It is a
condition on the program alone.

*The layouts*: `LayoutsAreC`, with no condition. A layout is a recursion over
the members; that it fits is an induction over the numbers of members, stated
over sets (`Induction`) since the prover cannot instantiate the library's
theorem, with the arithmetic of `AlignUp` in `Aligned`. That a number is never
read before it is final is `Final`: what was placed has its layout and value for
good, and what a step reads is placed (`Frozen`).

*The errors*: `ErrorsExact`. One direction: what is placed is not doomed
(`NoneDoomed`), because all it needs was placed before it, and at the end
everything without an error is placed. `BehindIsType` ties `decl->type` to the
struct that is behind a name by way of typedefs; notes have no list and their
own invariant (`Notes`); that a struct which was marked stays marked is
`WeakOk`. The other: what has an error reaches a suspect (`Local`), and so does
the frame to which an error is returned. Its heart is `CycleIsBad`: who asks for
what is in progress has a segment of the stack above it in which each needs the
one above, and such a set is doomed by definition, whichever of the two
recursions made its links.

**TypeTableProofs**: any declarations and any number of types.
`TypesWellFormed`, `LookupsAreSound`, `EqualTypesShareAnObject`.

`LookupsAreSound` says that a lookup never finds the wrong type although the
bytes behind its key may have changed. A type's identity (`Ident`, its own id,
or its declaration if it is a typedef) never changes (`Steady`), different
objects have different identities (`OnceDeclared`, `IdentIsInjective`), and
every key in the table was made of records that had the identities of the
objects its value was made for (`KeysAreSound`). So even a key of old bytes
names one set of components.

`EqualTypesShareAnObject` is the converse and holds only if no array or
procedure type is built of a plain procedure type (`ProcsInside = FALSE`), as
`types_procs.cfg` shows. Then every component of a key is `Closed` and keeps its
bytes (`ClosedIsKept`), and every object can still be found under the key of its
components (`AllMeant`). A new object is only made when its key is missing.

**HashMapProofs**: any keys, any hash functions, any even first capacity.
`MapIsADictionary` is the refinement, `NoGaps` the invariant
`ChainsAreUnbroken`, `WalksEnd` that a walk always meets the key or a free slot.
The invariant `Inv`: keys are unique (`Unique`), a free slot has no value
(`Clean`), `len` counts the keys (`Counted`), while a table is moved the two
tables share no key (`Split`), and the new one has room (`Room`: at most half
full, so that no growth starts inside a growth). `WalksCross` is the geometry: of
two slots the walk from a home to one passes the other. `FoundIsAll` says that
the entry a walk finds is the only place the key can be.

**MemoryProofs**: any sizes of arena, page, alignment and pushes.
`HeldBlocksAreAllocated`, `HeldBlocksAreIntact`, `CommitsSuffice`,
`InternsKeepTheirAddress`. The heart is `CommitSuffices`: the commit that is
clamped at the reservation is enough or is all there is. `CommitsSuffice` has no
hypothesis. Its invariant `ArenaInv` is about sizes only: the length is within
what is committed and that within the reservation, in whole pages, and a
temporary region begins below the length; so it also holds when the table of
names grows inside the pass and is given away with the region. The other three,
which are about what is in the blocks, have the hypothesis `RoomAtPass`, that
the table need not grow there; `memory_interns.cfg` shows that they fail without.

**OutputProofs**: any set of programs. `NamesStayApart` needs no hypothesis.
`UnusedLocalsAreExact`, `PrintedIsComplete` and `PrintedIsExact` are about the
walk. `Reaches` is the least set that has what the first package's declarations
mention and is closed under mentioning. Every counted declaration is in every
such set (`Reached`), so nothing else is kept; that the counted ones are such a
set, so that all of it is kept, is argued as one does for a garbage collector:
whatever has been counted and is not waiting on the stack has had all that it
mentions counted (`Walked`), and nothing is counted that is not mentioned
(`CountedAreMentioned`). So when the stack is empty, what is counted is closed
under mentioning, after the first walk over the first package and after the
second over all. They have the hypothesis `MainsAreFirst`: what is called `main`
in C is of the first package or mentions nothing, since a `main` elsewhere is
kept but not walked (`extended_passes.c:35`). `PrintedIsComplete` and
`PrintedIsExact` need `NoImportTypes` besides, and `output_types.cfg` shows that
the first fails without. `PrintedIsExact` is an equation: that what the first
package mentions is kept through the removal is `RootsKeep`, and a `main` is
`MainsKept`.

**StatementsProofs**: any set of procedure bodies of the shape the parser makes
(`IsProc`: each block is written in one place, further out than itself), any
bound on iterations and on the generator's recursion. `TypeCorrect`,
`TargetsExist`, `ExitsAreAsWritten`, `PathsReturn`, `GeneratorNests`,
`GeneratorSeesBlocks`.

The model recurses over blocks: outwards for the resolver's stack, inwards for
what returns, along a block for its chain of defers. `Induction` and `Recursion`
are induction and definition by recursion on the naturals over a *set* instead
of an operator, from the well-foundedness of `<`; `BlockStackDef`,
`FirstDeferDef` and `ResolveStmtBlockDef` are the equations they give. The
invariant `Inv` says that the blocks control is in are the resolver's stack of
the innermost one, that each waits at the statement the next is written in, and
that the defers reached in a block are those the source has passed, in order.
From it `TargetsExist` follows without a hypothesis: resolver and generator look
at the same stack.

`GeneratorNests` and `GeneratorSeesBlocks` are about the generator, and have no
hypothesis either. Their invariant `GenInv` says that the generator's stack is a
path (`IsOutStack`): the blocks outside of deferred ones are exactly the stack
that the resolver had of the innermost of them (`Sees`), and above them there are
only deferred blocks and the blocks in those, each further on than the one below
by `Rank`. A step inside a block, its defers and its end keep that because of
where blocks are written (`MayFollow`). An exit keeps it because of what was
accepted: a deferred block has no exit and no defer at any depth, so an exit is
outside of all of them, sees its own blocks, and prints deferred blocks of rank
above all of these. With the ranks growing along the stack, no block is on it
twice.

`ExitsAreAsWritten` and `PathsReturn` have as hypotheses that the procedure does not do what the defects
6 to 8 above are about: `BreaksLeaveLoops` (an unlabelled break is not inside a
switch of its loop), `DefersComeFirst` (no defer behind the statement through
which control leaves its block), and `ReturnsAreFinal` (no statement counts as
returning that a break leaves, or that is a loop with a condition). So these
defects are all there is: any other accepted body leaves its blocks as written
and returns on every path. `PathsReturn` rests on `Covers`: of the
statements that count as returning, control has passed none but those it is
inside of.

**BuildCacheProofs**: any files, projects, disks, worlds and bounds.
`NothingIsCompiledTwice`, `WhatRunsIsCurrent`, `TypeCorrect`.

A hash is a tree of hashes; what it says of the files is `Reads(M, lo, hi)`: each
hash of the set `M` has the version of its file that a disk between `lo` and `hi`
had, and has in order the hashes of all its includes but of those that were
absent. If `lo` and `hi` are one disk, `M` describes it (`Describes`), and
`HashIsExact` says what a hash of the build file is good for: two disks that it
describes have the same sources. `HashIsUnique` is the converse, a disk gives each
file one hash, for hashes that a cache has in order (each after its includes).
The steps of `SRC_HashFile` keep the stack and the cache in order (`Struct`) and
what was read between two disks between them (`Kept`); when it ends, all that is
in the cache is part of the hash of the build file (`Rooted`).

`NothingIsCompiledTwice` has no hypothesis: as long as there has been one thing to
compile, what is read is a part of it (`Steady`), and the cache file of an
undisturbed invocation describes what it compiled (`Settled`), so the two hashes
are one. `WhatRunsIsCurrent` has the hypothesis `OrderlyWorld`. In a `CalmWorld`
the executable was made of every disk the cache file can be the hash of (`Fits`).
In an `OnwardWorld` that holds of all disks from the present one `After`wards: a
hash that was read while files changed may mix their versions, but the part of it
that agrees with an earlier cache file was there when the invocation began
(`Squeeze`), and a cache file that an executable does not fit can never match
again (`ModifiedKilled`). The hypothesis is tight: TLC finds counterexamples in
the least worlds outside of it, with reverts and edits during an invocation, with
reverts and kills (`build_interrupted.cfg`), and with kills and deletions.

The hypotheses on hashing are in the models: `TypeTable` and `BuildCache` take
hashes to be injective, `HashMap` takes keys not to be 0.

**Only model-checked.** Liveness (`CompilationEnds`, `GenerationEnds`, `Terminates`,
`RequestsAreServed`, `ParsingEnds`, `LexingEnds`), which the
prover does not handle. What a recursion over data computes: `Parser`,
`Grammar`, `Printer` and the folds of `Lexer`, whose operators are recursive.
`BigInts`, `Expressions` and `Compounds`: their properties compare tables over every pair
of types, with shifts and powers of two on the widths, and an argument by cases
over them would repeat the enumeration TLC does; what could be proved next is
the half of `BindingIsExact` about the matches, which looks at no type.

## What is abstracted

* Text: names are words or model values outside of `Lexer`; messages, line
  directives, columns, formatting and indentation are left out.
* Numbers: sizes and offsets in `DeclResolve` are exact, where the code has an
  `int`; in `TypeTable` they are events; in `Expressions` types and the
  digits of numbers are narrow, floats are exact, and `BigInts` takes
  multiplication, comparison, carries and the long division as arithmetic. A
  shift to the right by whole digits of a number of three or more, which is
  undefined in C, is left out.
* Hashing: keys are compared by value.
* Hooks: the client's callbacks (`on_decl_parsed` and others) may edit the tree
  in any way; the models have the calls of the library and the file generation
  pattern of the examples, and no callbacks.
* Memory: outside of `Memory` arenas run out only for a constant that is shifted
  out of all bounds.

## Not modelled

* *The end of `int` in layouts*: that the size of an array wraps at 32 bits
  without a report (`ast.c:89`); `offsetof` and the field `padding`, which only
  clients read.
* *Text conversion*, *AST walking and copying*: output or recursion over every
  kind of node, without decisions of their own. The walks that decide something
  are in `Output` and `Packages`.
* *Text of C*: `genc.c` is modelled where it decides: the order of defers and
  jumps, the type of a printed expression, the order of arguments. How types and
  declarations are spelled is not.
* *Strings, unicode, reading and writing the digits of big integers*: general or
  vendored code.
* *File system, compiler context, build file*: calls of the operating system
  and straight sequences of set-up. Their results are choices of the worlds.
* *x64 backend, profiler, playground, core and standalone libraries*: other
  programs and libraries in the repository, which the compiler does not use.
* *Packages, examples, tests*: programs of the language.

The C files and headers of the repository have about 44700 lines of which the
compiler proper and its build tool are about 11000; the rest is vendored
(raylib, stb), a copy of the library in one file (`lib_compiler.h`), or
independent. The map covers about half of the compiler proper.

## Plan

1. *Theorems* about `Compounds` (that items are matched to what they mean) and
   `Expressions` (that an accepted expression of constants fits, for any
   expression and not only for the small ones).
2. Layouts with the width of `int`.
3. A refinement of an abstract build (what runs is what the files say) by
   `BuildCache`.
4. `Expressions` over names from imports and builtins.
