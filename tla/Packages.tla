------------------------------ MODULE Packages ------------------------------
(***************************************************************************)
(* The package pipeline of src/src/compiler/packages.c.                    *)
(*                                                                         *)
(* A client registers packages and then, as LC_ParseAndResolve and         *)
(* examples/generate_type_info do, runs the passes over one root package:  *)
(*                                                                         *)
(*   parse   LC_ParsePackagesPass      follow every import, parse once     *)
(*   buildif LC_BuildIfPass            discard files by #build_if          *)
(*   order   LC_OrderPackagesAndBasicResolve   DFS: import, declare, order *)
(*   types   LC_OrderAndResolveTopLevelPass    complete aggregate types    *)
(*   bodies  LC_ResolveProcBodiesPass          check procedure bodies      *)
(*                                                                         *)
(* Both recursive passes are walked with an explicit stack.  Compiler      *)
(* errors are one flag: the code only ever asks whether L->errors is zero. *)
(* A declaration is its name and the package that owns it.                 *)
(***************************************************************************)
EXTENDS Naturals, Sequences, FiniteSets

CONSTANTS
  Paths,      \* the spellings an import can use
  Names,      \* package names: the last component of a path
  ValidNames, \* the names LC_PackageNameValid accepts
  NameOf,     \* LC_MakePackageNameFromPath, a function on Paths
  Idents,     \* names of top level declarations and of import namespaces
  NoName,     \* "no such name": an unnamed import, a free scope slot
  Builtin,    \* L->builtin_package
  BuiltinIdents, \* the names it declares
  Worlds,     \* what the file system may hold (see World)
  SingleFiles, \* packages the client may add with LC_AddSingleFilePackage
  Generated,  \* files a client may generate between two typechecks
  Roots,      \* packages the client compiles
  MaxCalls    \* bound on the number of compilations and generated files

Import == [path : Paths, as : Idents \cup {NoName}, off : BOOLEAN]

(* One directory's content, all files of the package taken together.       *)
(*   "none"     no .lc file         "bad"   some file does not parse       *)
(*   "illtyped" parses, but a top level declaration does not typecheck     *)
Source == [kind : {"ok", "illtyped", "bad", "none"},
           imports : Seq(Import),
           decls : SUBSET Idents]

(* dirs counts the registered package directories holding the path.        *)
World == [dirs : [Paths -> 0..2], src : [Paths -> Source]]

ASSUME NamesAssumption ==
  /\ Names \subseteq Paths
  /\ ValidNames \subseteq Names
  /\ NameOf \in [Paths -> Names]
  /\ \A n \in Names : NameOf[n] = n
  /\ Roots \subseteq Names /\ SingleFiles \subseteq Names
  /\ NoName \notin Names \cup Idents \cup {Builtin}
  /\ Builtin \notin Names
  /\ BuiltinIdents \subseteq Idents

ASSUME InputAssumption ==
  /\ Worlds \subseteq World
  /\ Generated \subseteq [imports : Seq(Import), decls : SUBSET Idents]
  /\ MaxCalls \in Nat

ASSUME ReturnAssumption == {"null", "pending"} \cap Names = {}

VARIABLES
  disk,       \* the file system, fixed
  listed,     \* names on L->fpackage
  from,       \* path a listed package was registered with
  parsed,     \* packages whose ext->scope exists: LC_ParsePackage was called
  imp,        \* import statements of the package's files
  discarded,  \* indices of the imports whose file LC_BuildIfPass removed
  linked,     \* indices of the imports with gimport.resolved set
  pending,    \* declarations parsed but not yet registered in a scope
  scope,      \* package scope: identifier -> owning package or NoName
  poisoned,   \* <<owner, identifier>> of declarations marked Error
  state,      \* ext->state of each package
  ordered,    \* L->ordered_packages
  typed,      \* packages LC_ResolveIncompleteTypes has run on
  bodied,     \* packages LC_ResolveProcBodies has run on
  errors,     \* L->errors > 0
  phase,      \* the pass that is running
  root,       \* the package being compiled
  stack,      \* the packages whose recursive call is active, outermost first
  idx,        \* imports of an active package that have been looked into
  wrong,      \* active packages with wrong_import > 0
  ret,        \* what the last finished call returned: a package, "null" or "pending"
  pos,        \* position in ordered_packages of the types and bodies loops
  calls,      \* compilations and generated files so far
  late        \* how long ordered was when a generated file declared a name

graphVars == <<imp, discarded, linked, pending, scope, poisoned, state>>
walkVars  == <<stack, idx, wrong, ret>>
regVars   == <<disk, listed, from, parsed>>
doneVars  == <<ordered, typed, bodied>>
clientVars == <<root, calls, late>>
vars == <<graphVars, walkVars, regVars, doneVars, clientVars, errors, phase, pos>>

-----------------------------------------------------------------------------
Init ==
  /\ disk \in Worlds
  /\ listed = {} /\ parsed = {}
  /\ from = [n \in Names |-> n]
  /\ imp = [n \in Names |-> <<>>]
  /\ discarded = [n \in Names |-> {}]
  /\ linked = [n \in Names |-> {}]
  /\ pending = [n \in Names |-> {}]
  /\ scope = [n \in Names |-> [i \in Idents |-> NoName]]
  /\ poisoned = {}
  /\ state = [n \in Names |-> "Unresolved"]
  /\ ordered = <<>> /\ typed = {} /\ bodied = {}
  /\ errors = FALSE
  /\ phase = "idle"
  /\ root \in Roots
  /\ stack = <<>> /\ wrong = {} /\ ret = "pending"
  /\ idx = [n \in Names |-> 0]
  /\ pos = 0 /\ calls = 0
  /\ late = [n \in Names |-> [i \in Idents |-> 0]]

Top == stack[Len(stack)]
Pop == SubSeq(stack, 1, Len(stack) - 1)

(* LC_GetPackageImports sees the imports of the files still in the package *)
(* and skips, with an error, a path that was imported before.              *)
Live(n) == DOMAIN imp[n] \ discarded[n]
Duplicate(n, k) == \E j \in Live(n) : j < k /\ imp[n][j].path = imp[n][k].path
Followed(n) == {k \in Live(n) : ~Duplicate(n, k)}
RepeatedPath(is) ==
  \E j, k \in DOMAIN is : j # k /\ is[j].path = is[k].path

(* The argument of the call that is about to be made.                      *)
Callee == IF stack = <<>> THEN root ELSE imp[Top][idx[Top] + 1].path
AtCall == stack # <<>> => idx[Top] + 1 \in Followed(Top)

(* The caller, if it is a package, steps past the import it looked into.   *)
Advance == IF stack = <<>> THEN idx ELSE [idx EXCEPT ![Top] = @ + 1]
-----------------------------------------------------------------------------
(* The client.                                                             *)

(* LC_AddSingleFilePackage, before any compilation.                        *)
AddSingleFilePackage(n) ==
  /\ phase = "idle" /\ calls = 0
  /\ IF n \notin listed /\ n \in ValidNames
     THEN listed' = listed \cup {n} /\ UNCHANGED errors
     ELSE errors' = TRUE /\ UNCHANGED listed
  /\ UNCHANGED <<disk, from, parsed, graphVars, walkVars, doneVars, clientVars, phase, pos>>

Compile(r) ==
  /\ phase = "idle" /\ calls < MaxCalls
  /\ root' = r /\ calls' = calls + 1
  /\ phase' = "parse"
  /\ UNCHANGED <<regVars, graphVars, walkVars, doneVars, errors, pos, late>>
-----------------------------------------------------------------------------
(* LC_ParsePackagesPass: follow every import, parse each package once.     *)

Lookup(path) ==                            \* LC_GetPackageByName
  IF path \in listed THEN "listed"
  ELSE IF disk.dirs[path] = 0 THEN "missing"
  ELSE IF NameOf[path] \notin listed /\ NameOf[path] \in ValidNames THEN "new"
  ELSE "unlistable"                        \* LC_AddPackageToList reports it

ParseCall(outcome) ==
  /\ phase = "parse" /\ AtCall
  /\ Lookup(Callee) = outcome

(* A call that returns at once; the root's caller then runs LC_BuildIfPass. *)
ParseLeaf ==
  /\ idx' = Advance
  /\ phase' = IF stack = <<>> THEN "buildif" ELSE phase
  /\ UNCHANGED <<regVars, graphVars, doneVars, clientVars, stack, wrong, ret, pos>>

ParseMissing == ParseCall("missing") /\ ParseLeaf /\ errors' = TRUE

ParseAgain ==
  /\ ParseCall("listed") /\ Callee \in parsed
  /\ ParseLeaf
  /\ UNCHANGED errors

(* The package gets an AST that is on no list.  It is parsed all the same, *)
(* but with an error reported LC_ParseFile reads nothing, so the package   *)
(* has no files and no imports and nothing can reach it later.             *)
ParseUnlistable == ParseCall("unlistable") /\ ParseLeaf /\ errors' = TRUE

(* LC_ParsePackage on package n; reported is L->errors when it starts.     *)
(* Files stop being read once there is any error.                          *)
ParsePackage(n, path, reported) ==
  LET src   == disk.src[path]
      empty == src.kind = "none" \/ reported
      fails == empty \/ src.kind = "bad"
      is    == IF empty THEN <<>> ELSE src.imports
  IN  /\ parsed' = parsed \cup {n}
      /\ imp' = [imp EXCEPT ![n] = is]
      /\ pending' = [pending EXCEPT ![n] = IF empty THEN {} ELSE src.decls]
      /\ state' = IF fails THEN [state EXCEPT ![n] = "Error"] ELSE state
      /\ errors' = (fails \/ reported \/ RepeatedPath(is))

ParsePush(n) ==
  /\ stack' = Append(stack, n)
  /\ idx' = [Advance EXCEPT ![n] = 0]
  /\ UNCHANGED <<disk, discarded, linked, scope, poisoned, doneVars, clientVars,
                 wrong, ret, phase, pos>>

ParseListed ==                             \* added by LC_AddSingleFilePackage
  /\ ParseCall("listed") /\ Callee \notin parsed
  /\ ParsePackage(Callee, from[Callee], errors)
  /\ ParsePush(Callee)
  /\ UNCHANGED <<listed, from>>

ParseNew ==                                \* LC_RegisterPackage, then parse
  /\ ParseCall("new")
  /\ listed' = listed \cup {NameOf[Callee]}
  /\ from' = [from EXCEPT ![NameOf[Callee]] = Callee]
  /\ ParsePackage(NameOf[Callee], Callee, errors \/ disk.dirs[Callee] = 2)
  /\ ParsePush(NameOf[Callee])

ParseReturn ==
  /\ phase = "parse" /\ stack # <<>> /\ idx[Top] = Len(imp[Top])
  /\ stack' = Pop
  /\ phase' = IF Pop = <<>> THEN "buildif" ELSE phase
  /\ UNCHANGED <<regVars, graphVars, doneVars, clientVars, errors, idx, wrong, ret, pos>>

(* An import that is discarded or a duplicate is not in the import list.   *)
SkipImport ==
  /\ phase \in {"parse", "order"} /\ stack # <<>> /\ ret = "pending"
  /\ idx[Top] < Len(imp[Top]) /\ ~AtCall
  /\ idx' = Advance
  /\ UNCHANGED <<regVars, graphVars, doneVars, clientVars, errors, stack, wrong, ret, phase, pos>>

(* LC_BuildIfPass, and the return of LC_ParseAndResolve on any error.      *)
BuildIfPass ==
  /\ phase = "buildif"
  /\ discarded' = [n \in Names |-> {k \in DOMAIN imp[n] : imp[n][k].off}]
  /\ phase' = IF errors THEN "idle" ELSE "order"
  /\ UNCHANGED <<regVars, imp, linked, pending, scope, poisoned, state, walkVars,
                 doneVars, clientVars, errors, pos>>
-----------------------------------------------------------------------------
(* LC_OrderPackagesAndBasicResolve: one call per import, depth first.      *)

OrderCall == phase = "order" /\ ret = "pending" /\ AtCall

(* LC_GetPackageByName finds nothing, or makes a second AST for a path     *)
(* that is not the package's name; either way the code goes on to use a    *)
(* NULL package or a NULL scope.                                           *)
OrderLost ==
  /\ OrderCall /\ Callee \notin parsed
  /\ phase' = "crashed"
  /\ UNCHANGED <<regVars, graphVars, walkVars, doneVars, clientVars, errors, pos>>

OrderFoundError ==
  /\ OrderCall /\ Callee \in parsed /\ state[Callee] = "Error"
  /\ ret' = "null"
  /\ UNCHANGED <<regVars, graphVars, doneVars, clientVars, errors, phase, pos, stack, idx, wrong>>

(* LC_PackageDecls: declare what is not declared yet; a name already taken *)
(* spoils both declarations.  An import that was never linked is reported. *)
PackageDecls(n) ==
  LET clash == {i \in pending[n] : scope[n][i] # NoName}
  IN  /\ scope' = [scope EXCEPT ![n] =
                     [i \in Idents |-> IF i \in pending[n] \ clash THEN n ELSE @[i]]]
      /\ poisoned' = poisoned \cup {<<n, i>> : i \in clash}
                              \cup {<<scope[n][i], i>> : i \in clash}
      /\ pending' = [pending EXCEPT ![n] = {}]
      /\ errors' = (\/ errors \/ clash # {}
                    \/ disk.src[from[n]].kind = "illtyped"
                    \/ ~(Live(n) \subseteq linked[n]))

OrderFoundResolved ==
  /\ OrderCall /\ Callee \in parsed /\ state[Callee] = "Resolved"
  /\ PackageDecls(Callee)
  /\ ret' = Callee
  /\ UNCHANGED <<regVars, imp, discarded, linked, state, doneVars, clientVars,
                 phase, pos, stack, idx, wrong>>

OrderCircular_Silent ==                    \* mutant: the cycle is not reported
  /\ OrderCall /\ Callee \in parsed /\ state[Callee] = "Resolving"
  /\ state' = [state EXCEPT ![Callee] = "Error"]
  /\ ret' = "null"
  /\ UNCHANGED <<regVars, imp, discarded, linked, pending, scope, poisoned, doneVars,
                 clientVars, errors, phase, pos, stack, idx, wrong>>

OrderCircular ==
  /\ OrderCall /\ Callee \in parsed /\ state[Callee] = "Resolving"
  /\ errors' = TRUE
  /\ state' = [state EXCEPT ![Callee] = "Error"]
  /\ ret' = "null"
  /\ UNCHANGED <<regVars, imp, discarded, linked, pending, scope, poisoned, doneVars,
                 clientVars, phase, pos, stack, idx, wrong>>

(* Import the builtin package, names already present being left alone, and *)
(* ask LC_GetPackageImports for the list to follow.                        *)
OrderEnter ==
  /\ OrderCall /\ Callee \in parsed /\ state[Callee] = "Unresolved"
  /\ state' = [state EXCEPT ![Callee] = "Resolving"]
  /\ scope' = [scope EXCEPT ![Callee] =
                 [i \in Idents |-> IF i \in BuiltinIdents /\ @[i] = NoName
                                   THEN Builtin ELSE @[i]]]
  /\ errors' = (errors \/ Followed(Callee) # Live(Callee))
  /\ stack' = Append(stack, Callee)
  /\ idx' = [idx EXCEPT ![Callee] = 0]
  /\ wrong' = wrong \ {Callee}
  /\ UNCHANGED <<regVars, imp, discarded, linked, pending, poisoned, doneVars,
                 clientVars, ret, phase, pos>>

(* The caller takes back control from the call for its next import.        *)
ImportReturns == phase = "order" /\ ret # "pending" /\ stack # <<>>

ImportFailed_Unmarked ==                   \* mutant: wrong_import is not counted
  /\ ImportReturns /\ ret = "null"
  /\ state' = [state EXCEPT ![Top] = "Error"]
  /\ idx' = Advance /\ ret' = "pending"
  /\ UNCHANGED <<regVars, imp, discarded, linked, pending, scope, poisoned, doneVars,
                 clientVars, errors, phase, pos, stack, wrong>>

ImportFailed_Retried ==                    \* mutant: the failed import is tried again
  /\ ImportReturns /\ ret = "null"
  /\ state' = [state EXCEPT ![Top] = "Error"]
  /\ wrong' = wrong \cup {Top}
  /\ ret' = "pending"
  /\ UNCHANGED <<regVars, imp, discarded, linked, pending, scope, poisoned, doneVars,
                 clientVars, errors, phase, pos, stack, idx>>

ImportFailed ==
  /\ ImportReturns /\ ret = "null"
  /\ state' = [state EXCEPT ![Top] = "Error"]
  /\ wrong' = wrong \cup {Top}
  /\ idx' = Advance /\ ret' = "pending"
  /\ UNCHANGED <<regVars, imp, discarded, linked, pending, scope, poisoned, doneVars,
                 clientVars, errors, phase, pos, stack>>

(* LC_ImportPackage under a name: the namespace becomes a declaration of   *)
(* the importing package.  If its name is taken both are spoiled, but the  *)
(* import itself succeeds.                                                 *)
ImportNamed ==
  LET as == imp[Top][idx[Top] + 1].as
      taken == scope[Top][as] # NoName
  IN  /\ ImportReturns /\ ret \in Names /\ as # NoName
      /\ scope' = IF taken THEN scope ELSE [scope EXCEPT ![Top][as] = Top]
      /\ poisoned' = IF taken THEN poisoned \cup {<<Top, as>>, <<scope[Top][as], as>>}
                     ELSE poisoned
      /\ errors' = (errors \/ taken)
      /\ linked' = [linked EXCEPT ![Top] = @ \cup {idx[Top] + 1}]
      /\ idx' = Advance /\ ret' = "pending"
      /\ UNCHANGED <<regVars, imp, discarded, pending, state, doneVars, clientVars,
                     phase, pos, stack, wrong>>

(* LC_ImportPackage into the package's own scope: what the imported        *)
(* package itself owns, never what it imported.                            *)
Exported(m) == {i \in Idents : scope[m][i] = m}
Collisions_NotOwn(n, m) ==                 \* mutant: names of the importer give way
  {i \in Exported(m) : scope[n][i] \notin {NoName, n}}
Collisions(n, m) == {i \in Exported(m) : scope[n][i] # NoName}
Bring(n, m, is) == [scope EXCEPT ![n] = [i \in Idents |-> IF i \in is THEN m ELSE @[i]]]

Unnamed == ret \in Names /\ imp[Top][idx[Top] + 1].as = NoName

ImportAll_Transitive ==                    \* mutant: the owner is not looked at
  /\ ImportReturns /\ Unnamed
  /\ Collisions(Top, ret) = {}
  /\ scope' = [scope EXCEPT ![Top] =
                 [i \in Idents |-> IF @[i] = NoName THEN scope[ret][i] ELSE @[i]]]
  /\ linked' = [linked EXCEPT ![Top] = @ \cup {idx[Top] + 1}]
  /\ idx' = Advance /\ ret' = "pending"
  /\ UNCHANGED <<regVars, imp, discarded, pending, poisoned, state, doneVars,
                 clientVars, errors, phase, pos, stack, wrong>>

ImportAll_Unlinked ==                      \* mutant: gimport.resolved is not set
  /\ ImportReturns /\ Unnamed
  /\ Collisions(Top, ret) = {}
  /\ scope' = Bring(Top, ret, Exported(ret))
  /\ idx' = Advance /\ ret' = "pending"
  /\ UNCHANGED <<regVars, imp, discarded, linked, pending, poisoned, state, doneVars,
                 clientVars, errors, phase, pos, stack, wrong>>

ImportAll ==
  /\ ImportReturns /\ Unnamed
  /\ Collisions(Top, ret) = {}
  /\ scope' = Bring(Top, ret, Exported(ret))
  /\ linked' = [linked EXCEPT ![Top] = @ \cup {idx[Top] + 1}]
  /\ idx' = Advance /\ ret' = "pending"
  /\ UNCHANGED <<regVars, imp, discarded, pending, poisoned, state, doneVars,
                 clientVars, errors, phase, pos, stack, wrong>>

(* The copy stops at the first collision, in the order of the hash table:  *)
(* any subset of the other names may have been copied before it.           *)
ImportCollides ==
  /\ ImportReturns /\ Unnamed
  /\ \E i \in Collisions(Top, ret),
        before \in SUBSET (Exported(ret) \ Collisions(Top, ret)) :
       /\ scope' = Bring(Top, ret, before)
       /\ poisoned' = poisoned \cup {<<ret, i>>, <<scope[Top][i], i>>}
  /\ errors' = TRUE
  /\ state' = [state EXCEPT ![Top] = "Error"]
  /\ wrong' = wrong \cup {Top}
  /\ idx' = Advance /\ ret' = "pending"
  /\ UNCHANGED <<regVars, imp, discarded, linked, pending, doneVars, clientVars,
                 phase, pos, stack>>

AtEnd == phase = "order" /\ ret = "pending" /\ stack # <<>> /\ idx[Top] = Len(imp[Top])

OrderFail_Early ==                         \* mutant: returns at the first wrong import
  /\ phase = "order" /\ ret = "pending" /\ stack # <<>> /\ Top \in wrong
  /\ stack' = Pop /\ ret' = "null"
  /\ UNCHANGED <<regVars, graphVars, doneVars, clientVars, errors, phase, pos, idx, wrong>>

OrderFail ==
  /\ AtEnd /\ Top \in wrong
  /\ stack' = Pop /\ ret' = "null"
  /\ UNCHANGED <<regVars, graphVars, doneVars, clientVars, errors, phase, pos, idx, wrong>>

OrderDone ==
  /\ AtEnd /\ Top \notin wrong
  /\ PackageDecls(Top)
  /\ ordered' = Append(ordered, Top)
  /\ state' = [state EXCEPT ![Top] = "Resolved"]
  /\ stack' = Pop /\ ret' = Top
  /\ UNCHANGED <<regVars, imp, discarded, linked, typed, bodied, clientVars,
                 phase, pos, idx, wrong>>

OrderReturn ==
  /\ phase = "order" /\ ret # "pending" /\ stack = <<>>
  /\ phase' = "types" /\ pos' = 1 /\ ret' = "pending"
  /\ UNCHANGED <<regVars, graphVars, doneVars, clientVars, errors, stack, idx, wrong>>
-----------------------------------------------------------------------------
(* The loops over ordered_packages.  Both assert that every package on the *)
(* list has resolved: see AssertedResolved.                                *)

Visit(ph) == phase = ph /\ pos <= Len(ordered)

ResolveIncompleteTypes ==
  /\ Visit("types")
  /\ typed' = typed \cup {ordered[pos]}
  /\ pos' = pos + 1
  /\ UNCHANGED <<regVars, graphVars, walkVars, ordered, bodied, clientVars, errors, phase>>

(* The client of examples/generate_type_info: if all is well, parse one    *)
(* more file into the root package and order again.                        *)
Generate ==
  /\ phase = "types" /\ pos > Len(ordered) /\ ~errors /\ calls < MaxCalls
  /\ calls' = calls + 1
  /\ \E file \in Generated :
       /\ imp' = [imp EXCEPT ![root] = @ \o file.imports]
       /\ pending' = [pending EXCEPT ![root] = file.decls]
       /\ late' = [late EXCEPT ![root] =
                     [i \in Idents |-> IF i \in file.decls THEN Len(ordered) ELSE @[i]]]
  /\ phase' = "order"
  /\ UNCHANGED <<regVars, discarded, linked, scope, poisoned, state, walkVars,
                 doneVars, root, errors, pos>>

StartBodies_Second ==                      \* mutant: starts with the second package
  /\ phase = "types" /\ pos > Len(ordered)
  /\ phase' = "bodies" /\ pos' = 2
  /\ UNCHANGED <<regVars, graphVars, walkVars, doneVars, clientVars, errors>>

StartBodies ==
  /\ phase = "types" /\ pos > Len(ordered)
  /\ phase' = "bodies" /\ pos' = 1
  /\ UNCHANGED <<regVars, graphVars, walkVars, doneVars, clientVars, errors>>

ResolveProcBodies ==
  /\ Visit("bodies")
  /\ bodied' = bodied \cup {ordered[pos]}
  /\ pos' = pos + 1
  /\ UNCHANGED <<regVars, graphVars, walkVars, ordered, typed, clientVars, errors, phase>>

Finish ==
  /\ phase = "bodies" /\ pos > Len(ordered)
  /\ phase' = "idle"
  /\ UNCHANGED <<regVars, graphVars, walkVars, doneVars, clientVars, errors, pos>>
-----------------------------------------------------------------------------
Parse ==
  \/ ParseMissing \/ ParseAgain \/ ParseUnlistable \/ ParseListed \/ ParseNew
  \/ ParseReturn

Order ==
  \/ OrderLost \/ OrderFoundError \/ OrderFoundResolved \/ OrderCircular \/ OrderEnter
  \/ ImportFailed \/ ImportNamed \/ ImportAll \/ ImportCollides
  \/ OrderFail \/ OrderDone \/ OrderReturn

Loops ==
  \/ ResolveIncompleteTypes \/ StartBodies \/ ResolveProcBodies \/ Finish

Client ==
  \/ \E n \in SingleFiles : AddSingleFilePackage(n)
  \/ \E r \in Roots : Compile(r)
  \/ Generate

(* Steps of the compiler, which runs whenever it has been called.          *)
Compiler == Parse \/ SkipImport \/ BuildIfPass \/ Order \/ Loops

Next == Client \/ Compiler

Spec == Init /\ [][Next]_vars /\ WF_vars(Compiler)
-----------------------------------------------------------------------------
TypeOK ==
  /\ disk \in World
  /\ listed \subseteq Names
  /\ from \in [Names -> Paths]
  /\ parsed \subseteq Names
  /\ imp \in [Names -> Seq(Import)]
  /\ discarded \in [Names -> SUBSET Nat]
  /\ linked \in [Names -> SUBSET Nat]
  /\ pending \in [Names -> SUBSET Idents]
  /\ scope \in [Names -> [Idents -> Names \cup {NoName, Builtin}]]
  /\ poisoned \subseteq (Names \cup {Builtin}) \X Idents
  /\ state \in [Names -> {"Unresolved", "Resolving", "Resolved", "Error"}]
  /\ ordered \in Seq(Names)
  /\ typed \subseteq Names /\ bodied \subseteq Names
  /\ errors \in BOOLEAN
  /\ phase \in {"idle", "parse", "buildif", "order", "types", "bodies", "crashed"}
  /\ root \in Roots
  /\ stack \in Seq(Names)
  /\ idx \in [Names -> Nat]
  /\ wrong \subseteq Names
  /\ ret \in Names \cup {"null", "pending"}
  /\ pos \in Nat
  /\ calls \in 0..MaxCalls
  /\ late \in [Names -> [Idents -> Nat]]

(* A package comes after everything its files import: the C code of a      *)
(* package is emitted, its types are completed and its bodies are checked  *)
(* in this order, and each relies on the imported package being done.      *)
DependenciesFirst ==
  \A i \in DOMAIN ordered : \A k \in Live(ordered[i]) :
    \E j \in 1..(i - 1) : ordered[j] = imp[ordered[i]][k].path

(* LC_ASSERT at packages.c:331 and 342: the package list holds exactly the *)
(* packages that resolved, each of them once.                              *)
AssertedResolved ==
  /\ {n \in Names : state[n] = "Resolved"} = {ordered[i] : i \in DOMAIN ordered}
  /\ \A i, j \in DOMAIN ordered : ordered[i] = ordered[j] => i = j

(* What the passes after the ordering rely on: the list they go through    *)
(* has the packages that resolved, once each, and what a package uses      *)
(* before the package.                                                     *)
PackagesInOrder == DependenciesFirst /\ AssertedResolved

(* Nothing fails silently: a package in error, a spoiled declaration or a  *)
(* failed call for an import has an error report behind it, so that no     *)
(* code is generated (LC_GenerateUnityBuild).                              *)
FailuresAreReported ==
  \/ errors
  \/ /\ \A n \in Names : state[n] # "Error"
     /\ wrong = {} /\ poisoned = {} /\ ret # "null"

(* "Resolve all imports regardless of errors" (packages.c:295): once a     *)
(* package has been given up, every package it imports has been looked     *)
(* into and has its own verdict.                                           *)
AllImportsLookedInto ==
  phase \in {"order", "types", "bodies"} =>
    \A n \in Names : state[n] \in {"Error", "Resolved"} =>
      \/ \E i \in DOMAIN stack : stack[i] = n
      \/ \A k \in Live(n) : state[imp[n][k].path] \in {"Error", "Resolved"}

(* Imports are not transitive: a package sees its own declarations, the    *)
(* builtin ones, and those owned by a package that one of its own files    *)
(* imports without a name.                                                 *)
ScopeIsDirect ==
  \A n \in Names, i \in Idents :
    scope[n][i] \notin {NoName, Builtin, n} =>
      \E k \in Live(n) : imp[n][k].path = scope[n][i] /\ imp[n][k].as = NoName

(* What m has for n to import: all that m owns, except what a file         *)
(* generated into m declares after n had resolved, since an import that is *)
(* linked is not made again.                                               *)
Offered(m, n) ==
  {d \in Exported(m) : \A i \in DOMAIN ordered : ordered[i] = n => i > late[m][d]}

(* A resolved package sees all that its unnamed imports have for it.       *)
ImportsAreVisible ==
  \A i \in DOMAIN ordered :
    LET n == ordered[i] IN
    \A k \in Live(n) :
      LET m == imp[n][k].path IN
      imp[n][k].as = NoName => \A d \in Offered(m, n) : scope[n][d] = m

(* LC_ImportPackage brings in what its argument owns, all of it, and never *)
(* what that package itself has imported, also after a second typecheck.   *)
ScopeIsExact == ScopeIsDirect /\ ImportsAreVisible

(* A verdict is final: a resolved package is never resolved again or       *)
(* failed, a failed one never recovers, and the order only grows.          *)
VerdictsKept ==
  /\ \A n \in Names : state[n] \in {"Resolved", "Error"} => state'[n] = state[n]
  /\ Len(ordered) <= Len(ordered')
  /\ SubSeq(ordered', 1, Len(ordered)) = ordered

VerdictIsFinal == [][VerdictsKept]_vars

(* "unresolved import got into typechecking stage" (resolve.c:40) is an    *)
(* internal error of the compiler: no import of an ordered package is left *)
(* unlinked when its declarations have been resolved.                      *)
ImportsAreLinked ==
  phase \in {"types", "bodies"} =>
    \A i \in DOMAIN ordered : Live(ordered[i]) \subseteq linked[ordered[i]]

(* Imports are followed to their end: into the package, and into the scope. *)
ImportsAreFollowed == AllImportsLookedInto /\ ImportsAreLinked

ImportsOf(S) == UNION {{imp[n][k].path : k \in Live(n)} \cap Names : n \in S}

(* The packages that those in S reach, themselves included.                *)
ReachOf(S) ==
  {p \in Names : \A T \in SUBSET Names : S \cup ImportsOf(T) \subseteq T => p \in T}

OnCycle(n) == n \in ReachOf(ImportsOf({n}))

(* The k-th import of n brings a name that the j-th brings or is called by. *)
ClashAt(n, j, k) ==
  /\ j < k /\ imp[n][k].as = NoName
  /\ \E d \in Offered(imp[n][k].path, n) :
       \/ d = imp[n][j].as
       \/ imp[n][j].as = NoName /\ d \in Offered(imp[n][j].path, n)

Clashes(n) == \E j, k \in Live(n) : ClashAt(n, j, k)

(* When the order pass is over, exactly the packages that reach an import  *)
(* cycle or a name collision are in error, whatever the order of the       *)
(* imports and wherever the walk entered a cycle; all others reachable     *)
(* from the root have resolved.                                            *)
VerdictIsExact ==
  phase = "types" =>
    \A n \in ReachOf({root}) :
      state[n] = IF \E m \in ReachOf({n}) : OnCycle(m) \/ Clashes(m)
                 THEN "Error" ELSE "Resolved"

(* A compilation that reports no error went through every pass for every   *)
(* package reachable from the root.                                        *)
SuccessIsComplete ==
  phase = "idle" /\ calls > 0 /\ ~errors => ReachOf({root}) \subseteq typed \cap bodied

(* What a compilation comes to is what the import graph says: of every     *)
(* package after the order pass, and of all of them when it succeeds.      *)
OutcomeIsExact == VerdictIsExact /\ SuccessIsComplete

(* The pipeline never uses a package that was not found or not parsed.     *)
WrongImportIsSurvived == phase # "crashed"

(* Every compilation ends, on cyclic and on broken import graphs too.      *)
CompilationEnds == phase # "idle" ~> phase \in {"idle", "crashed"}

(* The pipeline is a build order: whatever the recursion went through, a   *)
(* package is put on ordered_packages once, after all it imports, it is    *)
(* never one that failed, and no later pass changes what it imports.       *)
BO == INSTANCE BuildOrder WITH
        Items    <- Paths,
        needs    <- [p \in Paths |-> IF p \in Names
                                     THEN {imp[p][k].path : k \in Live(p)} ELSE {}],
        done     <- ordered,
        failed   <- {n \in Names : state[n] = "Error"},
        reported <- errors

ImplementsBuildOrder == BO!Spec
=============================================================================
