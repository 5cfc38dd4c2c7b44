--------------------------- MODULE PackagesProofs ---------------------------
(***************************************************************************)
(* Proofs about Packages, for every set of packages, every file system and *)
(* every number of compilations.                                           *)
(***************************************************************************)
EXTENDS Packages, SequenceTheorems, TLAPS

(* Outside the two recursive passes no package is active.                  *)
Quiet ==
  /\ phase \notin {"parse", "order", "crashed"} => stack = <<>>
  /\ phase \in {"types", "bodies"} => pos # 0

(* No package is active twice, and an active one has been parsed.          *)
Active ==
  /\ \A i, j \in DOMAIN stack : stack[i] = stack[j] => i = j
  /\ \A i \in DOMAIN stack : stack[i] \in parsed /\ idx[stack[i]] <= Len(imp[stack[i]])

(* While ordering, the import a package is at is the package called next.  *)
CallChain ==
  phase = "order" => \A i \in 1..(Len(stack) - 1) :
    /\ idx[stack[i]] < Len(imp[stack[i]])
    /\ imp[stack[i]][idx[stack[i]] + 1].path = stack[i + 1]

(* A result that waits to be taken belongs to the import the topmost       *)
(* package is at, and a package that is returned has resolved.             *)
Result ==
  ret # "pending" =>
    /\ phase = "order"
    /\ stack # <<>> => idx[Top] < Len(imp[Top])
    /\ ret \in Names => state[ret] = "Resolved"
    /\ ret \in Names /\ stack # <<>> => ret = imp[Top][idx[Top] + 1].path

(* How state follows the walk: only active packages are Resolving, and     *)
(* ordered_packages holds the resolved ones, once each.                    *)
StateFollows ==
  /\ parsed \subseteq listed
  /\ \A n \in Names : state[n] # "Unresolved" => n \in parsed
  /\ \A n \in wrong : state[n] = "Error"
  /\ \A n \in Names : state[n] = "Resolving" =>
       phase \in {"order", "crashed"} /\ \E i \in DOMAIN stack : stack[i] = n
  /\ phase = "order" => \A i \in DOMAIN stack : state[stack[i]] \in {"Resolving", "Error"}

Walk == Quiet /\ Active /\ CallChain /\ Result /\ StateFollows /\ AssertedResolved

LEMMA PopProperties ==
  ASSUME stack \in Seq(Names), stack # <<>>
  PROVE  /\ Len(stack) \in Nat \ {0}
         /\ Top \in Names
         /\ Top = stack[Len(stack)]
         /\ Pop \in Seq(Names)
         /\ Len(Pop) = Len(stack) - 1
         /\ \A i \in 1..(Len(stack) - 1) : Pop[i] = stack[i]
<1>1. Len(stack) \in Nat \ {0} /\ \A i \in 1..Len(stack) : stack[i] \in Names
  OBVIOUS
<1>2. PICK n \in Nat : Len(stack) = n + 1
  BY <1>1
<1>3. \A i \in 1..n : stack[i] \in Names
  BY <1>1, <1>2
<1>4. Pop = SubSeq(stack, 1, n)
  BY <1>2 DEF Pop
<1>5. /\ Pop \in Seq(Names)
      /\ Len(Pop) = n
      /\ \A i \in 1..n : Pop[i] = stack[i]
  <2>1. n = IF 1 <= n THEN n - 1 + 1 ELSE 0
    OBVIOUS
  <2>2. n - 1 + 1 = n /\ \A i \in 1..n : 1 + i - 1 = i
    OBVIOUS
  <2> QED BY <1>3, <1>4, <2>1, <2>2, SubSeqProperties
<1>6. Top \in Names
  BY <1>1 DEF Top
<1> QED BY <1>1, <1>2, <1>5, <1>6 DEF Top

(* The names that AtCall and Advance talk about are typed.                 *)
LEMMA CallTypes ==
  ASSUME TypeOK
  PROVE  /\ stack # <<>> => Top \in Names
         /\ Advance \in [Names -> Nat]
         /\ AtCall => Callee \in Paths
<1> USE NamesAssumption
<1>1. stack # <<>> => Top \in Names
  BY PopProperties DEF TypeOK
<1>2. Advance \in [Names -> Nat]
  <2>1. idx \in [Names -> Nat]
    BY DEF TypeOK
  <2>2. CASE stack = <<>>
    BY <2>1, <2>2 DEF Advance
  <2>3. CASE stack # <<>>
    <3>1. idx[Top] + 1 \in Nat
      BY <1>1, <2>1, <2>3
    <3> QED BY <1>1, <2>1, <2>3, <3>1 DEF Advance
  <2> QED BY <2>2, <2>3
<1>3. ASSUME AtCall PROVE Callee \in Paths
  <2>1. CASE stack = <<>>
    BY <2>1 DEF TypeOK, Callee
  <2>2. CASE stack # <<>>
    <3>1. imp[Top] \in Seq(Import) /\ idx[Top] + 1 \in DOMAIN imp[Top]
      BY <1>1, <1>3, <2>2 DEF AtCall, Followed, Live, TypeOK
    <3>2. imp[Top][idx[Top] + 1] \in Import
      BY <3>1
    <3> QED BY <3>2, <2>2 DEF Callee, Import
  <2> QED BY <2>1, <2>2
<1> QED BY <1>1, <1>2, <1>3
-----------------------------------------------------------------------------
(* Type correctness. *)

LEMMA TypeStep ==
  ASSUME TypeOK, Quiet, Result, [Next]_vars
  PROVE  TypeOK'
<1> USE DEF vars, graphVars, walkVars, regVars, doneVars, clientVars
<1>1. stack # <<>> => Top \in Names /\ Pop \in Seq(Names)
  BY PopProperties DEF TypeOK
<1>2. Advance \in [Names -> Nat]
  BY CallTypes
<1>3. AtCall => Callee \in Paths
  BY CallTypes
<1>4. ImportReturns => imp[Top][idx[Top] + 1] \in Import
  <2> SUFFICES ASSUME ImportReturns PROVE imp[Top][idx[Top] + 1] \in Import
    OBVIOUS
  <2>1. idx[Top] < Len(imp[Top]) /\ Top \in Names
    BY <1>1 DEF ImportReturns, Result
  <2>2. imp[Top] \in Seq(Import) /\ idx[Top] \in Nat
    BY <2>1 DEF TypeOK
  <2> QED BY <2>1, <2>2
<1>5. ASSUME NEW n \in SingleFiles, AddSingleFilePackage(n) PROVE TypeOK'
  <2>1. listed' \subseteq Names /\ errors' \in BOOLEAN
    <3>1. n \in Names
      BY NamesAssumption
    <3> QED BY <1>5, <3>1 DEF AddSingleFilePackage, TypeOK
  <2> QED BY <1>5, <2>1 DEF AddSingleFilePackage, TypeOK
<1>6. ASSUME NEW r \in Roots, Compile(r) PROVE TypeOK'
  <2>1. calls' \in 0..MaxCalls
    BY <1>6, InputAssumption DEF Compile, TypeOK
  <2> QED BY <1>6, <2>1 DEF Compile, TypeOK
<1>7. ASSUME Generate PROVE TypeOK'
  <2>1. PICK file \in Generated :
          /\ imp' = [imp EXCEPT ![root] = @ \o file.imports]
          /\ pending' = [pending EXCEPT ![root] = file.decls]
    BY <1>7 DEF Generate
  <2>2. root \in Names /\ imp[root] \in Seq(Import)
    BY NamesAssumption DEF TypeOK
  <2>3. imp[root] \o file.imports \in Seq(Import) /\ file.decls \in SUBSET Idents
    BY <2>2, InputAssumption, ConcatProperties
  <2>4. imp' \in [Names -> Seq(Import)] /\ pending' \in [Names -> SUBSET Idents]
    BY <2>1, <2>2, <2>3 DEF TypeOK
  <2>5. calls' \in 0..MaxCalls
    BY <1>7, InputAssumption DEF Generate, TypeOK
  <2> QED BY <1>7, <2>4, <2>5 DEF Generate, TypeOK
<1>8. ASSUME ParseMissing PROVE TypeOK'
  BY <1>2, <1>8 DEF ParseMissing, ParseLeaf, TypeOK
<1>9. ASSUME ParseAgain PROVE TypeOK'
  BY <1>2, <1>9 DEF ParseAgain, ParseLeaf, TypeOK
<1>10. ASSUME ParseUnlistable PROVE TypeOK'
  BY <1>2, <1>10 DEF ParseUnlistable, ParseLeaf, TypeOK
<1>11. ASSUME NEW n \in Names, NEW path \in Paths, NEW b \in BOOLEAN, ParsePackage(n, path, b)
       PROVE  /\ parsed' \subseteq Names
              /\ imp' \in [Names -> Seq(Import)]
              /\ pending' \in [Names -> SUBSET Idents]
              /\ state' \in [Names -> {"Unresolved", "Resolving", "Resolved", "Error"}]
              /\ errors' \in BOOLEAN
  <2>1. disk.src[path] \in Source
    BY DEF TypeOK, World
  <2> DEFINE src == disk.src[path]
             empty == src.kind = "none" \/ b
  <2>2. (IF empty THEN <<>> ELSE src.imports) \in Seq(Import)
        /\ (IF empty THEN {} ELSE src.decls) \in SUBSET Idents
    BY <2>1 DEF Source
  <2>3. imp' \in [Names -> Seq(Import)] /\ pending' \in [Names -> SUBSET Idents]
    BY <1>11, <2>2 DEF ParsePackage, TypeOK
  <2>4. /\ parsed' \subseteq Names
        /\ state' \in [Names -> {"Unresolved", "Resolving", "Resolved", "Error"}]
        /\ errors' \in BOOLEAN
    BY <1>11 DEF ParsePackage, TypeOK
  <2> QED BY <2>3, <2>4
<1>12. ASSUME NEW n \in Names, ParsePush(n)
       PROVE  stack' \in Seq(Names) /\ idx' \in [Names -> Nat]
  BY <1>2, <1>12 DEF ParsePush, TypeOK
<1>13. ASSUME ParseListed PROVE TypeOK'
  <2>1. Callee \in Names /\ from[Callee] \in Paths /\ errors \in BOOLEAN
    BY <1>13 DEF ParseListed, ParseCall, Lookup, TypeOK
  <2>2. ParsePackage(Callee, from[Callee], errors) /\ ParsePush(Callee)
    BY <1>13 DEF ParseListed
  <2> HIDE DEF vars, graphVars, walkVars, regVars, doneVars, clientVars
  <2>3. /\ parsed' \subseteq Names
        /\ imp' \in [Names -> Seq(Import)]
        /\ pending' \in [Names -> SUBSET Idents]
        /\ state' \in [Names -> {"Unresolved", "Resolving", "Resolved", "Error"}]
        /\ errors' \in BOOLEAN
        /\ stack' \in Seq(Names) /\ idx' \in [Names -> Nat]
    BY <1>11, <1>12, <2>1, <2>2
  <2> QED BY <1>13, <2>2, <2>3 DEF ParseListed, ParsePush, TypeOK, doneVars, clientVars
<1>14. ASSUME ParseNew PROVE TypeOK'
  <2>1. Callee \in Paths /\ NameOf[Callee] \in Names
    BY <1>3, <1>14, NamesAssumption DEF ParseNew, ParseCall
  <2>2. /\ ParsePackage(NameOf[Callee], Callee, errors \/ disk.dirs[Callee] = 2)
        /\ ParsePush(NameOf[Callee])
    BY <1>14 DEF ParseNew
  <2>3. (errors \/ disk.dirs[Callee] = 2) \in BOOLEAN
    BY DEF TypeOK
  <2> HIDE DEF vars, graphVars, walkVars, regVars, doneVars, clientVars
  <2>4. /\ parsed' \subseteq Names
        /\ imp' \in [Names -> Seq(Import)]
        /\ pending' \in [Names -> SUBSET Idents]
        /\ state' \in [Names -> {"Unresolved", "Resolving", "Resolved", "Error"}]
        /\ errors' \in BOOLEAN
        /\ stack' \in Seq(Names) /\ idx' \in [Names -> Nat]
    BY <1>11, <1>12, <2>1, <2>2, <2>3
  <2>5. listed' \subseteq Names /\ from' \in [Names -> Paths]
    BY <1>14, <2>1 DEF ParseNew, TypeOK
  <2> QED BY <1>14, <2>2, <2>4, <2>5 DEF ParsePush, TypeOK, doneVars, clientVars
<1>15. ASSUME ParseReturn PROVE TypeOK'
  BY <1>1, <1>15 DEF ParseReturn, TypeOK
<1>16. ASSUME SkipImport PROVE TypeOK'
  BY <1>2, <1>16 DEF SkipImport, TypeOK
<1>17. ASSUME BuildIfPass PROVE TypeOK'
  <2>1. \A n \in Names : {k \in DOMAIN imp[n] : imp[n][k].off} \in SUBSET Nat
    BY DEF TypeOK
  <2>2. discarded' \in [Names -> SUBSET Nat]
    BY <1>17, <2>1 DEF BuildIfPass
  <2>3. phase' \in {"idle", "order"}
    BY <1>17 DEF BuildIfPass
  <2> QED BY <1>17, <2>2, <2>3 DEF BuildIfPass, TypeOK
<1>18. ASSUME OrderLost PROVE TypeOK'
  BY <1>18 DEF OrderLost, TypeOK
<1>19. ASSUME OrderFoundError PROVE TypeOK'
  BY <1>19 DEF OrderFoundError, TypeOK
<1>20. ASSUME NEW n \in Names, PackageDecls(n)
       PROVE  /\ scope' \in [Names -> [Idents -> Names \cup {NoName, Builtin}]]
              /\ poisoned' \subseteq (Names \cup {Builtin}) \X Idents
              /\ pending' \in [Names -> SUBSET Idents]
              /\ errors' \in BOOLEAN
  <2> DEFINE clash == {i \in pending[n] : scope[n][i] # NoName}
  <2>1. scope[n] \in [Idents -> Names \cup {NoName, Builtin}] /\ clash \subseteq Idents
    BY DEF TypeOK
  <2>2. [i \in Idents |-> IF i \in pending[n] \ clash THEN n ELSE scope[n][i]]
          \in [Idents -> Names \cup {NoName, Builtin}]
    BY <2>1
  <2>3. scope' \in [Names -> [Idents -> Names \cup {NoName, Builtin}]]
    BY <1>20, <2>2 DEF PackageDecls, TypeOK
  <2>4. \A i \in clash : scope[n][i] \in Names \cup {Builtin}
    BY <2>1
  <2>5. poisoned' \subseteq (Names \cup {Builtin}) \X Idents
    BY <1>20, <2>1, <2>4 DEF PackageDecls, TypeOK
  <2> QED BY <1>20, <2>3, <2>5 DEF PackageDecls, TypeOK
<1>21. ASSUME OrderFoundResolved PROVE TypeOK'
  <2>1. Callee \in Names /\ PackageDecls(Callee)
    BY <1>21 DEF OrderFoundResolved, TypeOK
  <2> QED BY <1>20, <1>21, <2>1 DEF OrderFoundResolved, TypeOK
<1>22. ASSUME OrderCircular PROVE TypeOK'
  BY <1>22 DEF OrderCircular, TypeOK
<1>23. ASSUME OrderEnter PROVE TypeOK'
  <2>1. Callee \in Names
    BY <1>23 DEF OrderEnter, TypeOK
  <2>2. [i \in Idents |-> IF i \in BuiltinIdents /\ scope[Callee][i] = NoName
                          THEN Builtin ELSE scope[Callee][i]]
          \in [Idents -> Names \cup {NoName, Builtin}]
    BY <2>1 DEF TypeOK
  <2>3. scope' \in [Names -> [Idents -> Names \cup {NoName, Builtin}]]
    BY <1>23, <2>2 DEF OrderEnter, TypeOK
  <2>4. stack' \in Seq(Names) /\ idx' \in [Names -> Nat] /\ wrong' \subseteq Names
    BY <1>23, <2>1 DEF OrderEnter, TypeOK
  <2> QED BY <1>23, <2>3, <2>4 DEF OrderEnter, TypeOK
<1>24. ASSUME ImportFailed PROVE TypeOK'
  BY <1>1, <1>2, <1>24 DEF ImportFailed, ImportReturns, TypeOK
<1>25. ImportReturns /\ linked' = [linked EXCEPT ![Top] = @ \cup {idx[Top] + 1}]
         => linked' \in [Names -> SUBSET Nat]
  <2> SUFFICES ASSUME ImportReturns, linked' = [linked EXCEPT ![Top] = @ \cup {idx[Top] + 1}]
               PROVE  linked' \in [Names -> SUBSET Nat]
    OBVIOUS
  <2>1. Top \in Names
    BY <1>1 DEF ImportReturns
  <2>2. idx[Top] + 1 \in Nat
    BY <2>1 DEF TypeOK
  <2> QED BY <2>1, <2>2 DEF TypeOK
<1>26. ASSUME ImportNamed PROVE TypeOK'
  <2> DEFINE as == imp[Top][idx[Top] + 1].as
  <2>1. Top \in Names /\ as \in Idents
    BY <1>1, <1>4, <1>26 DEF ImportNamed, ImportReturns, Import
  <2>2. scope[Top] \in [Idents -> Names \cup {NoName, Builtin}]
    BY <2>1 DEF TypeOK
  <2>3. scope' \in [Names -> [Idents -> Names \cup {NoName, Builtin}]]
    BY <1>26, <2>1, <2>2 DEF ImportNamed, TypeOK
  <2>4. poisoned' \subseteq (Names \cup {Builtin}) \X Idents
    <3>1. CASE scope[Top][as] = NoName
      BY <1>26, <3>1 DEF ImportNamed, TypeOK
    <3>2. CASE scope[Top][as] # NoName
      <4>1. scope[Top][as] \in Names \cup {Builtin}
        BY <2>1, <2>2, <3>2
      <4>2. poisoned' = poisoned \cup {<<Top, as>>, <<scope[Top][as], as>>}
        BY <1>26, <3>2 DEF ImportNamed
      <4>3. /\ <<Top, as>> \in (Names \cup {Builtin}) \X Idents
            /\ <<scope[Top][as], as>> \in (Names \cup {Builtin}) \X Idents
        BY <2>1, <4>1
      <4>4. poisoned \subseteq (Names \cup {Builtin}) \X Idents
        BY DEF TypeOK
      <4> QED BY <4>2, <4>3, <4>4
    <3> QED BY <3>1, <3>2
  <2>5. linked' \in [Names -> SUBSET Nat] /\ idx' \in [Names -> Nat]
    BY <1>2, <1>25, <1>26 DEF ImportNamed
  <2> QED BY <1>26, <2>3, <2>4, <2>5 DEF ImportNamed, TypeOK
<1>27. ASSUME NEW n \in Names, NEW m \in Names, NEW is, scope' = Bring(n, m, is)
       PROVE  scope' \in [Names -> [Idents -> Names \cup {NoName, Builtin}]]
  <2>1. [i \in Idents |-> IF i \in is THEN m ELSE scope[n][i]]
          \in [Idents -> Names \cup {NoName, Builtin}]
    BY DEF TypeOK
  <2> QED BY <1>27, <2>1 DEF Bring, TypeOK
<1>28. ASSUME ImportAll PROVE TypeOK'
  <2>1. Top \in Names /\ ret \in Names
    BY <1>1, <1>28 DEF ImportAll, ImportReturns, Unnamed
  <2>2. scope' \in [Names -> [Idents -> Names \cup {NoName, Builtin}]]
    BY <1>27, <1>28, <2>1 DEF ImportAll
  <2>3. linked' \in [Names -> SUBSET Nat] /\ idx' \in [Names -> Nat]
    BY <1>2, <1>25, <1>28 DEF ImportAll
  <2> QED BY <1>28, <2>2, <2>3 DEF ImportAll, TypeOK
<1>29. ASSUME ImportCollides PROVE TypeOK'
  <2>1. Top \in Names /\ ret \in Names
    BY <1>1, <1>29 DEF ImportCollides, ImportReturns, Unnamed
  <2>2. PICK i \in Collisions(Top, ret),
             before \in SUBSET (Exported(ret) \ Collisions(Top, ret)) :
               /\ scope' = Bring(Top, ret, before)
               /\ poisoned' = poisoned \cup {<<ret, i>>, <<scope[Top][i], i>>}
    BY <1>29 DEF ImportCollides
  <2>3. scope' \in [Names -> [Idents -> Names \cup {NoName, Builtin}]]
    BY <1>27, <2>1, <2>2
  <2>4. i \in Idents /\ scope[Top][i] \in Names \cup {Builtin}
    BY <2>1, <2>2 DEF Collisions, Exported, TypeOK
  <2>5. poisoned' \subseteq (Names \cup {Builtin}) \X Idents
    BY <2>1, <2>2, <2>4 DEF TypeOK
  <2>6. /\ state' \in [Names -> {"Unresolved", "Resolving", "Resolved", "Error"}]
        /\ wrong' \subseteq Names
        /\ idx' \in [Names -> Nat]
    BY <1>2, <1>29, <2>1 DEF ImportCollides, TypeOK
  <2> QED BY <1>29, <2>3, <2>5, <2>6 DEF ImportCollides, TypeOK
<1>30. ASSUME OrderFail PROVE TypeOK'
  BY <1>1, <1>30 DEF OrderFail, AtEnd, TypeOK
<1>31. ASSUME OrderDone PROVE TypeOK'
  <2>1. Top \in Names /\ Pop \in Seq(Names) /\ PackageDecls(Top)
    BY <1>1, <1>31 DEF OrderDone, AtEnd
  <2>2. /\ scope' \in [Names -> [Idents -> Names \cup {NoName, Builtin}]]
        /\ poisoned' \subseteq (Names \cup {Builtin}) \X Idents
        /\ pending' \in [Names -> SUBSET Idents]
        /\ errors' \in BOOLEAN
    BY <1>20, <2>1
  <2>3. ordered' \in Seq(Names)
    BY <1>31, <2>1 DEF OrderDone, TypeOK
  <2> QED BY <1>31, <2>1, <2>2, <2>3 DEF OrderDone, TypeOK
<1>32. ASSUME OrderReturn PROVE TypeOK'
  BY <1>32 DEF OrderReturn, TypeOK
<1>33. ASSUME ResolveIncompleteTypes \/ ResolveProcBodies PROVE TypeOK'
  <2>1. pos \in DOMAIN ordered
    <3>1. pos \in Nat /\ pos # 0 /\ pos <= Len(ordered) /\ ordered \in Seq(Names)
      BY <1>33 DEF ResolveIncompleteTypes, ResolveProcBodies, Visit, TypeOK, Quiet
    <3> QED BY <3>1
  <2>2. ordered[pos] \in Names /\ pos + 1 \in Nat
    BY <2>1 DEF TypeOK
  <2> QED BY <1>33, <2>2 DEF ResolveIncompleteTypes, ResolveProcBodies, TypeOK
<1>34. ASSUME StartBodies \/ Finish PROVE TypeOK'
  BY <1>34 DEF StartBodies, Finish, TypeOK
<1>35. CASE UNCHANGED vars
  BY <1>35 DEF TypeOK
<1> QED
  BY <1>5, <1>6, <1>7, <1>8, <1>9, <1>10, <1>13, <1>14, <1>15, <1>16, <1>17, <1>18, <1>19,
     <1>21, <1>22, <1>23, <1>24, <1>26, <1>28, <1>29, <1>30, <1>31, <1>32, <1>33, <1>34, <1>35
     DEF Next, Client, Compiler, Parse, Order, Loops
-----------------------------------------------------------------------------
(* The walk.  Each action belongs to one of four kinds, by what it does to *)
(* the stack: nothing, step past an import, push a package, pop one.       *)

(* What a push and a pop do to the positions of the stack.                 *)
LEMMA PushPositions ==
  ASSUME stack \in Seq(Names), NEW n \in Names, stack' = Append(stack, n)
  PROVE  /\ Len(stack') = Len(stack) + 1 /\ Len(stack) \in Nat
         /\ \A i \in 1..Len(stack) : stack'[i] = stack[i]
         /\ stack'[Len(stack) + 1] = n
         /\ stack' # <<>>
         /\ DOMAIN stack = 1..Len(stack)
         /\ DOMAIN stack' = 1..(Len(stack) + 1)
BY DEF Top

LEMMA PopPositions ==
  ASSUME stack \in Seq(Names), stack # <<>>, stack' = Pop
  PROVE  /\ Len(stack') = Len(stack) - 1 /\ Len(stack) \in Nat \ {0}
         /\ \A i \in 1..(Len(stack) - 1) : stack'[i] = stack[i]
         /\ DOMAIN stack = 1..Len(stack)
         /\ DOMAIN stack' = 1..(Len(stack) - 1)
         /\ stack' # <<>> => Len(stack) > 1 /\ Top' = stack[Len(stack) - 1]
         /\ stack' \in Seq(Names)
<1>1. /\ Len(stack) \in Nat \ {0}
      /\ Pop \in Seq(Names)
      /\ Len(Pop) = Len(stack) - 1
      /\ \A i \in 1..(Len(stack) - 1) : Pop[i] = stack[i]
  BY PopProperties
<1>2. stack' \in Seq(Names) /\ Len(stack') = Len(stack) - 1
  BY <1>1
<1>3. DOMAIN stack = 1..Len(stack) /\ DOMAIN stack' = 1..(Len(stack) - 1)
  BY <1>1, <1>2
<1>4. ASSUME stack' # <<>> PROVE Len(stack) > 1 /\ Top' = stack[Len(stack) - 1]
  <2>1. Len(stack') # 0
    BY <1>2, <1>4
  <2>2. Len(stack) > 1
    BY <1>1, <1>2, <2>1
  <2>3. Top' = stack'[Len(stack) - 1]
    BY <1>2 DEF Top
  <2> QED BY <1>1, <2>2, <2>3
<1> QED BY <1>1, <1>2, <1>3, <1>4

(* Stepping past an import moves the topmost package only, within bounds.  *)
LEMMA AdvanceBounds ==
  ASSUME TypeOK, Active, stack # <<>>, idx[Top] < Len(imp[Top]), NEW i \in DOMAIN stack
  PROVE  /\ Advance[stack[i]] <= Len(imp[stack[i]])
         /\ i # Len(stack) => Advance[stack[i]] = idx[stack[i]]
<1>1. /\ Len(stack) \in DOMAIN stack /\ Top = stack[Len(stack)] /\ Top \in Names
      /\ stack[i] \in Names
  BY PopProperties DEF TypeOK
<1>2. Advance = [idx EXCEPT ![Top] = idx[Top] + 1] /\ idx \in [Names -> Nat]
  BY DEF Advance, TypeOK
<1>3. CASE stack[i] = Top
  <2>1. i = Len(stack)
    BY <1>1, <1>3 DEF Active
  <2>2. Advance[stack[i]] = idx[Top] + 1
    BY <1>1, <1>2, <1>3
  <2>3. idx[Top] \in Nat /\ Len(imp[Top]) \in Nat
    BY <1>1 DEF TypeOK
  <2> QED BY <1>3, <2>1, <2>2, <2>3
<1>4. CASE stack[i] # Top
  <2>1. Advance[stack[i]] = idx[stack[i]]
    BY <1>1, <1>2, <1>4
  <2> QED BY <1>1, <2>1 DEF Active
<1> QED BY <1>3, <1>4

LEMMA AtCallBounds ==
  ASSUME TypeOK, AtCall, stack # <<>>
  PROVE  /\ idx[Top] < Len(imp[Top])
         /\ idx[Top] + 1 \in Live(Top)
         /\ Callee = imp[Top][idx[Top] + 1].path
<1>1. Top \in Names
  BY PopProperties DEF TypeOK
<1>2. imp[Top] \in Seq(Import) /\ idx[Top] \in Nat
  BY <1>1 DEF TypeOK
<1>3. idx[Top] + 1 \in Live(Top) /\ idx[Top] + 1 \in DOMAIN imp[Top]
  BY DEF AtCall, Followed, Live
<1> QED BY <1>2, <1>3 DEF Callee

LEMMA ActiveStep ==
  ASSUME TypeOK, Quiet, Active, Result, StateFollows, [Next]_vars
  PROVE  Active'
<1> USE DEF vars, graphVars, walkVars, regVars, doneVars, clientVars
<1>1. ASSUME UNCHANGED <<stack, idx, imp, parsed>> PROVE Active'
  BY <1>1 DEF Active
<1>2. ASSUME UNCHANGED <<stack, imp, parsed>>, idx' = Advance,
             stack # <<>> => idx[Top] < Len(imp[Top])
      PROVE  Active'
  <2>1. CASE stack = <<>>
    BY <1>2, <2>1 DEF Active
  <2>2. CASE stack # <<>>
    BY <1>2, <2>2, AdvanceBounds DEF Active
  <2> QED BY <2>1, <2>2
<1>3. ASSUME NEW n \in Names, \A i \in DOMAIN stack : stack[i] # n, stack' = Append(stack, n),
             parsed \subseteq parsed', n \in parsed', idx'[n] <= Len(imp'[n]),
             \A i \in DOMAIN stack : idx'[stack[i]] <= Len(imp'[stack[i]])
      PROVE  Active'
  <2>1. stack \in Seq(Names)
    BY DEF TypeOK
  <2>2. \A i \in DOMAIN stack' :
          \/ i \in DOMAIN stack /\ stack'[i] = stack[i]
          \/ i = Len(stack) + 1 /\ stack'[i] = n
    BY <1>3, <2>1, PushPositions
  <2> QED BY <1>3, <2>2 DEF Active
<1>4. ASSUME stack # <<>>, stack' = Pop, UNCHANGED <<idx, imp, parsed>> PROVE Active'
  <2>1. stack \in Seq(Names)
    BY DEF TypeOK
  <2>2. /\ Len(stack) \in Nat
        /\ DOMAIN stack = 1..Len(stack) /\ DOMAIN stack' = 1..(Len(stack) - 1)
        /\ \A i \in 1..(Len(stack) - 1) : stack'[i] = stack[i]
    BY <1>4, <2>1, PopPositions
  <2>3. \A i \in DOMAIN stack' : i \in DOMAIN stack /\ stack'[i] = stack[i]
    BY <2>2
  <2> QED BY <1>4, <2>3 DEF Active
<1>5. AtCall => (stack # <<>> => idx[Top] < Len(imp[Top]))
  BY AtCallBounds
<1>6. ImportReturns => idx[Top] < Len(imp[Top])
  BY DEF ImportReturns, Result
<1>7. AtCall => \A i \in DOMAIN stack : Advance[stack[i]] <= Len(imp[stack[i]])
  <2> SUFFICES ASSUME AtCall, NEW i \in DOMAIN stack
               PROVE  Advance[stack[i]] <= Len(imp[stack[i]])
    OBVIOUS
  <2>1. stack # <<>>
    BY DEF TypeOK
  <2> QED BY <1>5, <2>1, AdvanceBounds
<1>8. ASSUME NEW n \in Names, NEW path, NEW b, n \notin parsed, AtCall,
             ParsePackage(n, path, b), ParsePush(n)
      PROVE  Active'
  <2>1. \A i \in DOMAIN stack : stack[i] # n /\ stack[i] \in Names
    BY <1>8 DEF Active, TypeOK
  <2>2. Advance \in [Names -> Nat] /\ idx' = [Advance EXCEPT ![n] = 0]
    BY <1>8, CallTypes DEF ParsePush
  <2>3. \A i \in DOMAIN stack : imp'[stack[i]] = imp[stack[i]]
    BY <1>8, <2>1 DEF ParsePackage, TypeOK
  <2>4. \A i \in DOMAIN stack : idx'[stack[i]] = Advance[stack[i]]
    BY <2>1, <2>2
  <2>5. \A i \in DOMAIN stack : idx'[stack[i]] <= Len(imp'[stack[i]])
    BY <1>7, <1>8, <2>3, <2>4
  <2>6. idx'[n] = 0 /\ imp'[n] \in Seq(Import)
    <3>1. TypeOK'
      BY TypeStep
    <3> QED BY <2>2, <3>1 DEF TypeOK
  <2>7. stack' = Append(stack, n) /\ parsed' = parsed \cup {n}
    BY <1>8 DEF ParsePush, ParsePackage
  <2>8. idx'[n] <= Len(imp'[n])
    BY <2>6
  <2> QED BY <1>3, <2>1, <2>5, <2>7, <2>8
<1>9. CASE Client
  <2>1. CASE Generate
    BY <2>1 DEF Generate, Quiet, Active
  <2> QED BY <1>1, <1>9, <2>1 DEF Client, AddSingleFilePackage, Compile
<1>10. CASE ParseMissing \/ ParseAgain \/ ParseUnlistable
  BY <1>2, <1>5, <1>10 DEF ParseMissing, ParseAgain, ParseUnlistable, ParseCall, ParseLeaf
<1>11. CASE ParseListed
  <2>1. Callee \in Names /\ Callee \notin parsed /\ AtCall
    BY <1>11 DEF ParseListed, ParseCall, Lookup, TypeOK
  <2> QED BY <1>8, <1>11, <2>1 DEF ParseListed
<1>12. CASE ParseNew
  <2>1. AtCall /\ NameOf[Callee] \in Names
    BY <1>12, CallTypes, NamesAssumption DEF ParseNew, ParseCall
  <2>2. NameOf[Callee] \notin parsed
    BY <1>12 DEF ParseNew, ParseCall, Lookup, StateFollows
  <2> QED BY <1>8, <1>12, <2>1, <2>2 DEF ParseNew
<1>13. CASE ParseReturn
  BY <1>4, <1>13 DEF ParseReturn
<1>14. CASE SkipImport
  BY <1>2, <1>14 DEF SkipImport
<1>15. CASE BuildIfPass
  BY <1>1, <1>15 DEF BuildIfPass
<1>16. CASE OrderLost \/ OrderFoundError \/ OrderFoundResolved \/ OrderCircular \/ OrderReturn
  BY <1>1, <1>16 DEF OrderLost, OrderFoundError, OrderFoundResolved, OrderCircular, OrderReturn
<1>17. CASE OrderEnter
  <2>1. Callee \in Names /\ Callee \in parsed /\ state[Callee] = "Unresolved"
    BY <1>17 DEF OrderEnter, TypeOK
  <2>2. \A i \in DOMAIN stack : stack[i] # Callee /\ stack[i] \in Names
    <3>1. phase = "order" /\ \A i \in DOMAIN stack : stack[i] \in Names
      BY <1>17 DEF OrderEnter, OrderCall, TypeOK
    <3>2. \A i \in DOMAIN stack : state[stack[i]] \in {"Resolving", "Error"}
      BY <3>1 DEF StateFollows
    <3> QED BY <2>1, <3>1, <3>2
  <2>3. idx' = [idx EXCEPT ![Callee] = 0] /\ idx \in [Names -> Nat]
    BY <1>17 DEF OrderEnter, TypeOK
  <2>4. \A i \in DOMAIN stack : idx'[stack[i]] <= Len(imp'[stack[i]])
    BY <1>17, <2>2, <2>3 DEF OrderEnter, Active
  <2>5. idx'[Callee] = 0 /\ imp'[Callee] \in Seq(Import)
    BY <1>17, <2>1, <2>3 DEF OrderEnter, TypeOK
  <2>6. idx'[Callee] <= Len(imp'[Callee])
    BY <2>5
  <2> QED BY <1>3, <1>17, <2>1, <2>2, <2>4, <2>6 DEF OrderEnter
<1>18. CASE ImportFailed \/ ImportNamed \/ ImportAll \/ ImportCollides
  BY <1>2, <1>6, <1>18 DEF ImportFailed, ImportNamed, ImportAll, ImportCollides
<1>19. CASE OrderFail \/ OrderDone
  BY <1>4, <1>19 DEF OrderFail, OrderDone, AtEnd
<1>20. CASE Loops
  BY <1>1, <1>20 DEF Loops, ResolveIncompleteTypes, StartBodies, ResolveProcBodies, Finish
<1>21. CASE UNCHANGED vars
  BY <1>1, <1>21
<1> QED
  BY <1>9, <1>10, <1>11, <1>12, <1>13, <1>14, <1>15, <1>16, <1>17, <1>18, <1>19, <1>20, <1>21
     DEF Next, Compiler, Parse, Order

LEMMA QuietStep ==
  ASSUME TypeOK, Quiet, [Next]_vars
  PROVE  Quiet'
<1> USE DEF vars, graphVars, walkVars, regVars, doneVars, clientVars
<1>1. CASE Client
  BY <1>1 DEF Client, AddSingleFilePackage, Compile, Generate, Quiet
<1>2. CASE Parse
  <2>1. CASE ParseMissing \/ ParseAgain \/ ParseUnlistable
    BY <2>1 DEF ParseMissing, ParseAgain, ParseUnlistable, ParseCall, ParseLeaf, Quiet
  <2>2. CASE ParseListed \/ ParseNew
    BY <2>2 DEF ParseListed, ParseNew, ParseCall, ParsePush, Quiet
  <2>3. CASE ParseReturn
    BY <2>3 DEF ParseReturn, Quiet
  <2> QED BY <1>2, <2>1, <2>2, <2>3 DEF Parse
<1>3. CASE SkipImport \/ BuildIfPass
  BY <1>3 DEF SkipImport, BuildIfPass, Quiet
<1>4. CASE Order
  <2>1. CASE OrderLost \/ OrderFoundError \/ OrderFoundResolved \/ OrderCircular \/ OrderEnter
    BY <2>1 DEF OrderLost, OrderFoundError, OrderFoundResolved, OrderCircular, OrderEnter,
                OrderCall, Quiet
  <2>2. CASE ImportFailed \/ ImportNamed \/ ImportAll \/ ImportCollides
    BY <2>2 DEF ImportFailed, ImportNamed, ImportAll, ImportCollides, ImportReturns, Quiet
  <2>3. CASE OrderFail \/ OrderDone \/ OrderReturn
    BY <2>3 DEF OrderFail, OrderDone, OrderReturn, AtEnd, Quiet
  <2> QED BY <1>4, <2>1, <2>2, <2>3 DEF Order
<1>5. CASE Loops
  BY <1>5 DEF Loops, ResolveIncompleteTypes, StartBodies, ResolveProcBodies, Finish, Visit,
              Quiet, TypeOK
<1>6. CASE UNCHANGED vars
  BY <1>6 DEF Quiet
<1> QED BY <1>1, <1>2, <1>3, <1>4, <1>5, <1>6 DEF Next, Compiler

LEMMA CallChainStep ==
  ASSUME TypeOK, Quiet, Active, CallChain, Result, StateFollows, [Next]_vars
  PROVE  CallChain'
<1> USE DEF vars, graphVars, walkVars, regVars, doneVars, clientVars
<1>1. ASSUME UNCHANGED <<stack, idx, imp>>, phase' = "order" => phase = "order"
      PROVE  CallChain'
  BY <1>1 DEF CallChain
<1>2. ASSUME UNCHANGED <<stack, imp, phase>>, idx' = Advance, stack # <<>>, idx[Top] < Len(imp[Top])
      PROVE  CallChain'
  <2>1. Len(stack) \in Nat /\ DOMAIN stack = 1..Len(stack)
    BY DEF TypeOK
  <2>2. \A i \in 1..(Len(stack) - 1) : idx'[stack[i]] = idx[stack[i]]
    BY <1>2, <2>1, AdvanceBounds
  <2> QED BY <1>2, <2>2 DEF CallChain
<1>3. ASSUME stack # <<>>, stack' = Pop, UNCHANGED <<idx, imp, phase>>
      PROVE  CallChain'
  <2>1. stack \in Seq(Names)
    BY DEF TypeOK
  <2>2. /\ Len(stack) \in Nat /\ Len(stack') = Len(stack) - 1
        /\ \A i \in 1..(Len(stack) - 1) : stack'[i] = stack[i]
    BY <1>3, <2>1, PopPositions
  <2>3. \A i \in 1..(Len(stack') - 1) : i \in 1..(Len(stack) - 1) /\ i + 1 \in 1..(Len(stack) - 1)
    BY <2>2
  <2> QED BY <1>3, <2>2, <2>3 DEF CallChain
<1>4. CASE Client
  <2>1. CASE phase' # "order"
    BY <2>1 DEF CallChain
  <2>2. CASE phase' = "order"
    <3>1. phase = "types" /\ stack' = stack
      BY <1>4, <2>2 DEF Client, AddSingleFilePackage, Compile, Generate
    <3>2. stack' = <<>> /\ Len(stack') = 0
      BY <3>1 DEF Quiet
    <3>3. 1..(Len(stack') - 1) = {}
      BY <3>2
    <3> QED BY <3>3 DEF CallChain
  <2> QED BY <2>1, <2>2
<1>5. CASE Parse
  <2>1. phase' \in {"parse", "buildif"}
    BY <1>5 DEF Parse, ParseMissing, ParseAgain, ParseUnlistable, ParseListed, ParseNew,
                ParseReturn, ParseCall, ParseLeaf, ParsePush
  <2> QED BY <2>1 DEF CallChain
<1>6. CASE SkipImport
  BY <1>2, <1>6 DEF SkipImport
<1>7. CASE BuildIfPass
  BY <1>7 DEF BuildIfPass, Quiet, CallChain
<1>8. CASE OrderLost \/ OrderFoundError \/ OrderFoundResolved \/ OrderCircular \/ OrderReturn
  BY <1>1, <1>8 DEF OrderLost, OrderFoundError, OrderFoundResolved, OrderCircular, OrderReturn
<1>9. CASE OrderEnter
  <2>1. /\ Callee \in Names /\ state[Callee] = "Unresolved" /\ AtCall
        /\ phase = "order" /\ UNCHANGED <<phase, imp>>
        /\ stack' = Append(stack, Callee) /\ idx' = [idx EXCEPT ![Callee] = 0]
    BY <1>9 DEF OrderEnter, OrderCall, TypeOK
  <2>2. stack \in Seq(Names) /\ idx \in [Names -> Nat]
    BY DEF TypeOK
  <2>3. /\ Len(stack') = Len(stack) + 1 /\ Len(stack) \in Nat
        /\ \A i \in 1..Len(stack) : stack'[i] = stack[i]
        /\ stack'[Len(stack) + 1] = Callee
        /\ DOMAIN stack = 1..Len(stack)
    BY <2>1, <2>2, PushPositions
  <2>4. \A i \in 1..Len(stack) : stack[i] \in Names /\ stack[i] # Callee
    <3> SUFFICES ASSUME NEW i \in 1..Len(stack) PROVE stack[i] \in Names /\ stack[i] # Callee
      OBVIOUS
    <3>1. stack[i] \in Names
      BY <2>2
    <3>2. state[stack[i]] \in {"Resolving", "Error"}
      BY <2>1, <2>3 DEF StateFollows
    <3> QED BY <2>1, <3>1, <3>2
  <2>5. \A i \in 1..Len(stack) : idx'[stack[i]] = idx[stack[i]]
    BY <2>1, <2>2, <2>4
  <2>6. \A i \in 1..(Len(stack) - 1) :
          /\ idx'[stack'[i]] < Len(imp'[stack'[i]])
          /\ imp'[stack'[i]][idx'[stack'[i]] + 1].path = stack'[i + 1]
    <3> SUFFICES ASSUME NEW i \in 1..(Len(stack) - 1)
                 PROVE  /\ idx'[stack'[i]] < Len(imp'[stack'[i]])
                        /\ imp'[stack'[i]][idx'[stack'[i]] + 1].path = stack'[i + 1]
      OBVIOUS
    <3>1. i \in 1..Len(stack) /\ i + 1 \in 1..Len(stack)
      BY <2>3
    <3>2. idx[stack[i]] < Len(imp[stack[i]]) /\ imp[stack[i]][idx[stack[i]] + 1].path = stack[i + 1]
      BY <2>1 DEF CallChain
    <3> QED BY <2>1, <2>3, <2>5, <3>1, <3>2
  <2>7. ASSUME Len(stack) # 0
        PROVE  LET i == Len(stack) IN
          /\ idx'[stack'[i]] < Len(imp'[stack'[i]])
          /\ imp'[stack'[i]][idx'[stack'[i]] + 1].path = stack'[i + 1]
    <3>1. stack # <<>> /\ Len(stack) \in 1..Len(stack)
      BY <2>3, <2>7
    <3>2. idx[Top] < Len(imp[Top]) /\ Callee = imp[Top][idx[Top] + 1].path
      BY <2>1, <3>1, AtCallBounds
    <3> QED BY <2>1, <2>3, <2>5, <3>1, <3>2 DEF Top
  <2>8. \A i \in 1..(Len(stack') - 1) : i \in 1..(Len(stack) - 1) \/ (i = Len(stack) /\ Len(stack) # 0)
    <3>1. Len(stack') - 1 = Len(stack)
      BY <2>3
    <3>2. PICK n \in Nat : n = Len(stack)
      BY <2>3
    <3>3. \A i \in 1..n : i \in 1..(n - 1) \/ (i = n /\ n # 0)
      OBVIOUS
    <3> QED BY <3>1, <3>2, <3>3
  <2> QED BY <2>6, <2>7, <2>8 DEF CallChain
<1>10. CASE ImportFailed \/ ImportNamed \/ ImportAll \/ ImportCollides
  <2>1. stack # <<>> /\ idx[Top] < Len(imp[Top])
    BY <1>10 DEF ImportFailed, ImportNamed, ImportAll, ImportCollides, ImportReturns, Result
  <2> QED BY <1>2, <1>10, <2>1 DEF ImportFailed, ImportNamed, ImportAll, ImportCollides
<1>11. CASE OrderFail \/ OrderDone
  BY <1>3, <1>11 DEF OrderFail, OrderDone, AtEnd
<1>12. CASE Loops
  BY <1>1, <1>12 DEF Loops, ResolveIncompleteTypes, StartBodies, ResolveProcBodies, Finish, Visit
<1>13. CASE UNCHANGED vars
  BY <1>1, <1>13
<1> QED
  BY <1>4, <1>5, <1>6, <1>7, <1>8, <1>9, <1>10, <1>11, <1>12, <1>13
     DEF Next, Compiler, Order

LEMMA ResultStep ==
  ASSUME TypeOK, Active, CallChain, Result, StateFollows, [Next]_vars
  PROVE  Result'
<1> USE DEF vars, graphVars, walkVars, regVars, doneVars, clientVars
<1>1. CASE ret' = "pending"
  BY <1>1 DEF Result
<1>2. CASE OrderFoundError \/ OrderFoundResolved \/ OrderCircular
  <2>1. /\ phase' = "order" /\ UNCHANGED <<stack, idx, imp>> /\ AtCall
        /\ \/ ret' = "null"
           \/ ret' = Callee /\ state'[Callee] = "Resolved"
    BY <1>2 DEF OrderFoundError, OrderFoundResolved, OrderCircular, OrderCall
  <2>2. stack # <<>> => idx[Top] < Len(imp[Top]) /\ Callee = imp[Top][idx[Top] + 1].path
    BY <2>1, AtCallBounds
  <2> QED BY <2>1, <2>2, ReturnAssumption DEF Result, Top
<1>3. CASE OrderFail \/ OrderDone
  <2>1. /\ phase' = "order" /\ phase = "order" /\ stack # <<>> /\ stack' = Pop /\ UNCHANGED <<idx, imp>>
        /\ \/ ret' = "null"
           \/ ret' = Top /\ state' = [state EXCEPT ![Top] = "Resolved"]
    BY <1>3 DEF OrderFail, OrderDone, AtEnd
  <2>2. stack \in Seq(Names) /\ state \in [Names -> {"Unresolved", "Resolving", "Resolved", "Error"}]
    BY DEF TypeOK
  <2>3. /\ Top \in Names /\ Top = stack[Len(stack)] /\ Len(stack) \in Nat \ {0}
    BY <2>1, <2>2, PopProperties
  <2>4. stack' # <<>> => Len(stack) > 1 /\ Top' = stack[Len(stack) - 1]
    BY <2>1, <2>2, PopPositions
  <2>5. stack' # <<>> => idx'[Top'] < Len(imp'[Top']) /\ Top = imp'[Top'][idx'[Top'] + 1].path
    <3> SUFFICES ASSUME stack' # <<>>
                 PROVE  idx'[Top'] < Len(imp'[Top']) /\ Top = imp'[Top'][idx'[Top'] + 1].path
      OBVIOUS
    <3>1. Len(stack) - 1 \in 1..(Len(stack) - 1)
      BY <2>3, <2>4
    <3>2. /\ idx[stack[Len(stack) - 1]] < Len(imp[stack[Len(stack) - 1]])
          /\ imp[stack[Len(stack) - 1]][idx[stack[Len(stack) - 1]] + 1].path
               = stack[Len(stack) - 1 + 1]
      BY <2>1, <3>1 DEF CallChain
    <3>3. Len(stack) - 1 + 1 = Len(stack)
      BY <2>3
    <3> QED BY <2>1, <2>3, <2>4, <3>2, <3>3
  <2> QED BY <2>1, <2>2, <2>3, <2>5, ReturnAssumption DEF Result
<1>4. CASE Client \/ Parse \/ SkipImport \/ BuildIfPass \/ Loops \/ OrderLost \/ OrderEnter
  <2>1. ret = "pending" => ret' = "pending"
    BY <1>4 DEF Client, AddSingleFilePackage, Compile, Generate,
         Parse, ParseMissing, ParseAgain, ParseUnlistable, ParseLeaf, ParseListed, ParseNew,
         ParsePush, ParseReturn, SkipImport, BuildIfPass, Loops, ResolveIncompleteTypes,
         StartBodies, ResolveProcBodies, Finish, OrderLost, OrderEnter
  <2>2. ret = "pending"
    <3>1. CASE SkipImport \/ OrderLost \/ OrderEnter
      BY <3>1 DEF SkipImport, OrderLost, OrderEnter, OrderCall
    <3>2. CASE Client \/ Parse \/ BuildIfPass \/ Loops
      <4>1. phase # "order"
        BY <3>2 DEF Client, AddSingleFilePackage, Compile, Generate,
           Parse, ParseMissing, ParseAgain, ParseUnlistable, ParseListed, ParseNew, ParseCall,
           ParseReturn, BuildIfPass, Loops, ResolveIncompleteTypes,
           StartBodies, ResolveProcBodies, Finish, Visit
      <4> QED BY <4>1 DEF Result
    <3> QED BY <1>4, <3>1, <3>2
  <2> QED BY <1>1, <2>1, <2>2
<1>5. CASE ImportFailed \/ ImportNamed \/ ImportAll \/ ImportCollides \/ OrderReturn
  BY <1>1, <1>5 DEF ImportFailed, ImportNamed, ImportAll, ImportCollides, OrderReturn
<1>6. CASE UNCHANGED vars
  BY <1>6 DEF Result, Top
<1> QED BY <1>2, <1>3, <1>4, <1>5, <1>6 DEF Next, Compiler, Order

LEMMA StateFollowsStep ==
  ASSUME TypeOK, TypeOK', Quiet, Active, Result, StateFollows, [Next]_vars
  PROVE  StateFollows'
<1> USE DEF vars, graphVars, walkVars, regVars, doneVars, clientVars
<1>1. ASSUME UNCHANGED <<listed, parsed, state, stack, wrong>>,
             phase \in {"order", "crashed"} => phase' \in {"order", "crashed"} \/ stack = <<>>,
             phase' = "order" => phase = "order" \/ stack = <<>>
      PROVE  StateFollows'
  <2>1. stack = <<>> => DOMAIN stack = {}
    OBVIOUS
  <2> QED BY <1>1, <2>1 DEF StateFollows
<1>2. ASSUME NEW n \in Names, NEW path, NEW b, n \notin parsed, n \in listed',
             phase = "parse", phase' = "parse", listed \subseteq listed', wrong' = wrong,
             ParsePackage(n, path, b)
      PROVE  StateFollows'
  <2>1. parsed' = parsed \cup {n} /\ state[n] = "Unresolved"
    BY <1>2 DEF ParsePackage, StateFollows, TypeOK
  <2>2. \A m \in Names : m # n => state'[m] = state[m]
    BY <1>2 DEF ParsePackage, TypeOK
  <2>3. state'[n] # "Resolving"
    BY <1>2, <2>1 DEF ParsePackage, TypeOK
  <2>4. \A m \in Names : state'[m] # "Resolving"
    BY <1>2, <2>2, <2>3 DEF StateFollows
  <2>5. \A m \in wrong : m \in Names /\ m # n /\ state[m] = "Error"
    BY <2>1 DEF StateFollows, TypeOK
  <2> QED BY <1>2, <2>1, <2>2, <2>4, <2>5 DEF StateFollows
<1>3. ASSUME phase = "order", phase' = "order", UNCHANGED <<listed, parsed, stack>>, stack # <<>>,
             state' = [state EXCEPT ![Top] = "Error"], wrong' = wrong \cup {Top}
      PROVE  StateFollows'
  <2>1. stack \in Seq(Names) /\ wrong \subseteq Names
        /\ state \in [Names -> {"Unresolved", "Resolving", "Resolved", "Error"}]
    BY DEF TypeOK
  <2>2. Top \in Names /\ Len(stack) \in DOMAIN stack /\ Top = stack[Len(stack)]
    BY <1>3, <2>1, PopProperties
  <2>3. Top \in parsed
    BY <2>2 DEF Active
  <2>4. \A i \in DOMAIN stack : stack[i] \in Names
    BY <2>1
  <2> QED BY <1>3, <2>1, <2>2, <2>3, <2>4 DEF StateFollows
<1>4. ASSUME phase = "order", phase' = "order", UNCHANGED <<listed, parsed>>,
             stack # <<>>, stack' = Pop, wrong' = wrong, NEW s \in {"Error", "Resolved"},
             Top \in wrong => s = "Error",
             state' = [state EXCEPT ![Top] = s]
      PROVE  StateFollows'
  <2>1. stack \in Seq(Names) /\ state \in [Names -> {"Unresolved", "Resolving", "Resolved", "Error"}]
    BY DEF TypeOK
  <2>2. /\ Top \in Names /\ Top \in parsed /\ Top = stack[Len(stack)] /\ Len(stack) \in DOMAIN stack
    BY <1>4, <2>1, PopProperties DEF Active
  <2>3. /\ Len(stack) \in Nat \ {0} /\ DOMAIN stack = 1..Len(stack)
        /\ DOMAIN stack' = 1..(Len(stack) - 1)
        /\ \A i \in 1..(Len(stack) - 1) : stack'[i] = stack[i]
    BY <1>4, <2>1, PopPositions
  <2>4. \A i \in DOMAIN stack' : i \in DOMAIN stack /\ i # Len(stack) /\ stack'[i] = stack[i]
    BY <2>3
  <2>5. \A i \in DOMAIN stack' : stack'[i] # Top
    BY <2>2, <2>4 DEF Active
  <2>6. \A i \in DOMAIN stack' : state'[stack'[i]] \in {"Resolving", "Error"}
    <3> SUFFICES ASSUME NEW i \in DOMAIN stack' PROVE state'[stack'[i]] \in {"Resolving", "Error"}
      OBVIOUS
    <3>1. stack'[i] \in Names /\ state[stack'[i]] \in {"Resolving", "Error"}
      BY <1>4, <2>1, <2>4 DEF StateFollows
    <3> QED BY <1>4, <2>1, <2>5, <3>1
  <2>7. \A n \in Names : state'[n] = "Resolving" => \E i \in DOMAIN stack' : stack'[i] = n
    <3> SUFFICES ASSUME NEW n \in Names, state'[n] = "Resolving"
                 PROVE  \E i \in DOMAIN stack' : stack'[i] = n
      OBVIOUS
    <3>1. n # Top /\ state[n] = "Resolving"
      BY <1>4, <2>1, <2>2
    <3>2. PICK i \in DOMAIN stack : stack[i] = n
      BY <3>1 DEF StateFollows
    <3>3. i # Len(stack) /\ i \in DOMAIN stack'
      BY <2>2, <2>3, <3>1, <3>2
    <3> QED BY <2>4, <3>2, <3>3
  <2>8. \A n \in Names : state'[n] # "Unresolved" => n \in parsed'
    BY <1>4, <2>1, <2>2 DEF StateFollows
  <2>9. \A n \in wrong' : state'[n] = "Error"
    <3>1. \A n \in wrong : n \in Names /\ state[n] = "Error"
      BY DEF StateFollows, TypeOK
    <3> QED BY <1>4, <2>1, <2>2, <3>1
  <2> QED BY <1>4, <2>6, <2>7, <2>8, <2>9 DEF StateFollows
<1>5. CASE Client
  <2>1. CASE Generate
    BY <1>1, <2>1 DEF Generate, Quiet
  <2>2. CASE \E n \in SingleFiles : AddSingleFilePackage(n)
    BY <2>2 DEF AddSingleFilePackage, StateFollows
  <2>3. CASE \E r \in Roots : Compile(r)
    BY <1>1, <2>3 DEF Compile
  <2> QED BY <1>5, <2>1, <2>2, <2>3 DEF Client
<1>6. CASE ParseMissing \/ ParseAgain \/ ParseUnlistable
  BY <1>1, <1>6 DEF ParseMissing, ParseAgain, ParseUnlistable, ParseCall, ParseLeaf
<1>7. CASE ParseListed
  <2>1. /\ Callee \in Names /\ Callee \notin parsed /\ Callee \in listed /\ phase = "parse"
        /\ listed' = listed /\ phase' = phase /\ wrong' = wrong /\ ParsePackage(Callee, from[Callee], errors)
    BY <1>7 DEF ParseListed, ParseCall, Lookup, ParsePush, TypeOK
  <2> QED BY <1>2, <2>1
<1>8. CASE ParseNew
  <2>1. /\ phase = "parse" /\ phase' = phase /\ wrong' = wrong /\ NameOf[Callee] \in Names
        /\ NameOf[Callee] \notin parsed /\ NameOf[Callee] \in listed' /\ listed \subseteq listed'
        /\ ParsePackage(NameOf[Callee], Callee, errors \/ disk.dirs[Callee] = 2)
    <3>1. AtCall /\ NameOf[Callee] \in Names
      BY <1>8, CallTypes, NamesAssumption DEF ParseNew, ParseCall
    <3> QED BY <1>8, <3>1 DEF ParseNew, ParseCall, Lookup, ParsePush, StateFollows
  <2> QED BY <1>2, <2>1
<1>9. CASE ParseReturn
  <2>1. \A n \in Names : state[n] # "Resolving"
    BY <1>9 DEF ParseReturn, StateFollows
  <2> QED BY <1>9, <2>1 DEF ParseReturn, StateFollows
<1>10. CASE SkipImport \/ BuildIfPass
  BY <1>1, <1>10 DEF SkipImport, BuildIfPass, Quiet
<1>11. CASE OrderLost \/ OrderFoundError \/ OrderFoundResolved \/ OrderReturn
  BY <1>1, <1>11 DEF OrderLost, OrderFoundError, OrderFoundResolved, OrderReturn, OrderCall
<1>12. CASE OrderCircular
  BY <1>12 DEF OrderCircular, OrderCall, StateFollows, TypeOK
<1>13. CASE OrderEnter
  <2>1. /\ phase = "order" /\ phase' = "order" /\ UNCHANGED <<listed, parsed>>
        /\ Callee \in Names /\ Callee \in parsed
        /\ stack' = Append(stack, Callee) /\ state' = [state EXCEPT ![Callee] = "Resolving"]
    BY <1>13 DEF OrderEnter, OrderCall, TypeOK
  <2>2. stack \in Seq(Names) /\ state \in [Names -> {"Unresolved", "Resolving", "Resolved", "Error"}]
    BY DEF TypeOK
  <2>3. \A i \in DOMAIN stack' :
          \/ i \in DOMAIN stack /\ stack'[i] = stack[i]
          \/ stack'[i] = Callee
    BY <2>1, <2>2, PushPositions
  <2>4. /\ \A i \in DOMAIN stack : i \in DOMAIN stack' /\ stack'[i] = stack[i]
        /\ \E i \in DOMAIN stack' : stack'[i] = Callee
    BY <2>1, <2>2, PushPositions
  <2>5. \A i \in DOMAIN stack : stack[i] \in Names
    BY <2>2
  <2>6. \A n \in wrong' : state'[n] = "Error"
    <3>1. wrong' \subseteq wrong /\ wrong \subseteq Names /\ state[Callee] = "Unresolved"
      BY <1>13 DEF OrderEnter, TypeOK
    <3> QED BY <2>1, <2>2, <3>1 DEF StateFollows
  <2>7. \A i \in DOMAIN stack' : state'[stack'[i]] \in {"Resolving", "Error"}
    BY <2>1, <2>2, <2>3, <2>5 DEF StateFollows
  <2>8. \A n \in Names : state'[n] = "Resolving" => \E i \in DOMAIN stack' : stack'[i] = n
    BY <2>1, <2>2, <2>4 DEF StateFollows
  <2> QED BY <2>1, <2>2, <2>6, <2>7, <2>8 DEF StateFollows
<1>14. CASE ImportFailed \/ ImportCollides
  BY <1>3, <1>14 DEF ImportFailed, ImportCollides, ImportReturns
<1>15. CASE ImportNamed \/ ImportAll
  BY <1>1, <1>15 DEF ImportNamed, ImportAll, ImportReturns
<1>16. CASE OrderFail
  <2>1. Top \in Names /\ state[Top] = "Error" /\ state \in [Names -> {"Unresolved", "Resolving", "Resolved", "Error"}]
    BY <1>16, PopProperties DEF OrderFail, AtEnd, StateFollows, TypeOK
  <2>2. state' = [state EXCEPT ![Top] = "Error"]
    BY <1>16, <2>1 DEF OrderFail
  <2> QED BY <1>4, <1>16, <2>2 DEF OrderFail, AtEnd
<1>17. CASE OrderDone
  BY <1>4, <1>17 DEF OrderDone, AtEnd
<1>18. CASE Loops
  BY <1>1, <1>18 DEF Loops, ResolveIncompleteTypes, StartBodies, ResolveProcBodies, Finish, Visit,
                     Quiet
<1>19. CASE UNCHANGED vars
  BY <1>1, <1>19
<1> QED
  BY <1>5, <1>6, <1>7, <1>8, <1>9, <1>10, <1>11, <1>12, <1>13, <1>14, <1>15, <1>16, <1>17, <1>18, <1>19
     DEF Next, Compiler, Parse, Order

(* Only OrderDone resolves a package, and it lists it in the same step; an *)
(* active package has not resolved, so it is not on the list before.       *)
LEMMA AssertedStep ==
  ASSUME TypeOK, Active, StateFollows, AssertedResolved, [Next]_vars
  PROVE  AssertedResolved'
<1> USE DEF vars, graphVars, walkVars, regVars, doneVars, clientVars
<1> DEFINE States == {"Unresolved", "Resolving", "Resolved", "Error"}
<1>1. state \in [Names -> States] /\ ordered \in Seq(Names) /\ stack \in Seq(Names)
  BY DEF TypeOK
<1>2. ASSUME ordered' = ordered,
             \A n \in Names : state'[n] = "Resolved" <=> state[n] = "Resolved"
      PROVE  AssertedResolved'
  BY <1>2 DEF AssertedResolved
<1>3. ASSUME ordered' = ordered, NEW n \in Names, state[n] # "Resolved", NEW s, s # "Resolved",
             state' = [state EXCEPT ![n] = s]
      PROVE  AssertedResolved'
  BY <1>1, <1>2, <1>3
<1>4. ASSUME NEW n \in Names, NEW path, NEW b, n \notin parsed, ParsePackage(n, path, b),
             ordered' = ordered
      PROVE  AssertedResolved'
  <2>1. state[n] = "Unresolved"
    BY <1>4 DEF StateFollows
  <2>2. state' = state \/ state' = [state EXCEPT ![n] = "Error"]
    BY <1>4 DEF ParsePackage
  <2> QED BY <1>2, <1>3, <1>4, <2>1, <2>2
<1>5. CASE ParseListed
  <2>1. /\ Callee \in Names /\ Callee \notin parsed /\ ordered' = ordered
        /\ ParsePackage(Callee, from[Callee], errors)
    BY <1>5 DEF ParseListed, ParseCall, Lookup, ParsePush, TypeOK
  <2> QED BY <1>4, <2>1
<1>6. CASE ParseNew
  <2>1. AtCall /\ NameOf[Callee] \in Names
    BY <1>6, CallTypes, NamesAssumption DEF ParseNew, ParseCall
  <2>2. /\ NameOf[Callee] \notin parsed /\ ordered' = ordered
        /\ ParsePackage(NameOf[Callee], Callee, errors \/ disk.dirs[Callee] = 2)
    BY <1>6 DEF ParseNew, ParseCall, Lookup, ParsePush, StateFollows
  <2> QED BY <1>4, <2>1, <2>2
<1>7. CASE OrderEnter
  <2>1. Callee \in Names /\ state[Callee] = "Unresolved" /\ ordered' = ordered
        /\ state' = [state EXCEPT ![Callee] = "Resolving"]
    BY <1>7 DEF OrderEnter, TypeOK
  <2> QED BY <1>3, <2>1
<1>8. CASE OrderCircular
  <2>1. Callee \in Names /\ state[Callee] = "Resolving" /\ ordered' = ordered
        /\ state' = [state EXCEPT ![Callee] = "Error"]
    BY <1>8 DEF OrderCircular, TypeOK
  <2> QED BY <1>3, <2>1
<1>9. ASSUME phase = "order", stack # <<>>
      PROVE  Top \in Names /\ state[Top] \in {"Resolving", "Error"}
  <2>1. Top \in Names /\ Top = stack[Len(stack)] /\ Len(stack) \in DOMAIN stack
    BY <1>1, <1>9, PopProperties
  <2> QED BY <1>9, <2>1 DEF StateFollows
<1>10. CASE ImportFailed \/ ImportCollides
  <2>1. /\ phase = "order" /\ stack # <<>> /\ ordered' = ordered
        /\ state' = [state EXCEPT ![Top] = "Error"]
    BY <1>10 DEF ImportFailed, ImportCollides, ImportReturns
  <2> QED BY <1>3, <1>9, <2>1
<1>11. CASE OrderDone
  <2>1. /\ phase = "order" /\ stack # <<>> /\ ordered' = Append(ordered, Top)
        /\ state' = [state EXCEPT ![Top] = "Resolved"]
    BY <1>11 DEF OrderDone, AtEnd
  <2>2. Top \in Names /\ state[Top] # "Resolved"
    BY <1>9, <2>1
  <2>3. \A i \in DOMAIN ordered : ordered[i] # Top
    BY <2>2 DEF AssertedResolved
  <2>4. /\ DOMAIN ordered' = DOMAIN ordered \cup {Len(ordered) + 1}
        /\ \A i \in DOMAIN ordered : ordered'[i] = ordered[i]
        /\ ordered'[Len(ordered) + 1] = Top
    BY <1>1, <2>1, <2>2
  <2>5. \A n \in Names : state'[n] = "Resolved" <=> state[n] = "Resolved" \/ n = Top
    BY <1>1, <2>1, <2>2
  <2>6. {n \in Names : state'[n] = "Resolved"} = {ordered'[i] : i \in DOMAIN ordered'}
    BY <2>2, <2>4, <2>5 DEF AssertedResolved
  <2>7. \A i, j \in DOMAIN ordered' : ordered'[i] = ordered'[j] => i = j
    BY <2>3, <2>4 DEF AssertedResolved
  <2> QED BY <2>6, <2>7 DEF AssertedResolved
<1>12. CASE Client \/ ParseMissing \/ ParseAgain \/ ParseUnlistable \/ ParseReturn \/ SkipImport
         \/ BuildIfPass \/ OrderLost \/ OrderFoundError \/ OrderFoundResolved \/ OrderReturn
         \/ ImportNamed \/ ImportAll \/ OrderFail \/ Loops \/ UNCHANGED vars
  <2>1. ordered' = ordered /\ state' = state
    BY <1>12 DEF Client, AddSingleFilePackage, Compile, Generate, ParseMissing, ParseAgain,
         ParseUnlistable, ParseLeaf, ParseReturn, SkipImport, BuildIfPass, OrderLost,
         OrderFoundError, OrderFoundResolved, OrderReturn, ImportNamed, ImportAll, OrderFail,
         Loops, ResolveIncompleteTypes, StartBodies, ResolveProcBodies, Finish
  <2> QED BY <1>2, <2>1
<1> QED
  BY <1>5, <1>6, <1>7, <1>8, <1>10, <1>11, <1>12 DEF Next, Compiler, Parse, Order
-----------------------------------------------------------------------------
LEMMA InitWalk == Init => TypeOK /\ Walk
<1> SUFFICES ASSUME Init PROVE TypeOK /\ Walk
  OBVIOUS
<1>1. disk \in World /\ calls \in 0..MaxCalls
  BY InputAssumption DEF Init
<1>2. TypeOK
  <2>1. from \in [Names -> Paths] /\ root \in Roots /\ idx \in [Names -> Nat]
    BY NamesAssumption DEF Init
  <2>2. /\ discarded \in [Names -> SUBSET Nat] /\ linked \in [Names -> SUBSET Nat]
        /\ pending \in [Names -> SUBSET Idents]
        /\ scope \in [Names -> [Idents -> Names \cup {NoName, Builtin}]]
        /\ state \in [Names -> {"Unresolved", "Resolving", "Resolved", "Error"}]
    BY DEF Init
  <2>3. <<>> \in Seq(Import) /\ ordered \in Seq(Names) /\ stack \in Seq(Names)
    BY DEF Init
  <2>4. imp \in [Names -> Seq(Import)]
    BY <2>3 DEF Init
  <2> QED BY <1>1, <2>1, <2>2, <2>3, <2>4 DEF Init, TypeOK
<1>3. DOMAIN stack = {} /\ Len(stack) = 0 /\ DOMAIN ordered = {}
  BY DEF Init
<1>4. Quiet /\ Active /\ CallChain /\ Result
  BY <1>3 DEF Init, Quiet, Active, CallChain, Result
<1>5. StateFollows /\ AssertedResolved
  BY <1>3 DEF Init, StateFollows, AssertedResolved
<1> QED BY <1>2, <1>4, <1>5 DEF Walk

LEMMA WalkStep == TypeOK /\ Walk /\ [Next]_vars => TypeOK' /\ Walk'
BY TypeStep, QuietStep, ActiveStep, CallChainStep, ResultStep, StateFollowsStep, AssertedStep
   DEF Walk

(* Every reachable state is typed: no step of any pass, on any file system *)
(* and import graph, takes a variable out of its range.                    *)
THEOREM TypeCorrect == Spec => []TypeOK
<1>1. Init => TypeOK /\ Walk
  BY InitWalk
<1>2. TypeOK /\ Walk /\ [Next]_vars => (TypeOK /\ Walk)'
  BY WalkStep
<1> QED BY <1>1, <1>2, PTL DEF Spec

(* The assertions of the two loops over ordered_packages (packages.c:331   *)
(* and 342) never fail, and no package is listed twice.                    *)
THEOREM AssertionsHold == Spec => []AssertedResolved
<1>1. Init => TypeOK /\ Walk
  BY InitWalk
<1>2. TypeOK /\ Walk /\ [Next]_vars => (TypeOK /\ Walk)'
  BY WalkStep
<1>3. Walk => AssertedResolved
  BY DEF Walk
<1> QED BY <1>1, <1>2, <1>3, PTL DEF Spec
-----------------------------------------------------------------------------
(* Every failure has an error report behind it, in every state: the claim  *)
(* is its own inductive invariant.  It needs the reports at the places     *)
(* where a package is given up, and that the error count never goes down.  *)
LEMMA FailureStep ==
  ASSUME TypeOK, FailuresAreReported, [Next]_vars
  PROVE  FailuresAreReported'
<1> USE DEF vars, graphVars, walkVars, regVars, doneVars, clientVars
<1>1. ASSUME errors' = TRUE PROVE FailuresAreReported'
  BY <1>1 DEF FailuresAreReported
<1>2. ASSUME errors => errors', UNCHANGED <<wrong, poisoned, state>>, ret' # "null" \/ ret' = ret
      PROVE  FailuresAreReported'
  BY <1>2 DEF FailuresAreReported, TypeOK
<1>3. ASSUME NEW n, NEW path, NEW b, errors => b, ParsePackage(n, path, b),
             UNCHANGED <<wrong, poisoned, ret>>
      PROVE  FailuresAreReported'
  <2>1. errors' = TRUE \/ errors' = FALSE
    BY <1>3 DEF ParsePackage
  <2>2. errors' = FALSE => state' = state /\ ~errors
    BY <1>3 DEF ParsePackage
  <2> QED BY <1>1, <1>2, <1>3, <2>1, <2>2
<1>4. ASSUME NEW n, PackageDecls(n), wrong' = wrong, ret' # "null",
             \A m \in Names : state'[m] = "Error" => state[m] = "Error"
      PROVE  FailuresAreReported'
  <2>1. errors => errors' = TRUE
    BY <1>4 DEF PackageDecls
  <2>2. CASE {i \in pending[n] : scope[n][i] # NoName} # {}
    BY <1>1, <1>4, <2>2 DEF PackageDecls
  <2>3. CASE {i \in pending[n] : scope[n][i] # NoName} = {}
    <3>1. poisoned' = poisoned
      BY <1>4, <2>3 DEF PackageDecls
    <3> QED BY <1>4, <2>1, <3>1 DEF FailuresAreReported
  <2> QED BY <2>2, <2>3
<1>5. CASE Client
  BY <1>1, <1>2, <1>5 DEF Client, AddSingleFilePackage, Compile, Generate
<1>6. CASE ParseMissing \/ ParseUnlistable
  BY <1>1, <1>6 DEF ParseMissing, ParseUnlistable
<1>7. CASE ParseAgain \/ ParseReturn \/ SkipImport \/ BuildIfPass
  BY <1>2, <1>7 DEF ParseAgain, ParseLeaf, ParseReturn, SkipImport, BuildIfPass
<1>8. CASE ParseListed
  BY <1>3, <1>8 DEF ParseListed, ParsePush
<1>9. CASE ParseNew
  BY <1>3, <1>9 DEF ParseNew, ParsePush
<1>10. CASE OrderLost
  BY <1>2, <1>10 DEF OrderLost
<1>11. CASE OrderFoundError
  <2>1. Callee \in Names /\ state[Callee] = "Error" /\ errors' = errors
    BY <1>11 DEF OrderFoundError, TypeOK
  <2> QED BY <2>1 DEF FailuresAreReported
<1>12. CASE OrderFoundResolved
  <2>1. Callee \in Names
    BY <1>12 DEF OrderFoundResolved, TypeOK
  <2> QED BY <1>4, <1>12, <2>1, ReturnAssumption DEF OrderFoundResolved
<1>13. CASE OrderCircular \/ ImportCollides
  BY <1>1, <1>13 DEF OrderCircular, ImportCollides
<1>14. CASE OrderEnter
  <2>1. errors => errors' = TRUE
    BY <1>14 DEF OrderEnter
  <2>2. wrong' \subseteq wrong /\ poisoned' = poisoned /\ ret' = ret
        /\ \A n \in Names : state'[n] = "Error" => state[n] = "Error"
    BY <1>14 DEF OrderEnter, TypeOK
  <2> QED BY <2>1, <2>2 DEF FailuresAreReported
<1>15. CASE ImportFailed
  BY <1>15 DEF ImportFailed, FailuresAreReported
<1>16. CASE ImportNamed
  <2>1. CASE scope[Top][imp[Top][idx[Top] + 1].as] # NoName
    BY <1>1, <1>16, <2>1 DEF ImportNamed
  <2>2. CASE scope[Top][imp[Top][idx[Top] + 1].as] = NoName
    <3>1. errors => errors' = TRUE
      BY <1>16 DEF ImportNamed
    <3>2. UNCHANGED <<wrong, poisoned, state>> /\ ret' = "pending"
      BY <1>16, <2>2 DEF ImportNamed
    <3> QED BY <3>1, <3>2 DEF FailuresAreReported
  <2> QED BY <2>1, <2>2
<1>17. CASE ImportAll \/ OrderReturn
  BY <1>2, <1>17 DEF ImportAll, OrderReturn
<1>18. CASE OrderFail
  <2>1. wrong # {} /\ errors' = errors
    BY <1>18 DEF OrderFail
  <2> QED BY <2>1 DEF FailuresAreReported
<1>19. CASE OrderDone
  <2>1. Top \in Names
    BY <1>19, PopProperties DEF OrderDone, AtEnd, TypeOK
  <2>2. PackageDecls(Top) /\ wrong' = wrong /\ ret' # "null"
    BY <1>19, <2>1, ReturnAssumption DEF OrderDone
  <2>3. \A m \in Names : state'[m] = "Error" => state[m] = "Error"
    BY <1>19 DEF OrderDone, TypeOK
  <2> QED BY <1>4, <2>2, <2>3
<1>20. CASE Loops
  BY <1>2, <1>20 DEF Loops, ResolveIncompleteTypes, StartBodies, ResolveProcBodies, Finish
<1>21. CASE UNCHANGED vars
  BY <1>2, <1>21
<1> QED
  BY <1>5, <1>6, <1>7, <1>8, <1>9, <1>10, <1>11, <1>12, <1>13, <1>14, <1>15, <1>16, <1>17, <1>18,
     <1>19, <1>20, <1>21
     DEF Next, Compiler, Parse, Order

(* No package fails, no declaration is spoiled and no call for an import   *)
(* returns NULL without an error having been reported.                     *)
THEOREM NoSilentFailure == Spec => []FailuresAreReported
<1>1. Init => TypeOK /\ Walk /\ FailuresAreReported
  BY InitWalk DEF Init, FailuresAreReported
<1>2. TypeOK /\ Walk /\ FailuresAreReported /\ [Next]_vars
        => (TypeOK /\ Walk /\ FailuresAreReported)'
  BY WalkStep, FailureStep
<1> QED BY <1>1, <1>2, PTL DEF Spec
-----------------------------------------------------------------------------
(* Dependencies come first.  The claim alone is not inductive: it needs    *)
(* what the walk knows of a package whose imports it is still following.   *)
Off(n) == {k \in DOMAIN imp[n] : imp[n][k].off}

Listed(p) == \E j \in DOMAIN ordered : ordered[j] = p

(* From LC_BuildIfPass on, the discarded imports are those the #build_if   *)
(* of their file turned off; for a listed package that is so forever.      *)
DiscardedFits ==
  /\ phase \in {"order", "types", "bodies"} => \A n \in Names : discarded[n] = Off(n)
  /\ \A n \in Names : Listed(n) => discarded[n] = Off(n)

(* Of an active package that is not known to be wrong, every import before *)
(* the one it is at has been listed.                                       *)
PassedAreListed ==
  phase = "order" => \A i \in DOMAIN stack : stack[i] \notin wrong =>
    \A k \in Live(stack[i]) : k <= idx[stack[i]] => Listed(imp[stack[i]][k].path)

Ordering == DiscardedFits /\ PassedAreListed /\ DependenciesFirst

(* Generated files without imports leave the import lists alone, and the   *)
(* other actions change only those of a package parsed for the first time. *)
LEMMA ImportsStay ==
  ASSUME TypeOK, StateFollows, [Next]_vars, \A g \in Generated : g.imports = <<>>,
         NEW n \in Names, n \in parsed
  PROVE  imp'[n] = imp[n]
<1> USE DEF vars, graphVars, walkVars, regVars, doneVars, clientVars
<1>1. CASE Generate
  <2>1. PICK file \in Generated : imp' = [imp EXCEPT ![root] = @ \o file.imports]
    BY <1>1 DEF Generate
  <2>2. root \in Names /\ imp \in [Names -> Seq(Import)]
    BY NamesAssumption DEF TypeOK
  <2>3. imp[root] \o <<>> = imp[root]
    BY <2>2, ConcatEmptySeq
  <2> QED BY <2>1, <2>2, <2>3
<1>2. ASSUME NEW m \in Names, NEW path, NEW b, m \notin parsed, ParsePackage(m, path, b)
      PROVE  imp'[n] = imp[n]
  BY <1>2 DEF ParsePackage, TypeOK
<1>3. CASE ParseListed
  BY <1>2, <1>3 DEF ParseListed, ParseCall, Lookup, TypeOK
<1>4. CASE ParseNew
  <2>1. AtCall /\ NameOf[Callee] \in Names
    BY <1>4, CallTypes, NamesAssumption DEF ParseNew, ParseCall
  <2> QED BY <1>2, <1>4, <2>1 DEF ParseNew, ParseCall, Lookup, StateFollows
<1>5. CASE ~Generate /\ ~ParseListed /\ ~ParseNew
  BY <1>5 DEF Next, Client, AddSingleFilePackage, Compile, Compiler, Parse, ParseMissing,
       ParseAgain, ParseUnlistable, ParseLeaf, ParseReturn, SkipImport, BuildIfPass, Order,
       OrderLost, OrderFoundError, OrderFoundResolved, OrderCircular, OrderEnter, OrderReturn,
       ImportFailed, ImportNamed, ImportAll, ImportCollides, OrderFail, OrderDone,
       Loops, ResolveIncompleteTypes, StartBodies, ResolveProcBodies, Finish
<1> QED BY <1>1, <1>3, <1>4, <1>5

(* How ordered_packages changes.                                           *)
LEMMA OrderedGrows ==
  ASSUME TypeOK, [Next]_vars
  PROVE  \/ ordered' = ordered
         \/ OrderDone /\ Top \in Names /\ ordered' = Append(ordered, Top)
<1> USE DEF vars, graphVars, walkVars, regVars, doneVars, clientVars
<1>1. CASE OrderDone
  BY <1>1, PopProperties DEF OrderDone, AtEnd, TypeOK
<1>2. CASE ~OrderDone
  BY <1>2 DEF Next, Client, AddSingleFilePackage, Compile, Generate, Compiler, Parse,
       ParseMissing, ParseAgain, ParseUnlistable, ParseLeaf, ParseListed, ParseNew, ParsePush,
       ParseReturn, SkipImport, BuildIfPass, Order,
       OrderLost, OrderFoundError, OrderFoundResolved, OrderCircular, OrderEnter, OrderReturn,
       ImportFailed, ImportNamed, ImportAll, ImportCollides, OrderFail,
       Loops, ResolveIncompleteTypes, StartBodies, ResolveProcBodies, Finish
<1> QED BY <1>1, <1>2

LEMMA ListedGrows ==
  ASSUME TypeOK, [Next]_vars, NEW p
  PROVE  /\ Listed(p) => Listed(p)'
         /\ Listed(p)' => Listed(p) \/ (OrderDone /\ Top \in Names /\ p = Top)
<1>1. CASE ordered' = ordered
  BY <1>1 DEF Listed
<1>2. CASE OrderDone /\ Top \in Names /\ ordered' = Append(ordered, Top)
  <2>1. ordered \in Seq(Names)
    BY DEF TypeOK
  <2>2. /\ DOMAIN ordered' = DOMAIN ordered \cup {Len(ordered) + 1}
        /\ \A i \in DOMAIN ordered : ordered'[i] = ordered[i]
        /\ ordered'[Len(ordered) + 1] = Top
    BY <1>2, <2>1
  <2> QED BY <1>2, <2>2 DEF Listed
<1> QED BY <1>1, <1>2, OrderedGrows

LEMMA ListedArePackages ==
  ASSUME TypeOK, AssertedResolved, StateFollows, NEW n, Listed(n)
  PROVE  n \in Names /\ n \in parsed
<1>1. n \in Names
  BY DEF TypeOK, Listed
<1>2. state[n] = "Resolved"
  BY DEF AssertedResolved, Listed
<1> QED BY <1>1, <1>2 DEF StateFollows

LEMMA DiscardedStep ==
  ASSUME TypeOK, Walk, DiscardedFits, [Next]_vars, \A g \in Generated : g.imports = <<>>
  PROVE  /\ DiscardedFits'
         /\ \A n : Listed(n) => Live(n)' = Live(n)
         /\ phase' \in {"order", "types", "bodies"} => \A n \in Names : discarded'[n] = Off(n)'
<1> USE DEF vars, graphVars, walkVars, regVars, doneVars, clientVars
<1>1. \A n \in Names : n \in parsed => imp'[n] = imp[n] /\ Off(n)' = Off(n)
  BY ImportsStay DEF Walk, Off
<1>2. \A n : Listed(n) => n \in Names /\ n \in parsed
  BY ListedArePackages DEF Walk
<1>3. CASE BuildIfPass
  <2>1. imp' = imp /\ ordered' = ordered
    BY <1>3 DEF BuildIfPass
  <2>2. \A n \in Names : discarded'[n] = Off(n)' /\ Off(n)' = Off(n)
    BY <1>3, <2>1 DEF BuildIfPass, Off
  <2>3. \A n : Listed(n)' => Listed(n)
    BY <2>1 DEF Listed
  <2>4. \A n : Listed(n) => discarded'[n] = discarded[n]
    BY <1>2, <2>2 DEF DiscardedFits
  <2>5. \A n : Listed(n) => Live(n)' = Live(n)
    BY <2>1, <2>4 DEF Live
  <2> QED BY <2>2, <2>5 DEF DiscardedFits
<1>4. CASE ~BuildIfPass
  <2>1. discarded' = discarded
    BY <1>4 DEF Next, Client, AddSingleFilePackage, Compile, Generate, Compiler, Parse,
       ParseMissing, ParseAgain, ParseUnlistable, ParseLeaf, ParseListed, ParseNew, ParsePush,
       ParseReturn, SkipImport, Order,
       OrderLost, OrderFoundError, OrderFoundResolved, OrderCircular, OrderEnter, OrderReturn,
       ImportFailed, ImportNamed, ImportAll, ImportCollides, OrderFail, OrderDone,
       Loops, ResolveIncompleteTypes, StartBodies, ResolveProcBodies, Finish
  <2>2. phase' \in {"order", "types", "bodies"} =>
          phase \in {"order", "types", "bodies"} /\ \A n \in Names : Off(n)' = Off(n)
    <3>1. CASE Client
      <4>1. CASE Generate
        <5>1. PICK file \in Generated : imp' = [imp EXCEPT ![root] = @ \o file.imports]
          BY <4>1 DEF Generate
        <5>2. root \in Names /\ imp \in [Names -> Seq(Import)]
          BY NamesAssumption DEF TypeOK
        <5>3. imp[root] \o <<>> = imp[root]
          BY <5>2, ConcatEmptySeq
        <5>4. imp' = imp
          BY <5>1, <5>2, <5>3
        <5> QED BY <4>1, <5>4 DEF Generate, Off
      <4> QED BY <3>1, <4>1 DEF Client, AddSingleFilePackage, Compile, Off
    <3>2. CASE Parse
      BY <3>2 DEF Parse, ParseMissing, ParseAgain, ParseUnlistable, ParseCall, ParseLeaf,
           ParseListed, ParseNew, ParsePush, ParseReturn
    <3>3. CASE SkipImport \/ Order \/ Loops \/ UNCHANGED vars
      BY <3>3 DEF SkipImport, Order,
       OrderLost, OrderFoundError, OrderFoundResolved, OrderCircular, OrderEnter, OrderReturn,
       OrderCall, ImportReturns, AtEnd, Visit, Off,
       ImportFailed, ImportNamed, ImportAll, ImportCollides, OrderFail, OrderDone,
       Loops, ResolveIncompleteTypes, StartBodies, ResolveProcBodies, Finish
    <3> QED BY <1>4, <3>1, <3>2, <3>3 DEF Next, Compiler
  <2>3. phase' \in {"order", "types", "bodies"} => \A n \in Names : discarded'[n] = Off(n)'
    BY <2>1, <2>2 DEF DiscardedFits
  <2>4. \A n \in Names : Listed(n) => discarded'[n] = Off(n)' /\ Live(n)' = Live(n)
    BY <1>1, <1>2, <2>1 DEF DiscardedFits, Live
  <2>5. \A n \in Names : Listed(n)' => discarded'[n] = Off(n)'
    <3> SUFFICES ASSUME NEW n \in Names, Listed(n)' PROVE discarded'[n] = Off(n)'
      OBVIOUS
    <3>1. CASE Listed(n)
      BY <2>4, <3>1
    <3>2. CASE OrderDone
      <4>1. phase' = "order"
        BY <3>2 DEF OrderDone, AtEnd
      <4> QED BY <2>3, <4>1
    <3> QED BY <3>1, <3>2, ListedGrows
  <2> QED BY <1>2, <2>3, <2>4, <2>5 DEF DiscardedFits
<1> QED BY <1>3, <1>4

LEMMA PassedStep ==
  ASSUME TypeOK, Walk, PassedAreListed, [Next]_vars
  PROVE  PassedAreListed'
<1> USE DEF vars, graphVars, walkVars, regVars, doneVars, clientVars
<1>1. \A p : Listed(p) => Listed(p)'
  BY ListedGrows
<1>2. \A i \in DOMAIN stack : stack[i] \in Names /\ imp[stack[i]] \in Seq(Import) /\ idx[stack[i]] \in Nat
  BY DEF TypeOK
<1>3. stack \in Seq(Names)
  BY DEF TypeOK
<1>4. ASSUME UNCHANGED <<stack, imp, discarded, idx, wrong>>, phase' = "order" => phase = "order"
      PROVE  PassedAreListed'
  BY <1>1, <1>4 DEF PassedAreListed, Live
<1>5. ASSUME stack' = <<>> PROVE PassedAreListed'
  BY <1>5 DEF PassedAreListed
<1>6. ASSUME phase = "order", UNCHANGED <<stack, imp, discarded>>, stack # <<>>, idx' = Advance,
             idx[Top] < Len(imp[Top]), wrong \subseteq wrong',
             \/ Top \in wrong'
             \/ idx[Top] + 1 \notin Live(Top)
             \/ \E k \in Live(Top) : k <= idx[Top] /\ imp[Top][k].path = imp[Top][idx[Top] + 1].path
             \/ Listed(imp[Top][idx[Top] + 1].path)
      PROVE  PassedAreListed'
  <2>1. SUFFICES ASSUME NEW i \in DOMAIN stack, stack[i] \notin wrong', NEW k \in Live(stack[i]),
                        k <= idx'[stack[i]]
                 PROVE  Listed(imp[stack[i]][k].path)
    BY <1>1, <1>6 DEF PassedAreListed, Live
  <2>2. k <= idx[stack[i]] => Listed(imp[stack[i]][k].path)
    BY <1>6, <2>1 DEF PassedAreListed
  <2>3. CASE i # Len(stack)
    BY <1>6, <2>1, <2>2, <2>3, AdvanceBounds DEF Walk
  <2>4. CASE i = Len(stack)
    <3>1. stack[i] = Top /\ Top \in Names /\ idx[Top] \in Nat /\ idx \in [Names -> Nat]
      BY <1>2, <2>4 DEF Top, TypeOK
    <3>2. idx'[Top] = idx[Top] + 1
      BY <1>6, <3>1 DEF Advance
    <3>3. k \in Nat
      BY <1>2 DEF Live
    <3>4. k <= idx[Top] \/ k = idx[Top] + 1
      BY <2>1, <3>1, <3>2, <3>3
    <3>5. \A j \in Live(Top) : j <= idx[Top] => Listed(imp[Top][j].path)
      BY <1>6, <2>1, <3>1 DEF PassedAreListed
    <3> QED BY <1>6, <2>1, <2>2, <3>1, <3>4, <3>5
  <2> QED BY <2>3, <2>4
<1>7. CASE Client \/ Parse \/ BuildIfPass \/ Loops
  <2>1. phase' = "order" => stack' = <<>>
    BY <1>7 DEF Client, AddSingleFilePackage, Compile, Generate,
       Parse, ParseMissing, ParseAgain, ParseUnlistable, ParseCall, ParseLeaf, ParseListed,
       ParseNew, ParsePush, ParseReturn, BuildIfPass, Loops, ResolveIncompleteTypes, StartBodies,
       ResolveProcBodies, Finish, Visit, Walk, Quiet
  <2> QED BY <1>5, <2>1 DEF PassedAreListed
<1>8. CASE SkipImport
  <2>1. CASE phase = "parse"
    BY <1>8, <2>1 DEF SkipImport, PassedAreListed
  <2>2. CASE phase = "order"
    <3>1. /\ stack # <<>> /\ idx[Top] < Len(imp[Top]) /\ ~AtCall
          /\ UNCHANGED <<stack, imp, discarded, wrong>> /\ idx' = Advance
      BY <1>8 DEF SkipImport
    <3>2. Top \in Names /\ imp[Top] \in Seq(Import) /\ idx[Top] \in Nat
      BY <1>2, <1>3, <3>1, PopProperties DEF TypeOK
    <3>3. \/ idx[Top] + 1 \notin Live(Top)
          \/ \E k \in Live(Top) : k < idx[Top] + 1 /\ imp[Top][k].path = imp[Top][idx[Top] + 1].path
      BY <3>1 DEF AtCall, Followed, Duplicate
    <3>4. \A k \in Live(Top) : k < idx[Top] + 1 => k <= idx[Top]
      BY <3>2 DEF Live
    <3> QED BY <1>6, <2>2, <3>1, <3>3, <3>4
  <2> QED BY <1>8, <2>1, <2>2 DEF SkipImport
<1>9. CASE OrderLost \/ OrderFoundError \/ OrderFoundResolved \/ OrderCircular \/ OrderReturn
  BY <1>4, <1>9 DEF OrderLost, OrderFoundError, OrderFoundResolved, OrderCircular, OrderReturn
<1>10. CASE OrderEnter
  <2>1. /\ Callee \in Names /\ state[Callee] = "Unresolved" /\ phase = "order"
        /\ stack' = Append(stack, Callee) /\ idx' = [idx EXCEPT ![Callee] = 0]
        /\ UNCHANGED <<imp, discarded>> /\ wrong' = wrong \ {Callee} /\ idx \in [Names -> Nat]
    BY <1>10 DEF OrderEnter, OrderCall, TypeOK
  <2>2. \A i \in DOMAIN stack : stack[i] # Callee
    <3>1. \A i \in DOMAIN stack : state[stack[i]] \in {"Resolving", "Error"}
      BY <2>1 DEF Walk, StateFollows
    <3> QED BY <2>1, <3>1
  <2>3. \A i \in DOMAIN stack' :
          \/ i \in DOMAIN stack /\ stack'[i] = stack[i]
          \/ stack'[i] = Callee
    BY <1>3, <2>1, PushPositions
  <2>4. \A k \in Live(Callee) : ~(k <= 0)
    BY <2>1 DEF Live, TypeOK
  <2>5. SUFFICES ASSUME NEW i \in DOMAIN stack', stack'[i] \notin wrong', NEW k \in Live(stack'[i]),
                        k <= idx'[stack'[i]]
                 PROVE  Listed(imp[stack'[i]][k].path)
    BY <1>1, <2>1 DEF PassedAreListed, Live
  <2>6. stack'[i] # Callee
    BY <2>1, <2>4, <2>5
  <2>7. i \in DOMAIN stack /\ stack'[i] = stack[i] /\ stack[i] \notin wrong
    BY <2>1, <2>3, <2>5, <2>6
  <2>8. idx'[stack[i]] = idx[stack[i]]
    BY <1>2, <2>1, <2>6, <2>7
  <2> QED BY <2>1, <2>5, <2>7, <2>8 DEF PassedAreListed
<1>11. CASE ImportFailed \/ ImportCollides
  BY <1>6, <1>11 DEF ImportFailed, ImportCollides, ImportReturns, Walk, Result
<1>12. CASE ImportNamed \/ ImportAll
  <2>1. /\ phase = "order" /\ stack # <<>> /\ ret \in Names /\ ret # "pending"
        /\ UNCHANGED <<stack, imp, discarded, wrong>> /\ idx' = Advance
    BY <1>12, ReturnAssumption DEF ImportNamed, ImportAll, ImportReturns, Unnamed
  <2>2. /\ idx[Top] < Len(imp[Top]) /\ state[ret] = "Resolved"
        /\ ret = imp[Top][idx[Top] + 1].path
    BY <2>1 DEF Walk, Result
  <2>3. Listed(ret)
    BY <2>1, <2>2 DEF Walk, AssertedResolved, Listed
  <2> QED BY <1>6, <2>1, <2>2, <2>3
<1>13. CASE OrderFail \/ OrderDone
  <2>1. /\ phase = "order" /\ stack # <<>> /\ stack' = Pop /\ UNCHANGED <<imp, discarded, idx, wrong>>
    BY <1>13 DEF OrderFail, OrderDone, AtEnd
  <2>2. \A i \in DOMAIN stack' : i \in DOMAIN stack /\ stack'[i] = stack[i]
    <3>1. /\ Len(stack) \in Nat /\ DOMAIN stack = 1..Len(stack) /\ DOMAIN stack' = 1..(Len(stack) - 1)
          /\ \A i \in 1..(Len(stack) - 1) : stack'[i] = stack[i]
      BY <1>3, <2>1, PopPositions
    <3> QED BY <3>1
  <2> QED BY <1>1, <2>1, <2>2 DEF PassedAreListed, Live
<1>14. CASE UNCHANGED vars
  BY <1>4, <1>14
<1> QED
  BY <1>7, <1>8, <1>9, <1>10, <1>11, <1>12, <1>13, <1>14 DEF Next, Compiler, Order

LEMMA DependenciesStep ==
  ASSUME TypeOK, Walk, Ordering, [Next]_vars, \A g \in Generated : g.imports = <<>>
  PROVE  DependenciesFirst'
<1> USE DEF vars, graphVars, walkVars, regVars, doneVars, clientVars
<1>1. \A n \in Names : Listed(n) => imp'[n] = imp[n] /\ Live(n)' = Live(n)
  <2> SUFFICES ASSUME NEW n \in Names, Listed(n) PROVE imp'[n] = imp[n] /\ Live(n)' = Live(n)
    OBVIOUS
  <2>1. n \in parsed
    BY ListedArePackages DEF Walk
  <2> QED BY <2>1, ImportsStay, DiscardedStep DEF Walk, Ordering
<1>2. \A i \in DOMAIN ordered : ordered[i] \in Names /\ Listed(ordered[i])
  BY DEF TypeOK, Listed
<1> DEFINE Before(n, i) == \A k \in Live(n) : \E j \in 1..(i - 1) : ordered[j] = imp[n][k].path
<1>3. DependenciesFirst <=> \A i \in DOMAIN ordered : Before(ordered[i], i)
  BY DEF DependenciesFirst
<1>4. DependenciesFirst' <=> \A i \in DOMAIN ordered' : \A n \in Names : n = ordered'[i] => Before(n, i)'
  <2>1. \A i \in DOMAIN ordered' : ordered'[i] \in Names
    BY WalkStep DEF TypeOK
  <2> QED BY <2>1 DEF DependenciesFirst
<1>5. CASE ordered' = ordered
  BY <1>1, <1>2, <1>3, <1>4, <1>5 DEF Ordering
<1>6. CASE OrderDone /\ Top \in Names /\ ordered' = Append(ordered, Top)
  <2>1. ordered \in Seq(Names)
    BY DEF TypeOK
  <2>2. /\ DOMAIN ordered' = DOMAIN ordered \cup {Len(ordered) + 1}
        /\ DOMAIN ordered = 1..Len(ordered) /\ Len(ordered) \in Nat
        /\ \A i \in DOMAIN ordered : ordered'[i] = ordered[i]
        /\ ordered'[Len(ordered) + 1] = Top
    BY <1>6, <2>1
  <2>3. ASSUME NEW i \in DOMAIN ordered, NEW n \in Names, n = ordered[i]
        PROVE  Before(n, i)'
    <3>1. \A j \in 1..(i - 1) : ordered'[j] = ordered[j]
      BY <2>2
    <3>2. imp'[n] = imp[n] /\ Live(n)' = Live(n) /\ Before(n, i)
      BY <1>1, <1>2, <1>3, <2>3 DEF Ordering
    <3> QED BY <3>1, <3>2
  <2>4. /\ phase = "order" /\ stack # <<>> /\ Top \notin wrong /\ idx[Top] = Len(imp[Top])
        /\ UNCHANGED <<imp, discarded>>
    BY <1>6 DEF OrderDone, AtEnd
  <2>5. Top = stack[Len(stack)] /\ Len(stack) \in DOMAIN stack
    BY <2>4, PopProperties DEF TypeOK
  <2>6. \A k \in Live(Top) : k <= idx[Top]
    BY <1>6, <2>4 DEF Live, TypeOK
  <2>7. \A k \in Live(Top) : Listed(imp[Top][k].path)
    BY <2>4, <2>5, <2>6 DEF Ordering, PassedAreListed
  <2>8. ASSUME NEW n \in Names, n = Top PROVE Before(n, Len(ordered) + 1)
    <3>1. Len(ordered) + 1 - 1 = Len(ordered)
      BY <2>2
    <3> QED BY <2>2, <2>7, <2>8, <3>1 DEF Listed
  <2>9. ASSUME NEW n \in Names, n = Top, NEW i, i = Len(ordered) + 1 PROVE Before(n, i)'
    <3>1. imp'[n] = imp[n] /\ Live(n)' = Live(n)
      BY <2>4 DEF Live
    <3>2. \A j \in 1..(i - 1) : ordered'[j] = ordered[j]
      BY <2>2, <2>9
    <3> QED BY <2>8, <2>9, <3>1, <3>2
  <2>10. ASSUME NEW i \in DOMAIN ordered', NEW n \in Names, n = ordered'[i] PROVE Before(n, i)'
    <3>1. CASE i \in DOMAIN ordered
      BY <2>2, <2>3, <2>10, <3>1
    <3>2. CASE i = Len(ordered) + 1
      BY <2>2, <2>9, <2>10, <3>2
    <3> QED BY <2>2, <3>1, <3>2
  <2> QED BY <1>4, <2>10
<1> QED BY <1>5, <1>6, OrderedGrows

(* If no generated file has an import, a package is listed only after      *)
(* every package its files import: the order in which types are completed, *)
(* bodies are checked and C code is emitted.  A generated file with an     *)
(* import breaks it, since the root has resolved and is not followed again. *)
THEOREM DependenciesInOrder ==
  ASSUME \A g \in Generated : g.imports = <<>>
  PROVE  Spec => []DependenciesFirst
<1> DEFINE Inv == TypeOK /\ Walk /\ Ordering
<1>1. Init => Inv
  <2> SUFFICES ASSUME Init PROVE Ordering
    BY InitWalk
  <2>1. DOMAIN ordered = {} /\ phase = "idle"
    BY DEF Init
  <2> QED BY <2>1 DEF Listed, Ordering, DiscardedFits, PassedAreListed, DependenciesFirst
<1>2. Inv /\ [Next]_vars => Inv'
  BY WalkStep, DiscardedStep, PassedStep, DependenciesStep DEF Ordering
<1>3. Inv => DependenciesFirst
  BY DEF Ordering
<1> QED BY <1>1, <1>2, <1>3, PTL DEF Spec
(* The whole of what the later passes rely on, under the same assumption:  *)
(* the list of ordered_packages has every package that resolved, once, and *)
(* after all that it imports.                                              *)
THEOREM OrderIsKept ==
  ASSUME \A g \in Generated : g.imports = <<>>
  PROVE  Spec => []PackagesInOrder
<1>1. Spec => []DependenciesFirst
  BY DependenciesInOrder
<1>2. DependenciesFirst /\ AssertedResolved => PackagesInOrder
  BY DEF PackagesInOrder
<1> QED BY <1>1, <1>2, AssertionsHold, PTL
-----------------------------------------------------------------------------
(* A verdict is final.  OrderCircular marks an active package that is not  *)
(* the topmost one; it must not resolve when the walk comes back to it.    *)
(* The blame reaches it: a NULL result is on its way, or a package above   *)
(* it on the stack is wrong and will return one.                           *)
BlameIsPassedOn ==
  phase = "order" => \A i \in DOMAIN stack :
    stack[i] \notin wrong /\ state[stack[i]] = "Error" =>
      \/ ret = "null"
      \/ \E j \in DOMAIN stack : j > i /\ stack[j] \in wrong

LEMMA BlameStep ==
  ASSUME TypeOK, Walk, BlameIsPassedOn, [Next]_vars
  PROVE  BlameIsPassedOn'
<1> USE DEF vars, graphVars, walkVars, regVars, doneVars, clientVars
<1>1. stack \in Seq(Names) /\ state \in [Names -> {"Unresolved", "Resolving", "Resolved", "Error"}]
  BY DEF TypeOK
<1>2. \A i \in DOMAIN stack : stack[i] \in Names
  BY <1>1
<1>3. ASSUME ret' = "null" PROVE BlameIsPassedOn'
  BY <1>3 DEF BlameIsPassedOn
<1>4. ASSUME UNCHANGED <<stack, wrong, state>>, ret = "null" => ret' = "null",
             phase' = "order" => phase = "order"
      PROVE  BlameIsPassedOn'
  BY <1>4 DEF BlameIsPassedOn
<1>5. CASE Client \/ Parse \/ BuildIfPass \/ Loops
  <2>1. phase' = "order" => stack' = <<>>
    BY <1>5 DEF Client, AddSingleFilePackage, Compile, Generate,
       Parse, ParseMissing, ParseAgain, ParseUnlistable, ParseCall, ParseLeaf, ParseListed,
       ParseNew, ParsePush, ParseReturn, BuildIfPass, Loops, ResolveIncompleteTypes, StartBodies,
       ResolveProcBodies, Finish, Visit, Walk, Quiet
  <2> QED BY <2>1 DEF BlameIsPassedOn
<1>6. CASE SkipImport \/ OrderLost
  BY <1>4, <1>6 DEF SkipImport, OrderLost
<1>7. CASE OrderFoundError \/ OrderCircular \/ OrderFail
  BY <1>3, <1>7 DEF OrderFoundError, OrderCircular, OrderFail
<1>8. CASE OrderFoundResolved
  BY <1>4, <1>8 DEF OrderFoundResolved, OrderCall
<1>9. CASE OrderEnter
  <2>1. /\ phase = "order" /\ Callee \in Names /\ state[Callee] = "Unresolved"
        /\ ret = "pending" /\ ret' = ret
        /\ stack' = Append(stack, Callee) /\ wrong' = wrong \ {Callee}
        /\ state' = [state EXCEPT ![Callee] = "Resolving"]
    BY <1>9 DEF OrderEnter, OrderCall, TypeOK
  <2>2. \A i \in DOMAIN stack : state[stack[i]] \in {"Resolving", "Error"}
    BY <2>1 DEF Walk, StateFollows
  <2>3. \A i \in DOMAIN stack' :
          \/ i \in DOMAIN stack /\ stack'[i] = stack[i]
          \/ stack'[i] = Callee
    BY <1>1, <2>1, PushPositions
  <2>4. \A i \in DOMAIN stack : i \in DOMAIN stack' /\ stack'[i] = stack[i] /\ stack[i] # Callee
    BY <1>1, <2>1, <2>2, PushPositions
  <2>5. SUFFICES ASSUME NEW i \in DOMAIN stack', stack'[i] \notin wrong', state'[stack'[i]] = "Error"
                 PROVE  \E j \in DOMAIN stack' : j > i /\ stack'[j] \in wrong'
    BY DEF BlameIsPassedOn
  <2>6. i \in DOMAIN stack /\ stack'[i] = stack[i]
    BY <1>1, <2>1, <2>3, <2>5
  <2>7. stack[i] \notin wrong /\ state[stack[i]] = "Error"
    BY <1>1, <1>2, <2>1, <2>4, <2>5, <2>6
  <2>8. PICK j \in DOMAIN stack : j > i /\ stack[j] \in wrong
    BY <2>1, <2>6, <2>7 DEF BlameIsPassedOn
  <2> QED BY <2>1, <2>4, <2>8
<1>10. CASE ImportFailed \/ ImportCollides
  <2>1. /\ stack # <<>> /\ stack' = stack /\ wrong' = wrong \cup {Top}
    BY <1>10 DEF ImportFailed, ImportCollides, ImportReturns
  <2>2. /\ Len(stack) \in DOMAIN stack /\ stack[Len(stack)] = Top
        /\ \A i \in DOMAIN stack : i = Len(stack) \/ Len(stack) > i
    <3>1. Len(stack) \in Nat \ {0} /\ Top = stack[Len(stack)] /\ DOMAIN stack = 1..Len(stack)
      BY <1>1, <2>1, PopProperties
    <3> QED BY <3>1
  <2> QED BY <2>1, <2>2 DEF BlameIsPassedOn
<1>11. CASE ImportNamed \/ ImportAll
  BY <1>4, <1>11, ReturnAssumption DEF ImportNamed, ImportAll, ImportReturns, Unnamed
<1>12. CASE OrderDone
  <2>1. /\ phase = "order" /\ ret = "pending" /\ stack # <<>> /\ stack' = Pop /\ Top \notin wrong
        /\ state' = [state EXCEPT ![Top] = "Resolved"] /\ wrong' = wrong
    BY <1>12 DEF OrderDone, AtEnd
  <2>2. /\ Len(stack) \in Nat \ {0} /\ DOMAIN stack = 1..Len(stack) /\ Top = stack[Len(stack)]
        /\ DOMAIN stack' = 1..(Len(stack) - 1) /\ Top \in Names
        /\ \A i \in 1..(Len(stack) - 1) : stack'[i] = stack[i]
    BY <1>1, <2>1, PopPositions, PopProperties
  <2>3. SUFFICES ASSUME NEW i \in DOMAIN stack', stack'[i] \notin wrong', state'[stack'[i]] = "Error"
                 PROVE  \E j \in DOMAIN stack' : j > i /\ stack'[j] \in wrong'
    BY DEF BlameIsPassedOn
  <2>4. i \in DOMAIN stack /\ stack'[i] = stack[i]
    BY <2>2
  <2>5. stack[i] \notin wrong /\ state[stack[i]] = "Error"
    BY <1>1, <1>2, <2>1, <2>2, <2>3, <2>4
  <2>6. PICK j \in DOMAIN stack : j > i /\ stack[j] \in wrong
    BY <2>1, <2>4, <2>5 DEF BlameIsPassedOn
  <2>7. j # Len(stack)
    BY <2>1, <2>2, <2>6
  <2>8. j \in DOMAIN stack' /\ stack'[j] = stack[j]
    BY <2>2, <2>7
  <2> QED BY <2>1, <2>6, <2>8
<1>13. CASE OrderReturn
  BY <1>13 DEF OrderReturn, BlameIsPassedOn
<1>14. CASE UNCHANGED vars
  BY <1>4, <1>14
<1> QED
  BY <1>5, <1>6, <1>7, <1>8, <1>9, <1>10, <1>11, <1>12, <1>13, <1>14 DEF Next, Compiler, Order

LEMMA VerdictStep ==
  ASSUME TypeOK, Walk, BlameIsPassedOn, [Next]_vars
  PROVE  VerdictsKept
<1> USE DEF vars, graphVars, walkVars, regVars, doneVars, clientVars
<1>1. /\ stack \in Seq(Names) /\ ordered \in Seq(Names)
      /\ state \in [Names -> {"Unresolved", "Resolving", "Resolved", "Error"}]
  BY DEF TypeOK
<1>2. SubSeq(ordered', 1, Len(ordered)) = ordered /\ Len(ordered) <= Len(ordered')
  <2>1. CASE ordered' = ordered
    BY <1>1, <2>1
  <2>2. CASE OrderDone /\ Top \in Names /\ ordered' = Append(ordered, Top)
    BY <1>1, <2>2, AppendProperties
  <2> QED BY <2>1, <2>2, OrderedGrows
<1> DEFINE Kept == \A n \in Names : state[n] \in {"Resolved", "Error"} => state'[n] = state[n]
<1> HIDE DEF Kept
<1> SUFFICES Kept
  BY <1>2 DEF VerdictsKept, Kept
<1>3. ASSUME NEW n \in Names, NEW s, state' = [state EXCEPT ![n] = s],
             state[n] \in {"Unresolved", "Resolving"} \/ s = state[n]
      PROVE  Kept
  BY <1>1, <1>3 DEF Kept
<1>4. ASSUME NEW n \in Names, NEW path, NEW b, n \notin parsed, ParsePackage(n, path, b)
      PROVE  Kept
  <2>1. state[n] = "Unresolved"
    BY <1>4 DEF Walk, StateFollows
  <2>2. state' = state \/ state' = [state EXCEPT ![n] = "Error"]
    BY <1>4 DEF ParsePackage
  <2>3. state' = state => Kept
    BY DEF Kept
  <2> QED BY <1>3, <2>1, <2>2, <2>3
<1>5. CASE ParseListed
  BY <1>4, <1>5 DEF ParseListed, ParseCall, Lookup, TypeOK
<1>6. CASE ParseNew
  <2>1. AtCall /\ NameOf[Callee] \in Names
    BY <1>6, CallTypes, NamesAssumption DEF ParseNew, ParseCall
  <2>2. NameOf[Callee] \notin parsed
    BY <1>6 DEF ParseNew, ParseCall, Lookup, Walk, StateFollows
  <2> QED BY <1>4, <1>6, <2>1, <2>2 DEF ParseNew
<1>7. CASE OrderEnter \/ OrderCircular
  <2>1. Callee \in Names
    BY <1>7 DEF OrderEnter, OrderCircular, TypeOK
  <2> QED BY <1>3, <1>7, <2>1 DEF OrderEnter, OrderCircular
<1>8. ASSUME phase = "order", stack # <<>>
      PROVE  Top \in Names /\ Len(stack) \in DOMAIN stack /\ Top = stack[Len(stack)]
             /\ state[Top] \in {"Resolving", "Error"}
  <2>1. Top \in Names /\ Top = stack[Len(stack)] /\ Len(stack) \in DOMAIN stack
    BY <1>1, <1>8, PopProperties
  <2> QED BY <1>8, <2>1 DEF Walk, StateFollows
<1>9. CASE ImportFailed \/ ImportCollides
  <2>1. phase = "order" /\ stack # <<>> /\ state' = [state EXCEPT ![Top] = "Error"]
    BY <1>9 DEF ImportFailed, ImportCollides, ImportReturns
  <2> QED BY <1>3, <1>8, <2>1
<1>10. CASE OrderDone
  <2>1. /\ phase = "order" /\ stack # <<>> /\ ret = "pending" /\ Top \notin wrong
        /\ state' = [state EXCEPT ![Top] = "Resolved"]
    BY <1>10 DEF OrderDone, AtEnd
  <2>2. \A j \in DOMAIN stack : ~(j > Len(stack))
    BY <1>1
  <2>3. state[Top] # "Error"
    BY <1>8, <2>1, <2>2 DEF BlameIsPassedOn
  <2> QED BY <1>3, <1>8, <2>1, <2>3
<1>11. CASE Client \/ ParseMissing \/ ParseAgain \/ ParseUnlistable \/ ParseReturn \/ SkipImport
         \/ BuildIfPass \/ OrderLost \/ OrderFoundError \/ OrderFoundResolved \/ OrderReturn
         \/ ImportNamed \/ ImportAll \/ OrderFail \/ Loops \/ UNCHANGED vars
  <2>1. state' = state
    BY <1>11 DEF Client, AddSingleFilePackage, Compile, Generate, ParseMissing, ParseAgain,
         ParseUnlistable, ParseLeaf, ParseReturn, SkipImport, BuildIfPass, OrderLost,
         OrderFoundError, OrderFoundResolved, OrderReturn, ImportNamed, ImportAll, OrderFail,
         Loops, ResolveIncompleteTypes, StartBodies, ResolveProcBodies, Finish
  <2> QED BY <2>1 DEF Kept
<1> QED
  BY <1>5, <1>6, <1>7, <1>9, <1>10, <1>11 DEF Next, Compiler, Parse, Order

(* No pass, and no later compilation, changes the verdict on a package or  *)
(* the place of a package in the order: what was emitted or reported for   *)
(* it before stays right.                                                  *)
THEOREM VerdictsAreFinal == Spec => VerdictIsFinal
<1> DEFINE Inv == TypeOK /\ Walk /\ BlameIsPassedOn
<1>1. Init => Inv
  BY InitWalk DEF Init, BlameIsPassedOn
<1>2. Inv /\ [Next]_vars => Inv'
  BY WalkStep, BlameStep
<1>3. Inv /\ [Next]_vars => [VerdictsKept]_vars
  BY VerdictStep
<1> QED BY <1>1, <1>2, <1>3, PTL DEF Spec, VerdictIsFinal
-----------------------------------------------------------------------------
(* The pipeline implements the build order.  Every fact is there already:  *)
(* the order extends by one package whose imports are listed, verdicts and *)
(* the imports of listed packages stay, and no failure is silent.          *)
LEMMA ErrorsStay == ASSUME TypeOK, [Next]_vars, errors PROVE errors'
<1> USE DEF vars, graphVars, walkVars, regVars, doneVars, clientVars
<1>1. CASE Client
  BY <1>1 DEF Client, AddSingleFilePackage, Compile, Generate
<1>2. CASE Parse
  <2>1. ASSUME NEW n, NEW path, NEW b, errors => b, ParsePackage(n, path, b) PROVE errors'
    BY <2>1 DEF ParsePackage
  <2>2. CASE ParseListed \/ ParseNew
    BY <2>1, <2>2 DEF ParseListed, ParseNew
  <2> QED BY <1>2, <2>2 DEF Parse, ParseMissing, ParseAgain, ParseUnlistable, ParseReturn
<1>3. CASE Order
  BY <1>3 DEF Order, OrderLost, OrderFoundError, OrderFoundResolved, OrderCircular, OrderEnter,
       ImportFailed, ImportNamed, ImportAll, ImportCollides, OrderFail, OrderDone, OrderReturn,
       PackageDecls
<1>4. CASE SkipImport \/ BuildIfPass \/ Loops \/ UNCHANGED vars
  BY <1>4 DEF SkipImport, BuildIfPass, Loops, ResolveIncompleteTypes, StartBodies,
       ResolveProcBodies, Finish
<1> QED BY <1>1, <1>2, <1>3, <1>4 DEF Next, Compiler

(* The mapped variables, by short names.                                   *)
NeedsOf(p) == IF p \in Names THEN {imp[p][k].path : k \in Live(p)} ELSE {}
NeedsMap == [p \in Paths |-> NeedsOf(p)]
FailedSet == {n \in Names : state[n] = "Error"}

LEMMA BuildOrderStep ==
  ASSUME TypeOK, Walk, Ordering, BlameIsPassedOn, FailuresAreReported, [Next]_vars,
         \A g \in Generated : g.imports = <<>>
  PROVE  [BO!Next]_(BO!vars)
<1>1. TypeOK' /\ FailuresAreReported' /\ VerdictsKept
  BY WalkStep, FailureStep, VerdictStep
<1>2. NeedsMap' \in [Paths -> SUBSET Paths]
  <2>1. ASSUME NEW p \in Names, NEW k \in Live(p)' PROVE imp'[p][k].path \in Paths
    <3>1. imp'[p] \in Seq(Import) /\ k \in DOMAIN imp'[p]
      BY <1>1, <2>1 DEF TypeOK, Live
    <3>2. imp'[p][k] \in Import
      BY <3>1
    <3> QED BY <3>2 DEF Import
  <2> QED BY <2>1 DEF NeedsMap, NeedsOf
<1>3. errors' \in {errors, TRUE}
  BY <1>1, ErrorsStay DEF TypeOK
<1>4. BO!Completed = {ordered[j] : j \in DOMAIN ordered}
  BY DEF BO!Completed
<1>5. \A n \in BO!Completed : Listed(n) /\ n \in Names /\ n \in Paths
  BY <1>4, NamesAssumption DEF Listed, TypeOK
<1>6. \A n \in BO!Completed : NeedsMap'[n] = NeedsMap[n]
  <2> SUFFICES ASSUME NEW n \in BO!Completed PROVE NeedsMap'[n] = NeedsMap[n]
    OBVIOUS
  <2>1. n \in Names /\ n \in parsed
    BY <1>5, ListedArePackages DEF Walk
  <2>2. imp'[n] = imp[n] /\ Live(n)' = Live(n)
    BY <1>5, <2>1, ImportsStay, DiscardedStep DEF Walk, Ordering
  <2> QED BY <1>5, <2>1, <2>2 DEF NeedsMap, NeedsOf
<1>7. FailedSet \subseteq FailedSet'
  BY <1>1 DEF FailedSet, VerdictsKept
<1>8. FailedSet' \subseteq Paths /\ (FailedSet' # FailedSet => errors' = TRUE)
  <2>1. FailedSet' # {} => errors' = TRUE
    BY <1>1 DEF FailedSet, FailuresAreReported, TypeOK
  <2> QED BY <1>7, <2>1, NamesAssumption DEF FailedSet
<1>9. \A n \in BO!Completed : state[n] = "Resolved" /\ state'[n] = "Resolved"
  BY <1>1, <1>4, <1>5 DEF Walk, AssertedResolved, VerdictsKept
<1>10. CASE ordered' = ordered
  <2>1. FailedSet' \cap BO!Completed = {}
    BY <1>9 DEF FailedSet
  <2>2. BO!Discover
    BY <1>2, <1>3, <1>6, <1>7, <1>8, <1>10, <2>1 DEF BO!Discover, NeedsMap, NeedsOf, FailedSet
  <2> QED BY <2>2 DEF BO!Next
<1>11. CASE OrderDone /\ Top \in Names /\ ordered' = Append(ordered, Top)
  <2>1. /\ phase = "order" /\ ret = "pending" /\ stack # <<>> /\ Top \notin wrong
        /\ idx[Top] = Len(imp[Top])
        /\ UNCHANGED <<imp, discarded>> /\ state' = [state EXCEPT ![Top] = "Resolved"]
    BY <1>11 DEF OrderDone, AtEnd
  <2>2. Top = stack[Len(stack)] /\ Len(stack) \in DOMAIN stack
        /\ \A j \in DOMAIN stack : ~(j > Len(stack))
    BY <2>1, PopProperties DEF TypeOK
  <2>3. state[Top] = "Resolving"
    BY <2>1, <2>2 DEF BlameIsPassedOn, Walk, StateFollows
  <2>4. Top \notin BO!Completed /\ Top \notin FailedSet /\ Top \in Paths
    BY <1>9, <1>11, <2>3, NamesAssumption DEF FailedSet
  <2>5. \A k \in Live(Top) : k <= idx[Top]
    BY <1>11, <2>1 DEF Live, TypeOK
  <2>6. \A k \in Live(Top) : Listed(imp[Top][k].path)
    BY <2>1, <2>2, <2>5 DEF Ordering, PassedAreListed
  <2>7. NeedsMap[Top] \subseteq BO!Completed
    BY <1>4, <1>11, <2>4, <2>6 DEF NeedsMap, NeedsOf, Listed
  <2>8. \A n : NeedsOf(n)' = NeedsOf(n)
    BY <2>1 DEF NeedsOf, Live
  <2>9. NeedsMap' = NeedsMap
    BY <2>8 DEF NeedsMap
  <2>10. FailedSet' = FailedSet
    BY <1>11, <2>1, <2>3 DEF FailedSet, TypeOK
  <2>11. BO!Complete(Top)
    BY <1>3, <1>11, <2>4, <2>7, <2>9, <2>10 DEF BO!Complete, NeedsMap, NeedsOf, FailedSet
  <2> QED BY <2>4, <2>11 DEF BO!Next
<1> QED BY <1>10, <1>11, OrderedGrows

(* If no generated file has an import, every behaviour of the pipeline is  *)
(* one of the build order: packages are completed once, after all they     *)
(* import, and never after a failure; and no failure is silent.            *)
THEOREM PipelineIsBuildOrder ==
  ASSUME \A g \in Generated : g.imports = <<>>
  PROVE  Spec => ImplementsBuildOrder
<1> DEFINE Inv == TypeOK /\ Walk /\ Ordering /\ BlameIsPassedOn /\ FailuresAreReported
<1>1. Init => Inv
  <2> SUFFICES ASSUME Init PROVE Ordering /\ BlameIsPassedOn /\ FailuresAreReported
    BY InitWalk
  <2>1. DOMAIN ordered = {} /\ phase = "idle"
    BY DEF Init
  <2>2. Ordering
    BY <2>1 DEF Listed, Ordering, DiscardedFits, PassedAreListed, DependenciesFirst
  <2> QED BY <2>1, <2>2 DEF Init, BlameIsPassedOn, FailuresAreReported
<1>2. Inv /\ [Next]_vars => Inv'
  BY WalkStep, DiscardedStep, PassedStep, DependenciesStep, BlameStep, FailureStep DEF Ordering
<1>3. Init => BO!Init
  <2> SUFFICES ASSUME Init PROVE BO!Init
    OBVIOUS
  <2>1. \A p \in Names : Live(p) = {}
    BY DEF Init, Live
  <2>2. \A p \in Paths : NeedsOf(p) = {}
    BY <2>1 DEF NeedsOf
  <2> QED BY <2>2 DEF Init, BO!Init, NeedsOf
<1>4. Inv /\ [Next]_vars => [BO!Next]_(BO!vars)
  BY BuildOrderStep
<1> QED BY <1>1, <1>2, <1>3, <1>4, PTL DEF Spec, ImplementsBuildOrder, BO!Spec

-----------------------------------------------------------------------------
-----------------------------------------------------------------------------
(* Imports are followed.  What an order step does to the walk is one of    *)
(* four things; the facts about the imports a package has passed go over   *)
(* these four, once for all.                                               *)
Rests == UNCHANGED <<stack, idx, wrong>>
Passes == stack # <<>> /\ stack' = stack /\ idx' = Advance /\ idx[Top] < Len(imp[Top])
Enters == /\ Callee \in Names /\ \A i \in DOMAIN stack : stack[i] # Callee
          /\ stack' = Append(stack, Callee) /\ idx' = [idx EXCEPT ![Callee] = 0]
Leaves == stack # <<>> /\ stack' = Pop /\ UNCHANGED <<idx, wrong>>

LEMMA OrderSteps ==
  ASSUME TypeOK, Walk, [Next]_vars, phase = "order"
  PROVE  /\ Rests \/ Passes \/ Enters \/ Leaves
         /\ UNCHANGED <<imp, discarded>>
<1> USE DEF vars, graphVars, walkVars, regVars, doneVars, clientVars
<1>1. CASE Client \/ Parse \/ BuildIfPass \/ Loops
  <2>1. FALSE
    BY <1>1 DEF Client, AddSingleFilePackage, Compile, Generate, Parse, ParseMissing, ParseAgain,
         ParseUnlistable, ParseCall, ParseListed, ParseNew, ParseReturn, BuildIfPass, Loops,
         ResolveIncompleteTypes, StartBodies, ResolveProcBodies, Finish, Visit
  <2> QED BY <2>1
<1>2. CASE OrderLost \/ OrderFoundError \/ OrderFoundResolved \/ OrderCircular \/ OrderReturn
         \/ UNCHANGED vars
  BY <1>2 DEF OrderLost, OrderFoundError, OrderFoundResolved, OrderCircular, OrderReturn, Rests
<1>3. CASE SkipImport
  BY <1>3 DEF SkipImport, Passes
<1>4. CASE ImportFailed \/ ImportNamed \/ ImportAll \/ ImportCollides
  BY <1>4, ReturnAssumption
     DEF ImportFailed, ImportNamed, ImportAll, ImportCollides, ImportReturns, Walk, Result, Passes
<1>5. CASE OrderEnter
  <2>1. /\ Callee \in Names /\ state[Callee] = "Unresolved"
        /\ stack' = Append(stack, Callee) /\ idx' = [idx EXCEPT ![Callee] = 0]
        /\ UNCHANGED <<imp, discarded>>
    BY <1>5 DEF OrderEnter, TypeOK
  <2>2. \A i \in DOMAIN stack : state[stack[i]] \in {"Resolving", "Error"}
    BY DEF Walk, StateFollows
  <2> QED BY <2>1, <2>2 DEF Enters
<1>6. CASE OrderFail \/ OrderDone
  BY <1>6 DEF OrderFail, OrderDone, AtEnd, Leaves
<1> QED BY <1>1, <1>2, <1>3, <1>4, <1>5, <1>6 DEF Next, Compiler, Order

(* Q holds the imports something is known of, W the packages exempt from   *)
(* having it known of the imports they have passed.                        *)
PassedIn(W, Q) ==
  \A i \in DOMAIN stack : stack[i] \notin W =>
    \A k \in Live(stack[i]) : k <= idx[stack[i]] => <<stack[i], k>> \in Q

PassesInto(W, Q) == Passes /\ Top \notin W /\ idx[Top] + 1 \in Live(Top) => <<Top, idx[Top] + 1>> \in Q

LEMMA PassedKeep ==
  ASSUME TypeOK, Walk, [Next]_vars, phase = "order",
         NEW Q, NEW R, Q \subseteq R, NEW W, NEW X,
         \A i \in DOMAIN stack : stack[i] \in W => stack[i] \in X,
         PassedIn(W, Q), PassesInto(X, R)
  PROVE  PassedIn(X, R)'
<1>1. \A i \in DOMAIN stack : stack[i] \in Names /\ imp[stack[i]] \in Seq(Import) /\ idx[stack[i]] \in Nat
  BY DEF TypeOK
<1>2. stack \in Seq(Names) /\ idx \in [Names -> Nat]
  BY DEF TypeOK
<1>3. SUFFICES ASSUME NEW i \in DOMAIN stack', stack'[i] \notin X, NEW k \in Live(stack'[i]),
                      k <= idx'[stack'[i]]
               PROVE  <<stack'[i], k>> \in R
  BY OrderSteps DEF PassedIn, Live
<1> USE DEF PassedIn, PassesInto
<1>4. CASE Rests
  BY <1>3, <1>4 DEF Rests
<1>5. CASE Passes
  <2>1. i \in DOMAIN stack /\ stack'[i] = stack[i] /\ stack[i] \notin W
    BY <1>3, <1>5 DEF Passes
  <2>2. CASE i # Len(stack)
    <3>1. idx'[stack[i]] = idx[stack[i]]
      BY <1>5, <2>1, <2>2, AdvanceBounds DEF Passes, Walk
    <3> QED BY <1>3, <2>1, <3>1
  <2>3. CASE i = Len(stack)
    <3>1. stack[i] = Top /\ Top \in Names /\ idx[Top] \in Nat
      BY <1>1, <2>1, <2>3 DEF Top
    <3>2. idx'[Top] = idx[Top] + 1
      BY <1>2, <1>5, <3>1 DEF Passes, Advance
    <3>3. k \in Nat
      BY <1>1, <1>3, <2>1 DEF Live
    <3>4. k <= idx[Top] \/ k = idx[Top] + 1
      BY <1>3, <2>1, <3>1, <3>2, <3>3
    <3> QED BY <1>3, <1>5, <2>1, <3>1, <3>4
  <2> QED BY <2>2, <2>3
<1>6. CASE Enters
  <2>1. \/ i \in DOMAIN stack /\ stack'[i] = stack[i]
        \/ stack'[i] = Callee
    BY <1>2, <1>3, <1>6, PushPositions DEF Enters
  <2>2. stack'[i] # Callee
    <3> SUFFICES ASSUME stack'[i] = Callee PROVE FALSE
      OBVIOUS
    <3>1. imp[Callee] \in Seq(Import) /\ idx'[Callee] = 0
      BY <1>2, <1>6 DEF Enters, TypeOK
    <3>2. k \in Nat \ {0}
      BY <1>3, <3>1 DEF Live
    <3> QED BY <1>3, <3>1, <3>2
  <2>3. idx'[stack[i]] = idx[stack[i]]
    BY <1>1, <1>2, <1>6, <2>1, <2>2 DEF Enters
  <2> QED BY <1>3, <2>1, <2>2, <2>3
<1>7. CASE Leaves
  <2>1. i \in DOMAIN stack /\ stack'[i] = stack[i]
    <3>1. /\ Len(stack) \in Nat /\ DOMAIN stack = 1..Len(stack) /\ DOMAIN stack' = 1..(Len(stack) - 1)
          /\ \A j \in 1..(Len(stack) - 1) : stack'[j] = stack[j]
      BY <1>2, <1>7, PopPositions DEF Leaves
    <3> QED BY <1>3, <3>1
  <2> QED BY <1>3, <1>7, <2>1 DEF Leaves
<1> QED BY <1>4, <1>5, <1>6, <1>7, OrderSteps

(* The order pass starts with no package active.                           *)
LEMMA OrderStarts ==
  ASSUME TypeOK, Walk, [Next]_vars, phase # "order"
  PROVE  phase' = "order" => stack' = <<>> /\ ret' = "pending"
<1> USE DEF vars, graphVars, walkVars, regVars, doneVars, clientVars
<1>1. CASE Client \/ Parse \/ SkipImport \/ BuildIfPass \/ Loops \/ UNCHANGED vars
  BY <1>1 DEF Client, AddSingleFilePackage, Compile, Generate, SkipImport, Result,
       Parse, ParseMissing, ParseAgain, ParseUnlistable, ParseCall, ParseLeaf, ParseListed,
       ParseNew, ParsePush, ParseReturn, BuildIfPass, Loops, ResolveIncompleteTypes, StartBodies,
       ResolveProcBodies, Finish, Visit, Walk, Quiet
<1>2. CASE Order
  BY <1>2 DEF Order, OrderCall, ImportReturns, AtEnd, OrderLost, OrderFoundError,
       OrderFoundResolved, OrderCircular, OrderEnter, OrderReturn, ImportFailed, ImportNamed,
       ImportAll, ImportCollides, OrderFail, OrderDone
<1> QED BY <1>1, <1>2 DEF Next, Compiler

Decided(p) == p \in Names /\ state[p] \in {"Error", "Resolved"}

(* With no error reported no import list repeats a path, and what passes   *)
(* BuildIfPass has no error.                                               *)
NoRepeats ==
  phase \in {"order", "types", "bodies"} \/ ~errors => \A n \in Names : ~RepeatedPath(imp[n])

(* The import an active package is at, while its call lasts.               *)
AtImport ==
  phase = "order" =>
    /\ ret # "pending" /\ stack # <<>> => idx[Top] + 1 \in Live(Top)
    /\ \A i \in 1..(Len(stack) - 1) : idx[stack[i]] + 1 \in Live(stack[i])

(* A call that failed left its package with a verdict.                     *)
ReturnIsDecided ==
  ret # "pending" /\ stack # <<>> => Decided(imp[Top][idx[Top] + 1].path)

PassedAreDecided ==
  phase = "order" => \A i \in DOMAIN stack : \A k \in Live(stack[i]) :
    k <= idx[stack[i]] => Decided(imp[stack[i]][k].path)

LookedInto(n) == \A k \in Live(n) : Decided(imp[n][k].path)

GivenUpAreLookedInto ==
  phase \in {"order", "types", "bodies"} => \A n \in Names : Decided(n) =>
    (\E i \in DOMAIN stack : stack[i] = n) \/ LookedInto(n)

(* LC_ParsePackage on a package that was not parsed before.                *)
Parses(n) ==
  /\ phase = "parse" /\ phase' = "parse"
  /\ n \notin parsed \/ n \notin listed
  /\ \A m \in Names : m # n => imp'[m] = imp[m]
  /\ ~errors' => ~RepeatedPath(imp'[n])

(* Without imports in generated files, lists change by a parse alone.      *)
LEMMA ImportLists ==
  ASSUME TypeOK, [Next]_vars, \A g \in Generated : g.imports = <<>>
  PROVE  \/ imp' = imp
         \/ \E n \in Names : Parses(n)
<1> USE DEF vars, graphVars, walkVars, regVars, doneVars, clientVars
<1>1. CASE Generate
  <2>1. PICK file \in Generated : imp' = [imp EXCEPT ![root] = @ \o file.imports]
    BY <1>1 DEF Generate
  <2>2. root \in Names /\ imp \in [Names -> Seq(Import)]
    BY NamesAssumption DEF TypeOK
  <2>3. imp[root] \o <<>> = imp[root]
    BY <2>2, ConcatEmptySeq
  <2> QED BY <2>1, <2>2, <2>3
<1>2. ASSUME NEW n \in Names, NEW path, NEW b, phase = "parse", phase' = "parse",
             n \notin parsed \/ n \notin listed, ParsePackage(n, path, b)
      PROVE  Parses(n)
  <2>1. \A m \in Names : m # n => imp'[m] = imp[m]
    BY <1>2 DEF ParsePackage, TypeOK
  <2>2. ~errors' => ~RepeatedPath(imp'[n])
    BY <1>2 DEF ParsePackage, TypeOK
  <2> QED BY <1>2, <2>1, <2>2 DEF Parses
<1>3. CASE ParseListed \/ ParseNew
  <2>1. CASE ParseListed
    BY <1>2, <2>1 DEF ParseListed, ParsePush, ParseCall, Lookup, TypeOK
  <2>2. CASE ParseNew
    <3>1. Callee \in Paths /\ NameOf[Callee] \in Names
      BY <2>2, CallTypes, NamesAssumption DEF ParseNew, ParseCall
    <3> QED BY <1>2, <2>2, <3>1 DEF ParseNew, ParsePush, ParseCall, Lookup
  <2> QED BY <1>3, <2>1, <2>2
<1>4. CASE ~Generate /\ ~ParseListed /\ ~ParseNew
  BY <1>4 DEF Next, Client, AddSingleFilePackage, Compile, Compiler, Parse, ParseMissing,
       ParseAgain, ParseUnlistable, ParseLeaf, ParseReturn, SkipImport, BuildIfPass, Order,
       OrderLost, OrderFoundError, OrderFoundResolved, OrderCircular, OrderEnter, OrderReturn,
       ImportFailed, ImportNamed, ImportAll, ImportCollides, OrderFail, OrderDone,
       Loops, ResolveIncompleteTypes, StartBodies, ResolveProcBodies, Finish
<1> QED BY <1>1, <1>3, <1>4

(* The passes after parsing start without errors.                          *)
LEMMA PhaseStarts ==
  ASSUME TypeOK, [Next]_vars, phase' \in {"order", "types", "bodies"}
  PROVE  \/ phase \in {"order", "types", "bodies"} /\ ~BuildIfPass
         \/ BuildIfPass /\ ~errors
<1> USE DEF vars, graphVars, walkVars, regVars, doneVars, clientVars
<1>1. CASE Client
  BY <1>1 DEF Client, AddSingleFilePackage, Compile, Generate, BuildIfPass
<1>2. CASE Parse
  BY <1>2 DEF Parse, ParseMissing, ParseAgain, ParseUnlistable, ParseCall, ParseLeaf,
       ParseListed, ParseNew, ParsePush, ParseReturn
<1>3. CASE BuildIfPass
  BY <1>3 DEF BuildIfPass
<1>4. CASE SkipImport \/ Order \/ Loops \/ UNCHANGED vars
  BY <1>4 DEF SkipImport, Order, OrderCall, ImportReturns, AtEnd, OrderLost, OrderFoundError,
       OrderFoundResolved, OrderCircular, OrderEnter, OrderReturn, ImportFailed, ImportNamed,
       ImportAll, ImportCollides, OrderFail, OrderDone, BuildIfPass, Visit,
       Loops, ResolveIncompleteTypes, StartBodies, ResolveProcBodies, Finish
<1> QED BY <1>1, <1>2, <1>3, <1>4 DEF Next, Compiler

LEMMA NoRepeatsStep ==
  ASSUME TypeOK, Walk, NoRepeats, [Next]_vars, \A g \in Generated : g.imports = <<>>
  PROVE  NoRepeats'
<1> SUFFICES ASSUME phase' \in {"order", "types", "bodies"} \/ ~errors', NEW n \in Names
             PROVE  ~RepeatedPath(imp'[n])
  BY DEF NoRepeats, RepeatedPath
<1>1. \A m \in Names : ~RepeatedPath(imp[m])
  <2>1. errors => errors'
    BY ErrorsStay
  <2> QED BY <2>1, PhaseStarts DEF NoRepeats
<1>2. CASE imp' = imp
  BY <1>1, <1>2
<1>3. ASSUME NEW m \in Names, Parses(m)
      PROVE  ~RepeatedPath(imp'[n])
  BY <1>1, <1>3 DEF Parses
<1> QED BY <1>2, <1>3, ImportLists

LEMMA NoDuplicates ==
  ASSUME TypeOK, NoRepeats, phase = "order", NEW n \in Names, NEW k \in Live(n)
  PROVE  k \in Followed(n) /\ k \in DOMAIN imp[n] /\ imp[n][k].path \in Paths
<1>1. ~RepeatedPath(imp[n]) /\ imp[n] \in Seq(Import)
  BY DEF NoRepeats, TypeOK
<1>2. \A j \in Live(n) : j \in DOMAIN imp[n] /\ j \in Nat
  BY <1>1 DEF Live
<1>3. ~Duplicate(n, k)
  BY <1>1, <1>2 DEF Duplicate, RepeatedPath
<1>4. imp[n][k] \in Import
  BY <1>1, <1>2
<1> QED BY <1>2, <1>3, <1>4 DEF Followed, Import

LEMMA DecidedStays ==
  ASSUME TypeOK, Walk, BlameIsPassedOn, [Next]_vars, NEW p, Decided(p)
  PROVE  Decided(p)'
BY VerdictStep DEF Decided, VerdictsKept

(* What an order step returns, and to whom.                                *)
LEMMA Returns ==
  ASSUME TypeOK, Walk, [Next]_vars, phase = "order", phase' = "order", ret' # "pending"
  PROVE  \/ UNCHANGED <<stack, idx, ret, state>>
         \/ UNCHANGED <<stack, idx>> /\ OrderCall /\ Callee \in Names /\ state'[Callee] \in {"Error", "Resolved"}
         \/ Leaves /\ Top \in Names /\ state'[Top] \in {"Error", "Resolved"} /\ idx[Top] = Len(imp[Top])
<1> USE DEF vars, graphVars, walkVars, regVars, doneVars, clientVars
<1>1. CASE OrderFoundError \/ OrderFoundResolved
  BY <1>1 DEF OrderFoundError, OrderFoundResolved, TypeOK
<1>2. CASE OrderCircular
  <2>1. Callee \in Names /\ state' = [state EXCEPT ![Callee] = "Error"]
    BY <1>2 DEF OrderCircular, TypeOK
  <2>2. state'[Callee] = "Error"
    BY <2>1 DEF TypeOK
  <2> QED BY <1>2, <2>1, <2>2 DEF OrderCircular
<1>3. CASE OrderFail
  <2>1. Top \in Names /\ state[Top] = "Error" /\ state' = state
    BY <1>3, PopProperties DEF OrderFail, AtEnd, TypeOK, Walk, StateFollows
  <2> QED BY <1>3, <2>1 DEF OrderFail, AtEnd, Leaves
<1>4. CASE OrderDone
  <2>1. Top \in Names /\ state' = [state EXCEPT ![Top] = "Resolved"]
    BY <1>4, PopProperties DEF OrderDone, AtEnd, TypeOK
  <2>2. state'[Top] = "Resolved"
    BY <2>1 DEF TypeOK
  <2> QED BY <1>4, <2>1, <2>2 DEF OrderDone, AtEnd, Leaves
<1>5. CASE UNCHANGED vars
  BY <1>5
<1>6. CASE Client \/ Parse \/ SkipImport \/ BuildIfPass \/ Loops \/ OrderLost \/ OrderEnter \/ OrderReturn
          \/ ImportFailed \/ ImportNamed \/ ImportAll \/ ImportCollides
  BY <1>6 DEF Client, AddSingleFilePackage, Compile, Generate, Parse, ParseMissing, ParseAgain,
         ParseUnlistable, ParseCall, ParseListed, ParseNew, ParseReturn, BuildIfPass, Loops,
         ResolveIncompleteTypes, StartBodies, ResolveProcBodies, Finish, Visit,
         SkipImport, OrderLost, OrderCall, OrderEnter, OrderReturn, ImportFailed, ImportNamed,
         ImportAll, ImportCollides
<1> QED BY <1>1, <1>2, <1>3, <1>4, <1>5, <1>6 DEF Next, Compiler, Order

(* A step past an import takes the result of the call for it, and a step   *)
(* into a package is a call for the import.                                *)
LEMMA Takes ==
  ASSUME TypeOK, Walk, [Next]_vars, phase = "order"
  PROVE  /\ Passes => \/ UNCHANGED <<stack, idx>>
                      \/ SkipImport
                      \/ ImportFailed \/ ImportNamed \/ ImportAll \/ ImportCollides
         /\ Enters => UNCHANGED stack \/ OrderEnter
         /\ Rests \/ ret' = "pending" \/ Leaves
<1> USE DEF vars, graphVars, walkVars, regVars, doneVars, clientVars
<1>1. CASE Client \/ Parse \/ BuildIfPass \/ Loops
  <2>1. FALSE
    BY <1>1 DEF Client, AddSingleFilePackage, Compile, Generate, Parse, ParseMissing, ParseAgain,
         ParseUnlistable, ParseCall, ParseListed, ParseNew, ParseReturn, BuildIfPass, Loops,
         ResolveIncompleteTypes, StartBodies, ResolveProcBodies, Finish, Visit
  <2> QED BY <2>1
<1>2. CASE OrderLost \/ OrderFoundError \/ OrderFoundResolved \/ OrderCircular \/ OrderReturn
         \/ UNCHANGED vars
  BY <1>2 DEF OrderLost, OrderFoundError, OrderFoundResolved, OrderCircular, OrderReturn, Rests
<1>3. ASSUME stack # <<>> PROVE Pop # stack /\ \A n : Append(stack, n) # stack
  <2>1. Len(Pop) = Len(stack) - 1 /\ Len(stack) \in Nat
    BY <1>3, PopProperties DEF TypeOK
  <2>2. \A n : Len(Append(stack, n)) = Len(stack) + 1
    BY DEF TypeOK
  <2> QED BY <2>1, <2>2
<1>4. CASE SkipImport \/ ImportFailed \/ ImportNamed \/ ImportAll \/ ImportCollides
  BY <1>4 DEF SkipImport, ImportFailed, ImportNamed, ImportAll, ImportCollides, Enters
<1>5. CASE OrderEnter
  <2>1. stack' # stack
    <3>1. stack' = Append(stack, Callee) /\ stack \in Seq(Names)
      BY <1>5 DEF OrderEnter, TypeOK
    <3>2. Len(stack') = Len(stack) + 1 /\ Len(stack) \in Nat
      BY <3>1
    <3> QED BY <3>2
  <2> QED BY <1>5, <2>1 DEF OrderEnter, OrderCall, Passes
<1>6. CASE OrderFail \/ OrderDone
  <2>1. stack # <<>> /\ stack' = Pop /\ UNCHANGED <<idx, wrong>>
    BY <1>6 DEF OrderFail, OrderDone, AtEnd
  <2>2. stack' # stack
    BY <1>3, <2>1
  <2>3. ~Enters
    <3> SUFFICES ASSUME Enters PROVE FALSE
      OBVIOUS
    <3>1. Len(stack') = Len(stack) + 1
      BY DEF Enters, TypeOK
    <3>2. Len(stack') = Len(stack) - 1 /\ Len(stack) \in Nat
      BY <2>1, PopProperties DEF TypeOK
    <3> QED BY <3>1, <3>2
  <2> QED BY <2>1, <2>2, <2>3 DEF Passes, Leaves
<1> QED BY <1>1, <1>2, <1>4, <1>5, <1>6 DEF Next, Compiler, Order

LEMMA AtImportStep ==
  ASSUME TypeOK, Walk, AtImport, [Next]_vars
  PROVE  AtImport'
<1>1. CASE phase # "order"
  BY <1>1, OrderStarts DEF AtImport
<1>2. CASE phase = "order"
  <2>1. \A n : Live(n)' = Live(n)
    BY <1>2, OrderSteps DEF Live
  <2> SUFFICES ASSUME phase' = "order"
               PROVE  /\ ret' # "pending" /\ stack' # <<>> => idx'[Top'] + 1 \in Live(Top')
                      /\ \A i \in 1..(Len(stack') - 1) : idx'[stack'[i]] + 1 \in Live(stack'[i])
    BY <2>1 DEF AtImport
  <2>2. stack \in Seq(Names) /\ idx \in [Names -> Nat] /\ DOMAIN stack = 1..Len(stack)
        /\ Len(stack) \in Nat /\ \A i \in DOMAIN stack : stack[i] \in Names
    BY DEF TypeOK
  <2> DEFINE n == Len(stack)
  <2>b. n \in Nat /\ n = Len(stack)
    BY <2>2
  <2> HIDE DEF n
  <2>a. /\ n \in Nat /\ n = Len(stack)
        /\ \A i \in 1..(n - 1) : i \in 1..n /\ i # n
        /\ \A i \in 1..n : i # n => i \in 1..(n - 1)
    BY <2>b
  <2>3. CASE Leaves
    <3>1. /\ Len(stack') = Len(stack) - 1
          /\ \A i \in 1..(Len(stack) - 1) : stack'[i] = stack[i]
          /\ stack' # <<>> => Len(stack) > 1 /\ Top' = stack[Len(stack) - 1]
          /\ idx' = idx
      BY <2>2, <2>3, PopPositions DEF Leaves
    <3>2. \A i \in 1..(Len(stack) - 1) : idx[stack[i]] + 1 \in Live(stack[i])
      BY <1>2 DEF AtImport
    <3>3. Len(stack) > 1 => Len(stack) - 1 \in 1..(Len(stack) - 1)
      BY <2>2
    <3>4. \A i \in 1..(Len(stack) - 1 - 1) : i \in 1..(Len(stack) - 1)
      BY <2>2
    <3> QED BY <3>1, <3>2, <3>3, <3>4
  <2>4. CASE Passes /\ stack # <<>> /\ ret' = "pending"
    <3>1. stack' = stack /\ idx' = Advance
      BY <2>4 DEF Passes
    <3>2. \A i \in 1..(Len(stack) - 1) : i \in DOMAIN stack /\ i # Len(stack)
      BY <2>2, <2>a
    <3>3. \A i \in 1..(Len(stack) - 1) : idx'[stack[i]] = idx[stack[i]]
      BY <2>4, <3>1, <3>2, AdvanceBounds DEF Passes, Walk
    <3> QED BY <1>2, <2>4, <3>1, <3>3 DEF AtImport
  <2>5. CASE OrderEnter
    <3>1. /\ AtCall /\ ret' = "pending" /\ stack' = Append(stack, Callee)
          /\ Callee \in Names /\ idx' = [idx EXCEPT ![Callee] = 0]
          /\ state[Callee] = "Unresolved"
      BY <2>5 DEF OrderEnter, OrderCall, vars, walkVars, TypeOK
    <3>2. \A i \in DOMAIN stack : stack[i] # Callee
      <4>1. \A i \in DOMAIN stack : state[stack[i]] \in {"Resolving", "Error"}
        BY <1>2 DEF Walk, StateFollows
      <4> QED BY <3>1, <4>1
    <3>3. Len(stack') - 1 = Len(stack) /\ \A i \in DOMAIN stack : stack'[i] = stack[i]
      BY <2>2, <3>1
    <3>4. \A i \in DOMAIN stack : idx'[stack[i]] = idx[stack[i]]
      BY <2>2, <3>1, <3>2
    <3>5. \A i \in 1..Len(stack) : idx[stack[i]] + 1 \in Live(stack[i])
      <4> SUFFICES ASSUME NEW i \in 1..Len(stack) PROVE idx[stack[i]] + 1 \in Live(stack[i])
        OBVIOUS
      <4>1. CASE i # Len(stack)
        BY <1>2, <2>2, <2>a, <4>1 DEF AtImport
      <4>2. CASE i = Len(stack)
        <5>1. stack # <<>> /\ stack[i] = Top
          BY <2>2, <4>2 DEF Top
        <5> QED BY <3>1, <5>1, AtCallBounds
      <4> QED BY <4>1, <4>2
    <3> QED BY <2>2, <3>1, <3>3, <3>4, <3>5
  <2>6. CASE UNCHANGED <<stack, idx>>
    <3>1. ASSUME ret' # "pending", stack' # <<>> PROVE idx[Top] + 1 \in Live(Top)
      <4>1. CASE ret' = ret
        BY <1>2, <2>6, <3>1, <4>1 DEF AtImport
      <4>2. CASE OrderCall
        BY <2>6, <3>1, <4>2, AtCallBounds DEF OrderCall
      <4>3. ~Leaves
        <5>1. Leaves => Len(stack') = n - 1
          BY <2>2, <2>a, PopPositions DEF Leaves
        <5>2. Len(stack') = n
          BY <2>6, <2>a
        <5> QED BY <2>a, <5>1, <5>2
      <4> QED BY <1>2, <3>1, <4>1, <4>2, <4>3, Returns
    <3>2. Top' = Top
      BY <2>6 DEF Top
    <3> QED BY <1>2, <2>6, <3>1, <3>2 DEF AtImport
  <2> QED
    <3>1. CASE Rests
      BY <2>6, <3>1 DEF Rests
    <3>2. CASE Passes
      BY <1>2, <2>3, <2>4, <2>6, <3>2, Takes DEF Passes, Rests
    <3>3. CASE Enters
      <4>1. ~UNCHANGED stack
        <5>1. Len(stack') = Len(stack) + 1
          BY <2>2, <3>3 DEF Enters
        <5> QED BY <2>2, <5>1
      <4> QED BY <1>2, <2>5, <3>3, <4>1, Takes
    <3> QED BY <1>2, <2>3, <3>1, <3>2, <3>3, OrderSteps
<1> QED BY <1>1, <1>2

LEMMA ReturnIsDecidedStep ==
  ASSUME TypeOK, Walk, BlameIsPassedOn, AtImport, ReturnIsDecided, [Next]_vars
  PROVE  ReturnIsDecided'
<1> SUFFICES ASSUME ret' # "pending", stack' # <<>>,
                    NEW q, q = imp'[Top'][idx'[Top'] + 1].path
             PROVE  Decided(q)'
  BY DEF ReturnIsDecided
<1>1. phase' = "order" /\ phase = "order"
  BY WalkStep, OrderStarts DEF Walk, Result
<1>2. imp' = imp /\ \A p : Decided(p) => Decided(p)'
  BY <1>1, OrderSteps, DecidedStays
<1>3. CASE UNCHANGED <<stack, idx, ret, state>>
  <2>1. q = imp[Top][idx[Top] + 1].path
    BY <1>2, <1>3 DEF Top
  <2> QED BY <1>2, <1>3, <2>1 DEF ReturnIsDecided
<1>4. CASE UNCHANGED <<stack, idx>> /\ OrderCall /\ Callee \in Names /\ state'[Callee] \in {"Error", "Resolved"}
  <2>1. Callee = imp[Top][idx[Top] + 1].path
    BY <1>4, AtCallBounds DEF OrderCall
  <2>2. Top' = Top
    BY <1>4 DEF Top
  <2>3. q = Callee
    BY <1>2, <1>4, <2>1, <2>2
  <2> QED BY <1>4, <2>3 DEF Decided
<1>5. CASE Leaves /\ Top \in Names /\ state'[Top] \in {"Error", "Resolved"}
  <2>1. Len(stack) > 1 /\ Top' = stack[Len(stack) - 1] /\ idx' = idx /\ Len(stack) \in Nat
    BY <1>5, PopPositions DEF Leaves, TypeOK
  <2>2. Len(stack) - 1 \in 1..(Len(stack) - 1) /\ Len(stack) - 1 + 1 = Len(stack)
    BY <2>1
  <2>3. imp[stack[Len(stack) - 1]][idx[stack[Len(stack) - 1]] + 1].path = stack[Len(stack) - 1 + 1]
    BY <1>1, <2>2 DEF Walk, CallChain
  <2>4. q = Top
    BY <1>2, <2>1, <2>2, <2>3 DEF Top
  <2> QED BY <1>5, <2>4 DEF Decided
<1> QED BY <1>1, <1>3, <1>4, <1>5, Returns

(* The imports with a verdict, as <<importing package, position>>.         *)
DecidedImports == {e \in Names \X Nat : Decided(imp[e[1]][e[2]].path)}

LEMMA DecidedImportsAre ==
  ASSUME TypeOK, NEW n \in Names, NEW k \in Live(n)
  PROVE  <<n, k>> \in DecidedImports <=> Decided(imp[n][k].path)
<1>1. k \in Nat
  BY DEF Live, TypeOK
<1> QED BY <1>1 DEF DecidedImports

LEMMA PassedAreDecidedStep ==
  ASSUME TypeOK, Walk, BlameIsPassedOn, NoRepeats, ReturnIsDecided, PassedAreDecided, [Next]_vars
  PROVE  PassedAreDecided'
<1>0. TypeOK'
  BY WalkStep
<1>1. CASE phase # "order"
  BY <1>1, OrderStarts DEF PassedAreDecided
<1>2. CASE phase = "order"
  <2>1. imp' = imp /\ discarded' = discarded /\ \A n : Live(n)' = Live(n)
    BY <1>2, OrderSteps DEF Live
  <2>2. PICK Q : Q = DecidedImports
    OBVIOUS
  <2>3. PICK R : R = DecidedImports'
    OBVIOUS
  <2>4. Q \subseteq R
    BY <2>1, <2>2, <2>3, DecidedStays DEF DecidedImports, Decided
  <2>5. \A i \in DOMAIN stack : stack[i] \in Names
    BY DEF TypeOK
  <2>6. PassedIn({}, Q)
    BY <1>2, <2>2, <2>5, DecidedImportsAre DEF PassedAreDecided, PassedIn
  <2>7. PassesInto({}, R)
    <3> SUFFICES ASSUME Passes, idx[Top] + 1 \in Live(Top) PROVE <<Top, idx[Top] + 1>> \in DecidedImports
      BY <2>2, <2>3, <2>4 DEF PassesInto
    <3>1. Top \in Names /\ stack # <<>> /\ idx[Top] \in Nat
      BY PopProperties DEF Passes, TypeOK
    <3>2. ~SkipImport
      BY <1>2, <3>1, NoDuplicates DEF SkipImport, AtCall
    <3>3. ~UNCHANGED <<stack, idx>>
      <4>1. idx'[Top] = idx[Top] + 1
        BY <3>1 DEF Passes, Advance, TypeOK
      <4> QED BY <3>1, <4>1
    <3>4. ret # "pending"
      BY <1>2, <3>2, <3>3, Takes DEF ImportFailed, ImportNamed, ImportAll, ImportCollides, ImportReturns
    <3> QED BY <3>1, <3>4, DecidedImportsAre DEF ReturnIsDecided
  <2>a. \A i \in DOMAIN stack : stack[i] \in {} => stack[i] \in {}
    OBVIOUS
  <2>8. PassedIn({}, R)'
    BY <1>2, <2>4, <2>6, <2>7, <2>a, PassedKeep
  <2>9. \A i \in DOMAIN stack' : stack'[i] \in Names
    BY <1>0 DEF TypeOK
  <2>10. \A n \in Names : \A k \in Live(n) : <<n, k>> \in R => Decided(imp[n][k].path)'
    BY <2>1, <2>3 DEF DecidedImports, Decided
  <2> QED BY <2>1, <2>8, <2>9, <2>10 DEF PassedAreDecided, PassedIn, Decided
<1> QED BY <1>1, <1>2

(* Only a package whose call is active is given a verdict.                 *)
LEMMA NewVerdict ==
  ASSUME TypeOK, Walk, [Next]_vars, phase \in {"order", "types", "bodies"},
         NEW n \in Names, Decided(n)', ~Decided(n)
  PROVE  phase = "order" /\ \E i \in DOMAIN stack : stack[i] = n
<1> USE DEF vars, graphVars, walkVars, regVars, doneVars, clientVars
<1>1. ASSUME state' = state PROVE FALSE
  BY <1>1 DEF Decided
<1>2. ASSUME stack # <<>> PROVE \E i \in DOMAIN stack : stack[i] = Top
  BY <1>2, PopProperties DEF TypeOK
<1>3. ASSUME NEW m, NEW s, state' = [state EXCEPT ![m] = s] PROVE n = m
  BY <1>3 DEF Decided, TypeOK
<1>4. CASE OrderCircular
  BY <1>3, <1>4 DEF OrderCircular, OrderCall, Walk, StateFollows, TypeOK
<1>5. CASE OrderEnter
  <2>1. n = Callee /\ state' = [state EXCEPT ![Callee] = "Resolving"]
    BY <1>3, <1>5 DEF OrderEnter
  <2> QED BY <2>1 DEF Decided, TypeOK
<1>6. CASE ImportFailed \/ ImportCollides
  BY <1>2, <1>3, <1>6 DEF ImportFailed, ImportCollides, ImportReturns
<1>7. CASE OrderDone
  BY <1>2, <1>3, <1>7 DEF OrderDone, AtEnd
<1>8. CASE Parse
  BY <1>8 DEF Parse, ParseMissing, ParseAgain, ParseUnlistable, ParseCall, ParseListed,
       ParseNew, ParseReturn
<1>9. CASE Client \/ SkipImport \/ BuildIfPass \/ OrderLost \/ OrderFoundError \/ OrderFoundResolved
          \/ OrderReturn \/ ImportNamed \/ ImportAll \/ OrderFail \/ Loops \/ UNCHANGED vars
  BY <1>1, <1>9 DEF Client, AddSingleFilePackage, Compile, Generate, SkipImport, BuildIfPass, OrderLost,
       OrderFoundError, OrderFoundResolved, OrderReturn, ImportNamed, ImportAll, OrderFail,
       Loops, ResolveIncompleteTypes, StartBodies, ResolveProcBodies, Finish
<1> QED BY <1>4, <1>5, <1>6, <1>7, <1>8, <1>9 DEF Next, Compiler, Order

(* Without an error, only what resolved has a verdict, and it is listed.   *)
LEMMA DecidedAreListed ==
  ASSUME Walk, FailuresAreReported, ~errors, NEW p, Decided(p)
  PROVE  Listed(p)
<1>1. p \in Names /\ state[p] = "Resolved"
  BY DEF FailuresAreReported, Decided
<1> QED BY <1>1 DEF Walk, AssertedResolved, Listed

LEMMA ListedAreDecided ==
  ASSUME TypeOK, Walk, NEW p, Listed(p)
  PROVE  Decided(p)
BY DEF Walk, AssertedResolved, Listed, Decided, TypeOK

LEMMA GivenUpStep ==
  ASSUME TypeOK, Walk, Ordering, BlameIsPassedOn, FailuresAreReported, NoRepeats, AtImport, ReturnIsDecided,
         PassedAreDecided, GivenUpAreLookedInto, [Next]_vars, \A g \in Generated : g.imports = <<>>
  PROVE  GivenUpAreLookedInto'
<1> USE DEF vars, graphVars, walkVars, regVars, doneVars, clientVars
<1>0. TypeOK' /\ Walk' /\ FailuresAreReported'
  BY WalkStep, FailureStep
<1>1. CASE BuildIfPass /\ ~errors
  <2>1. state' = state /\ ordered' = ordered /\ imp' = imp
    BY <1>1 DEF BuildIfPass
  <2>2. ASSUME NEW n \in Names, Decided(n), NEW k \in Live(n)' PROVE Decided(imp'[n][k].path)
    <3>1. PICK i \in DOMAIN ordered : ordered[i] = n
      BY <1>1, <2>2, DecidedAreListed DEF Listed
    <3>2. DependenciesFirst'
      BY DependenciesStep
    <3>3. PICK j \in 1..(i - 1) : ordered[j] = imp'[n][k].path
      BY <2>1, <2>2, <3>1, <3>2 DEF DependenciesFirst
    <3>4. ordered \in Seq(Names)
      BY DEF TypeOK
    <3>5. j \in DOMAIN ordered
      BY <3>1, <3>4
    <3> QED BY <3>3, <3>5, ListedAreDecided DEF Listed
  <2> QED BY <2>1, <2>2 DEF GivenUpAreLookedInto, LookedInto, Decided
<1>2. CASE phase \in {"order", "types", "bodies"} /\ ~BuildIfPass
  <2>1. imp' = imp /\ discarded' = discarded /\ \A n : Live(n)' = Live(n)
    <3>1. imp' = imp
      BY <1>2, ImportLists DEF Parses
    <3>2. discarded' = discarded
      BY <1>2, OrderSteps DEF Next, Client, AddSingleFilePackage, Compile, Generate, Compiler, Parse,
        ParseMissing, ParseAgain, ParseUnlistable, ParseCall, ParseListed, ParseNew,
        ParseReturn, SkipImport, Order, OrderCall, ImportReturns, AtEnd,
        OrderLost, OrderFoundError, OrderFoundResolved, OrderCircular, OrderEnter, OrderReturn,
        ImportFailed, ImportNamed, ImportAll, ImportCollides, OrderFail, OrderDone,
        Loops, ResolveIncompleteTypes, StartBodies, ResolveProcBodies, Finish
    <3> QED BY <3>1, <3>2 DEF Live
  <2>2. \A n : LookedInto(n) => LookedInto(n)'
    BY <2>1, DecidedStays DEF LookedInto, Decided
  <2> SUFFICES ASSUME phase' \in {"order", "types", "bodies"}, NEW n \in Names, Decided(n)',
                      ~\E i \in DOMAIN stack' : stack'[i] = n
               PROVE  LookedInto(n)'
    BY DEF GivenUpAreLookedInto
  <2>3. CASE Decided(n) /\ LookedInto(n)
    BY <2>2, <2>3
  <2>4. CASE \E i \in DOMAIN stack : stack[i] = n
    <3>1. phase = "order"
      BY <1>2, <2>4 DEF Walk, Quiet
    <3>2. stack \in Seq(Names) /\ stack' \in Seq(Names)
      BY <1>0 DEF TypeOK
    <3>3. ~UNCHANGED stack
      BY <2>4
    <3>4. ~Enters
      BY <2>4, <3>2, PushPositions DEF Enters
    <3>5. Leaves
      BY <3>1, <3>3, <3>4, OrderSteps DEF Rests, Passes
    <3>6. Top = n /\ Len(stack) \in DOMAIN stack
      <4>1. /\ Len(stack) \in Nat \ {0} /\ DOMAIN stack = 1..Len(stack) /\ DOMAIN stack' = 1..(Len(stack) - 1)
            /\ \A i \in 1..(Len(stack) - 1) : stack'[i] = stack[i]
        BY <3>2, <3>5, PopPositions DEF Leaves
      <4>2. PICK i \in DOMAIN stack : stack[i] = n
        BY <2>4
      <4>3. i = Len(stack)
        BY <4>1, <4>2
      <4> QED BY <4>1, <4>2, <4>3 DEF Top
    <3>7. idx[n] = Len(imp[n])
      <4>1. OrderFail \/ OrderDone
        <5>1. ~UNCHANGED stack
          BY <3>3
        <5>2. ~(stack' = Append(stack, Callee))
          <6>1. Len(stack') = Len(stack) - 1 /\ Len(stack) \in Nat
            BY <3>2, <3>5, PopPositions DEF Leaves
          <6> QED BY <3>2, <6>1
        <5> QED BY <3>1, <5>1, <5>2 DEF Next, Client, AddSingleFilePackage, Compile, Generate, Compiler, Parse,
              ParseMissing, ParseAgain, ParseUnlistable, ParseCall, ParseListed, ParseNew,
              ParseReturn, SkipImport, BuildIfPass, Order,
              OrderLost, OrderFoundError, OrderFoundResolved, OrderCircular, OrderEnter, OrderReturn,
              ImportFailed, ImportNamed, ImportAll, ImportCollides,
              Loops, ResolveIncompleteTypes, StartBodies, ResolveProcBodies, Finish, Visit
      <4> QED BY <3>6, <4>1 DEF OrderFail, OrderDone, AtEnd
    <3>8. \A k \in Live(n) : k <= idx[n]
      BY <3>7 DEF Live, TypeOK
    <3>9. LookedInto(n)
      BY <3>1, <3>6, <3>8 DEF PassedAreDecided, LookedInto, Top
    <3> QED BY <2>2, <3>9
  <2> QED BY <1>2, <2>3, <2>4, NewVerdict DEF GivenUpAreLookedInto
<1>3. CASE phase' \notin {"order", "types", "bodies"}
  BY <1>3 DEF GivenUpAreLookedInto
<1> QED BY <1>1, <1>2, <1>3, PhaseStarts

(* Of an active package that is not known to be wrong, every import before *)
(* the one it is at has been linked; of a listed package all of them.      *)
PassedAreLinked ==
  phase = "order" => \A i \in DOMAIN stack : stack[i] \notin wrong =>
    \A k \in Live(stack[i]) : k <= idx[stack[i]] => k \in linked[stack[i]]

ListedAreLinked == \A n \in Names : Listed(n) => Live(n) \subseteq linked[n]

Following ==
  /\ NoRepeats /\ AtImport /\ ReturnIsDecided /\ PassedAreDecided /\ GivenUpAreLookedInto
  /\ PassedAreLinked /\ ListedAreLinked

LEMMA LinkedGrows ==
  ASSUME TypeOK, [Next]_vars, NEW n \in Names
  PROVE  linked[n] \subseteq linked'[n]
<1> USE DEF vars, graphVars, walkVars, regVars, doneVars, clientVars
<1>1. CASE ImportNamed \/ ImportAll
  <2>1. linked' = [linked EXCEPT ![Top] = @ \cup {idx[Top] + 1}]
    BY <1>1 DEF ImportNamed, ImportAll
  <2> QED BY <2>1 DEF TypeOK
<1>2. CASE ~ImportNamed /\ ~ImportAll
  BY <1>2 DEF Next, Client, AddSingleFilePackage, Compile, Generate, Compiler, Parse, ParseMissing,
       ParseAgain, ParseUnlistable, ParseLeaf, ParseReturn, SkipImport, BuildIfPass, Order,
       ParseListed, ParseNew, ParsePush, PackageDecls,
       OrderLost, OrderFoundError, OrderFoundResolved, OrderCircular, OrderEnter, OrderReturn,
       ImportFailed, ImportCollides, OrderFail, OrderDone,
       Loops, ResolveIncompleteTypes, StartBodies, ResolveProcBodies, Finish
<1> QED BY <1>1, <1>2

LEMMA WrongStays ==
  ASSUME TypeOK, Walk, [Next]_vars, phase = "order", NEW i \in DOMAIN stack, stack[i] \in wrong
  PROVE  stack[i] \in wrong'
<1> USE DEF vars, graphVars, walkVars, regVars, doneVars, clientVars
<1>1. CASE OrderEnter
  <2>1. /\ state[Callee] = "Unresolved" /\ wrong' = wrong \ {Callee}
    BY <1>1 DEF OrderEnter
  <2>2. state[stack[i]] \in {"Resolving", "Error"}
    BY DEF Walk, StateFollows
  <2> QED BY <2>1, <2>2
<1>2. CASE ~OrderEnter
  BY <1>2 DEF Next, Client, AddSingleFilePackage, Compile, Generate, Compiler, Parse, ParseMissing,
       ParseAgain, ParseUnlistable, ParseLeaf, ParseReturn, SkipImport, BuildIfPass, Order,
       ParseListed, ParseNew, ParsePush, PackageDecls,
       OrderLost, OrderFoundError, OrderFoundResolved, OrderCircular, OrderReturn,
       ImportFailed, ImportNamed, ImportAll, ImportCollides, OrderFail, OrderDone,
       Loops, ResolveIncompleteTypes, StartBodies, ResolveProcBodies, Finish
<1> QED BY <1>1, <1>2

(* A package that is not wrong passes an import by bringing it in.         *)
LEMMA PassesByImport ==
  ASSUME TypeOK, Walk, NoRepeats, [Next]_vars, phase = "order", Passes, idx[Top] + 1 \in Live(Top)
  PROVE  /\ Top \in Names /\ idx[Top] \in Nat
         /\ \/ ImportFailed \/ ImportCollides
            \/ ImportNamed \/ ImportAll
<1>1. Top \in Names /\ stack # <<>> /\ idx[Top] \in Nat
  BY PopProperties DEF Passes, TypeOK
<1>2. ~SkipImport
  BY <1>1, NoDuplicates DEF SkipImport, AtCall
<1>3. ~UNCHANGED <<stack, idx>>
  <2>1. idx'[Top] = idx[Top] + 1
    BY <1>1 DEF Passes, Advance, TypeOK
  <2> QED BY <1>1, <2>1
<1> QED BY <1>1, <1>2, <1>3, Takes

LEMMA PassedAreLinkedStep ==
  ASSUME TypeOK, Walk, NoRepeats, PassedAreLinked, [Next]_vars
  PROVE  PassedAreLinked'
<1>0. TypeOK'
  BY WalkStep
<1>1. CASE phase # "order"
  BY <1>1, OrderStarts DEF PassedAreLinked
<1>2. CASE phase = "order"
  <2>1. \A n : Live(n)' = Live(n)
    BY <1>2, OrderSteps DEF Live
  <2>2. PICK Q : Q = {e \in Names \X Nat : e[2] \in linked[e[1]]}
    OBVIOUS
  <2>3. PICK R : R = {e \in Names \X Nat : e[2] \in linked'[e[1]]}
    OBVIOUS
  <2>4. Q \subseteq R
    BY <2>2, <2>3, LinkedGrows
  <2>5. \A n \in Names : \A k \in Live(n) : k \in Nat
    BY DEF Live, TypeOK
  <2>6. PICK W : W = wrong
    OBVIOUS
  <2>7. PICK X : X = wrong'
    OBVIOUS
  <2>8. \A i \in DOMAIN stack : stack[i] \in Names
    BY DEF TypeOK
  <2>9. PassedIn(W, Q)
    BY <1>2, <2>2, <2>5, <2>6, <2>8 DEF PassedAreLinked, PassedIn
  <2>10. PassesInto(X, R)
    <3> SUFFICES ASSUME Passes, Top \notin wrong', idx[Top] + 1 \in Live(Top)
                 PROVE  <<Top, idx[Top] + 1>> \in R
      BY <2>7 DEF PassesInto
    <3>1. Top \in Names /\ idx[Top] \in Nat /\ (ImportNamed \/ ImportAll)
      BY <1>2, PassesByImport DEF ImportFailed, ImportCollides
    <3>2. linked' = [linked EXCEPT ![Top] = @ \cup {idx[Top] + 1}]
      BY <3>1 DEF ImportNamed, ImportAll
    <3>3. idx[Top] + 1 \in linked'[Top]
      BY <3>1, <3>2 DEF TypeOK
    <3> QED BY <2>3, <3>1, <3>3
  <2>11. \A i \in DOMAIN stack : stack[i] \in W => stack[i] \in X
    BY <1>2, <2>6, <2>7, WrongStays
  <2>12. PassedIn(X, R)'
    BY <1>2, <2>4, <2>9, <2>10, <2>11, PassedKeep
  <2>13. \A i \in DOMAIN stack' : stack'[i] \in Names
    BY <1>0 DEF TypeOK
  <2> QED BY <2>3, <2>7, <2>12, <2>13 DEF PassedAreLinked, PassedIn
<1> QED BY <1>1, <1>2

LEMMA ListedAreLinkedStep ==
  ASSUME TypeOK, Walk, Ordering, PassedAreLinked, ListedAreLinked, [Next]_vars,
         \A g \in Generated : g.imports = <<>>
  PROVE  ListedAreLinked'
<1> SUFFICES ASSUME NEW n \in Names, Listed(n)' PROVE Live(n)' \subseteq linked'[n]
  BY DEF ListedAreLinked
<1>1. CASE Listed(n)
  <2>1. Live(n)' = Live(n)
    BY <1>1, DiscardedStep DEF Ordering
  <2> QED BY <1>1, <2>1, LinkedGrows DEF ListedAreLinked
<1>2. CASE OrderDone /\ n = Top
  <2>1. /\ phase = "order" /\ stack # <<>> /\ Top \notin wrong /\ idx[Top] = Len(imp[Top])
        /\ imp' = imp /\ discarded' = discarded
    BY <1>2 DEF OrderDone, AtEnd
  <2>2. Len(stack) \in DOMAIN stack /\ Top = stack[Len(stack)]
    BY <2>1, PopProperties DEF TypeOK
  <2>3. \A k \in Live(Top) : k <= idx[Top]
    BY <1>2, <2>1 DEF Live, TypeOK
  <2>4. Live(n) \subseteq linked[n]
    BY <1>2, <2>1, <2>2, <2>3 DEF PassedAreLinked
  <2>5. Live(n)' = Live(n)
    BY <2>1 DEF Live
  <2> QED BY <2>4, <2>5, LinkedGrows
<1> QED BY <1>1, <1>2, ListedGrows

(* All that the walk keeps about the imports it follows.                   *)
FollowingInv == TypeOK /\ Walk /\ FailuresAreReported /\ BlameIsPassedOn /\ Ordering /\ Following

LEMMA FollowingHolds ==
  ASSUME \A g \in Generated : g.imports = <<>>
  PROVE  (Init => FollowingInv) /\ (FollowingInv /\ [Next]_vars => FollowingInv')
<1>1. Init => FollowingInv
  <2> SUFFICES ASSUME Init PROVE FailuresAreReported /\ BlameIsPassedOn /\ Ordering /\ Following
    BY InitWalk DEF FollowingInv
  <2>1. /\ DOMAIN ordered = {} /\ phase = "idle" /\ stack = <<>> /\ \A n \in Names : imp[n] = <<>>
        /\ \A n \in Names : state[n] = "Unresolved" /\ wrong = {} /\ poisoned = {} /\ ret = "pending"
    BY DEF Init
  <2>2. \A n \in Names : ~RepeatedPath(imp[n])
    BY <2>1 DEF RepeatedPath
  <2>3. \A p : ~Listed(p)
    BY <2>1 DEF Listed
  <2>4. FailuresAreReported
    BY DEF Init, FailuresAreReported
  <2> QED BY <2>1, <2>2, <2>3, <2>4
       DEF BlameIsPassedOn, Ordering, DiscardedFits, PassedAreListed, DependenciesFirst, Following,
           NoRepeats, AtImport, ReturnIsDecided, PassedAreDecided, GivenUpAreLookedInto,
           PassedAreLinked, ListedAreLinked
<1>2. ASSUME FollowingInv, [Next]_vars PROVE FollowingInv'
  <2>1. TypeOK' /\ Walk' /\ FailuresAreReported' /\ BlameIsPassedOn' /\ Ordering'
    BY <1>2, WalkStep, FailureStep, BlameStep, DiscardedStep, PassedStep, DependenciesStep DEF FollowingInv, Ordering
  <2>2. NoRepeats' /\ AtImport' /\ ReturnIsDecided' /\ PassedAreDecided' /\ GivenUpAreLookedInto'
    BY <1>2, NoRepeatsStep, AtImportStep, ReturnIsDecidedStep, PassedAreDecidedStep, GivenUpStep
       DEF FollowingInv, Following
  <2>3. PassedAreLinked' /\ ListedAreLinked'
    BY <1>2, PassedAreLinkedStep, ListedAreLinkedStep DEF FollowingInv, Following
  <2> QED BY <2>1, <2>2, <2>3 DEF FollowingInv, Following
<1> QED BY <1>1, <1>2

(* "Resolve all imports regardless of errors" (packages.c:295), and no     *)
(* import reaches the typechecking stage unresolved (resolve.c:40), for    *)
(* every import graph, cyclic and broken ones included.  The one way to an *)
(* unresolved import is a generated file that has one.                     *)
THEOREM EveryImportIsFollowed ==
  ASSUME \A g \in Generated : g.imports = <<>>
  PROVE  Spec => []ImportsAreFollowed
<1>1. FollowingInv => AllImportsLookedInto
  <2> SUFFICES ASSUME FollowingInv, phase \in {"order", "types", "bodies"}, NEW n \in Names,
                      state[n] \in {"Error", "Resolved"}
               PROVE  \/ \E i \in DOMAIN stack : stack[i] = n
                      \/ \A k \in Live(n) : state[imp[n][k].path] \in {"Error", "Resolved"}
    BY DEF AllImportsLookedInto
  <2>1. Decided(n) /\ GivenUpAreLookedInto
    BY DEF Decided, FollowingInv, Following
  <2> QED BY <2>1 DEF GivenUpAreLookedInto, LookedInto, Decided
<1>2. FollowingInv => ImportsAreLinked
  <2> SUFFICES ASSUME FollowingInv, NEW i \in DOMAIN ordered
               PROVE  Live(ordered[i]) \subseteq linked[ordered[i]]
    BY DEF ImportsAreLinked
  <2>1. ordered[i] \in Names /\ Listed(ordered[i])
    BY DEF FollowingInv, TypeOK, Listed
  <2> QED BY <2>1 DEF FollowingInv, Following, ListedAreLinked
<1>3. FollowingInv => ImportsAreFollowed
  BY <1>1, <1>2 DEF ImportsAreFollowed
<1> QED BY <1>3, FollowingHolds, PTL DEF Spec
-----------------------------------------------------------------------------
(* Scopes.  A name that is bound stays bound to the same declaration, so   *)
(* what is left is where new bindings come from.                           *)
Declares(n, i) ==
  \/ OrderFoundResolved /\ n = Callee /\ i \in pending[n]
  \/ (OrderDone \/ ImportNamed) /\ n = Top

LEMMA ScopeChanges ==
  ASSUME TypeOK, Walk, [Next]_vars, NEW n \in Names, NEW i \in Idents, scope'[n][i] # scope[n][i]
  PROVE  /\ scope[n][i] = NoName
         /\ phase = "order" /\ phase' = "order" /\ n \in parsed
         /\ \/ scope'[n][i] = Builtin
            \/ scope'[n][i] = n /\ Declares(n, i)
            \/ scope'[n][i] = ret /\ n = Top /\ (ImportAll \/ ImportCollides) /\ i \in Exported(ret)
<1> USE DEF vars, graphVars, walkVars, regVars, doneVars, clientVars
<1>1. scope \in [Names -> [Idents -> Names \cup {NoName, Builtin}]]
  BY DEF TypeOK
<1>2. stack # <<>> => Top \in Names /\ Top \in parsed
  <2> SUFFICES ASSUME stack # <<>> PROVE Top \in Names /\ Top \in parsed
    OBVIOUS
  <2>0. stack \in Seq(Names)
    BY DEF TypeOK
  <2>1. Top \in Names /\ Top = stack[Len(stack)] /\ Len(stack) \in DOMAIN stack
    BY <2>0, PopProperties
  <2> QED BY <2>1 DEF Walk, Active
<1>3. ASSUME NEW m \in Names, PackageDecls(m)
      PROVE  scope[n][i] = NoName /\ n = m /\ scope'[n][i] = n /\ i \in pending[n]
  BY <1>1, <1>3 DEF PackageDecls
<1>4. ASSUME NEW m \in Names, NEW s, scope' = [scope EXCEPT ![m] = s] PROVE n = m /\ scope'[n][i] = s[i]
  BY <1>1, <1>4
<1>5. CASE OrderFoundResolved
  <2>1. PackageDecls(Callee) /\ Callee \in Names /\ Callee \in parsed /\ phase = "order" /\ phase' = "order"
    BY <1>5 DEF OrderFoundResolved, OrderCall, TypeOK
  <2>2. scope[n][i] = NoName /\ n = Callee /\ scope'[n][i] = n /\ i \in pending[n]
    BY <1>3, <2>1
  <2> QED BY <1>5, <2>1, <2>2 DEF Declares
<1>6. CASE OrderDone
  <2>1. PackageDecls(Top) /\ stack # <<>> /\ phase = "order" /\ phase' = "order"
    BY <1>6 DEF OrderDone, AtEnd
  <2> QED BY <1>2, <1>3, <1>6, <2>1 DEF Declares
<1>7. CASE OrderEnter
  <2>1. /\ Callee \in Names /\ Callee \in parsed /\ phase = "order" /\ phase' = "order"
        /\ scope' = [scope EXCEPT ![Callee] =
                 [j \in Idents |-> IF j \in BuiltinIdents /\ scope[Callee][j] = NoName
                                   THEN Builtin ELSE scope[Callee][j]]]
    BY <1>7 DEF OrderEnter, OrderCall, TypeOK
  <2> QED BY <1>4, <2>1
<1>8. CASE ImportNamed
  <2> DEFINE as == imp[Top][idx[Top] + 1].as
  <2>1. stack # <<>> /\ phase = "order" /\ phase' = "order"
    BY <1>8 DEF ImportNamed, ImportReturns
  <2>2. scope[Top][as] = NoName /\ scope' = [scope EXCEPT ![Top][as] = Top]
    BY <1>8 DEF ImportNamed
  <2> HIDE DEF as
  <2>3. n = Top /\ i = as
    BY <1>1, <1>2, <2>1, <2>2
  <2>4. scope'[n][i] = n
    BY <1>1, <1>2, <2>1, <2>2, <2>3
  <2> QED BY <1>2, <1>8, <2>1, <2>2, <2>3, <2>4 DEF Declares
<1>9. ASSUME NEW is \in SUBSET Exported(ret), scope' = Bring(Top, ret, is), stack # <<>>,
             \A j \in is : scope[Top][j] = NoName
      PROVE  n = Top /\ scope[n][i] = NoName /\ scope'[n][i] = ret /\ i \in Exported(ret)
  <2>1. n = Top /\ scope'[n][i] = IF i \in is THEN ret ELSE scope[Top][i]
    BY <1>1, <1>2, <1>9 DEF Bring
  <2> QED BY <1>9, <2>1
<1>10. CASE ImportAll
  <2>1. /\ scope' = Bring(Top, ret, Exported(ret)) /\ stack # <<>> /\ phase = "order" /\ phase' = "order"
        /\ \A j \in Exported(ret) : scope[Top][j] = NoName
    BY <1>10 DEF ImportAll, ImportReturns, Collisions
  <2> QED BY <1>2, <1>9, <1>10, <2>1
<1>11. CASE ImportCollides
  <2>1. /\ stack # <<>> /\ phase = "order" /\ phase' = "order"
        /\ \E is \in SUBSET (Exported(ret) \ Collisions(Top, ret)) : scope' = Bring(Top, ret, is)
    BY <1>11 DEF ImportCollides, ImportReturns
  <2>2. PICK is \in SUBSET (Exported(ret) \ Collisions(Top, ret)) : scope' = Bring(Top, ret, is)
    BY <2>1
  <2>3. is \in SUBSET Exported(ret) /\ \A j \in is : scope[Top][j] = NoName
    BY DEF Collisions
  <2> QED BY <1>2, <1>9, <1>11, <2>1, <2>2, <2>3
<1>12. CASE ~OrderFoundResolved /\ ~OrderDone /\ ~OrderEnter /\ ~ImportNamed /\ ~ImportAll /\ ~ImportCollides
  <2>1. scope' = scope
    BY <1>12 DEF Next, Client, AddSingleFilePackage, Compile, Generate, Compiler, Parse,
       ParseMissing, ParseAgain, ParseUnlistable, ParseLeaf, ParseListed, ParseNew, ParsePush,
       ParseReturn, SkipImport, BuildIfPass, Order,
       OrderLost, OrderFoundError, OrderCircular, OrderReturn, ImportFailed, OrderFail,
       Loops, ResolveIncompleteTypes, StartBodies, ResolveProcBodies, Finish
  <2> QED BY <2>1
<1> QED BY <1>5, <1>6, <1>7, <1>8, <1>10, <1>11, <1>12

(* A package whose scope holds anything was parsed and is past #build_if.  *)
Blank(n) == \A i \in Idents : scope[n][i] = NoName

BoundAreParsed == \A n \in Names : Blank(n) \/ (n \in parsed /\ discarded[n] = Off(n))

LEMMA ParsedStay ==
  ASSUME [Next]_vars, NEW n \in parsed PROVE n \in parsed'
<1> USE DEF vars, graphVars, walkVars, regVars, doneVars, clientVars
<1>1. CASE ParseListed \/ ParseNew
  BY <1>1 DEF ParseListed, ParseNew, ParsePackage
<1>2. CASE ~ParseListed /\ ~ParseNew
  BY <1>2 DEF Next, Client, AddSingleFilePackage, Compile, Generate, Compiler, Parse,
       ParseMissing, ParseAgain, ParseUnlistable, ParseLeaf,
       ParseReturn, SkipImport, BuildIfPass, Order, OrderFoundResolved, OrderEnter, OrderDone,
       ImportNamed, ImportAll, ImportCollides,
       OrderLost, OrderFoundError, OrderCircular, OrderReturn, ImportFailed, OrderFail,
       Loops, ResolveIncompleteTypes, StartBodies, ResolveProcBodies, Finish
<1> QED BY <1>1, <1>2

(* Nothing changes the imports of such a package any more.                 *)
LEMMA BoundStay ==
  ASSUME TypeOK, Walk, [Next]_vars, \A g \in Generated : g.imports = <<>>,
         NEW n \in Names, n \in parsed, discarded[n] = Off(n)
  PROVE  /\ imp'[n] = imp[n] /\ discarded'[n] = discarded[n] /\ Live(n)' = Live(n)
         /\ n \in parsed' /\ discarded'[n] = Off(n)'
<1> USE DEF vars, graphVars, walkVars, regVars, doneVars, clientVars
<1>1. imp'[n] = imp[n] /\ n \in parsed'
  BY ImportsStay, ParsedStay DEF Walk
<1>2. discarded'[n] = Off(n)
  <2>1. CASE BuildIfPass
    BY <2>1 DEF BuildIfPass, Off
  <2>2. CASE ~BuildIfPass
    <3>1. discarded' = discarded
      BY <2>2 DEF Next, Client, AddSingleFilePackage, Compile, Generate, Compiler, Parse,
       ParseMissing, ParseAgain, ParseUnlistable, ParseLeaf, ParseListed, ParseNew, ParsePush,
       ParseReturn, SkipImport, Order, OrderFoundResolved, OrderEnter, OrderDone,
       ImportNamed, ImportAll, ImportCollides, PackageDecls,
       OrderLost, OrderFoundError, OrderCircular, OrderReturn, ImportFailed, OrderFail,
       Loops, ResolveIncompleteTypes, StartBodies, ResolveProcBodies, Finish
    <3> QED BY <3>1
  <2> QED BY <2>1, <2>2
<1> QED BY <1>1, <1>2 DEF Live, Off

LEMMA BoundAreParsedStep ==
  ASSUME TypeOK, Walk, Ordering, BoundAreParsed, [Next]_vars, \A g \in Generated : g.imports = <<>>
  PROVE  BoundAreParsed'
<1> SUFFICES ASSUME NEW n \in Names, ~Blank(n)' PROVE n \in parsed' /\ discarded'[n] = Off(n)'
  BY DEF BoundAreParsed
<1>1. n \in parsed /\ discarded[n] = Off(n)
  <2>1. CASE ~Blank(n)
    BY <2>1 DEF BoundAreParsed
  <2>2. CASE Blank(n)
    <3>1. PICK i \in Idents : scope'[n][i] # scope[n][i]
      BY <2>2 DEF Blank
    <3>2. phase = "order" /\ n \in parsed
      BY <3>1, ScopeChanges
    <3> QED BY <3>2 DEF Ordering, DiscardedFits
  <2> QED BY <2>1, <2>2
<1> QED BY <1>1, BoundStay

LEMMA ScopeIsDirectStep ==
  ASSUME TypeOK, Walk, Ordering, AtImport, BoundAreParsed, ScopeIsDirect, [Next]_vars,
         \A g \in Generated : g.imports = <<>>
  PROVE  ScopeIsDirect'
<1> SUFFICES ASSUME NEW n \in Names, NEW i \in Idents, scope'[n][i] \notin {NoName, Builtin, n}
             PROVE  \E k \in Live(n)' : imp'[n][k].path = scope'[n][i] /\ imp'[n][k].as = NoName
  BY DEF ScopeIsDirect
<1>1. CASE scope'[n][i] = scope[n][i]
  <2>1. n \in parsed /\ discarded[n] = Off(n)
    BY <1>1 DEF BoundAreParsed, Blank
  <2>2. imp'[n] = imp[n] /\ Live(n)' = Live(n)
    BY <2>1, BoundStay
  <2> QED BY <1>1, <2>2 DEF ScopeIsDirect
<1>2. CASE scope'[n][i] # scope[n][i]
  <2>1. scope'[n][i] = ret /\ n = Top /\ (ImportAll \/ ImportCollides) /\ phase = "order"
    BY <1>2, ScopeChanges
  <2>2. ret \in Names /\ ret # "pending" /\ imp[Top][idx[Top] + 1].as = NoName /\ stack # <<>>
    BY <2>1, ReturnAssumption DEF ImportAll, ImportCollides, Unnamed, ImportReturns
  <2>3. ret = imp[Top][idx[Top] + 1].path /\ idx[Top] + 1 \in Live(Top)
    BY <2>1, <2>2 DEF Walk, Result, AtImport
  <2>4. imp' = imp /\ Live(n)' = Live(n)
    BY <2>1, OrderSteps DEF Live
  <2> QED BY <2>1, <2>2, <2>3, <2>4
<1> QED BY <1>1, <1>2

(* A resolved package has declarations to register only between a file     *)
(* generated into it and the order pass that finds it resolved.            *)
Refilled(p) == p \in Names /\ state[p] = "Resolved" /\ pending[p] # {}

RefilledAtRoot ==
  \A p \in Names : Refilled(p) =>
    /\ phase = "order" /\ stack = <<>> /\ ret = "pending" /\ p = root
    /\ \A d \in pending[p] : late[p][d] = Len(ordered)

LEMMA RefilledStep ==
  ASSUME TypeOK, Walk, RefilledAtRoot, [Next]_vars
  PROVE  RefilledAtRoot'
<1> USE DEF vars, graphVars, walkVars, regVars, doneVars, clientVars
<1>1. CASE Generate
  <2>1. PICK file \in Generated :
          /\ pending' = [pending EXCEPT ![root] = file.decls]
          /\ late' = [late EXCEPT ![root] =
                       [i \in Idents |-> IF i \in file.decls THEN Len(ordered) ELSE late[root][i]]]
    BY <1>1 DEF Generate
  <2>2. /\ phase = "types" /\ phase' = "order" /\ UNCHANGED <<state, stack, ret, root, ordered>>
        /\ root \in Names /\ file.decls \subseteq Idents
    BY <1>1, NamesAssumption, InputAssumption DEF Generate, TypeOK
  <2>3. stack = <<>> /\ ret = "pending"
    BY <2>2 DEF Walk, Quiet, Result
  <2>4. pending'[root] = file.decls /\ \A d \in file.decls : late'[root][d] = Len(ordered)
    BY <2>1, <2>2 DEF TypeOK
  <2>5. \A p \in Names : p # root => pending'[p] = pending[p]
    BY <2>1 DEF TypeOK
  <2>6. \A p \in Names : ~Refilled(p)
    BY <2>2 DEF RefilledAtRoot
  <2>7. \A p \in Names : Refilled(p)' => p = root
    BY <2>2, <2>5, <2>6 DEF Refilled
  <2> QED BY <2>2, <2>3, <2>4, <2>7 DEF RefilledAtRoot
<1>2. CASE ~Generate
  <2>1. ASSUME NEW p \in Names, Refilled(p)' PROVE Refilled(p) /\ pending'[p] = pending[p]
    <3>1. ASSUME NEW m \in Names, NEW path, NEW b, m \notin parsed, ParsePackage(m, path, b)
          PROVE  Refilled(p) /\ pending'[p] = pending[p]
      <4>1. state[m] = "Unresolved"
        BY <3>1 DEF Walk, StateFollows
      <4>2. state'[p] = "Resolved" => state[p] = "Resolved"
        BY <3>1 DEF ParsePackage, TypeOK
      <4>3. p # m
        BY <2>1, <3>1, <4>1, <4>2 DEF Refilled
      <4>4. pending'[p] = pending[p]
        BY <3>1, <4>3 DEF ParsePackage, TypeOK
      <4> QED BY <2>1, <4>2, <4>4 DEF Refilled
    <3>2. CASE ParseListed
      BY <3>1, <3>2 DEF ParseListed, ParseCall, Lookup, TypeOK
    <3>3. CASE ParseNew
      <4>1. AtCall /\ NameOf[Callee] \in Names
        BY <3>3, CallTypes, NamesAssumption DEF ParseNew, ParseCall
      <4> QED BY <3>1, <3>3, <4>1 DEF ParseNew, ParseCall, Lookup, Walk, StateFollows
    <3>4. ASSUME NEW m \in Names, PackageDecls(m),
                 state' = state \/ state' = [state EXCEPT ![m] = "Resolved"]
          PROVE  Refilled(p) /\ pending'[p] = pending[p]
      <4>1. pending' = [pending EXCEPT ![m] = {}]
        BY <3>4 DEF PackageDecls
      <4>2. p # m /\ pending'[p] = pending[p]
        BY <2>1, <4>1 DEF TypeOK, Refilled
      <4>3. state'[p] = state[p]
        BY <3>4, <4>2 DEF TypeOK
      <4> QED BY <2>1, <4>2, <4>3 DEF Refilled
    <3>5. CASE OrderFoundResolved
      BY <3>4, <3>5 DEF OrderFoundResolved, TypeOK
    <3>6. CASE OrderDone
      <4>1. Top \in Names
        BY <3>6, PopProperties DEF OrderDone, AtEnd, TypeOK
      <4> QED BY <3>4, <3>6, <4>1 DEF OrderDone
    <3>7. CASE ~ParseListed /\ ~ParseNew /\ ~OrderFoundResolved /\ ~OrderDone
      <4>1. pending' = pending
        BY <1>2, <3>7 DEF Next, Client, AddSingleFilePackage, Compile, Compiler, Parse,
           ParseMissing, ParseAgain, ParseUnlistable, ParseLeaf, ParseReturn, SkipImport, BuildIfPass,
           Order, OrderEnter, ImportNamed, ImportAll, ImportCollides,
           OrderLost, OrderFoundError, OrderCircular, OrderReturn, ImportFailed, OrderFail,
           Loops, ResolveIncompleteTypes, StartBodies, ResolveProcBodies, Finish
      <4>2. \/ state' = state
            \/ \E m, s : s # "Resolved" /\ state' = [state EXCEPT ![m] = s]
        BY <1>2, <3>7 DEF Next, Client, AddSingleFilePackage, Compile, Compiler, Parse,
           ParseMissing, ParseAgain, ParseUnlistable, ParseLeaf, ParseReturn, SkipImport, BuildIfPass,
           Order, OrderEnter, ImportNamed, ImportAll, ImportCollides,
           OrderLost, OrderFoundError, OrderCircular, OrderReturn, ImportFailed, OrderFail,
           Loops, ResolveIncompleteTypes, StartBodies, ResolveProcBodies, Finish
      <4>3. state'[p] = "Resolved" => state[p] = "Resolved"
        BY <4>2 DEF TypeOK
      <4> QED BY <2>1, <4>1, <4>3 DEF Refilled
    <3> QED BY <3>2, <3>3, <3>5, <3>6, <3>7
  <2> SUFFICES ASSUME NEW p \in Names, Refilled(p)'
               PROVE  /\ phase' = "order" /\ stack' = <<>> /\ ret' = "pending" /\ p = root'
                      /\ \A d \in pending'[p] : late'[p][d] = Len(ordered')
    BY DEF RefilledAtRoot
  <2>2. /\ Refilled(p) /\ pending'[p] = pending[p] /\ pending[p] # {}
        /\ phase = "order" /\ stack = <<>> /\ ret = "pending" /\ p = root
        /\ \A d \in pending[p] : late[p][d] = Len(ordered)
    BY <2>1 DEF RefilledAtRoot, Refilled
  <2>3. Callee = root /\ state[root] = "Resolved" /\ root \in parsed
    BY <2>2 DEF Callee, Refilled, Walk, StateFollows
  <2>4. ~OrderFoundResolved
    <3> SUFFICES ASSUME OrderFoundResolved PROVE FALSE
      OBVIOUS
    <3>1. pending' = [pending EXCEPT ![root] = {}]
      BY <2>3 DEF OrderFoundResolved, PackageDecls
    <3> QED BY <2>2, <3>1 DEF TypeOK
  <2>5. UNCHANGED vars
    BY <1>2, <2>2, <2>3, <2>4 DEF Next, Client, AddSingleFilePackage, Compile, Compiler, Parse,
           ParseMissing, ParseAgain, ParseUnlistable, ParseCall, ParseListed, ParseNew,
           ParseReturn, SkipImport, BuildIfPass, OrderCall, ImportReturns, AtEnd, Visit,
           Order, OrderEnter, ImportNamed, ImportAll, ImportCollides, OrderDone,
           OrderLost, OrderFoundError, OrderCircular, OrderReturn, ImportFailed, OrderFail,
           Loops, ResolveIncompleteTypes, StartBodies, ResolveProcBodies, Finish
  <2> QED BY <2>2, <2>5
<1> QED BY <1>1, <1>2

(* What a listed package owns grows only there.                            *)
LEMMA ExportsGrow ==
  ASSUME TypeOK, Walk, RefilledAtRoot, [Next]_vars, NEW m \in Names, Listed(m),
         NEW d \in Exported(m)', d \notin Exported(m)
  PROVE  stack = <<>> /\ late' = late /\ ordered' = ordered /\ late[m][d] = Len(ordered)
<1>1. d \in Idents /\ scope'[m][d] = m /\ scope'[m][d] # scope[m][d]
  BY DEF Exported
<1>2. m # Builtin
  BY NamesAssumption
<1>3. state[m] = "Resolved"
  BY DEF Walk, AssertedResolved, Listed, TypeOK
<1>4. phase = "order" /\ stack # <<>> => m # Top
  <2> SUFFICES ASSUME phase = "order", stack # <<>> PROVE m # Top
    OBVIOUS
  <2>0. stack \in Seq(Names)
    BY DEF TypeOK
  <2>1. Top = stack[Len(stack)] /\ Len(stack) \in DOMAIN stack
    BY <2>0, PopProperties
  <2>2. state[Top] \in {"Resolving", "Error"}
    BY <2>1 DEF Walk, StateFollows
  <2> QED BY <1>3, <2>2
<1>5. OrderFoundResolved /\ m = Callee /\ d \in pending[m]
  <2>1. Declares(m, d) \/ (m = Top /\ (ImportAll \/ ImportCollides))
    BY <1>1, <1>2, ScopeChanges
  <2> QED BY <1>4, <2>1 DEF Declares, OrderDone, AtEnd, ImportNamed, ImportAll, ImportCollides, ImportReturns
<1>6. Refilled(m)
  BY <1>3, <1>5 DEF Refilled
<1> QED BY <1>5, <1>6 DEF RefilledAtRoot, OrderFoundResolved, clientVars, doneVars

Sees(n, m) == \A d \in Exported(m) : scope[n][d] = m

(* Of an active package that is not known to be wrong, every unnamed import *)
(* before the one it is at has been brought in whole.                      *)
PassedAreVisible ==
  phase = "order" => \A i \in DOMAIN stack : stack[i] \notin wrong => \A k \in Live(stack[i]) :
    k <= idx[stack[i]] /\ imp[stack[i]][k].as = NoName => Sees(stack[i], imp[stack[i]][k].path)

LEMMA BoundStaysBound ==
  ASSUME TypeOK, Walk, [Next]_vars, NEW n \in Names, NEW m \in Names, NEW d \in Idents, scope[n][d] = m
  PROVE  scope'[n][d] = m
BY ScopeChanges, NamesAssumption

LEMMA SeesStays ==
  ASSUME TypeOK, Walk, RefilledAtRoot, [Next]_vars, NEW n \in Names, NEW m \in Names,
         Listed(m), Sees(n, m), stack # <<>>
  PROVE  Sees(n, m)'
<1> SUFFICES ASSUME NEW d \in Exported(m)' PROVE scope'[n][d] = m
  BY DEF Sees
<1>1. d \in Exported(m) /\ d \in Idents
  BY ExportsGrow DEF Exported
<1> QED BY <1>1, BoundStaysBound DEF Sees

(* The unnamed imports brought in whole, as <<importing package, position>>. *)
VisibleImports ==
  {e \in Names \X Nat : imp[e[1]][e[2]].as = NoName =>
     /\ imp[e[1]][e[2]].path \in Names /\ Listed(imp[e[1]][e[2]].path)
     /\ Sees(e[1], imp[e[1]][e[2]].path)}

LEMMA PassedAreVisibleStep ==
  ASSUME FollowingInv, RefilledAtRoot, PassedAreVisible, [Next]_vars
  PROVE  PassedAreVisible'
<1> USE DEF FollowingInv, Following
<1>0. TypeOK'
  BY WalkStep
<1>1. CASE phase # "order"
  BY <1>1, OrderStarts DEF PassedAreVisible
<1>2. CASE phase = "order"
  <2>1. imp' = imp /\ discarded' = discarded /\ \A n : Live(n)' = Live(n)
    BY <1>2, OrderSteps DEF Live
  <2>a. PICK W : W = wrong
    OBVIOUS
  <2>b. PICK X : X = wrong'
    OBVIOUS
  <2>3. PICK Q : Q = IF stack = <<>> THEN {} ELSE VisibleImports
    OBVIOUS
  <2>4. PICK R : R = VisibleImports'
    OBVIOUS
  <2>5. Q \subseteq R
    <3> SUFFICES ASSUME stack # <<>>, NEW e \in VisibleImports PROVE e \in R
      BY <2>3
    <3>1. /\ e \in Names \X Nat /\ e[1] \in Names
          /\ imp[e[1]][e[2]].as = NoName =>
               /\ imp[e[1]][e[2]].path \in Names /\ Listed(imp[e[1]][e[2]].path)
               /\ Sees(e[1], imp[e[1]][e[2]].path)
      BY DEF VisibleImports
    <3>2. ASSUME NEW m \in Names, Listed(m), Sees(e[1], m)
          PROVE  Listed(m)' /\ Sees(e[1], m)'
      BY <3>1, <3>2, ListedGrows, SeesStays
    <3>3. PICK n : n = e[1]
      OBVIOUS
    <3>4. PICK m : m = imp[e[1]][e[2]].path
      OBVIOUS
    <3>5. imp[e[1]][e[2]].as = NoName => m \in Names /\ Listed(m)' /\ Sees(n, m)'
      BY <3>1, <3>2, <3>3, <3>4
    <3> QED BY <2>1, <2>4, <3>1, <3>3, <3>4, <3>5 DEF VisibleImports, Sees, Exported, Listed
  <2>6. ASSUME NEW n \in Names, NEW k \in Live(n), imp[n][k].as = NoName => Sees(n, imp[n][k].path),
               Listed(imp[n][k].path)
        PROVE  <<n, k>> \in VisibleImports
    <3>1. k \in Nat
      BY DEF Live, TypeOK
    <3>2. imp[n][k].path \in Names
      BY <2>6, ListedArePackages DEF Walk
    <3> QED BY <2>6, <3>1, <3>2 DEF VisibleImports
  <2>7. \A i \in DOMAIN stack : stack[i] \in Names
    BY DEF TypeOK
  <2>8. PassedIn(W, Q)
    <3> SUFFICES ASSUME NEW i \in DOMAIN stack, stack[i] \notin wrong,
                        NEW k \in Live(stack[i]), k <= idx[stack[i]]
                 PROVE  <<stack[i], k>> \in Q
      BY <2>a DEF PassedIn
    <3>1. stack # <<>>
      OBVIOUS
    <3>2. Listed(imp[stack[i]][k].path)
      BY <1>2 DEF Ordering, PassedAreListed
    <3>3. imp[stack[i]][k].as = NoName => Sees(stack[i], imp[stack[i]][k].path)
      BY <1>2 DEF PassedAreVisible
    <3> QED BY <2>3, <2>6, <2>7, <3>1, <3>2, <3>3
  <2>9. PassesInto(X, R)
    <3> SUFFICES ASSUME Passes, Top \notin wrong', idx[Top] + 1 \in Live(Top)
                 PROVE  <<Top, idx[Top] + 1>> \in R
      BY <2>b DEF PassesInto
    <3>1. Top \in Names /\ idx[Top] \in Nat /\ stack # <<>>
          /\ (ImportFailed \/ ImportCollides \/ ImportNamed \/ ImportAll)
      BY <1>2, PassesByImport DEF Passes
    <3>2. CASE ImportFailed \/ ImportCollides
      BY <3>2 DEF ImportFailed, ImportCollides
    <3>3. CASE ImportNamed
      <4>1. imp[Top][idx[Top] + 1].as # NoName
        BY <3>3 DEF ImportNamed
      <4>2. PICK n : n = Top
        OBVIOUS
      <4>3. PICK k : k = idx[Top] + 1
        OBVIOUS
      <4>4. n \in Names /\ k \in Nat /\ imp'[n][k].as # NoName
        BY <2>1, <3>1, <4>1, <4>2, <4>3
      <4>5. <<n, k>> \in VisibleImports'
        BY <4>4 DEF VisibleImports
      <4> QED BY <2>4, <4>2, <4>3, <4>5
    <3>4. CASE ImportAll
      <4>1. /\ ret \in Names /\ ret # "pending" /\ scope' = Bring(Top, ret, Exported(ret))
            /\ state' = state /\ ordered' = ordered
        BY <3>4, ReturnAssumption DEF ImportAll, Unnamed, doneVars
      <4>2. state[ret] = "Resolved" /\ ret = imp[Top][idx[Top] + 1].path
        BY <3>1, <4>1 DEF Walk, Result
      <4>3. PICK n : n = Top
        OBVIOUS
      <4>4. PICK k : k = idx[Top] + 1
        OBVIOUS
      <4>5. PICK m : m = ret
        OBVIOUS
      <4>6. m \in Names /\ n \in Names /\ k \in Nat /\ imp'[n][k].path = m
        BY <2>1, <3>1, <4>1, <4>2, <4>3, <4>4, <4>5
      <4>7. m # n
        <5>0. stack \in Seq(Names)
          BY DEF TypeOK
        <5>1. Top = stack[Len(stack)] /\ Len(stack) \in DOMAIN stack
          BY <3>1, <5>0, PopProperties
        <5>2. state[Top] \in {"Resolving", "Error"}
          BY <1>2, <5>1 DEF Walk, StateFollows
        <5> QED BY <4>2, <4>3, <4>5, <5>2
      <4>8. Listed(m)'
        <5>1. Listed(m)
          BY <4>2, <4>5, <4>6 DEF Walk, AssertedResolved, Listed
        <5> QED BY <4>1, <5>1 DEF Listed
      <4>9. Sees(n, m)'
        <5>1. scope' = [scope EXCEPT ![n] = [i \in Idents |-> IF i \in Exported(m) THEN m ELSE scope[n][i]]]
          BY <4>1, <4>3, <4>5 DEF Bring
        <5>2. scope'[m] = scope[m]
          BY <4>6, <4>7, <5>1 DEF TypeOK
        <5>3. \A d \in Idents : d \in Exported(m) => scope'[n][d] = m
          BY <4>6, <5>1 DEF TypeOK
        <5> QED BY <5>2, <5>3 DEF Sees, Exported
      <4>10. <<n, k>> \in VisibleImports'
        BY <4>6, <4>8, <4>9 DEF VisibleImports
      <4> QED BY <2>4, <4>3, <4>4, <4>10
    <3> QED BY <3>1, <3>2, <3>3, <3>4
  <2>10. \A i \in DOMAIN stack : stack[i] \in W => stack[i] \in X
    BY <1>2, <2>a, <2>b, WrongStays
  <2>11. PassedIn(X, R)'
    BY <1>2, <2>5, <2>8, <2>9, <2>10, PassedKeep
  <2>12. \A i \in DOMAIN stack' : stack'[i] \notin wrong' => \A k \in Live(stack'[i]) : k <= idx'[stack'[i]] => <<stack'[i], k>> \in R
    BY <2>1, <2>b, <2>11 DEF PassedIn
  <2>13. \A n, k, m : <<n, k>> \in R /\ imp'[n][k].as = NoName /\ m = imp'[n][k].path => Sees(n, m)'
    BY <2>4 DEF VisibleImports, Sees
  <2> SUFFICES ASSUME NEW i \in DOMAIN stack', stack'[i] \notin wrong', NEW n, n = stack'[i],
                      NEW k \in Live(n)', k <= idx'[n], imp'[n][k].as = NoName,
                      NEW m, m = imp'[n][k].path
               PROVE  Sees(n, m)'
    BY DEF PassedAreVisible, Sees
  <2>14. <<n, k>> \in R
    BY <2>1, <2>12
  <2> QED BY <2>13, <2>14
<1> QED BY <1>1, <1>2

(* A name gets a later time only when a file with it is generated.         *)
LEMMA LateChanges ==
  ASSUME TypeOK, [Next]_vars, NEW m \in Names, NEW d \in Idents
  PROVE  late' = late \/ late'[m][d] = Len(ordered) \/ late'[m][d] = late[m][d]
<1>1. CASE Generate
  <2>1. PICK file \in Generated : late' = [late EXCEPT ![root] =
           [x \in Idents |-> IF x \in file.decls THEN Len(ordered) ELSE late[root][x]]]
    BY <1>1 DEF Generate
  <2>2. root \in Names
    BY NamesAssumption DEF TypeOK
  <2> QED BY <2>1, <2>2 DEF TypeOK
<1>2. CASE ~Generate
  BY <1>2 DEF Next, Client, AddSingleFilePackage, Compile, Compiler, Parse,
     ParseMissing, ParseAgain, ParseUnlistable, ParseLeaf, ParseListed, ParseNew, ParsePush,
     ParseReturn, SkipImport, BuildIfPass, OrderFoundResolved, OrderDone,
     Order, OrderEnter, ImportNamed, ImportAll, ImportCollides,
     OrderLost, OrderFoundError, OrderCircular, OrderReturn, ImportFailed, OrderFail,
     Loops, ResolveIncompleteTypes, StartBodies, ResolveProcBodies, Finish, vars, clientVars
<1> QED BY <1>1, <1>2

LEMMA ImportsAreVisibleStep ==
  ASSUME FollowingInv, RefilledAtRoot, PassedAreVisible, ImportsAreVisible, [Next]_vars,
         \A g \in Generated : g.imports = <<>>
  PROVE  ImportsAreVisible'
<1> USE DEF FollowingInv, Following
<1>0. TypeOK'
  BY WalkStep
<1> SUFFICES ASSUME NEW i \in DOMAIN ordered', NEW n, n = ordered'[i], NEW k \in Live(n)',
                    NEW m, m = imp'[n][k].path, imp'[n][k].as = NoName, NEW d \in Offered(m, n)'
             PROVE  scope'[n][d] = m
  BY DEF ImportsAreVisible
<1>1. d \in Exported(m)' /\ i > late'[m][d]
  BY DEF Offered, Exported
<1>2. n \in Names /\ d \in Idents
  BY <1>0, <1>1 DEF TypeOK, Exported
<1>8. ordered \in Seq(Names) /\ late \in [Names -> [Idents -> Nat]]
  BY DEF TypeOK
<1>9. late' \in [Names -> [Idents -> Nat]]
  BY <1>0 DEF TypeOK
<1>10. Len(ordered) \in Nat /\ DOMAIN ordered = 1..Len(ordered)
  BY <1>8
<1>3. ASSUME Listed(n) PROVE imp'[n] = imp[n] /\ Live(n)' = Live(n)
  BY <1>2, <1>3, ListedArePackages, ImportsStay, DiscardedStep DEF Ordering, Walk
<1>4. CASE i \in DOMAIN ordered /\ ordered[i] = n
  <2>1. Listed(n) /\ imp'[n] = imp[n] /\ Live(n)' = Live(n)
    BY <1>3, <1>4 DEF Listed
  <2>2. m = imp[n][k].path /\ k \in Live(n) /\ imp[n][k].as = NoName
    BY <2>1
  <2>3. Listed(m)
    <3>1. PICK j \in 1..(i - 1) : ordered[j] = m
      BY <1>4, <2>2 DEF Ordering, DependenciesFirst
    <3>2. i \in 1..Len(ordered) /\ Len(ordered) \in Nat /\ DOMAIN ordered = 1..Len(ordered)
      BY <1>4, <1>10
    <3>3. j \in DOMAIN ordered
      BY <3>2
    <3> QED BY <3>1, <3>3 DEF Listed
  <2>4. m \in Names
    BY <2>3, ListedArePackages DEF Walk
  <2>5. i \in Nat /\ i <= Len(ordered) /\ Len(ordered) \in Nat /\ late[m][d] \in Nat /\ late'[m][d] \in Nat
    BY <1>2, <1>4, <1>8, <1>9, <1>10, <2>4
  <2>6. late' = late \/ late'[m][d] = Len(ordered) \/ late'[m][d] = late[m][d]
    BY <1>2, <2>4, LateChanges
  <2>7. i > late[m][d]
    BY <1>1, <2>5, <2>6
  <2>8. d \in Exported(m)
    <3>1. d \notin Exported(m) => late[m][d] = Len(ordered)
      BY <1>1, <2>3, <2>4, ExportsGrow
    <3> QED BY <2>5, <2>7, <3>1
  <2>9. scope[n][d] = m
    <3>1. \A x \in DOMAIN ordered : ordered[x] = n => x = i
      BY <1>4 DEF Walk, AssertedResolved
    <3>2. d \in Offered(m, n)
      BY <2>7, <2>8, <3>1 DEF Offered
    <3> QED BY <1>4, <2>2, <3>2 DEF ImportsAreVisible
  <2> QED BY <1>2, <2>4, <2>9, BoundStaysBound
<1>5. CASE OrderDone /\ n = Top
  <2>1. /\ phase = "order" /\ stack # <<>> /\ Top \notin wrong /\ idx[Top] = Len(imp[Top])
        /\ imp' = imp /\ discarded' = discarded
    BY <1>5 DEF OrderDone, AtEnd
  <2>0. stack \in Seq(Names)
    BY DEF TypeOK
  <2>2. Len(stack) \in DOMAIN stack /\ Top = stack[Len(stack)]
    BY <2>0, <2>1, PopProperties
  <2>3. Live(n)' = Live(n) /\ m = imp[n][k].path /\ imp[n][k].as = NoName
    BY <2>1 DEF Live
  <2>4. k <= idx[n]
    BY <1>2, <1>5, <2>1, <2>3 DEF Live, TypeOK
  <2>5. Listed(m)
    BY <1>5, <2>1, <2>2, <2>3, <2>4 DEF Ordering, PassedAreListed
  <2>6. Sees(n, m)
    BY <1>5, <2>1, <2>2, <2>3, <2>4 DEF PassedAreVisible
  <2>7. m \in Names
    BY <2>5, ListedArePackages DEF Walk
  <2>8. d \in Exported(m)
    BY <1>1, <2>1, <2>5, <2>7, ExportsGrow
  <2> QED BY <1>2, <2>6, <2>7, <2>8, BoundStaysBound DEF Sees
<1>6. CASE ordered' = ordered
  BY <1>4, <1>6
<1>7. CASE OrderDone /\ Top \in Names /\ ordered' = Append(ordered, Top)
  <2>1. ordered \in Seq(Names)
    BY DEF TypeOK
  <2>2. \/ i \in DOMAIN ordered /\ ordered'[i] = ordered[i]
        \/ ordered'[i] = Top
    BY <1>7, <2>1
  <2> QED BY <1>4, <1>5, <1>7, <2>2
<1> QED BY <1>6, <1>7, OrderedGrows

(* All that is kept about the scopes.                                      *)
ScopeInv ==
  /\ FollowingInv /\ BoundAreParsed /\ ScopeIsDirect
  /\ RefilledAtRoot /\ PassedAreVisible /\ ImportsAreVisible

LEMMA ScopeHolds ==
  ASSUME \A g \in Generated : g.imports = <<>>
  PROVE  (Init => ScopeInv) /\ (ScopeInv /\ [Next]_vars => ScopeInv')
<1> USE DEF ScopeInv
<1>1. Init => ScopeInv
  <2> SUFFICES ASSUME Init PROVE ScopeInv
    OBVIOUS
  <2>1. /\ DOMAIN ordered = {} /\ phase = "idle" /\ \A n \in Names : state[n] = "Unresolved"
        /\ \A n \in Names : \A i \in Idents : scope[n][i] = NoName
    BY DEF Init
  <2> QED BY <2>1, FollowingHolds
       DEF BoundAreParsed, Blank, ScopeIsDirect, RefilledAtRoot, Refilled, PassedAreVisible, ImportsAreVisible
<1>2. ScopeInv /\ [Next]_vars => ScopeInv'
  <2> SUFFICES ASSUME ScopeInv, [Next]_vars PROVE ScopeInv'
    OBVIOUS
  <2>1. TypeOK /\ Walk /\ Ordering /\ AtImport
    BY DEF FollowingInv, Following
  <2>2. FollowingInv'
    BY FollowingHolds
  <2>3. BoundAreParsed' /\ ScopeIsDirect' /\ RefilledAtRoot'
    BY <2>1, BoundAreParsedStep, ScopeIsDirectStep, RefilledStep
  <2>4. PassedAreVisible' /\ ImportsAreVisible'
    BY PassedAreVisibleStep, ImportsAreVisibleStep
  <2> QED BY <2>2, <2>3, <2>4
<1> QED BY <1>1, <1>2

(* LC_ImportPackage brings in what its argument owns and nothing else, and *)
(* into a package that resolves all of it, in every compilation: what a    *)
(* package sees of another is what its own files import, up to the         *)
(* declarations that a file generated later adds.                          *)
THEOREM ScopesAreExact ==
  ASSUME \A g \in Generated : g.imports = <<>>
  PROVE  Spec => []ScopeIsExact
<1>1. ScopeInv => ScopeIsExact
  BY DEF ScopeInv, ScopeIsExact
<1> QED BY <1>1, ScopeHolds, PTL DEF Spec
-----------------------------------------------------------------------------
(* The outcome of a compilation.  What a package reaches is the least set  *)
(* that holds it and what is imported from the set.                        *)
LEMMA ReachHas ==
  ASSUME NEW S, S \subseteq Names PROVE S \subseteq ReachOf(S)
BY DEF ReachOf

LEMMA ReachClosed ==
  ASSUME NEW S, NEW n \in ReachOf(S), NEW m \in ImportsOf({n})
  PROVE  m \in ReachOf(S)
<1> SUFFICES ASSUME NEW T \in SUBSET Names, S \cup ImportsOf(T) \subseteq T PROVE m \in T
  BY DEF ReachOf, ImportsOf
<1>1. n \in T
  BY DEF ReachOf
<1>2. m \in ImportsOf(T)
  BY <1>1 DEF ImportsOf
<1> QED BY <1>2

LEMMA ReachThrough ==
  ASSUME NEW S, NEW n \in ReachOf(S) PROVE ReachOf({n}) \subseteq ReachOf(S)
<1> SUFFICES ASSUME NEW p \in ReachOf({n}), NEW T \in SUBSET Names, S \cup ImportsOf(T) \subseteq T
             PROVE  p \in T
  BY DEF ReachOf
<1>1. {n} \cup ImportsOf(T) \subseteq T
  BY DEF ReachOf
<1> QED BY <1>1 DEF ReachOf

LEMMA ReachLeast ==
  ASSUME NEW S, NEW T, T \subseteq Names, S \subseteq T, ImportsOf(T) \subseteq T
  PROVE  ReachOf(S) \subseteq T
BY DEF ReachOf

LEMMA ImportIsReached ==
  ASSUME NEW n \in Names, NEW k \in Live(n), imp[n][k].path \in Names
  PROVE  imp[n][k].path \in ImportsOf({n}) /\ imp[n][k].path \in ReachOf({n})
<1>1. imp[n][k].path \in ImportsOf({n})
  BY DEF ImportsOf
<1>2. n \in ReachOf({n})
  BY ReachHas
<1> QED BY <1>1, <1>2, ReachClosed

(* After parsing the graph of imports does not change.                     *)
LEMMA GraphStays ==
  ASSUME TypeOK, Walk, [Next]_vars, phase \in {"order", "types"}, \A g \in Generated : g.imports = <<>>
  PROVE  /\ imp' = imp /\ discarded' = discarded
         /\ \A n : Live(n)' = Live(n)
         /\ \A S : ReachOf(S)' = ReachOf(S) /\ ImportsOf(S)' = ImportsOf(S)
<1>1. imp' = imp
  BY ImportLists DEF Parses
<1>2. discarded' = discarded
  <2>1. CASE phase = "order"
    BY <2>1, OrderSteps
  <2>2. CASE phase = "types"
    BY <2>2 DEF Next, Client, AddSingleFilePackage, Compile, Generate, Compiler, Parse, ParseMissing,
       ParseAgain, ParseUnlistable, ParseLeaf, ParseCall, ParseListed, ParseNew, ParsePush,
       ParseReturn, SkipImport, BuildIfPass, Order,
       OrderLost, OrderFoundError, OrderFoundResolved, OrderCircular, OrderEnter, OrderReturn,
       OrderCall, ImportReturns, AtEnd, Visit,
       ImportFailed, ImportNamed, ImportAll, ImportCollides, OrderFail, OrderDone,
       Loops, ResolveIncompleteTypes, StartBodies, ResolveProcBodies, Finish, vars, graphVars
  <2> QED BY <2>1, <2>2
<1>3. \A n : Live(n)' = Live(n)
  BY <1>1, <1>2 DEF Live
<1>4. \A S : ImportsOf(S)' = ImportsOf(S)
  BY <1>1, <1>3 DEF ImportsOf
<1>5. \A S : ReachOf(S)' = ReachOf(S)
  BY <1>1, <1>3 DEF ReachOf, ImportsOf
<1> QED BY <1>1, <1>2, <1>3, <1>4, <1>5

(* A name is declared in the order pass at most as long as what is there.  *)
LateBound == \A n \in Names, d \in Idents : late[n][d] <= Len(ordered)

LEMMA LateBoundStep ==
  ASSUME TypeOK, LateBound, [Next]_vars
  PROVE  LateBound'
<1> SUFFICES ASSUME NEW n \in Names, NEW d \in Idents PROVE late'[n][d] <= Len(ordered')
  BY DEF LateBound
<1>1. late \in [Names -> [Idents -> Nat]] /\ ordered \in Seq(Names)
  BY DEF TypeOK
<1>2. Len(ordered) \in Nat /\ late[n][d] \in Nat /\ late[n][d] <= Len(ordered)
  BY <1>1 DEF LateBound
<1>3. Len(ordered') = Len(ordered) \/ Len(ordered') = Len(ordered) + 1
  BY <1>1, OrderedGrows
<1>4. late'[n][d] = late[n][d] \/ late'[n][d] = Len(ordered)
  BY LateChanges
<1> QED BY <1>2, <1>3, <1>4

(* Whose call is active was active before, unless it has just been entered. *)
LEMMA ActiveSince ==
  ASSUME TypeOK, Walk, [Next]_vars, phase = "order", NEW i \in DOMAIN stack'
  PROVE  \/ OrderEnter /\ stack'[i] = Callee
         \/ /\ \E x \in DOMAIN stack : stack[x] = stack'[i]
            /\ idx[stack'[i]] <= idx'[stack'[i]]
<1>1. stack \in Seq(Names) /\ idx \in [Names -> Nat] /\ \A x \in DOMAIN stack : stack[x] \in Names
  BY DEF TypeOK
<1>2. CASE Rests
  BY <1>1, <1>2 DEF Rests
<1>3. CASE Passes
  <2>1. Top \in Names
    BY <1>1, <1>3, PopProperties DEF Passes
  <2>2. stack' = stack /\ idx' = [idx EXCEPT ![Top] = @ + 1]
    BY <1>3 DEF Passes, Advance
  <2> QED BY <1>1, <2>1, <2>2
<1>4. CASE Enters
  <2>1. DOMAIN stack' = DOMAIN stack \cup {Len(stack) + 1} /\ stack'[Len(stack) + 1] = Callee
        /\ \A x \in DOMAIN stack : stack'[x] = stack[x]
    BY <1>1, <1>4 DEF Enters
  <2>2. OrderEnter
    <3>1. stack' # stack
      <4>1. Len(stack') = Len(stack) + 1 /\ Len(stack) \in Nat
        BY <1>1, <1>4 DEF Enters
      <4> QED BY <4>1
    <3> QED BY <1>4, <3>1, Takes
  <2>3. CASE i \in DOMAIN stack
    <3>1. stack[i] # Callee /\ stack'[i] = stack[i] /\ stack[i] \in Names
      BY <1>1, <1>4, <2>1, <2>3 DEF Enters
    <3>2. idx'[stack[i]] = idx[stack[i]]
      BY <1>1, <1>4, <3>1 DEF Enters
    <3> QED BY <1>1, <2>3, <3>1, <3>2
  <2> QED BY <2>1, <2>2, <2>3
<1>5. CASE Leaves
  <2>1. i \in DOMAIN stack /\ stack'[i] = stack[i]
    <3>1. /\ Len(stack) \in Nat /\ DOMAIN stack = 1..Len(stack) /\ DOMAIN stack' = 1..(Len(stack) - 1)
          /\ \A j \in 1..(Len(stack) - 1) : stack'[j] = stack[j]
      BY <1>1, <1>5, PopPositions DEF Leaves
    <3> QED BY <3>1
  <2> QED BY <1>1, <1>5, <2>1 DEF Leaves
<1> QED BY <1>2, <1>3, <1>4, <1>5, OrderSteps

(* How the state of a package changes.                                     *)
LEMMA StateChanges ==
  ASSUME TypeOK, Walk, [Next]_vars, NEW n \in Names, state'[n] # state[n]
  PROVE  \/ OrderEnter /\ n = Callee /\ state[n] = "Unresolved" /\ state'[n] = "Resolving"
         \/ OrderDone /\ n = Top /\ state'[n] = "Resolved"
         \/ state'[n] = "Error" /\ phase = "parse" /\ phase' = "parse"
         \/ state'[n] = "Error" /\ n = Callee /\ OrderCircular
         \/ state'[n] = "Error" /\ n = Top /\ (ImportFailed \/ ImportCollides)
<1> USE DEF vars, graphVars, walkVars, regVars, doneVars, clientVars
<1>1. state \in [Names -> {"Unresolved", "Resolving", "Resolved", "Error"}]
  BY DEF TypeOK
<1>2. ASSUME NEW m, NEW s, state' = [state EXCEPT ![m] = s] PROVE n = m /\ state'[n] = s
  BY <1>1, <1>2
<1>3. CASE OrderEnter
  BY <1>2, <1>3 DEF OrderEnter
<1>4. CASE OrderDone
  BY <1>2, <1>4 DEF OrderDone
<1>5. CASE OrderCircular
  BY <1>2, <1>5 DEF OrderCircular
<1>6. CASE ImportFailed \/ ImportCollides
  BY <1>2, <1>6 DEF ImportFailed, ImportCollides
<1>7. CASE Parse
  <2>1. ASSUME NEW m, NEW path, NEW b, ParsePackage(m, path, b) PROVE state'[n] = "Error"
    <3>1. state' = state \/ state' = [state EXCEPT ![m] = "Error"]
      BY <2>1 DEF ParsePackage
    <3> QED BY <1>2, <3>1
  <2>2. CASE ParseListed \/ ParseNew
    <3>1. phase = "parse" /\ phase' = "parse"
      BY <2>2 DEF ParseListed, ParseNew, ParsePush, ParseCall
    <3> QED BY <2>1, <2>2, <3>1 DEF ParseListed, ParseNew
  <2>3. CASE ParseMissing \/ ParseAgain \/ ParseUnlistable \/ ParseReturn
    BY <2>3 DEF ParseMissing, ParseAgain, ParseUnlistable, ParseReturn, ParseLeaf
  <2> QED BY <1>7, <2>2, <2>3 DEF Parse
<1>8. CASE Client \/ SkipImport \/ BuildIfPass \/ Loops \/ UNCHANGED vars
           \/ OrderLost \/ OrderFoundError \/ OrderFoundResolved \/ OrderReturn
           \/ ImportNamed \/ ImportAll \/ OrderFail
  BY <1>8 DEF Client, AddSingleFilePackage, Compile, Generate, SkipImport, BuildIfPass, Loops,
       ResolveIncompleteTypes, StartBodies, ResolveProcBodies, Finish, OrderLost, OrderFoundError,
       OrderFoundResolved, OrderReturn, ImportNamed, ImportAll, OrderFail
<1> QED BY <1>3, <1>4, <1>5, <1>6, <1>7, <1>8 DEF Next, Compiler, Order

(* The topmost package has no final verdict, whatever is known of it.      *)
LEMMA TopIsActive ==
  ASSUME TypeOK, Walk, phase = "order", stack # <<>>
  PROVE  /\ Top \in Names /\ Top = stack[Len(stack)] /\ Len(stack) \in DOMAIN stack
         /\ state[Top] \in {"Resolving", "Error"}
<1>1. stack \in Seq(Names)
  BY DEF TypeOK
<1>2. Top \in Names /\ Top = stack[Len(stack)] /\ Len(stack) \in DOMAIN stack
  BY <1>1, PopProperties
<1> QED BY <1>2 DEF Walk, StateFollows

(* The names of the builtin package are in every scope before all others,  *)
(* and nothing is in the scope of a package that was not entered.          *)
Builtins ==
  \A n \in Names : \A d \in Idents :
    /\ scope[n][d] = Builtin => d \in BuiltinIdents
    /\ d \in BuiltinIdents /\ state[n] \in {"Resolving", "Resolved"} => scope[n][d] = Builtin
    /\ state[n] = "Unresolved" => scope[n][d] = NoName

(* Only on entry does a package get names of the builtin package.          *)
LEMMA BuiltinEnters ==
  ASSUME TypeOK, Walk, [Next]_vars, NEW n \in Names, NEW d \in Idents,
         scope'[n][d] = Builtin, scope[n][d] # Builtin
  PROVE  OrderEnter /\ d \in BuiltinIdents
<1>1. scope[n][d] = NoName /\ phase = "order"
  BY ScopeChanges
<1>2. /\ ~(scope'[n][d] = n)
      /\ ~(scope'[n][d] = ret /\ (ImportAll \/ ImportCollides))
  BY NamesAssumption DEF ImportAll, ImportCollides, Unnamed
<1>3. scope \in [Names -> [Idents -> Names \cup {NoName, Builtin}]] /\ Builtin \notin Names
  BY NamesAssumption DEF TypeOK
<1>4. CASE OrderEnter
  <2>1. scope' = [scope EXCEPT ![Callee] =
                 [i \in Idents |-> IF i \in BuiltinIdents /\ @[i] = NoName THEN Builtin ELSE @[i]]]
    BY <1>4 DEF OrderEnter
  <2> QED BY <1>3, <1>4, <2>1
<1>5. CASE OrderFoundResolved \/ OrderDone
  <2>1. ASSUME NEW m \in Names, PackageDecls(m) PROVE FALSE
    <3>1. PICK P : scope' = [scope EXCEPT ![m] = [i \in Idents |-> IF i \in P THEN m ELSE @[i]]]
      BY <2>1 DEF PackageDecls
    <3> QED BY <1>3, <2>1, <3>1
  <2>2. OrderFoundResolved => Callee \in Names
    BY DEF OrderFoundResolved, TypeOK
  <2>3. OrderDone => Top \in Names
    BY TopIsActive DEF OrderDone, AtEnd
  <2> QED BY <1>5, <2>1, <2>2, <2>3 DEF OrderFoundResolved, OrderDone
<1>6. CASE ImportNamed
  <2>1. Top \in Names
    BY <1>1, <1>6, TopIsActive DEF ImportNamed, ImportReturns
  <2>2. scope' = scope \/ scope' = [scope EXCEPT ![Top][imp[Top][idx[Top] + 1].as] = Top]
    BY <1>6 DEF ImportNamed
  <2> QED BY <1>3, <2>1, <2>2
<1>7. CASE ImportAll \/ ImportCollides
  <2>1. Top \in Names /\ ret \in Names
    BY <1>1, <1>7, TopIsActive DEF ImportAll, ImportCollides, ImportReturns, Unnamed
  <2>2. PICK P : scope' = Bring(Top, ret, P)
    BY <1>7 DEF ImportAll, ImportCollides
  <2> QED BY <1>3, <2>1, <2>2 DEF Bring
<1>8. CASE Client \/ Parse \/ SkipImport \/ BuildIfPass \/ Loops \/ UNCHANGED vars
           \/ OrderLost \/ OrderFoundError \/ OrderCircular \/ OrderReturn \/ ImportFailed \/ OrderFail
  <2>1. scope' = scope
    BY <1>1, <1>8 DEF Client, AddSingleFilePackage, Compile, Generate, Parse, ParseMissing, ParseAgain,
       ParseUnlistable, ParseCall, ParseListed, ParseNew, ParseReturn, SkipImport, BuildIfPass, Loops,
       ResolveIncompleteTypes, StartBodies, ResolveProcBodies, Finish, OrderLost, OrderFoundError,
       OrderCircular, OrderReturn, ImportFailed, OrderFail, vars, graphVars
  <2> QED BY <2>1
<1> QED BY <1>4, <1>5, <1>6, <1>7, <1>8 DEF Next, Compiler, Order

LEMMA BuiltinsStep ==
  ASSUME TypeOK, Walk, BlameIsPassedOn, Builtins, [Next]_vars
  PROVE  Builtins'
<1>0. TypeOK'
  BY WalkStep
<1> SUFFICES ASSUME NEW n \in Names, NEW d \in Idents
             PROVE  /\ scope'[n][d] = Builtin => d \in BuiltinIdents
                    /\ d \in BuiltinIdents /\ state'[n] \in {"Resolving", "Resolved"} => scope'[n][d] = Builtin
                    /\ state'[n] = "Unresolved" => scope'[n][d] = NoName
  BY DEF Builtins
<1>1. scope'[n][d] = Builtin => d \in BuiltinIdents
  BY BuiltinEnters DEF Builtins
<1>2. ASSUME d \in BuiltinIdents, state'[n] \in {"Resolving", "Resolved"} PROVE scope'[n][d] = Builtin
  <2>1. CASE OrderEnter /\ n = Callee /\ state[n] = "Unresolved"
    <3>1. scope' = [scope EXCEPT ![n] =
                 [i \in Idents |-> IF i \in BuiltinIdents /\ @[i] = NoName THEN Builtin ELSE @[i]]]
      BY <2>1 DEF OrderEnter
    <3>2. scope[n][d] = NoName
      BY <2>1 DEF Builtins
    <3> QED BY <1>2, <3>1, <3>2 DEF TypeOK
  <2>2. CASE state[n] \in {"Resolving", "Resolved"}
    <3>1. scope[n][d] = Builtin /\ Builtin # NoName
      BY <1>2, <2>2, NamesAssumption DEF Builtins
    <3> QED BY <3>1, ScopeChanges
  <2>3. CASE state'[n] # state[n] /\ ~(OrderEnter /\ n = Callee /\ state[n] = "Unresolved")
    <3>1. OrderDone /\ n = Top
      BY <1>2, <2>3, StateChanges
    <3>2. state[n] \in {"Resolving", "Error"}
      BY <3>1, TopIsActive DEF OrderDone, AtEnd
    <3>3. state[n] # "Error"
      BY <2>3, VerdictStep DEF VerdictsKept
    <3> QED BY <2>2, <3>2, <3>3
  <2> QED BY <1>2, <2>1, <2>2, <2>3
<1>3. ASSUME state'[n] = "Unresolved" PROVE scope'[n][d] = NoName
  <2>1. state[n] = "Unresolved"
    BY <1>3, StateChanges
  <2>2. scope[n][d] = NoName
    BY <2>1 DEF Builtins
  <2>3. CASE scope'[n][d] # scope[n][d]
    <3>1. phase = "order" /\ (stack # <<>> => n # Top)
      BY <2>1, <2>3, ScopeChanges, TopIsActive
    <3>2. ~(n = Top /\ (ImportAll \/ ImportCollides))
      BY <3>1 DEF ImportAll, ImportCollides, ImportReturns
    <3>3. scope'[n][d] # n
      <4> SUFFICES ASSUME Declares(n, d) PROVE FALSE
        BY <2>2, <2>3, <3>2, ScopeChanges, NamesAssumption
      <4> QED BY <2>1, <3>1 DEF Declares, OrderFoundResolved, OrderDone, AtEnd, ImportNamed, ImportReturns
    <3>4. scope'[n][d] = Builtin
      BY <2>3, <3>2, <3>3, ScopeChanges
    <3>5. OrderEnter /\ scope[n][d] # Builtin
      BY <2>2, <3>4, BuiltinEnters, NamesAssumption
    <3>6. scope' = [scope EXCEPT ![Callee] =
                 [i \in Idents |-> IF i \in BuiltinIdents /\ @[i] = NoName THEN Builtin ELSE @[i]]]
          /\ state' = [state EXCEPT ![Callee] = "Resolving"]
      BY <3>5 DEF OrderEnter
    <3>7. n = Callee
      BY <2>3, <3>6 DEF TypeOK
    <3> QED BY <1>3, <3>6, <3>7 DEF TypeOK
  <2> QED BY <2>2, <2>3
<1> QED BY <1>1, <1>2, <1>3

(* Where a name in the scope of an active package comes from: it is a      *)
(* builtin, the namespace of an import, or a name that an import without   *)
(* a name brought.                                                         *)
FromImport(n, d, j) ==
  \/ imp[n][j].as = d /\ scope[n][d] = n
  \/ imp[n][j].as = NoName /\ scope[n][d] = imp[n][j].path /\ d \in Exported(imp[n][j].path)

Origin(n, d) ==
  \/ scope[n][d] \in {NoName, Builtin}
  \/ \E j \in Live(n) : j <= idx[n] /\ FromImport(n, d, j)

BoundByPassed == phase = "order" => \A i \in DOMAIN stack : \A d \in Idents : Origin(stack[i], d)

LEMMA BoundByPassedStep ==
  ASSUME ScopeInv, Builtins, BoundByPassed, [Next]_vars
  PROVE  BoundByPassed'
<1>0. TypeOK /\ Walk /\ AtImport /\ TypeOK' /\ Walk'
  BY WalkStep DEF ScopeInv, FollowingInv, Following
<1>1. CASE phase # "order"
  BY <1>0, <1>1, OrderStarts DEF BoundByPassed
<1>2. CASE phase = "order"
  <2>1. imp' = imp /\ \A n : Live(n)' = Live(n)
    BY <1>0, <1>2, OrderSteps DEF Live
  <2>2. SUFFICES ASSUME phase' = "order", NEW i \in DOMAIN stack', NEW n, n = stack'[i], NEW d \in Idents,
                        scope'[n][d] \notin {NoName, Builtin}
                 PROVE  \E j \in Live(n) : j <= idx'[n] /\ FromImport(n, d, j)'
    BY <2>1 DEF BoundByPassed, Origin, FromImport, Exported
  <2>3. n \in Names /\ state'[n] \in {"Resolving", "Error"} /\ scope'[n][d] \in Names
    <3>1. n \in Names
      BY <1>0, <2>2 DEF TypeOK
    <3>2. scope'[n][d] \in Names \cup {NoName, Builtin}
      BY <1>0, <3>1 DEF TypeOK
    <3> QED BY <1>0, <2>2, <3>1, <3>2 DEF Walk, StateFollows
  <2>4. CASE OrderEnter /\ n = Callee
    <3>1. /\ state[n] = "Unresolved"
          /\ scope' = [scope EXCEPT ![n] =
                 [x \in Idents |-> IF x \in BuiltinIdents /\ @[x] = NoName THEN Builtin ELSE @[x]]]
      BY <2>4 DEF OrderEnter
    <3>2. scope[n][d] = NoName
      BY <2>3, <3>1 DEF Builtins
    <3>3. scope'[n][d] \in {NoName, Builtin}
      BY <1>0, <2>3, <3>1, <3>2 DEF TypeOK
    <3> QED BY <2>2, <3>3
  <2>5. CASE (\E x \in DOMAIN stack : stack[x] = n) /\ idx[n] <= idx'[n]
    <3>1. PICK x \in DOMAIN stack : stack[x] = n
      BY <2>5
    <3>2. idx[n] \in Nat /\ idx'[n] \in Nat /\ \A j \in Live(n) : j \in Nat
      <4>1. imp[n] \in Seq(Import)
        BY <1>0, <2>3 DEF TypeOK
      <4>2. idx[n] \in Nat /\ idx'[n] \in Nat
        BY <1>0, <2>3 DEF TypeOK
      <4> QED BY <4>1, <4>2 DEF Live
    <3>3. CASE scope'[n][d] = scope[n][d]
      <4>1. PICK j \in Live(n) : j <= idx[n] /\ FromImport(n, d, j)
        BY <1>2, <2>2, <3>1, <3>3 DEF BoundByPassed, Origin
      <4>2. j <= idx'[n]
        BY <2>5, <3>2, <4>1
      <4>3. CASE imp[n][j].as = d /\ scope[n][d] = n
        BY <2>1, <3>3, <4>2, <4>3 DEF FromImport
      <4>4. CASE imp[n][j].as = NoName /\ scope[n][d] = imp[n][j].path /\ d \in Exported(imp[n][j].path)
        <5>1. PICK m : m = imp[n][j].path
          OBVIOUS
        <5>2. m \in Names /\ scope[m][d] = m
          BY <2>3, <3>3, <4>4, <5>1 DEF Exported
        <5>3. scope'[m][d] = m
          BY <1>0, <5>2, BoundStaysBound
        <5>4. scope'[n][d] = m /\ imp'[n][j].path = m /\ imp'[n][j].as = NoName
          BY <2>1, <3>3, <4>4, <5>1
        <5>5. FromImport(n, d, j)'
          BY <5>3, <5>4 DEF FromImport, Exported
        <5> QED BY <4>2, <5>5
      <4> QED BY <4>1, <4>3, <4>4 DEF FromImport
    <3>4. CASE scope'[n][d] # scope[n][d]
      <4>1. ~(OrderFoundResolved /\ n = Callee)
        BY <1>0, <1>2, <3>1 DEF Walk, StateFollows, OrderFoundResolved
      <4>2. ~(OrderDone /\ n = Top)
        BY <1>0, <2>3 DEF OrderDone, TypeOK
      <4>3. /\ n = Top
            /\ \/ ImportNamed /\ scope'[n][d] = n
               \/ (ImportAll \/ ImportCollides) /\ scope'[n][d] = ret /\ d \in Exported(ret)
        <5>1. \/ scope'[n][d] = n /\ Declares(n, d)
              \/ scope'[n][d] = ret /\ n = Top /\ (ImportAll \/ ImportCollides) /\ d \in Exported(ret)
          BY <1>0, <2>2, <2>3, <3>4, ScopeChanges
        <5> QED BY <4>1, <4>2, <5>1 DEF Declares
      <4>4. stack # <<>> /\ ret # "pending" /\ idx' = Advance
        BY <4>3 DEF ImportNamed, ImportAll, ImportCollides, ImportReturns
      <4>5. idx[n] + 1 \in Live(n) /\ idx'[n] = idx[n] + 1
        BY <1>0, <1>2, <2>3, <4>3, <4>4 DEF AtImport, Advance, TypeOK
      <4>6. CASE ImportNamed /\ scope'[n][d] = n
        <5>1. imp[n][idx[n] + 1].as = d
          <6>1. PICK as : as = imp[n][idx[n] + 1].as
            OBVIOUS
          <6>2. scope' = scope \/ scope' = [scope EXCEPT ![n][as] = n]
            BY <4>3, <4>6, <6>1 DEF ImportNamed
          <6>3. scope \in [Names -> [Idents -> Names \cup {NoName, Builtin}]]
            BY <1>0 DEF TypeOK
          <6> QED BY <2>3, <3>4, <6>1, <6>2, <6>3
        <5> QED BY <2>1, <3>2, <4>5, <4>6, <5>1 DEF FromImport
      <4>7. CASE (ImportAll \/ ImportCollides) /\ scope'[n][d] = ret /\ d \in Exported(ret)
        <5>1. ret \in Names /\ imp[n][idx[n] + 1].as = NoName
          BY <4>3, <4>7 DEF ImportAll, ImportCollides, Unnamed
        <5>2. ret = imp[n][idx[n] + 1].path
          BY <1>0, <4>3, <4>4, <5>1 DEF Walk, Result
        <5>3. PICK m : m = ret
          OBVIOUS
        <5>4. PICK j : j = idx[n] + 1
          OBVIOUS
        <5>5. scope'[m][d] = m
          BY <1>0, <4>7, <5>1, <5>3, BoundStaysBound DEF Exported
        <5>6. FromImport(n, d, j)'
          BY <2>1, <4>7, <5>1, <5>2, <5>3, <5>4, <5>5 DEF FromImport, Exported
        <5> QED BY <3>2, <4>5, <5>4, <5>6
      <4> QED BY <4>3, <4>6, <4>7
    <3> QED BY <3>3, <3>4
  <2> QED BY <1>0, <1>2, <2>2, <2>4, <2>5, ActiveSince
<1> QED BY <1>1, <1>2

(* The namespace of an import is not a name that a later import brought.   *)
NameKept(n, j) ==
  imp[n][j].as # NoName =>
    /\ scope[n][imp[n][j].as] # NoName
    /\ \A k \in Live(n) : k > j /\ imp[n][k].path # n /\ imp[n][k].path \in Names =>
         scope[n][imp[n][j].as] # imp[n][k].path

PassedKeepNames ==
  phase = "order" => \A i \in DOMAIN stack : stack[i] \notin wrong =>
    \A j \in Live(stack[i]) : j <= idx[stack[i]] => NameKept(stack[i], j)

ListedKeepNames == \A n \in Names : Listed(n) => \A j \in Live(n) : NameKept(n, j)

LEMMA NameKeptStays ==
  ASSUME TypeOK, Walk, [Next]_vars, NEW n \in Names, imp'[n] = imp[n], Live(n)' = Live(n),
         NEW j \in Live(n), NameKept(n, j)
  PROVE  NameKept(n, j)'
<1> SUFFICES ASSUME imp[n][j].as # NoName PROVE NameKept(n, j)'
  BY DEF NameKept
<1>1. imp[n][j].as \in Idents
  <2>1. imp[n] \in Seq(Import) /\ j \in DOMAIN imp[n]
    BY DEF TypeOK, Live
  <2>2. imp[n][j] \in Import
    BY <2>1
  <2> QED BY <2>2 DEF Import
<1>2. PICK as \in Idents : as = imp[n][j].as
  BY <1>1
<1>3. scope[n][as] # NoName
  BY <1>2 DEF NameKept
<1>4. scope'[n][as] = scope[n][as]
  BY <1>3, ScopeChanges
<1> QED BY <1>2, <1>4 DEF NameKept

(* The imports that keep their name, as <<importing package, position>>.   *)
KeptImports == {e \in Names \X Nat : e[2] \in Live(e[1]) /\ NameKept(e[1], e[2])}

LEMMA PassedKeepNamesStep ==
  ASSUME ScopeInv, BoundByPassed, PassedKeepNames, [Next]_vars
  PROVE  PassedKeepNames'
<1>0. TypeOK /\ Walk /\ AtImport /\ NoRepeats /\ TypeOK'
  BY WalkStep DEF ScopeInv, FollowingInv, Following
<1>1. CASE phase # "order"
  BY <1>0, <1>1, OrderStarts DEF PassedKeepNames
<1>2. CASE phase = "order"
  <2>1. imp' = imp /\ \A n : Live(n)' = Live(n)
    BY <1>0, <1>2, OrderSteps DEF Live
  <2>2. PICK Q : Q = KeptImports
    OBVIOUS
  <2>3. PICK R : R = KeptImports'
    OBVIOUS
  <2>4. Q \subseteq R
    <3> SUFFICES ASSUME NEW n \in Names, NEW j \in Nat, j \in Live(n), NameKept(n, j)
                 PROVE  NameKept(n, j)'
      BY <2>1, <2>2, <2>3 DEF KeptImports, NameKept
    <3> QED BY <1>0, <2>1, NameKeptStays
  <2>5. \A n \in Names : \A j \in Live(n) : j \in Nat
    <3> SUFFICES ASSUME NEW n \in Names, NEW j \in Live(n) PROVE j \in Nat
      OBVIOUS
    <3>1. imp[n] \in Seq(Import)
      BY <1>0 DEF TypeOK
    <3> QED BY <3>1 DEF Live
  <2>6. PICK W : W = wrong
    OBVIOUS
  <2>7. PICK X : X = wrong'
    OBVIOUS
  <2>8. \A i \in DOMAIN stack : stack[i] \in Names
    BY <1>0 DEF TypeOK
  <2>9. PassedIn(W, Q)
    BY <1>2, <2>2, <2>5, <2>6, <2>8 DEF PassedKeepNames, PassedIn, KeptImports
  <2>10. PassesInto(X, R)
    <3> SUFFICES ASSUME Passes, Top \notin wrong', idx[Top] + 1 \in Live(Top)
                 PROVE  <<Top, idx[Top] + 1>> \in R
      BY <2>7 DEF PassesInto
    <3>1. Top \in Names /\ idx[Top] \in Nat /\ (ImportNamed \/ ImportAll) /\ stack # <<>>
      BY <1>0, <1>2, PassesByImport DEF ImportFailed, ImportCollides, Passes
    <3>2. PICK n \in Names : n = Top
      BY <3>1
    <3>3. PICK j \in Nat : j = idx[n] + 1
      BY <3>1, <3>2
    <3>4. j \in Live(n)
      BY <3>2, <3>3
    <3>5. CASE ImportAll
      <4>1. imp'[n][j].as = NoName
        BY <2>1, <3>2, <3>3, <3>5 DEF ImportAll, Unnamed
      <4>2. NameKept(n, j)'
        BY <4>1 DEF NameKept
      <4>3. <<n, j>> \in KeptImports'
        BY <2>1, <3>4, <4>2 DEF KeptImports
      <4> QED BY <2>3, <3>2, <3>3, <4>3
    <3>6. CASE ImportNamed
      <4>1. PICK as : as = imp[n][j].as
        OBVIOUS
      <4>2. as \in Idents
        <5>1. imp[n] \in Seq(Import) /\ j \in DOMAIN imp[n]
          BY <1>0, <3>4 DEF TypeOK, Live
        <5>2. imp[n][j] \in Import
          BY <5>1
        <5> QED BY <3>2, <3>3, <3>6, <4>1, <5>2 DEF Import, ImportNamed
      <4>3. scope \in [Names -> [Idents -> Names \cup {NoName, Builtin}]] /\ NoName \notin Names
            /\ Builtin \notin Names
        BY <1>0, NamesAssumption DEF TypeOK
      <4>4. CASE scope[n][as] = NoName
        <5>1. scope' = [scope EXCEPT ![n][as] = n]
          BY <3>2, <3>3, <3>6, <4>1, <4>4 DEF ImportNamed
        <5>2. scope'[n][as] = n
          BY <4>2, <4>3, <5>1
        <5>3. NameKept(n, j)'
          BY <2>1, <4>1, <4>3, <5>2 DEF NameKept
        <5>4. <<n, j>> \in KeptImports'
          BY <2>1, <3>4, <5>3 DEF KeptImports
        <5> QED BY <2>3, <3>2, <3>3, <5>4
      <4>5. CASE scope[n][as] # NoName
        <5>1. PICK i \in DOMAIN stack : stack[i] = n
          <6>1. stack \in Seq(Names)
            BY <1>0 DEF TypeOK
          <6> QED BY <3>1, <3>2, <6>1, PopProperties
        <5>2. Origin(n, as)
          BY <1>2, <4>2, <5>1 DEF BoundByPassed
        <5>3. ASSUME NEW k \in Live(n), k > j, imp[n][k].path # n, imp[n][k].path \in Names
              PROVE  scope[n][as] # imp[n][k].path
          <6>1. CASE scope[n][as] \in {NoName, Builtin}
            BY <4>3, <5>3, <6>1
          <6>2. ASSUME NEW h \in Live(n), h <= idx[n], FromImport(n, as, h)
                PROVE  scope[n][as] # imp[n][k].path
            <7>1. h # k
              BY <2>5, <3>1, <3>2, <3>3, <5>3, <6>2
            <7>2. h \in DOMAIN imp[n] /\ k \in DOMAIN imp[n]
              BY DEF Live
            <7>3. imp[n][h].path # imp[n][k].path
              BY <1>0, <1>2, <7>1, <7>2 DEF NoRepeats, RepeatedPath
            <7> QED BY <5>3, <6>2, <7>3 DEF FromImport
          <6> QED BY <5>2, <6>1, <6>2 DEF Origin
        <5>4. NameKept(n, j)
          BY <4>1, <4>5, <5>3 DEF NameKept
        <5>5. NameKept(n, j)'
          BY <1>0, <2>1, <3>4, <5>4, NameKeptStays
        <5>6. <<n, j>> \in KeptImports'
          BY <2>1, <3>4, <5>5 DEF KeptImports
        <5> QED BY <2>3, <3>2, <3>3, <5>6
      <4> QED BY <4>4, <4>5
    <3> QED BY <3>1, <3>5, <3>6
  <2>11. \A i \in DOMAIN stack : stack[i] \in W => stack[i] \in X
    BY <1>0, <1>2, <2>6, <2>7, WrongStays
  <2>12. PassedIn(X, R)'
    BY <1>0, <1>2, <2>4, <2>9, <2>10, <2>11, PassedKeep
  <2>13. \A i \in DOMAIN stack' : stack'[i] \notin wrong' => \A k \in Live(stack'[i]) : k <= idx'[stack'[i]] => <<stack'[i], k>> \in R
    BY <2>1, <2>7, <2>12 DEF PassedIn
  <2>14. \A n, k : <<n, k>> \in R => NameKept(n, k)'
    BY <2>3 DEF KeptImports, NameKept
  <2> SUFFICES ASSUME NEW i \in DOMAIN stack', stack'[i] \notin wrong', NEW n, n = stack'[i],
                      NEW k \in Live(n)', k <= idx'[n]
               PROVE  NameKept(n, k)'
    BY DEF PassedKeepNames, NameKept
  <2>15. <<n, k>> \in R
    BY <2>1, <2>13
  <2> QED BY <2>14, <2>15
<1> QED BY <1>1, <1>2

LEMMA ListedKeepNamesStep ==
  ASSUME ScopeInv, PassedKeepNames, ListedKeepNames, [Next]_vars, \A g \in Generated : g.imports = <<>>
  PROVE  ListedKeepNames'
<1>0. TypeOK /\ Walk /\ Ordering
  BY DEF ScopeInv, FollowingInv
<1> SUFFICES ASSUME NEW n \in Names, Listed(n)', NEW j \in Live(n)' PROVE NameKept(n, j)'
  BY DEF ListedKeepNames
<1>1. CASE Listed(n)
  <2>1. Live(n)' = Live(n) /\ imp'[n] = imp[n]
    BY <1>0, <1>1, DiscardedStep, ListedArePackages, ImportsStay DEF Ordering, Walk
  <2> QED BY <1>0, <1>1, <2>1, NameKeptStays DEF ListedKeepNames
<1>2. CASE OrderDone /\ n = Top
  <2>1. /\ phase = "order" /\ stack # <<>> /\ Top \notin wrong /\ idx[Top] = Len(imp[Top])
        /\ imp' = imp /\ discarded' = discarded
    BY <1>2 DEF OrderDone, AtEnd
  <2>2. Len(stack) \in DOMAIN stack /\ Top = stack[Len(stack)]
    BY <1>0, <2>1, TopIsActive
  <2>3. Live(n)' = Live(n)
    BY <2>1 DEF Live
  <2>4. j <= idx[n]
    <3>1. imp[n] \in Seq(Import)
      BY <1>0 DEF TypeOK
    <3> QED BY <1>2, <2>1, <2>3, <3>1 DEF Live
  <2>5. NameKept(n, j)
    BY <1>2, <2>1, <2>2, <2>3, <2>4 DEF PassedKeepNames
  <2> QED BY <1>0, <2>1, <2>3, <2>5, NameKeptStays
<1> QED BY <1>0, <1>1, <1>2, ListedGrows

(* A package on the stack reaches those that are above it.                 *)
StackReaches ==
  phase = "order" => \A i, j \in DOMAIN stack : i < j => stack[j] \in ReachOf(ImportsOf({stack[i]}))

(* The import that an order step makes a call for.                         *)
LEMMA CalleeIsReached ==
  ASSUME TypeOK, Walk, StackReaches, OrderCall, stack # <<>>, Callee \in Names,
         NEW i \in DOMAIN stack
  PROVE  Callee \in ReachOf(ImportsOf({stack[i]}))
<1>1. stack \in Seq(Names) /\ phase = "order" /\ AtCall
  BY DEF TypeOK, OrderCall
<1>2. Top \in Names /\ Top = stack[Len(stack)] /\ Len(stack) \in DOMAIN stack
  BY <1>1, TopIsActive
<1>3. Callee \in ImportsOf({Top})
  BY <1>1, <1>2, AtCallBounds, ImportIsReached
<1>4. CASE i = Len(stack)
  <2>1. ImportsOf({Top}) \subseteq Names
    BY DEF ImportsOf
  <2> QED BY <1>2, <1>3, <1>4, <2>1, ReachHas
<1>5. CASE i # Len(stack)
  <2>1. i < Len(stack)
    BY <1>1, <1>5
  <2>2. Top \in ReachOf(ImportsOf({stack[i]}))
    BY <1>1, <1>2, <2>1 DEF StackReaches
  <2> QED BY <1>3, <2>2, ReachClosed
<1> QED BY <1>4, <1>5

LEMMA StackReachesStep ==
  ASSUME TypeOK, Walk, StackReaches, [Next]_vars, \A g \in Generated : g.imports = <<>>
  PROVE  StackReaches'
<1>1. CASE phase # "order"
  BY <1>1, OrderStarts DEF StackReaches
<1>2. CASE phase = "order"
  <2>1. \A S : ReachOf(S)' = ReachOf(S) /\ ImportsOf(S)' = ImportsOf(S)
    BY <1>2, GraphStays
  <2>2. stack \in Seq(Names)
    BY DEF TypeOK
  <2> SUFFICES ASSUME NEW i \in DOMAIN stack', NEW j \in DOMAIN stack', i < j
               PROVE  stack'[j] \in ReachOf(ImportsOf({stack'[i]}))
    <3>1. \A i, j \in DOMAIN stack' : ReachOf(ImportsOf({stack'[i]})) = ReachOf(ImportsOf({stack[i]}))'
      <4> SUFFICES ASSUME NEW i \in DOMAIN stack', NEW n, n = stack'[i]
                   PROVE  ReachOf(ImportsOf({n})) = ReachOf(ImportsOf({n}))'
        BY DEF ReachOf, ImportsOf
      <4>1. PICK S : S = ImportsOf({n})
        OBVIOUS
      <4>2. ImportsOf({n})' = S
        BY <2>1, <4>1
      <4>3. ReachOf(S)' = ReachOf(S)
        BY <2>1
      <4> QED BY <4>1, <4>2, <4>3 DEF ReachOf
    <3> QED BY <3>1 DEF StackReaches
  <2>3. CASE Rests \/ Passes
    BY <1>2, <2>3 DEF Rests, Passes, StackReaches
  <2>4. CASE Leaves
    <3>1. /\ Len(stack) \in Nat /\ DOMAIN stack = 1..Len(stack) /\ DOMAIN stack' = 1..(Len(stack) - 1)
          /\ \A x \in 1..(Len(stack) - 1) : stack'[x] = stack[x]
      BY <2>2, <2>4, PopPositions DEF Leaves
    <3>2. i \in DOMAIN stack /\ j \in DOMAIN stack /\ stack'[i] = stack[i] /\ stack'[j] = stack[j]
      BY <3>1
    <3> QED BY <1>2, <3>2 DEF StackReaches
  <2>5. CASE Enters
    <3>1. /\ Len(stack) \in Nat /\ DOMAIN stack = 1..Len(stack) /\ DOMAIN stack' = 1..(Len(stack) + 1)
          /\ \A x \in 1..Len(stack) : stack'[x] = stack[x]
          /\ stack'[Len(stack) + 1] = Callee /\ Callee \in Names
      BY <2>2, <2>5, PushPositions DEF Enters
    <3>2. OrderCall
      <4>1. stack' # stack
        BY <2>2, <3>1
      <4> QED BY <1>2, <2>5, <4>1, Takes DEF OrderEnter
    <3>3. i \in DOMAIN stack /\ stack'[i] = stack[i]
      BY <3>1
    <3>4. CASE j \in DOMAIN stack
      BY <1>2, <3>1, <3>3, <3>4 DEF StackReaches
    <3>5. CASE j = Len(stack) + 1
      <4>1. stack # <<>>
        BY <3>3
      <4> QED BY <3>1, <3>2, <3>3, <3>5, <4>1, CalleeIsReached
    <3> QED BY <3>1, <3>4, <3>5
  <2> QED BY <1>2, <2>3, <2>4, <2>5, OrderSteps
<1> QED BY <1>1, <1>2

(* A call that returned NULL left the imported package in error.           *)
NullIsError ==
  ret = "null" /\ stack # <<>> => state[imp[Top][idx[Top] + 1].path] = "Error"

LEMMA NullIsErrorStep ==
  ASSUME TypeOK, Walk, BlameIsPassedOn, NullIsError, ReturnIsDecided, [Next]_vars
  PROVE  NullIsError'
<1> USE DEF vars, graphVars, walkVars, regVars, doneVars, clientVars
<1> SUFFICES ASSUME ret' = "null", stack' # <<>>
             PROVE  state'[imp'[Top'][idx'[Top'] + 1].path] = "Error"
  BY DEF NullIsError
<1>1. phase' = "order" /\ phase = "order"
  BY WalkStep, OrderStarts DEF Walk, Result
<1>2. imp' = imp
  BY <1>1, OrderSteps
<1>3. CASE OrderFoundError \/ OrderCircular
  <2>1. /\ UNCHANGED <<stack, idx>> /\ OrderCall /\ Callee \in Names
        /\ state' = [state EXCEPT ![Callee] = "Error"]
    <3>1. state[Callee] = "Error" => state = [state EXCEPT ![Callee] = "Error"]
      BY DEF TypeOK
    <3> QED BY <1>3, <3>1 DEF OrderFoundError, OrderCircular, TypeOK
  <2>2. stack # <<>> /\ Top' = Top
    BY <2>1 DEF Top
  <2>3. Callee = imp[Top][idx[Top] + 1].path
    BY <2>1, <2>2, AtCallBounds DEF OrderCall
  <2>4. state'[Callee] = "Error"
    BY <2>1 DEF TypeOK
  <2> QED BY <1>2, <2>1, <2>2, <2>3, <2>4
<1>4. CASE OrderFail
  <2>1. stack # <<>> /\ stack' = Pop /\ idx' = idx /\ state' = state /\ Top \in wrong
    BY <1>4 DEF OrderFail, AtEnd
  <2>2. Len(stack) > 1 /\ Top' = stack[Len(stack) - 1] /\ Len(stack) \in Nat
    BY <2>1, PopPositions DEF TypeOK
  <2>3. Len(stack) - 1 \in 1..(Len(stack) - 1) /\ Len(stack) - 1 + 1 = Len(stack)
    BY <2>2
  <2>4. imp[stack[Len(stack) - 1]][idx[stack[Len(stack) - 1]] + 1].path = stack[Len(stack) - 1 + 1]
    BY <1>1, <2>3 DEF Walk, CallChain
  <2>5. imp'[Top'][idx'[Top'] + 1].path = Top
    BY <1>2, <2>1, <2>2, <2>3, <2>4 DEF Top
  <2> QED BY <2>1, <2>5 DEF Walk, StateFollows
<1>5. CASE ret = "null" /\ UNCHANGED <<stack, idx>>
  <2>1. PICK p : p = imp[Top][idx[Top] + 1].path
    OBVIOUS
  <2>2. state[p] = "Error" /\ Decided(p)
    BY <1>5, <2>1 DEF NullIsError, ReturnIsDecided
  <2>3. state'[p] = "Error"
    BY <2>2, VerdictStep DEF VerdictsKept, Decided
  <2> QED BY <1>2, <1>5, <2>1, <2>3 DEF Top
<1>6. CASE Client \/ Parse \/ BuildIfPass \/ Loops
  <2>1. FALSE
    BY <1>1, <1>6 DEF Client, AddSingleFilePackage, Compile, Generate, Parse, ParseMissing, ParseAgain,
         ParseUnlistable, ParseCall, ParseListed, ParseNew, ParseReturn, BuildIfPass, Loops,
         ResolveIncompleteTypes, StartBodies, ResolveProcBodies, Finish, Visit
  <2> QED BY <2>1
<1>7. CASE OrderFoundResolved \/ OrderDone
  <2>1. OrderFoundResolved => ret' \in Names
    BY DEF OrderFoundResolved, TypeOK
  <2>2. OrderDone => ret' \in Names
    BY TopIsActive DEF OrderDone, AtEnd
  <2> QED BY <1>7, <2>1, <2>2, ReturnAssumption
<1>9. CASE OrderEnter \/ ImportFailed \/ ImportNamed \/ ImportAll \/ ImportCollides \/ OrderReturn \/ SkipImport
  BY <1>9 DEF OrderEnter, OrderCall, ImportFailed, ImportNamed, ImportAll, ImportCollides, OrderReturn, SkipImport
<1>8. CASE OrderLost \/ UNCHANGED vars
  BY <1>5, <1>8 DEF OrderLost
<1> QED BY <1>3, <1>4, <1>6, <1>7, <1>8, <1>9 DEF Next, Compiler, Order

(* The reasons for which a package cannot resolve.                         *)
HardClash(n) ==
  \E j, k \in Live(n) :
    /\ ClashAt(n, j, k) /\ imp[n][k].path \in Names
    /\ imp[n][j].as = NoName => imp[n][j].path \in Names

Doomed(n) == \E m \in ReachOf({n}) : OnCycle(m) \/ HardClash(m)

ErrorsAreDoomed ==
  phase \in {"order", "types"} => \A n \in Names : state[n] = "Error" => Doomed(n)

(* What is offered stays on offer, unless a file is generated.             *)
LEMMA OfferedStays ==
  ASSUME TypeOK, Walk, LateBound, [Next]_vars, late' = late,
         NEW n \in Names, NEW m \in Names, NEW d \in Offered(m, n)
  PROVE  d \in Offered(m, n)'
<1>1. d \in Idents /\ scope[m][d] = m /\ \A i \in DOMAIN ordered : ordered[i] = n => i > late[m][d]
  BY DEF Offered, Exported
<1>2. scope'[m][d] = m
  BY <1>1, BoundStaysBound
<1>3. ASSUME NEW i \in DOMAIN ordered', ordered'[i] = n PROVE i > late[m][d]
  <2>1. late[m][d] \in Nat /\ late[m][d] <= Len(ordered) /\ Len(ordered) \in Nat
    BY <1>1 DEF LateBound, TypeOK
  <2>2. CASE ordered' = ordered
    BY <1>1, <1>3, <2>2
  <2>3. CASE OrderDone /\ Top \in Names /\ ordered' = Append(ordered, Top)
    <3>1. ordered \in Seq(Names)
      BY DEF TypeOK
    <3>2. \/ i \in DOMAIN ordered /\ ordered'[i] = ordered[i]
          \/ i = Len(ordered) + 1
      BY <1>3, <2>3, <3>1
    <3> QED BY <1>1, <1>3, <2>1, <3>2
  <2> QED BY <2>2, <2>3, OrderedGrows
<1> QED BY <1>1, <1>2, <1>3 DEF Offered, Exported

LEMMA DoomedStays ==
  ASSUME TypeOK, Walk, LateBound, [Next]_vars, phase \in {"order", "types"}, ~Generate,
         \A g \in Generated : g.imports = <<>>, NEW n \in Names, Doomed(n)
  PROVE  Doomed(n)'
<1>1. imp' = imp /\ discarded' = discarded /\ (\A m : Live(m)' = Live(m))
      /\ (\A S : ReachOf(S)' = ReachOf(S) /\ ImportsOf(S)' = ImportsOf(S))
  BY GraphStays
<1>2. late' = late
  BY DEF Next, Client, AddSingleFilePackage, Compile, Compiler, Parse,
     ParseMissing, ParseAgain, ParseUnlistable, ParseLeaf, ParseListed, ParseNew, ParsePush,
     ParseReturn, SkipImport, BuildIfPass, OrderFoundResolved, OrderDone,
     Order, OrderEnter, ImportNamed, ImportAll, ImportCollides,
     OrderLost, OrderFoundError, OrderCircular, OrderReturn, ImportFailed, OrderFail,
     Loops, ResolveIncompleteTypes, StartBodies, ResolveProcBodies, Finish, vars, clientVars
<1>3. PICK m \in ReachOf({n}) : OnCycle(m) \/ HardClash(m)
  BY DEF Doomed
<1>4. m \in Names
  BY DEF ReachOf
<1>5. OnCycle(m) => OnCycle(m)'
  <2>1. PICK S : S = ImportsOf({m})
    OBVIOUS
  <2>2. ImportsOf({m})' = S /\ ReachOf(S)' = ReachOf(S)
    BY <1>1, <2>1
  <2> QED BY <2>1, <2>2 DEF OnCycle, ReachOf
<1>6. ASSUME NEW j \in Live(m), NEW k \in Live(m), ClashAt(m, j, k), imp[m][k].path \in Names,
             imp[m][j].as = NoName => imp[m][j].path \in Names
      PROVE  ClashAt(m, j, k)'
  <2>1. PICK p \in Names : p = imp[m][k].path
    BY <1>6
  <2>2. PICK q : q = imp[m][j].path
    OBVIOUS
  <2>3. PICK d \in Offered(p, m) : d = imp[m][j].as \/ (imp[m][j].as = NoName /\ d \in Offered(q, m))
    BY <1>6, <2>1, <2>2 DEF ClashAt
  <2>4. d \in Offered(p, m)'
    BY <1>2, <1>4, OfferedStays
  <2>5. imp[m][j].as = NoName /\ d \in Offered(q, m) => d \in Offered(q, m)'
    BY <1>2, <1>4, <1>6, <2>2, OfferedStays
  <2>6. j < k /\ imp[m][k].as = NoName
    BY <1>6 DEF ClashAt
  <2> QED BY <1>1, <2>1, <2>2, <2>3, <2>4, <2>5, <2>6 DEF ClashAt, Offered, Exported
<1>7. HardClash(m) => HardClash(m)'
  BY <1>1, <1>6 DEF HardClash, ClashAt, Offered, Exported
<1>8. m \in ReachOf({n})'
  BY <1>1 DEF ReachOf
<1> QED BY <1>3, <1>5, <1>7, <1>8 DEF Doomed

LEMMA DoomedByImport ==
  ASSUME TypeOK, NEW n \in Names, NEW k \in Live(n), imp[n][k].path \in Names, Doomed(imp[n][k].path)
  PROVE  Doomed(n)
<1>1. PICK p \in Names : p = imp[n][k].path
  OBVIOUS
<1>2. p \in ReachOf({n})
  BY <1>1, ImportIsReached
<1>3. ReachOf({p}) \subseteq ReachOf({n})
  BY <1>2, ReachThrough
<1> QED BY <1>1, <1>3 DEF Doomed

(* A package that is given up is doomed, by what it reaches.               *)
LEMMA CircleDooms ==
  ASSUME TypeOK, Walk, StackReaches, OrderCircular
  PROVE  Callee \in Names /\ Doomed(Callee)
<1>1. OrderCall /\ phase = "order" /\ Callee \in Names /\ state[Callee] = "Resolving"
  BY DEF OrderCircular, OrderCall, TypeOK
<1>2. PICK i \in DOMAIN stack : stack[i] = Callee
  BY <1>1 DEF Walk, StateFollows
<1>3. Callee \in ReachOf(ImportsOf({Callee}))
  BY <1>1, <1>2, CalleeIsReached
<1>4. Callee \in ReachOf({Callee})
  BY <1>1, ReachHas
<1> QED BY <1>1, <1>3, <1>4 DEF Doomed, OnCycle

LEMMA CollisionDooms ==
  ASSUME ScopeInv, Builtins, BoundByPassed, ImportCollides
  PROVE  Top \in Names /\ Doomed(Top)
<1>1. TypeOK /\ Walk /\ AtImport /\ PassedAreDecided
  BY DEF ScopeInv, FollowingInv, Following
<1>2. phase = "order" /\ stack # <<>> /\ ret \in Names /\ ret # "pending" /\ imp[Top][idx[Top] + 1].as = NoName
  BY DEF ImportCollides, ImportReturns, Unnamed
<1>3. PICK n \in Names : n = Top
  BY <1>1, <1>2, TopIsActive
<1>4. PICK i \in DOMAIN stack : stack[i] = n
  BY <1>1, <1>2, <1>3, TopIsActive
<1>5. PICK k : k = idx[n] + 1
  OBVIOUS
<1>6. k \in Live(n) /\ imp[n][k].path = ret /\ imp[n][k].as = NoName /\ state[ret] = "Resolved"
  BY <1>1, <1>2, <1>3, <1>5 DEF AtImport, Walk, Result
<1>7. PICK d \in Exported(ret) : scope[n][d] # NoName
  BY <1>3 DEF ImportCollides, Collisions
<1>8. d \in Idents /\ scope[ret][d] = ret /\ ret # Builtin
  BY <1>2, NamesAssumption DEF Exported
<1>9. scope[n][d] # Builtin
  BY <1>2, <1>6, <1>8 DEF Builtins
<1>10. PICK j \in Live(n) : j <= idx[n] /\ FromImport(n, d, j)
  BY <1>2, <1>4, <1>7, <1>8, <1>9 DEF BoundByPassed, Origin
<1>11. j < k
  <2>1. imp[n] \in Seq(Import)
    BY <1>1 DEF TypeOK
  <2>2. idx[n] \in Nat
    BY <1>1 DEF TypeOK
  <2> QED BY <1>5, <1>10, <2>1, <2>2 DEF Live
<1>12. \A x \in DOMAIN ordered : ordered[x] # n
  <2>1. state[n] \in {"Resolving", "Error"}
    BY <1>1, <1>2, <1>4 DEF Walk, StateFollows
  <2> QED BY <1>1, <2>1 DEF Walk, AssertedResolved
<1>13. \A m : Offered(m, n) = Exported(m)
  BY <1>12 DEF Offered
<1>14. imp[n][j].path \in Names
  BY <1>1, <1>2, <1>4, <1>10 DEF PassedAreDecided, Decided
<1>15. ClashAt(n, j, k)
  <2>1. d \in Offered(imp[n][k].path, n)
    BY <1>6, <1>7, <1>13
  <2>2. CASE imp[n][j].as = d
    BY <1>6, <1>11, <2>1, <2>2 DEF ClashAt
  <2>3. CASE imp[n][j].as = NoName /\ d \in Exported(imp[n][j].path)
    BY <1>6, <1>11, <1>13, <2>1, <2>3 DEF ClashAt
  <2> QED BY <1>10, <2>2, <2>3 DEF FromImport
<1>16. HardClash(n)
  BY <1>2, <1>6, <1>14, <1>15, <1>10 DEF HardClash
<1> QED BY <1>3, <1>16, ReachHas DEF Doomed

LEMMA ErrorsAreDoomedStep ==
  ASSUME ScopeInv, LateBound, Builtins, BoundByPassed, StackReaches, NullIsError, ErrorsAreDoomed,
         [Next]_vars, \A g \in Generated : g.imports = <<>>
  PROVE  ErrorsAreDoomed'
<1>0. TypeOK /\ Walk /\ FailuresAreReported /\ AtImport /\ ReturnIsDecided /\ FailuresAreReported'
  BY FailureStep DEF ScopeInv, FollowingInv, Following
<1> SUFFICES ASSUME phase' \in {"order", "types"}, NEW n \in Names, state'[n] = "Error"
             PROVE  Doomed(n)'
  BY DEF ErrorsAreDoomed
<1>1. errors'
  BY <1>0 DEF FailuresAreReported
<1>2. ~Generate /\ ~BuildIfPass
  BY <1>1 DEF Generate, BuildIfPass
<1>3. phase \in {"order", "types"}
  <2>1. phase \in {"order", "types", "bodies"}
    BY <1>0, <1>2, PhaseStarts
  <2>2. CASE phase = "bodies"
    <3>1. phase' \in {"bodies", "idle"}
      BY <2>2 DEF Next, Client, AddSingleFilePackage, Compile, Generate, Compiler, Parse, ParseMissing,
         ParseAgain, ParseUnlistable, ParseCall, ParseListed, ParseNew,
         ParseReturn, SkipImport, BuildIfPass, Order, OrderCall, ImportReturns, AtEnd, Visit,
         OrderLost, OrderFoundError, OrderFoundResolved, OrderCircular, OrderEnter, OrderReturn,
         ImportFailed, ImportNamed, ImportAll, ImportCollides, OrderFail, OrderDone,
         Loops, ResolveIncompleteTypes, StartBodies, ResolveProcBodies, Finish, vars
    <3> QED BY <3>1
  <2> QED BY <2>1, <2>2
<1>4. Doomed(n)
  <2>1. CASE state[n] = "Error"
    BY <1>3, <2>1 DEF ErrorsAreDoomed
  <2>2. CASE n = Callee /\ OrderCircular
    BY <1>0, <2>2, CircleDooms
  <2>3. CASE n = Top /\ ImportCollides
    BY <2>3, CollisionDooms
  <2>4. CASE n = Top /\ ImportFailed
    <3>1. phase = "order" /\ stack # <<>> /\ ret = "null"
      BY <2>4 DEF ImportFailed, ImportReturns
    <3>2. PICK k : k = idx[n] + 1
      OBVIOUS
    <3>3. k \in Live(n)
      BY <1>0, <2>4, <3>1, <3>2 DEF AtImport
    <3>4. imp[n][k].path \in Names /\ state[imp[n][k].path] = "Error"
      BY <2>4, <1>0, <3>1, <3>2 DEF NullIsError, ReturnIsDecided, Decided
    <3>5. Doomed(imp[n][k].path)
      BY <1>3, <3>4 DEF ErrorsAreDoomed
    <3> QED BY <1>0, <3>3, <3>4, <3>5, DoomedByImport
  <2>5. CASE state[n] # "Error"
    BY <1>0, <1>3, <2>2, <2>3, <2>4, <2>5, StateChanges
  <2> QED BY <2>1, <2>5
<1> QED BY <1>0, <1>2, <1>3, <1>4, DoomedStays

(* What a listed package reaches is listed, none of it on a cycle and none *)
(* of it with a clash.                                                     *)
LEMMA ListedReachListed ==
  ASSUME TypeOK, Walk, DependenciesFirst, NEW n, Listed(n), NEW m \in ReachOf({n})
  PROVE  Listed(m)
<1>1. PICK T : T = {p \in Names : Listed(p)}
  OBVIOUS
<1>2. \A p : Listed(p) => p \in T
  BY <1>1, ListedArePackages DEF Walk
<1>3. ImportsOf(T) \subseteq T
  <2> SUFFICES ASSUME NEW p \in T, NEW k \in Live(p) PROVE Listed(imp[p][k].path)
    BY <1>2 DEF ImportsOf
  <2>1. PICK i \in DOMAIN ordered : ordered[i] = p
    BY <1>1 DEF Listed
  <2>2. PICK j \in 1..(i - 1) : ordered[j] = imp[p][k].path
    BY <2>1 DEF DependenciesFirst
  <2>3. ordered \in Seq(Names)
    BY DEF TypeOK
  <2>4. j \in DOMAIN ordered
    BY <2>1, <2>3
  <2> QED BY <2>2, <2>4 DEF Listed
<1>4. ReachOf({n}) \subseteq T
  BY <1>1, <1>2, <1>3, ReachLeast
<1> QED BY <1>1, <1>4

LEMMA ListedAreAcyclic ==
  ASSUME TypeOK, Walk, DependenciesFirst, NEW n, Listed(n)
  PROVE  ~OnCycle(n)
<1>1. ordered \in Seq(Names)
  BY DEF TypeOK
<1>2. PICK i \in DOMAIN ordered : ordered[i] = n
  BY DEF Listed
<1>3. PICK T : T = {ordered[j] : j \in 1..(i - 1)}
  OBVIOUS
<1>4. T \subseteq Names
  BY <1>1, <1>2, <1>3
<1>5. ImportsOf({n}) \subseteq T
  BY <1>2, <1>3 DEF ImportsOf, DependenciesFirst
<1>6. ImportsOf(T) \subseteq T
  <2> SUFFICES ASSUME NEW j \in 1..(i - 1), NEW k \in Live(ordered[j]) PROVE imp[ordered[j]][k].path \in T
    BY <1>3 DEF ImportsOf
  <2>1. j \in DOMAIN ordered
    BY <1>1, <1>2
  <2>2. PICK h \in 1..(j - 1) : ordered[h] = imp[ordered[j]][k].path
    BY <2>1 DEF DependenciesFirst
  <2>3. h \in 1..(i - 1)
    BY <1>1, <1>2, <2>2
  <2> QED BY <1>3, <2>2, <2>3
<1>7. ReachOf(ImportsOf({n})) \subseteq T
  BY <1>4, <1>5, <1>6, ReachLeast
<1>8. n \notin T
  <2> SUFFICES ASSUME NEW j \in 1..(i - 1), ordered[j] = n PROVE FALSE
    BY <1>3
  <2>1. j \in DOMAIN ordered /\ j # i
    BY <1>1, <1>2
  <2> QED BY <1>2, <2>1 DEF Walk, AssertedResolved
<1> QED BY <1>7, <1>8 DEF OnCycle

LEMMA ListedDontClash ==
  ASSUME ScopeInv, ListedKeepNames, phase \in {"order", "types", "bodies"}, NEW n, Listed(n)
  PROVE  ~Clashes(n)
<1>1. TypeOK /\ Walk /\ DependenciesFirst /\ NoRepeats
  BY DEF ScopeInv, FollowingInv, Following, Ordering
<1>2. n \in Names
  BY <1>1, ListedArePackages DEF Walk
<1>3. PICK i \in DOMAIN ordered : ordered[i] = n
  BY DEF Listed
<1> SUFFICES ASSUME NEW j \in Live(n), NEW k \in Live(n), ClashAt(n, j, k) PROVE FALSE
  BY DEF Clashes
<1>4. j < k /\ imp[n][k].as = NoName /\ j \in DOMAIN imp[n] /\ k \in DOMAIN imp[n]
  BY DEF ClashAt, Live
<1>5. PICK m : m = imp[n][k].path
  OBVIOUS
<1>6. m \in Names /\ m # n
  <2>1. PICK h \in 1..(i - 1) : ordered[h] = m
    BY <1>1, <1>3, <1>5 DEF DependenciesFirst
  <2>2. ordered \in Seq(Names)
    BY <1>1 DEF TypeOK
  <2>3. h \in DOMAIN ordered /\ h # i
    BY <1>3, <2>2
  <2> QED BY <1>1, <1>3, <2>1, <2>2, <2>3 DEF Walk, AssertedResolved
<1>7. PICK d \in Offered(m, n) : d = imp[n][j].as \/ (imp[n][j].as = NoName /\ d \in Offered(imp[n][j].path, n))
  BY <1>5 DEF ClashAt
<1>8. scope[n][d] = m
  BY <1>3, <1>4, <1>5, <1>7 DEF ScopeInv, ImportsAreVisible
<1>9. CASE d = imp[n][j].as
  <2>1. d # NoName
    BY NamesAssumption DEF Offered, Exported
  <2>2. NameKept(n, j)
    BY <1>2 DEF ListedKeepNames
  <2>3. ordered \in Seq(Names) /\ imp[n] \in Seq(Import)
    BY <1>1, <1>2 DEF TypeOK
  <2>4. k > j
    BY <1>4, <2>3
  <2> QED BY <1>5, <1>6, <1>8, <1>9, <2>1, <2>2, <2>4 DEF NameKept
<1>10. CASE imp[n][j].as = NoName /\ d \in Offered(imp[n][j].path, n)
  <2>1. scope[n][d] = imp[n][j].path
    BY <1>3, <1>10 DEF ScopeInv, ImportsAreVisible
  <2>2. imp[n] \in Seq(Import)
    BY <1>1, <1>2 DEF TypeOK
  <2>3. j # k
    BY <1>4, <2>2
  <2> QED BY <1>1, <1>2, <1>4, <1>5, <1>8, <2>1, <2>3 DEF NoRepeats, RepeatedPath
<1> QED BY <1>7, <1>9, <1>10

(* How far the loops over the listed packages are.                         *)
LoopsProgress ==
  /\ phase = "types" => \A x \in DOMAIN ordered : x < pos => ordered[x] \in typed
  /\ phase = "bodies" => \A x \in DOMAIN ordered : ordered[x] \in typed /\ (x < pos => ordered[x] \in bodied)
  /\ phase = "idle" /\ calls > 0 /\ ~errors => \A x \in DOMAIN ordered : ordered[x] \in typed \cap bodied

LEMMA LoopsProgressStep ==
  ASSUME TypeOK, LoopsProgress, [Next]_vars
  PROVE  LoopsProgress'
<1> USE DEF vars, graphVars, walkVars, regVars, doneVars, clientVars
<1>1. pos \in Nat /\ ordered \in Seq(Names) /\ Len(ordered) \in Nat /\ DOMAIN ordered = 1..Len(ordered)
  BY DEF TypeOK
<1>2. CASE OrderReturn
  <2>1. phase' = "types" /\ pos' = 1 /\ ordered' = ordered
    BY <1>2 DEF OrderReturn
  <2> QED BY <1>1, <2>1 DEF LoopsProgress
<1>3. CASE ResolveIncompleteTypes
  <2>1. /\ phase = "types" /\ phase' = "types" /\ pos' = pos + 1 /\ ordered' = ordered
        /\ typed' = typed \cup {ordered[pos]}
    BY <1>3 DEF ResolveIncompleteTypes, Visit
  <2>2. \A x \in DOMAIN ordered : x < pos + 1 => x < pos \/ x = pos
    BY <1>1
  <2> QED BY <2>1, <2>2 DEF LoopsProgress
<1>4. CASE StartBodies
  <2>1. /\ phase = "types" /\ phase' = "bodies" /\ pos' = 1 /\ pos > Len(ordered)
        /\ ordered' = ordered /\ typed' = typed
    BY <1>4 DEF StartBodies
  <2> QED BY <1>1, <2>1 DEF LoopsProgress
<1>5. CASE ResolveProcBodies
  <2>1. /\ phase = "bodies" /\ phase' = "bodies" /\ pos' = pos + 1 /\ ordered' = ordered
        /\ typed' = typed /\ bodied' = bodied \cup {ordered[pos]}
    BY <1>5 DEF ResolveProcBodies, Visit
  <2>2. \A x \in DOMAIN ordered : x < pos + 1 => x < pos \/ x = pos
    BY <1>1
  <2> QED BY <2>1, <2>2 DEF LoopsProgress
<1>6. CASE Finish
  <2>1. phase = "bodies" /\ phase' = "idle" /\ pos > Len(ordered) /\ UNCHANGED <<ordered, typed, bodied>>
    BY <1>6 DEF Finish
  <2> QED BY <1>1, <2>1 DEF LoopsProgress
<1>7. CASE BuildIfPass
  <2>1. phase' \in {"idle", "order"} /\ (phase' = "idle" => errors')
    BY <1>7 DEF BuildIfPass
  <2> QED BY <2>1 DEF LoopsProgress
<1>8. CASE UNCHANGED vars
  BY <1>8 DEF LoopsProgress
<1>9. CASE \E n \in SingleFiles : AddSingleFilePackage(n)
  <2>1. phase' = "idle" /\ calls' = 0
    BY <1>9 DEF AddSingleFilePackage
  <2> QED BY <2>1 DEF LoopsProgress
<1>10. CASE (\E r \in Roots : Compile(r)) \/ Generate \/ Parse \/ (Order /\ ~OrderReturn)
  <2>1. CASE (\E r \in Roots : Compile(r)) \/ Generate
    BY <2>1 DEF Compile, Generate, LoopsProgress
  <2>2. CASE Parse
    <3>1. phase' \in {"parse", "buildif"}
      BY <2>2 DEF Parse, ParseMissing, ParseAgain, ParseUnlistable, ParseCall, ParseLeaf,
         ParseListed, ParseNew, ParsePush, ParseReturn
    <3> QED BY <3>1 DEF LoopsProgress
  <2>3. CASE Order /\ ~OrderReturn
    <3>1. phase' \in {"order", "crashed"}
      BY <2>3 DEF Order, OrderCall, ImportReturns, AtEnd, OrderLost, OrderFoundError, OrderFoundResolved,
         OrderCircular, OrderEnter, ImportFailed, ImportNamed, ImportAll, ImportCollides, OrderFail, OrderDone
    <3> QED BY <3>1 DEF LoopsProgress
  <2> QED BY <1>10, <2>1, <2>2, <2>3
<1>11. CASE SkipImport
  <2>1. phase' \in {"parse", "order"}
    BY <1>11 DEF SkipImport
  <2> QED BY <2>1 DEF LoopsProgress
<1> QED BY <1>2, <1>3, <1>4, <1>5, <1>6, <1>7, <1>8, <1>9, <1>10, <1>11 DEF Next, Client, Compiler, Loops

(* The walk starts with the root and ends with its verdict.                *)
RootFirst == phase = "order" /\ stack # <<>> => stack[1] = root

RootIsDone ==
  \/ phase = "order" /\ ret # "pending" /\ stack = <<>>
  \/ phase \in {"types", "bodies"}
  \/ phase = "idle" /\ calls > 0 /\ ~errors

RootDecided == RootIsDone => Decided(root)

LEMMA RootStays ==
  ASSUME TypeOK, [Next]_vars, phase' # "parse"
  PROVE  root' = root
BY DEF Next, Client, AddSingleFilePackage, Compile, Generate, Compiler, Parse,
     ParseMissing, ParseAgain, ParseUnlistable, ParseLeaf, ParseListed, ParseNew, ParsePush,
     ParseReturn, SkipImport, BuildIfPass, OrderFoundResolved, OrderDone,
     Order, OrderEnter, ImportNamed, ImportAll, ImportCollides,
     OrderLost, OrderFoundError, OrderCircular, OrderReturn, ImportFailed, OrderFail,
     Loops, ResolveIncompleteTypes, StartBodies, ResolveProcBodies, Finish, vars, clientVars

LEMMA RootFirstStep ==
  ASSUME TypeOK, Walk, RootFirst, [Next]_vars
  PROVE  RootFirst'
<1> SUFFICES ASSUME phase' = "order", stack' # <<>> PROVE stack'[1] = root'
  BY DEF RootFirst
<1>1. phase = "order" /\ root' = root
  BY OrderStarts, RootStays
<1>2. stack \in Seq(Names)
  BY DEF TypeOK
<1>3. CASE Rests \/ Passes
  BY <1>1, <1>3 DEF Rests, Passes, RootFirst
<1>4. CASE Enters
  <2>1. /\ Len(stack) \in Nat /\ \A x \in 1..Len(stack) : stack'[x] = stack[x]
        /\ stack'[Len(stack) + 1] = Callee
    BY <1>2, <1>4, PushPositions DEF Enters
  <2>2. CASE stack = <<>>
    BY <1>1, <2>1, <2>2 DEF Callee
  <2>3. CASE stack # <<>>
    <3>1. 1 \in 1..Len(stack)
      BY <1>2, <2>3
    <3> QED BY <1>1, <2>1, <2>3, <3>1 DEF RootFirst
  <2> QED BY <2>2, <2>3
<1>5. CASE Leaves
  <2>1. /\ Len(stack) \in Nat \ {0} /\ \A x \in 1..(Len(stack) - 1) : stack'[x] = stack[x]
        /\ Len(stack) > 1 /\ stack # <<>>
    BY <1>2, <1>5, PopPositions DEF Leaves
  <2>2. 1 \in 1..(Len(stack) - 1)
    BY <2>1
  <2> QED BY <1>1, <2>1, <2>2 DEF RootFirst
<1> QED BY <1>1, <1>3, <1>4, <1>5, OrderSteps

LEMMA RootDecidedStep ==
  ASSUME TypeOK, Walk, BlameIsPassedOn, RootFirst, RootDecided, [Next]_vars
  PROVE  RootDecided'
<1> USE DEF vars, graphVars, walkVars, regVars, doneVars, clientVars
<1> SUFFICES ASSUME RootIsDone' PROVE Decided(root)'
  BY DEF RootDecided
<1>1. root' = root /\ root \in Names
  BY RootStays, NamesAssumption DEF RootIsDone, TypeOK
<1>2. CASE RootIsDone
  BY <1>1, <1>2, DecidedStays DEF RootDecided, Decided
<1>3. CASE phase' = "order" /\ ret' # "pending" /\ stack' = <<>>
  <2>1. phase = "order"
    BY <1>3, OrderStarts
  <2>2. CASE UNCHANGED <<stack, idx, ret, state>>
    BY <1>2, <1>3, <2>1, <2>2 DEF RootIsDone
  <2>3. CASE UNCHANGED <<stack, idx>> /\ OrderCall /\ Callee \in Names /\ state'[Callee] \in {"Error", "Resolved"}
    BY <1>1, <1>3, <2>3 DEF Callee, Decided
  <2>4. CASE Leaves /\ Top \in Names /\ state'[Top] \in {"Error", "Resolved"}
    <3>1. Len(stack') = Len(stack) - 1 /\ Len(stack) \in Nat /\ stack # <<>>
      BY <2>4, PopPositions DEF Leaves, TypeOK
    <3>2. Len(stack) = 1
      BY <1>3, <3>1
    <3>3. Top = root
      BY <2>1, <3>1, <3>2 DEF RootFirst, Top
    <3> QED BY <1>1, <2>4, <3>3 DEF Decided
  <2> QED BY <1>3, <2>1, <2>2, <2>3, <2>4, Returns
<1>4. CASE phase' \in {"types", "bodies"}
  <2>1. phase \in {"types", "bodies"} \/ OrderReturn
    BY <1>4 DEF Next, Client, AddSingleFilePackage, Compile, Generate, Compiler, Parse, ParseMissing,
         ParseAgain, ParseUnlistable, ParseCall, ParseLeaf, ParseListed, ParseNew, ParsePush,
         ParseReturn, SkipImport, BuildIfPass, Order, OrderCall, ImportReturns, AtEnd, Visit,
         OrderLost, OrderFoundError, OrderFoundResolved, OrderCircular, OrderEnter,
         ImportFailed, ImportNamed, ImportAll, ImportCollides, OrderFail, OrderDone,
         Loops, ResolveIncompleteTypes, StartBodies, ResolveProcBodies, Finish
  <2> QED BY <1>2, <2>1 DEF RootIsDone, OrderReturn
<1>5. CASE phase' = "idle" /\ calls' > 0 /\ ~errors'
  <2>1. Finish \/ UNCHANGED vars
    <3>1. ~BuildIfPass
      BY <1>5 DEF BuildIfPass
    <3>2. \A n : ~AddSingleFilePackage(n)
      BY <1>5 DEF AddSingleFilePackage
    <3> QED BY <1>5, <3>1, <3>2 DEF Next, Client, Compile, Generate, Compiler, Parse, ParseMissing,
         ParseAgain, ParseUnlistable, ParseCall, ParseLeaf, ParseListed, ParseNew, ParsePush,
         ParseReturn, SkipImport, Order, OrderCall, ImportReturns, AtEnd, Visit,
         OrderLost, OrderFoundError, OrderFoundResolved, OrderCircular, OrderEnter, OrderReturn,
         ImportFailed, ImportNamed, ImportAll, ImportCollides, OrderFail, OrderDone,
         Loops, ResolveIncompleteTypes, StartBodies, ResolveProcBodies
  <2> QED BY <1>2, <1>5, <2>1 DEF RootIsDone, Finish
<1> QED BY <1>3, <1>4, <1>5 DEF RootIsDone

(* All that is kept about the outcome.                                     *)
OutcomeInv ==
  /\ ScopeInv /\ LateBound /\ Builtins /\ BoundByPassed /\ PassedKeepNames /\ ListedKeepNames
  /\ StackReaches /\ NullIsError /\ ErrorsAreDoomed /\ LoopsProgress /\ RootFirst /\ RootDecided

LEMMA OutcomeHolds ==
  ASSUME \A g \in Generated : g.imports = <<>>
  PROVE  (Init => OutcomeInv) /\ (OutcomeInv /\ [Next]_vars => OutcomeInv')
<1>1. Init => OutcomeInv
  <2> SUFFICES ASSUME Init PROVE OutcomeInv
    OBVIOUS
  <2>1. /\ DOMAIN ordered = {} /\ Len(ordered) = 0 /\ phase = "idle" /\ calls = 0 /\ ret = "pending"
        /\ \A n \in Names : state[n] = "Unresolved"
        /\ \A n \in Names : \A d \in Idents : scope[n][d] = NoName /\ late[n][d] = 0
    BY DEF Init
  <2>2. ScopeInv
    BY ScopeHolds
  <2>3. NoName # Builtin
    BY NamesAssumption
  <2>4. LateBound /\ Builtins /\ BoundByPassed /\ PassedKeepNames
    BY <2>1, <2>3 DEF LateBound, Builtins, BoundByPassed, PassedKeepNames
  <2>5. ListedKeepNames /\ StackReaches /\ NullIsError /\ ErrorsAreDoomed
    BY <2>1 DEF ListedKeepNames, Listed, StackReaches, NullIsError, ErrorsAreDoomed
  <2>6. LoopsProgress /\ RootFirst /\ RootDecided
    BY <2>1 DEF LoopsProgress, RootFirst, RootDecided, RootIsDone
  <2> QED BY <2>2, <2>4, <2>5, <2>6 DEF OutcomeInv
<1>2. ASSUME OutcomeInv, [Next]_vars PROVE OutcomeInv'
  <2> USE DEF OutcomeInv
  <2>1. TypeOK /\ Walk /\ BlameIsPassedOn /\ ReturnIsDecided
    BY <1>2 DEF ScopeInv, FollowingInv, Following
  <2>2. ScopeInv' /\ LateBound' /\ Builtins'
    BY <1>2, <2>1, ScopeHolds, LateBoundStep, BuiltinsStep
  <2>3. BoundByPassed' /\ PassedKeepNames' /\ ListedKeepNames'
    BY <1>2, BoundByPassedStep, PassedKeepNamesStep, ListedKeepNamesStep
  <2>4. StackReaches' /\ NullIsError' /\ ErrorsAreDoomed'
    BY <1>2, <2>1, StackReachesStep, NullIsErrorStep, ErrorsAreDoomedStep
  <2>5. LoopsProgress' /\ RootFirst' /\ RootDecided'
    BY <1>2, <2>1, LoopsProgressStep, RootFirstStep, RootDecidedStep
  <2> QED BY <2>2, <2>3, <2>4, <2>5
<1> QED BY <1>1, <1>2

(* After the order pass exactly the packages that reach an import cycle or *)
(* a name collision are in error, wherever the walk entered a cycle and in *)
(* whatever order it met the imports, and a compilation without an error   *)
(* went through every pass for all that the root reaches.                  *)
THEOREM OutcomesAreExact ==
  ASSUME \A g \in Generated : g.imports = <<>>
  PROVE  Spec => []OutcomeIsExact
<1>1. OutcomeInv => VerdictIsExact
  <2> SUFFICES ASSUME OutcomeInv, phase = "types", NEW n \in ReachOf({root})
               PROVE  state[n] = IF \E m \in ReachOf({n}) : OnCycle(m) \/ Clashes(m)
                                 THEN "Error" ELSE "Resolved"
    BY DEF VerdictIsExact
  <2>1. /\ TypeOK /\ Walk /\ GivenUpAreLookedInto /\ DependenciesFirst /\ ScopeInv /\ ListedKeepNames
        /\ Decided(root) /\ ErrorsAreDoomed
    BY DEF OutcomeInv, ScopeInv, FollowingInv, Following, Ordering, RootDecided, RootIsDone
  <2>2. stack = <<>>
    BY <2>1 DEF Walk, Quiet
  <2>3. PICK T : T = {p \in Names : Decided(p)}
    OBVIOUS
  <2>4. ImportsOf(T) \subseteq T
    <3>1. \A p \in T : LookedInto(p)
      BY <2>1, <2>2, <2>3 DEF GivenUpAreLookedInto
    <3> QED BY <2>3, <3>1 DEF ImportsOf, LookedInto, Decided
  <2>5. ReachOf({root}) \subseteq T
    <3>1. {root} \subseteq T /\ T \subseteq Names
      BY <2>1, <2>3 DEF Decided
    <3> QED BY <2>4, <3>1, ReachLeast
  <2>6. n \in Names /\ state[n] \in {"Error", "Resolved"}
    BY <2>3, <2>5 DEF Decided
  <2>7. CASE state[n] = "Resolved"
    <3>1. Listed(n)
      BY <2>1, <2>6, <2>7 DEF Walk, AssertedResolved, Listed
    <3>2. \A m \in ReachOf({n}) : ~OnCycle(m) /\ ~Clashes(m)
      BY <2>1, <3>1, ListedReachListed, ListedAreAcyclic, ListedDontClash
    <3> QED BY <2>7, <3>2
  <2>8. CASE state[n] = "Error"
    <3>1. Doomed(n)
      BY <2>1, <2>6, <2>8 DEF ErrorsAreDoomed
    <3>2. \E m \in ReachOf({n}) : OnCycle(m) \/ Clashes(m)
      BY <3>1 DEF Doomed, HardClash, Clashes
    <3> QED BY <2>8, <3>2
  <2> QED BY <2>6, <2>7, <2>8
<1>2. OutcomeInv => SuccessIsComplete
  <2> SUFFICES ASSUME OutcomeInv, phase = "idle", calls > 0, ~errors, NEW n \in ReachOf({root})
               PROVE  n \in typed \cap bodied
    BY DEF SuccessIsComplete
  <2>1. TypeOK /\ Walk /\ FailuresAreReported /\ DependenciesFirst /\ Decided(root) /\ LoopsProgress
    BY DEF OutcomeInv, ScopeInv, FollowingInv, Ordering, RootDecided, RootIsDone
  <2>2. Listed(root)
    BY <2>1, DecidedAreListed
  <2>3. Listed(n)
    BY <2>1, <2>2, ListedReachListed
  <2> QED BY <2>1, <2>3 DEF Listed, LoopsProgress
<1>3. OutcomeInv => OutcomeIsExact
  BY <1>1, <1>2 DEF OutcomeIsExact
<1> QED BY <1>3, OutcomeHolds, PTL DEF Spec
=============================================================================
