-------------------------- MODULE TypeTableProofs --------------------------
(* Proofs about TypeTable: what a lookup finds is what was asked for, in   *)
(* every program; equal types are identical, in the programs that build no *)
(* array or procedure type of a plain procedure type.                      *)
EXTENDS TypeTable, SequenceTheorems, TLAPS

(* Sequences of anything: the objects and their meanings belong to no set  *)
(* that is fixed beforehand.                                               *)
IsSeq(s) == s \in Seq({s[i] : i \in 1..Len(s)})

LEMMA AnySeq ==
  ASSUME NEW S, NEW s \in Seq(S)
  PROVE  IsSeq(s)
<1> DEFINE T == {s[i] : i \in 1..Len(s)}
<1>1. \A i \in 1..Len(s) : s[i] \in T
  OBVIOUS
<1>2. s \in Seq(T)
  BY <1>1, ElementOfSeq, SeqDef, SMT
<1> QED
  BY <1>2 DEF IsSeq

LEMMA AppendToSeq ==
  ASSUME NEW s, NEW e, IsSeq(s)
  PROVE  /\ IsSeq(Append(s, e))
         /\ Len(Append(s, e)) = Len(s) + 1
         /\ \A i \in 1..Len(s) : Append(s, e)[i] = s[i]
         /\ Append(s, e)[Len(s) + 1] = e
<1> DEFINE S == {s[i] : i \in 1..Len(s)} \cup {e}
           t == Append(s, e)
<1>1. s \in Seq(S) /\ e \in S
  BY DEF IsSeq
<1>2. /\ t \in Seq(S)
      /\ Len(t) = Len(s) + 1
      /\ \A i \in 1..Len(s) : t[i] = s[i]
      /\ t[Len(s) + 1] = e
  BY <1>1
<1>3. IsSeq(t)
  BY <1>2, AnySeq
<1> QED
  BY <1>2, <1>3

---------------------------------------------------------------------------
(* TypeOK is inductive once the objects are known to be sequences of       *)
(* records.                                                                *)

IsType(r) == r = Type(r.kind, r.id, r.decl, r.parts)

TypeInv ==
    /\ TypeOK
    /\ IsSeq(types) /\ IsSeq(means)
    /\ \A i \in Objects : IsType(types[i])

LEMMA LenIsNat ==
  ASSUME NEW s, IsSeq(s)
  PROVE  Len(s) \in Nat
<1>1. s \in Seq({s[i] : i \in 1..Len(s)})
  BY DEF IsSeq
<1> QED
  BY <1>1

LEMMA PushFacts ==
  ASSUME TypeInv, NEW t, NEW m, Push(t, m)
  PROVE  /\ Len(types) \in Nat
         /\ IsSeq(types') /\ IsSeq(means')
         /\ Len(types') = Fresh /\ Len(means') = Fresh
         /\ Objects' = Objects \cup {Fresh} /\ Fresh \notin Objects
         /\ \A i \in Objects : types'[i] = types[i] /\ means'[i] = means[i]
         /\ types'[Fresh] = t /\ means'[Fresh] = m
<1>1. IsSeq(types) /\ IsSeq(means) /\ Len(means) = Len(types) /\ Len(types) \in Nat
  BY LenIsNat DEF TypeInv, TypeOK
<1>2. types' = Append(types, t) /\ means' = Append(means, m)
  BY DEF Push
<1>3. /\ IsSeq(types') /\ Len(types') = Len(types) + 1
      /\ \A i \in 1..Len(types) : types'[i] = types[i]
      /\ types'[Len(types) + 1] = t
  BY <1>1, <1>2, AppendToSeq
<1>4. /\ IsSeq(means') /\ Len(means') = Len(types) + 1
      /\ \A i \in 1..Len(types) : means'[i] = means[i]
      /\ means'[Len(types) + 1] = m
  BY <1>1, <1>2, AppendToSeq
<1>5. 1..(Len(types) + 1) = 1..Len(types) \cup {Len(types) + 1}
  BY <1>1
<1> QED
  BY <1>1, <1>3, <1>4, <1>5 DEF Objects, Fresh

LEMMA UpdateFacts ==
  ASSUME TypeInv, NEW i \in Objects, NEW t, types' = [types EXCEPT ![i] = t]
  PROVE  /\ Len(types) \in Nat
         /\ IsSeq(types') /\ Len(types') = Len(types) /\ Objects' = Objects
         /\ \A j \in Objects : types'[j] = IF j = i THEN t ELSE types[j]
<1> DEFINE S == {types[j] : j \in 1..Len(types)} \cup {t}
<1>1. IsSeq(types) /\ Len(types) \in Nat /\ i \in 1..Len(types)
  BY LenIsNat DEF TypeInv, Objects
<1>2. types \in Seq(S) /\ t \in S
  BY <1>1 DEF IsSeq
<1>3. types' \in Seq(S) /\ Len(types') = Len(types)
  BY <1>1, <1>2
<1>4. \A j \in 1..Len(types) : types'[j] = IF j = i THEN t ELSE types[j]
  BY <1>1, <1>2
<1>5. IsSeq(types')
  BY <1>3, AnySeq
<1> QED
  BY <1>1, <1>3, <1>4, <1>5 DEF Objects

(* What Intern does to the table when it makes an object.                  *)
Inserts(key) ==
    /\ key \notin DOMAIN table
    /\ DOMAIN table' = DOMAIN table \cup {key}
    /\ table'[key] = Fresh
    /\ \A k \in DOMAIN table : table'[k] = table[k]

LEMMA InternFacts ==
  ASSUME NEW key, NEW t, NEW m, Intern(key, t, m)
  PROVE  (UNCHANGED vars) \/ (Push(t, m) /\ Inserts(key))
BY DEF Intern, Inserts

(* One object and one entry of the table, as TypeInv wants them.           *)
ObjectFits(r, i) ==
    /\ IsType(r) /\ r.kind \in Kinds
    /\ r.decl \in Structs \cup Typedefs \cup Procs \cup {NoDecl}
    /\ r.id \in 1..i
    /\ r.id = i <=> r.decl \notin Typedefs

KeyFits(k) ==
    /\ table[k] \in Objects
    /\ types[table[k]].id = table[k]
    /\ k[1] = "pointer" => types[table[k]].kind = "Pointer"
    /\ k[1] = "array" => types[table[k]].kind = "Array"
    /\ k[1] = "proc" => types[table[k]].kind = "Proc"

LEMMA TypeInvParts ==
  TypeInv <=> /\ Len(means) = Len(types)
              /\ IsSeq(types) /\ IsSeq(means)
              /\ \A i \in Objects : ObjectFits(types[i], i)
              /\ \A k \in DOMAIN table : KeyFits(k)
BY DEF TypeInv, TypeOK, ObjectFits, KeyFits, IsTypedef

LEMMA TypeInvParts1 ==
  TypeInv' <=> /\ Len(means') = Len(types')
               /\ IsSeq(types') /\ IsSeq(means')
               /\ \A i \in Objects' : ObjectFits(types'[i], i)
               /\ \A k \in DOMAIN table' : KeyFits(k)'
BY DEF TypeInv, TypeOK, ObjectFits, KeyFits, IsTypedef

LEMMA TypeInvPush ==
  ASSUME TypeInv, NEW t, NEW m, Push(t, m), ObjectFits(t, Fresh), UNCHANGED table
  PROVE  TypeInv'
<1>1. \A k \in DOMAIN table : KeyFits(k)'
  BY PushFacts, TypeInvParts DEF KeyFits
<1>2. \A i \in Objects' : ObjectFits(types'[i], i)
  BY PushFacts, TypeInvParts
<1> QED
  BY <1>1, <1>2, PushFacts, TypeInvParts1

LEMMA TypeInvInsert ==
  ASSUME TypeInv, NEW t, NEW m, Push(t, m), ObjectFits(t, Fresh), NEW key, Inserts(key),
         t.id = Fresh, key[1] = "pointer" => t.kind = "Pointer",
         key[1] = "array" => t.kind = "Array", key[1] = "proc" => t.kind = "Proc"
  PROVE  TypeInv'
<1>1. \A k \in DOMAIN table : KeyFits(k)'
  BY PushFacts, TypeInvParts DEF KeyFits, Inserts
<1>2. KeyFits(key)'
  BY PushFacts DEF KeyFits, Inserts
<1>3. \A i \in Objects' : ObjectFits(types'[i], i)
  BY PushFacts, TypeInvParts
<1> QED
  BY <1>1, <1>2, <1>3, PushFacts, TypeInvParts1 DEF Inserts

LEMMA TypeInvUpdate ==
  ASSUME TypeInv, NEW i \in Objects, NEW t, types' = [types EXCEPT ![i] = t],
         ObjectFits(t, i), t.id = types[i].id, UNCHANGED <<table, means>>,
         types[i].kind \in {"Pointer", "Array", "Proc"} => t.kind = types[i].kind
  PROVE  TypeInv'
<1>1. \A k \in DOMAIN table : KeyFits(k)'
  <2> TAKE k \in DOMAIN table
  <2>1. KeyFits(k)
    BY TypeInvParts
  <2>2. types'[table[k]].id = types[table[k]].id
    BY <2>1, UpdateFacts DEF KeyFits
  <2>3. types[table[k]].kind \in {"Pointer", "Array", "Proc"}
          => types'[table[k]].kind = types[table[k]].kind
    BY <2>1, UpdateFacts DEF KeyFits
  <2> QED
    BY <2>1, <2>2, <2>3, UpdateFacts DEF KeyFits
<1>2. \A j \in Objects' : ObjectFits(types'[j], j)
  <2> TAKE j \in Objects'
  <2>1. j \in Objects /\ types'[j] = IF j = i THEN t ELSE types[j]
    BY UpdateFacts
  <2>2. ObjectFits(types[j], j)
    BY <2>1, TypeInvParts
  <2> QED
    BY <2>1, <2>2
<1> QED
  BY <1>1, <1>2, UpdateFacts, TypeInvParts, TypeInvParts1

LEMMA TypeInvInit == Init => TypeInv
<1> SUFFICES ASSUME Init PROVE TypeInv
  OBVIOUS
<1>1. NBuiltins \in Nat /\ NoDecl \notin Typedefs
  BY DeclsAssumption
<1>2. types \in Seq({Type("Builtin", i, NoDecl, <<>>) : i \in 1..NBuiltins})
      /\ means \in Seq({<<"builtin", i>> : i \in 1..NBuiltins})
  <2>1. types \in [1..NBuiltins -> {Type("Builtin", i, NoDecl, <<>>) : i \in 1..NBuiltins}]
    BY DEF Init
  <2>2. means \in [1..NBuiltins -> {<<"builtin", i>> : i \in 1..NBuiltins}]
    BY DEF Init
  <2> QED
    BY <1>1, <2>1, <2>2, SeqDef
<1>3. Len(types) = NBuiltins /\ Len(means) = NBuiltins
  BY <1>1 DEF Init
<1>4. IsSeq(types) /\ IsSeq(means)
  BY <1>2, AnySeq
<1>5. \A i \in Objects : ObjectFits(types[i], i)
  BY <1>1, <1>3 DEF Init, Objects, ObjectFits, IsType, Type, Kinds
<1>6. DOMAIN table = {}
  BY DEF Init
<1> QED
  BY <1>3, <1>4, <1>5, <1>6, TypeInvParts

LEMMA FreshFits ==
  ASSUME TypeInv, NEW kind \in Kinds, NEW d \in Structs \cup Procs \cup {NoDecl}, NEW parts
  PROVE  /\ ObjectFits(Type(kind, Fresh, d, parts), Fresh)
         /\ Type(kind, Fresh, d, parts).id = Fresh /\ Type(kind, Fresh, d, parts).kind = kind
<1>1. Len(types) \in Nat
  BY LenIsNat DEF TypeInv
<1> QED
  BY <1>1, DeclsAssumption DEF ObjectFits, IsType, Type, Fresh

(* The found procedure type of DeclareProc with its new declaration.       *)
LEMMA RedeclareFits ==
  ASSUME TypeInv, NEW key \in DOMAIN table, key[1] = "proc", NEW d \in Procs
  PROVE  /\ table[key] \in Objects /\ ~IsTypedef(table[key])
         /\ types[table[key]].kind = "Proc"
         /\ ObjectFits([types[table[key]] EXCEPT !.decl = d], table[key])
         /\ [types[table[key]] EXCEPT !.decl = d].id = types[table[key]].id
         /\ [types[table[key]] EXCEPT !.decl = d].kind = types[table[key]].kind
<1>1. KeyFits(key) /\ ObjectFits(types[table[key]], table[key])
  BY TypeInvParts DEF KeyFits
<1> QED
  BY <1>1, DeclsAssumption DEF KeyFits, ObjectFits, IsType, Type, IsTypedef

LEMMA TypeInvIntern ==
  ASSUME TypeInv, NEW kind \in {"Pointer", "Array", "Proc"}, NEW d \in Procs \cup {NoDecl},
         NEW parts, NEW m, NEW key, Intern(key, Type(kind, Fresh, d, parts), m),
         key[1] = "pointer" => kind = "Pointer",
         key[1] = "array" => kind = "Array", key[1] = "proc" => kind = "Proc"
  PROVE  TypeInv'
<1> DEFINE t == Type(kind, Fresh, d, parts)
<1>1. ObjectFits(t, Fresh) /\ t.id = Fresh /\ t.kind = kind
  BY FreshFits DEF Kinds
<1>2. CASE UNCHANGED vars
  BY <1>2 DEF vars, TypeInv, TypeOK, Objects, IsTypedef
<1>3. CASE Push(t, m) /\ Inserts(key)
  <2> HIDE DEF t
  <2> QED
    BY <1>1, <1>3, TypeInvInsert
<1> QED
  BY <1>2, <1>3, InternFacts

LEMMA TypeInvNext == TypeInv /\ [Next]_vars => TypeInv'
<1> SUFFICES ASSUME TypeInv, [Next]_vars PROVE TypeInv'
  OBVIOUS
<1>1. ASSUME NEW d \in Structs, RegisterStruct(d) PROVE TypeInv'
  BY <1>1, FreshFits, TypeInvPush DEF RegisterStruct, Kinds
<1>2. ASSUME NEW i \in Objects, BeginAggregate(i) \/ EndAggregate(i) PROVE TypeInv'
  <2>1. PICK kind \in {"Completing", "Struct", "Error"} :
          types' = [types EXCEPT ![i] = [types[i] EXCEPT !.kind = kind]]
    BY <1>2 DEF BeginAggregate, EndAggregate
  <2>2. types[i].kind \in {"Incomplete", "Completing"} /\ UNCHANGED <<table, means>>
    BY <1>2 DEF BeginAggregate, EndAggregate
  <2>3. ObjectFits(types[i], i)
    BY TypeInvParts
  <2>4. ObjectFits([types[i] EXCEPT !.kind = kind], i)
        /\ [types[i] EXCEPT !.kind = kind].id = types[i].id
    BY <2>3 DEF ObjectFits, IsType, Type, Kinds
  <2> QED
    BY <2>1, <2>2, <2>4, TypeInvUpdate
<1>3. ASSUME NEW i \in Objects, CreatePointerType(i) PROVE TypeInv'
  <2>1. PointerKey(i)[1] = "pointer"
    BY DEF PointerKey
  <2> QED
    BY <1>3, <2>1, TypeInvIntern DEF CreatePointerType
<1>4. ASSUME NEW i \in Objects, NEW n \in Sizes, CreateArrayType(i, n) PROVE TypeInv'
  <2>1. ArrayKey(i, n)[1] = "array"
    BY DEF ArrayKey
  <2> QED
    BY <1>4, <2>1, TypeInvIntern DEF CreateArrayType
<1>5. ASSUME NEW ret \in Objects, NEW vargs \in BOOLEAN, NEW args \in Args,
             CreateProcType(ret, vargs, args)
      PROVE TypeInv'
  <2>1. ProcKey(ret, vargs, args)[1] = "proc"
    BY DEF ProcKey
  <2> QED
    BY <1>5, <2>1, TypeInvIntern DEF CreateProcType
<1>6. ASSUME NEW d \in Procs, NEW ret \in Objects, NEW vargs \in BOOLEAN, NEW args \in Args,
             DeclareProc(d, ret, vargs, args)
      PROVE TypeInv'
  <2> DEFINE key == ProcKey(ret, vargs, args)
  <2>1. key[1] = "proc"
    BY DEF ProcKey
  <2> HIDE DEF key
  <2>2. CASE key \in DOMAIN table
    <3>1. types' = [types EXCEPT ![table[key]] = [types[table[key]] EXCEPT !.decl = d]]
          /\ UNCHANGED <<table, means>>
      BY <1>6, <2>2 DEF DeclareProc, key
    <3> QED
      BY <2>1, <2>2, <3>1, RedeclareFits, TypeInvUpdate
  <2>3. CASE key \notin DOMAIN table
    <3>1. Intern(key, Type("Proc", Fresh, d, <<ret, vargs, args>>), ProcMeans(ret, vargs, args))
      BY <1>6, <2>3 DEF DeclareProc, key
    <3> QED
      BY <2>1, <3>1, TypeInvIntern
  <2> QED
    BY <2>2, <2>3
<1>7. ASSUME NEW d \in Typedefs, NEW i \in Objects, CreateTypedef(d, i) PROVE TypeInv'
  <2> DEFINE t == [types[i] EXCEPT !.decl = d]
  <2>1. ObjectFits(types[i], i) /\ Len(types) \in Nat
    BY TypeInvParts, LenIsNat
  <2>2. ObjectFits(t, Fresh)
    BY <2>1 DEF ObjectFits, IsType, Type, Fresh, Objects
  <2>3. Push(t, <<"typedef", d>>) /\ UNCHANGED table
    BY <1>7 DEF CreateTypedef
  <2> HIDE DEF t
  <2> QED
    BY <2>2, <2>3, TypeInvPush
<1>8. CASE UNCHANGED vars
  BY <1>8 DEF vars, TypeInv, TypeOK, Objects, IsTypedef
<1> QED
  BY <1>1, <1>2, <1>3, <1>4, <1>5, <1>6, <1>7, <1>8 DEF Next

(* The objects of the type table keep their ids, and the table leads to    *)
(* objects that are no typedefs and of the kind that was asked for         *)
(* (src/src/compiler/ast.c, LC_CreateType and LC_CreateTypedef).           *)
THEOREM TypesWellFormed == Spec => []TypeOK
<1>1. Spec => []TypeInv
  BY TypeInvInit, TypeInvNext, PTL DEF Spec
<1>2. TypeInv => TypeOK
  BY DEF TypeInv
<1> QED
  BY <1>1, <1>2, PTL

---------------------------------------------------------------------------
(* Every struct and typedef declaration has one object.                    *)
OnceDeclared ==
    \A i, j \in Objects :
      types[i].decl \in Structs \cup Typedefs /\ types[i].decl = types[j].decl => i = j

LEMMA OnceDeclaredInit == Init => OnceDeclared
<1> SUFFICES ASSUME Init PROVE OnceDeclared
  OBVIOUS
<1>1. \A i \in Objects : types[i].decl = NoDecl
  BY DeclsAssumption DEF Init, Objects, Type
<1> QED
  BY <1>1, DeclsAssumption DEF OnceDeclared

LEMMA OnceDeclaredPush ==
  ASSUME TypeInv, OnceDeclared, NEW t, NEW m, Push(t, m),
         t.decl \in Structs \cup Typedefs => \A i \in Objects : types[i].decl # t.decl
  PROVE  OnceDeclared'
<1> SUFFICES ASSUME NEW i \in Objects', NEW j \in Objects',
                    types'[i].decl \in Structs \cup Typedefs, types'[i].decl = types'[j].decl
             PROVE  i = j
  BY DEF OnceDeclared
<1>1. CASE i \in Objects /\ j \in Objects
  BY <1>1, PushFacts DEF OnceDeclared
<1>2. CASE i = Fresh \/ j = Fresh
  BY <1>2, PushFacts
<1> QED
  BY <1>1, <1>2, PushFacts

LEMMA OnceDeclaredNext == TypeInv /\ OnceDeclared /\ [Next]_vars => OnceDeclared'
<1> SUFFICES ASSUME TypeInv, OnceDeclared, [Next]_vars PROVE OnceDeclared'
  OBVIOUS
<1>a. ASSUME NEW kind, NEW d \in Procs \cup {NoDecl}, NEW parts, NEW m, NEW key,
             Intern(key, Type(kind, Fresh, d, parts), m)
      PROVE  OnceDeclared'
  <2> DEFINE t == Type(kind, Fresh, d, parts)
  <2>1. t.decl \notin Structs \cup Typedefs
    BY DeclsAssumption DEF Type
  <2> HIDE DEF t
  <2>2. CASE UNCHANGED vars
    BY <2>2 DEF vars, OnceDeclared, Objects
  <2>3. CASE Push(t, m)
    BY <2>1, <2>3, OnceDeclaredPush
  <2> QED
    BY <1>a, <2>2, <2>3, InternFacts DEF t
<1>1. ASSUME NEW d \in Structs, RegisterStruct(d) PROVE OnceDeclared'
  <2> DEFINE t == Type("Incomplete", Fresh, d, <<>>)
  <2>1. t.decl = d
    BY DEF Type
  <2> HIDE DEF t
  <2> QED
    BY <1>1, <2>1, OnceDeclaredPush DEF RegisterStruct, t
<1>2. ASSUME NEW i \in Objects, BeginAggregate(i) \/ EndAggregate(i) PROVE OnceDeclared'
  <2>1. PICK kind \in {"Completing", "Struct", "Error"} :
          types' = [types EXCEPT ![i] = [types[i] EXCEPT !.kind = kind]]
    BY <1>2 DEF BeginAggregate, EndAggregate
  <2>2. [types[i] EXCEPT !.kind = kind].decl = types[i].decl
    BY TypeInvParts DEF ObjectFits, IsType, Type
  <2>3. \A j \in Objects : types'[j].decl = types[j].decl
    BY <2>1, <2>2, UpdateFacts
  <2>4. Objects' = Objects
    BY <2>1, UpdateFacts
  <2> QED
    BY <2>3, <2>4 DEF OnceDeclared
<1>3. ASSUME NEW i \in Objects, CreatePointerType(i) PROVE OnceDeclared'
  BY <1>3, <1>a DEF CreatePointerType
<1>4. ASSUME NEW i \in Objects, NEW n \in Sizes, CreateArrayType(i, n) PROVE OnceDeclared'
  BY <1>4, <1>a DEF CreateArrayType
<1>5. ASSUME NEW ret \in Objects, NEW vargs \in BOOLEAN, NEW args \in Args,
             CreateProcType(ret, vargs, args)
      PROVE OnceDeclared'
  BY <1>5, <1>a DEF CreateProcType
<1>6. ASSUME NEW d \in Procs, NEW ret \in Objects, NEW vargs \in BOOLEAN, NEW args \in Args,
             DeclareProc(d, ret, vargs, args)
      PROVE OnceDeclared'
  <2> DEFINE key == ProcKey(ret, vargs, args)
  <2>1. key[1] = "proc"
    BY DEF ProcKey
  <2> HIDE DEF key
  <2>2. CASE key \in DOMAIN table
    <3> DEFINE i == table[key]
               t == [types[i] EXCEPT !.decl = d]
    <3>1. types' = [types EXCEPT ![i] = t]
      BY <1>6, <2>2 DEF DeclareProc, key
    <3>2. i \in Objects /\ IsType(types[i])
      BY <2>1, <2>2, RedeclareFits, TypeInvParts DEF ObjectFits
    <3>3. t.decl = d /\ d \notin Structs \cup Typedefs
      BY <3>2, DeclsAssumption DEF IsType, Type
    <3> HIDE DEF i, t
    <3>4. Objects' = Objects /\ \A j \in Objects : types'[j] = IF j = i THEN t ELSE types[j]
      BY <3>1, <3>2, UpdateFacts
    <3>5. \A j \in Objects : types'[j].decl = types[j].decl \/ types'[j].decl \notin Structs \cup Typedefs
      BY <3>3, <3>4
    <3> QED
      BY <3>4, <3>5 DEF OnceDeclared
  <2>3. CASE key \notin DOMAIN table
    BY <1>6, <1>a, <2>3 DEF DeclareProc, key
  <2> QED
    BY <2>2, <2>3
<1>7. ASSUME NEW d \in Typedefs, NEW i \in Objects, CreateTypedef(d, i) PROVE OnceDeclared'
  <2> DEFINE t == [types[i] EXCEPT !.decl = d]
  <2>1. t.decl = d
    BY TypeInvParts DEF ObjectFits, IsType, Type
  <2> HIDE DEF t
  <2> QED
    BY <1>7, <2>1, OnceDeclaredPush DEF CreateTypedef, t
<1>8. CASE UNCHANGED vars
  BY <1>8 DEF vars, OnceDeclared, Objects
<1> QED
  BY <1>1, <1>2, <1>3, <1>4, <1>5, <1>6, <1>7, <1>8 DEF Next

---------------------------------------------------------------------------
(* Bytes change, but two records with different identity never become one. *)
Ident(r) == IF r.decl \in Typedefs THEN <<"typedef", r.decl>> ELSE <<"own", r.id>>

LEMMA IdentIsInjective ==
  ASSUME TypeInv, OnceDeclared, NEW i \in Objects, NEW j \in Objects,
         Ident(types[i]) = Ident(types[j])
  PROVE  i = j
<1>1. (types[i].id = i <=> types[i].decl \notin Typedefs)
      /\ (types[j].id = j <=> types[j].decl \notin Typedefs)
  BY TypeInvParts DEF ObjectFits
<1> QED
  BY <1>1 DEF Ident, OnceDeclared

(* What no step disturbs.                                                  *)
Steady ==
    /\ Objects \subseteq Objects'
    /\ \A i \in Objects : means'[i] = means[i] /\ Ident(types'[i]) = Ident(types[i])
    /\ DOMAIN table \subseteq DOMAIN table'
    /\ \A k \in DOMAIN table : table'[k] = table[k]

LEMMA SteadyIntern ==
  ASSUME TypeInv, NEW t, NEW m, NEW key, Intern(key, t, m)
  PROVE  Steady
<1>1. CASE UNCHANGED vars
  BY <1>1 DEF vars, Steady, Objects
<1>2. CASE Push(t, m) /\ Inserts(key)
  BY <1>2, PushFacts DEF Steady, Inserts
<1> QED
  BY <1>1, <1>2, InternFacts

LEMMA SteadyUpdate ==
  ASSUME TypeInv, NEW i \in Objects, NEW t, types' = [types EXCEPT ![i] = t],
         Ident(t) = Ident(types[i]), UNCHANGED <<table, means>>
  PROVE  Steady
<1>1. Objects' = Objects /\ \A j \in Objects : types'[j] = IF j = i THEN t ELSE types[j]
  BY UpdateFacts
<1>2. \A j \in Objects : Ident(types'[j]) = Ident(types[j])
  BY <1>1
<1> QED
  BY <1>1, <1>2 DEF Steady

LEMMA SteadyNext ==
  ASSUME TypeInv, [Next]_vars
  PROVE  Steady
<1>1. ASSUME NEW d \in Structs, RegisterStruct(d) PROVE Steady
  BY <1>1, PushFacts DEF RegisterStruct, Steady
<1>2. ASSUME NEW i \in Objects, BeginAggregate(i) \/ EndAggregate(i) PROVE Steady
  <2>1. PICK kind \in {"Completing", "Struct", "Error"} :
          types' = [types EXCEPT ![i] = [types[i] EXCEPT !.kind = kind]]
    BY <1>2 DEF BeginAggregate, EndAggregate
  <2>2. Ident([types[i] EXCEPT !.kind = kind]) = Ident(types[i])
    BY TypeInvParts DEF ObjectFits, IsType, Type, Ident
  <2> QED
    BY <1>2, <2>1, <2>2, SteadyUpdate DEF BeginAggregate, EndAggregate
<1>3. ASSUME NEW i \in Objects, CreatePointerType(i) PROVE Steady
  BY <1>3, SteadyIntern DEF CreatePointerType
<1>4. ASSUME NEW i \in Objects, NEW n \in Sizes, CreateArrayType(i, n) PROVE Steady
  BY <1>4, SteadyIntern DEF CreateArrayType
<1>5. ASSUME NEW ret \in Objects, NEW vargs \in BOOLEAN, NEW args \in Args,
             CreateProcType(ret, vargs, args)
      PROVE Steady
  BY <1>5, SteadyIntern DEF CreateProcType
<1>6. ASSUME NEW d \in Procs, NEW ret \in Objects, NEW vargs \in BOOLEAN, NEW args \in Args,
             DeclareProc(d, ret, vargs, args)
      PROVE Steady
  <2> DEFINE key == ProcKey(ret, vargs, args)
  <2>1. key[1] = "proc"
    BY DEF ProcKey
  <2> HIDE DEF key
  <2>2. CASE key \in DOMAIN table
    <3> DEFINE i == table[key]
               t == [types[i] EXCEPT !.decl = d]
    <3>1. types' = [types EXCEPT ![i] = t] /\ UNCHANGED <<table, means>>
      BY <1>6, <2>2 DEF DeclareProc, key
    <3>2. i \in Objects /\ IsType(types[i]) /\ types[i].decl \notin Typedefs
      BY <2>1, <2>2, RedeclareFits, TypeInvParts DEF ObjectFits, IsTypedef
    <3>3. Ident(t) = Ident(types[i])
      BY <3>2, DeclsAssumption DEF IsType, Type, Ident
    <3> HIDE DEF i, t
    <3> QED
      BY <3>1, <3>2, <3>3, SteadyUpdate
  <2>3. CASE key \notin DOMAIN table
    BY <1>6, <2>3, SteadyIntern DEF DeclareProc, key
  <2> QED
    BY <2>2, <2>3
<1>7. ASSUME NEW d \in Typedefs, NEW i \in Objects, CreateTypedef(d, i) PROVE Steady
  BY <1>7, PushFacts DEF CreateTypedef, Steady
<1>8. CASE UNCHANGED vars
  BY <1>8 DEF vars, Steady, Objects
<1> QED
  BY <1>1, <1>2, <1>3, <1>4, <1>5, <1>6, <1>7, <1>8 DEF Next

---------------------------------------------------------------------------
(* Argument lists as functions to explicit records.                        *)
IsArgs(args) ==
    /\ args = [k \in DOMAIN args |-> [name |-> args[k].name, type |-> args[k].type,
                                      default |-> args[k].default]]
    /\ \A k \in DOMAIN args : args[k].type \in Objects

LEMMA ArgsAreArgs ==
  ASSUME NEW args \in Args
  PROVE  IsArgs(args)
<1>1. PICK n \in 0..MaxArgs :
        args \in [1..n -> [name : ArgNames, type : Objects, default : Defaults \cup {NoDefault}]]
  BY DEF Args
<1>2. \A k \in DOMAIN args :
        /\ args[k] = [name |-> args[k].name, type |-> args[k].type, default |-> args[k].default]
        /\ args[k].type \in Objects
  BY <1>1
<1> QED
  BY <1>1, <1>2 DEF IsArgs

LEMMA ArgParts ==
  ASSUME NEW args, IsArgs(args)
  PROVE  /\ DOMAIN ArgBytes(args) = DOMAIN args /\ DOMAIN ArgMeans(args) = DOMAIN args
         /\ \A k \in DOMAIN args :
              /\ ArgBytes(args)[k] = [name |-> args[k].name, type |-> types[args[k].type],
                                      default |-> args[k].default]
              /\ ArgMeans(args)[k] = [name |-> args[k].name, type |-> means[args[k].type],
                                      default |-> args[k].default]
<1>1. \A k \in DOMAIN args :
        args[k] = [name |-> args[k].name, type |-> args[k].type, default |-> args[k].default]
  BY DEF IsArgs
<1> QED
  BY <1>1 DEF ArgBytes, ArgMeans

LEMMA SameArgs ==
  ASSUME NEW args, NEW others, IsArgs(args), IsArgs(others), DOMAIN args = DOMAIN others,
         \A k \in DOMAIN args : /\ args[k].name = others[k].name
                                /\ args[k].type = others[k].type
                                /\ args[k].default = others[k].default
  PROVE  args = others
BY DEF IsArgs

LEMMA SteadyArgs ==
  ASSUME Steady, NEW args, IsArgs(args)
  PROVE  IsArgs(args)' /\ ArgMeans(args)' = ArgMeans(args)
BY DEF Steady, IsArgs, ArgMeans

(* Bytes of an argument list, taken at some time.                          *)
Matches(bytes, args) ==
    /\ DOMAIN bytes = DOMAIN args
    /\ \A k \in DOMAIN args : /\ bytes[k].name = args[k].name
                              /\ bytes[k].default = args[k].default
                              /\ Ident(bytes[k].type) = Ident(types[args[k].type])

(* Every key in the table was made of bytes that some object had, and      *)
(* leads to the type over those objects.                                   *)
PointerSound(k, i) == k = <<"pointer", i>> /\ means[table[k]] = PointerMeans(i)
ArraySound(k, i, r, n) ==
    /\ k = <<"array", r, n>> /\ Ident(r) = Ident(types[i])
    /\ means[table[k]] = ArrayMeans(i, n)
ProcSound(k, i, r, vargs, bytes, args) ==
    /\ k = <<"proc", r, vargs, bytes>> /\ Ident(r) = Ident(types[i])
    /\ IsArgs(args) /\ Matches(bytes, args)
    /\ means[table[k]] = ProcMeans(i, vargs, args)
KeyIsSound(k) ==
    \/ \E i \in Objects : PointerSound(k, i)
    \/ \E i \in Objects : \E r, n : ArraySound(k, i, r, n)
    \/ \E i \in Objects : \E r, vargs, bytes, args : ProcSound(k, i, r, vargs, bytes, args)
KeysAreSound == \A k \in DOMAIN table : KeyIsSound(k)

LEMMA SoundStays ==
  ASSUME TypeInv, Steady, NEW k \in DOMAIN table, KeyIsSound(k)
  PROVE  KeyIsSound(k)'
<1>1. table'[k] = table[k] /\ means'[table[k]] = means[table[k]]
  BY TypeInvParts DEF Steady, KeyFits
<1>2. ASSUME NEW i \in Objects, PointerSound(k, i) PROVE KeyIsSound(k)'
  <2>1. i \in Objects' /\ PointerSound(k, i)'
    BY <1>1, <1>2 DEF Steady, PointerSound, PointerMeans
  <2> QED
    BY <2>1 DEF KeyIsSound
<1>3. ASSUME NEW i \in Objects, NEW r, NEW n, ArraySound(k, i, r, n) PROVE KeyIsSound(k)'
  <2>1. i \in Objects' /\ ArraySound(k, i, r, n)'
    BY <1>1, <1>3 DEF Steady, ArraySound, ArrayMeans
  <2> QED
    BY <2>1 DEF KeyIsSound
<1>4. ASSUME NEW i \in Objects, NEW r, NEW vargs, NEW bytes, NEW args,
             ProcSound(k, i, r, vargs, bytes, args)
      PROVE KeyIsSound(k)'
  <2>1. IsArgs(args)' /\ ArgMeans(args)' = ArgMeans(args)
    BY <1>4, SteadyArgs DEF ProcSound
  <2>2. Matches(bytes, args)'
    BY <1>4 DEF Steady, ProcSound, Matches, IsArgs
  <2>3. ProcMeans(i, vargs, args)' = ProcMeans(i, vargs, args)
    BY <2>1 DEF ProcMeans, Steady
  <2>4. i \in Objects' /\ ProcSound(k, i, r, vargs, bytes, args)'
    BY <1>1, <1>4, <2>1, <2>2, <2>3 DEF Steady, ProcSound
  <2> QED
    BY <2>4 DEF KeyIsSound
<1> QED
  BY <1>2, <1>3, <1>4 DEF KeyIsSound

LEMMA SoundIntern ==
  ASSUME TypeInv, KeysAreSound, NEW t, NEW m, NEW key, Intern(key, t, m),
         Push(t, m) /\ Inserts(key) => KeyIsSound(key)'
  PROVE  KeysAreSound'
<1>1. Steady
  BY SteadyIntern
<1>2. \A k \in DOMAIN table : KeyIsSound(k)'
  BY <1>1, SoundStays DEF KeysAreSound
<1>3. CASE UNCHANGED vars
  BY <1>2, <1>3 DEF vars, KeysAreSound
<1>4. CASE Push(t, m) /\ Inserts(key)
  BY <1>2, <1>4 DEF Inserts, KeysAreSound
<1> QED
  BY <1>3, <1>4, InternFacts

(* An inserted key, and the bytes it is made of, are fixed values: they    *)
(* stay what they are when the objects change.                             *)
LEMMA SoundProc ==
  ASSUME TypeInv, KeysAreSound, NEW t, NEW ret \in Objects, NEW vargs, NEW args \in Args,
         NEW key, NEW m, NEW r, NEW bytes,
         key = ProcKey(ret, vargs, args), m = ProcMeans(ret, vargs, args),
         r = types[ret], bytes = ArgBytes(args), Intern(key, t, m)
  PROVE  KeysAreSound'
<1> SUFFICES ASSUME Push(t, m), Inserts(key) PROVE KeyIsSound(key)'
  BY SoundIntern
<1>1. Steady
  BY SteadyIntern
<1>2. IsArgs(args)
  BY ArgsAreArgs
<1>3. IsArgs(args)' /\ ArgMeans(args)' = ArgMeans(args)
  BY <1>1, <1>2, SteadyArgs
<1>4. /\ DOMAIN bytes = DOMAIN args
      /\ \A k \in DOMAIN args : bytes[k] = [name |-> args[k].name, type |-> types[args[k].type],
                                            default |-> args[k].default]
  BY <1>2, ArgParts
<1>5. Matches(bytes, args)'
  BY <1>1, <1>2, <1>4 DEF Matches, Steady, IsArgs
<1>6. ProcMeans(ret, vargs, args)' = m
  BY <1>1, <1>3 DEF ProcMeans, Steady
<1>7. means'[table'[key]] = m
  BY PushFacts DEF Inserts
<1>8. Ident(r) = Ident(types'[ret]) /\ ret \in Objects'
  BY <1>1 DEF Steady
<1>9. key = <<"proc", r, vargs, bytes>>
  BY DEF ProcKey
<1>10. ProcSound(key, ret, r, vargs, bytes, args)'
  BY <1>3, <1>5, <1>6, <1>7, <1>8, <1>9 DEF ProcSound
<1> QED
  BY <1>8, <1>10 DEF KeyIsSound

LEMMA SoundArray ==
  ASSUME TypeInv, KeysAreSound, NEW t, NEW i \in Objects, NEW n, NEW key, NEW m, NEW r,
         key = ArrayKey(i, n), m = ArrayMeans(i, n), r = types[i], Intern(key, t, m)
  PROVE  KeysAreSound'
<1> SUFFICES ASSUME Push(t, m), Inserts(key) PROVE KeyIsSound(key)'
  BY SoundIntern
<1>1. Steady
  BY SteadyIntern
<1>2. means'[table'[key]] = m
  BY PushFacts DEF Inserts
<1>3. i \in Objects' /\ ArraySound(key, i, r, n)'
  BY <1>1, <1>2 DEF Steady, ArraySound, ArrayMeans, ArrayKey
<1> QED
  BY <1>3 DEF KeyIsSound

LEMMA SoundPointer ==
  ASSUME TypeInv, KeysAreSound, NEW t, NEW i \in Objects, NEW key, NEW m,
         key = PointerKey(i), m = PointerMeans(i), Intern(key, t, m)
  PROVE  KeysAreSound'
<1> SUFFICES ASSUME Push(t, m), Inserts(key) PROVE KeyIsSound(key)'
  BY SoundIntern
<1>1. Steady
  BY SteadyIntern
<1>2. means'[table'[key]] = m
  BY PushFacts DEF Inserts
<1>3. i \in Objects' /\ PointerSound(key, i)'
  BY <1>1, <1>2 DEF Steady, PointerSound, PointerMeans, PointerKey
<1> QED
  BY <1>3 DEF KeyIsSound

LEMMA KeysAreSoundInit == Init => KeysAreSound
BY DEF Init, KeysAreSound

LEMMA KeysAreSoundNext == TypeInv /\ KeysAreSound /\ [Next]_vars => KeysAreSound'
<1> SUFFICES ASSUME TypeInv, KeysAreSound, [Next]_vars PROVE KeysAreSound'
  OBVIOUS
<1>1. ASSUME UNCHANGED table PROVE KeysAreSound'
  <2>1. \A k \in DOMAIN table : KeyIsSound(k)'
    BY SteadyNext, SoundStays DEF KeysAreSound
  <2> QED
    BY <1>1, <2>1 DEF KeysAreSound
<1>2. ASSUME NEW i \in Objects, CreatePointerType(i) PROVE KeysAreSound'
  BY <1>2, SoundPointer DEF CreatePointerType
<1>3. ASSUME NEW i \in Objects, NEW n \in Sizes, CreateArrayType(i, n) PROVE KeysAreSound'
  BY <1>3, SoundArray DEF CreateArrayType
<1>4. ASSUME NEW ret \in Objects, NEW vargs \in BOOLEAN, NEW args \in Args,
             CreateProcType(ret, vargs, args)
      PROVE KeysAreSound'
  BY <1>4, SoundProc DEF CreateProcType
<1>5. ASSUME NEW d \in Procs, NEW ret \in Objects, NEW vargs \in BOOLEAN, NEW args \in Args,
             DeclareProc(d, ret, vargs, args)
      PROVE KeysAreSound'
  <2>1. CASE ProcKey(ret, vargs, args) \in DOMAIN table
    BY <1>1, <1>5, <2>1 DEF DeclareProc
  <2>2. CASE ProcKey(ret, vargs, args) \notin DOMAIN table
    BY <1>5, <2>2, SoundProc DEF DeclareProc
  <2> QED
    BY <2>1, <2>2
<1>6. ASSUME NEW d \in Structs, RegisterStruct(d) PROVE KeysAreSound'
  BY <1>1, <1>6 DEF RegisterStruct
<1>7. ASSUME NEW i \in Objects, BeginAggregate(i) \/ EndAggregate(i) PROVE KeysAreSound'
  BY <1>1, <1>7 DEF BeginAggregate, EndAggregate
<1>8. ASSUME NEW d \in Typedefs, NEW i \in Objects, CreateTypedef(d, i) PROVE KeysAreSound'
  BY <1>1, <1>8 DEF CreateTypedef
<1>9. CASE UNCHANGED vars
  BY <1>1, <1>9 DEF vars
<1> QED
  BY <1>2, <1>3, <1>4, <1>5, <1>6, <1>7, <1>8, <1>9 DEF Next

(* A sound key is found by the type it was made for and by no other.       *)
LEMMA FoundPointer ==
  ASSUME TypeInv, KeysAreSound, NEW i \in Objects, PointerKey(i) \in DOMAIN table
  PROVE  means[table[PointerKey(i)]] = PointerMeans(i)
<1>1. PICK k \in DOMAIN table : k = PointerKey(i)
  OBVIOUS
<1>2. KeyIsSound(k) /\ k[1] = "pointer"
  BY <1>1 DEF KeysAreSound, PointerKey
<1>3. \A r, n : k # <<"array", r, n>>
  BY <1>2
<1>4. \A r, vargs, bytes : k # <<"proc", r, vargs, bytes>>
  BY <1>2
<1>5. PICK j \in Objects : PointerSound(k, j)
  BY <1>2, <1>3, <1>4 DEF KeyIsSound, ArraySound, ProcSound
<1>6. i = j
  BY <1>1, <1>5 DEF PointerSound, PointerKey
<1> QED
  BY <1>1, <1>5, <1>6 DEF PointerSound

LEMMA FoundArray ==
  ASSUME TypeInv, OnceDeclared, KeysAreSound, NEW i \in Objects, NEW n,
         ArrayKey(i, n) \in DOMAIN table
  PROVE  means[table[ArrayKey(i, n)]] = ArrayMeans(i, n)
<1>1. PICK k \in DOMAIN table : k = ArrayKey(i, n)
  OBVIOUS
<1>2. KeyIsSound(k) /\ k[1] = "array"
  BY <1>1 DEF KeysAreSound, ArrayKey
<1>3. \A j : k # <<"pointer", j>>
  BY <1>2
<1>4. \A r, vargs, bytes : k # <<"proc", r, vargs, bytes>>
  BY <1>2
<1>5. PICK j \in Objects : \E r, len : ArraySound(k, j, r, len)
  BY <1>2, <1>3, <1>4 DEF KeyIsSound, PointerSound, ProcSound
<1>6. PICK r, len : ArraySound(k, j, r, len)
  BY <1>5
<1>7. r = types[i] /\ len = n
  BY <1>1, <1>6 DEF ArraySound, ArrayKey
<1>8. i = j
  BY <1>6, <1>7, IdentIsInjective DEF ArraySound
<1> QED
  BY <1>1, <1>6, <1>7, <1>8 DEF ArraySound

LEMMA FoundProc ==
  ASSUME TypeInv, OnceDeclared, KeysAreSound,
         NEW ret \in Objects, NEW vargs, NEW args \in Args, ProcKey(ret, vargs, args) \in DOMAIN table
  PROVE  means[table[ProcKey(ret, vargs, args)]] = ProcMeans(ret, vargs, args)
<1>1. PICK k \in DOMAIN table : k = ProcKey(ret, vargs, args)
  OBVIOUS
<1>2. KeyIsSound(k) /\ k[1] = "proc"
  BY <1>1 DEF KeysAreSound, ProcKey
<1>3. \A j : k # <<"pointer", j>>
  BY <1>2
<1>4. \A r, n : k # <<"array", r, n>>
  BY <1>2
<1>5. PICK i \in Objects : \E r, dots, bytes, others : ProcSound(k, i, r, dots, bytes, others)
  BY <1>2, <1>3, <1>4 DEF KeyIsSound, PointerSound, ArraySound
<1>6. PICK r, dots, bytes, others : ProcSound(k, i, r, dots, bytes, others)
  BY <1>5
<1>7. r = types[ret] /\ dots = vargs /\ bytes = ArgBytes(args)
  BY <1>1, <1>6 DEF ProcSound, ProcKey
<1>8. ret = i
  BY <1>6, <1>7, IdentIsInjective DEF ProcSound
<1>9. IsArgs(args) /\ IsArgs(others) /\ Matches(bytes, others)
  BY <1>6, ArgsAreArgs DEF ProcSound
<1>10. /\ DOMAIN bytes = DOMAIN args
       /\ \A j \in DOMAIN args : bytes[j] = [name |-> args[j].name, type |-> types[args[j].type],
                                             default |-> args[j].default]
  BY <1>7, <1>9, ArgParts
<1>11. ASSUME NEW j \in DOMAIN args
       PROVE  args[j].name = others[j].name /\ args[j].default = others[j].default
              /\ args[j].type = others[j].type
  <2>1. Ident(types[args[j].type]) = Ident(types[others[j].type])
        /\ args[j].name = others[j].name /\ args[j].default = others[j].default
    BY <1>9, <1>10 DEF Matches
  <2>2. args[j].type \in Objects /\ others[j].type \in Objects
    BY <1>9, <1>10 DEF Matches, IsArgs
  <2> QED
    BY <2>1, <2>2, IdentIsInjective
<1>12. args = others
  BY <1>9, <1>10, <1>11, SameArgs DEF Matches
<1> QED
  BY <1>1, <1>6, <1>7, <1>8, <1>12 DEF ProcSound

(* A type that is found in the table is the type that was asked for,       *)
(* although its key was made of bytes that may have changed                *)
(* (src/src/compiler/ast.c, LC_CreatePointerType, LC_CreateArrayType and   *)
(* LC_CreateProcType).                                                     *)
THEOREM LookupsAreSound == Spec => []LookupIsSound
<1>1. Spec => []TypeInv
  BY TypeInvInit, TypeInvNext, PTL DEF Spec
<1>2. Spec => []OnceDeclared
  BY <1>1, OnceDeclaredInit, OnceDeclaredNext, PTL DEF Spec
<1>3. Spec => []KeysAreSound
  BY <1>1, KeysAreSoundInit, KeysAreSoundNext, PTL DEF Spec
<1>4. TypeInv /\ OnceDeclared /\ KeysAreSound => LookupIsSound
  BY FoundPointer, FoundArray, FoundProc DEF LookupIsSound
<1> QED
  BY <1>1, <1>2, <1>3, <1>4, PTL

---------------------------------------------------------------------------
(* The other direction: without plain procedure types inside of others,    *)
(* the bytes a key is made of never change again.                          *)

StructKinds == {"Incomplete", "Completing", "Struct", "Error"}
Closed(i) == IsComplete(i) /\ ~IsPlainProc(i)
ClosedArgs(args) == IsArgs(args) /\ \A k \in DOMAIN args : Closed(args[k].type)

(* Each object by its meaning; what was interned can still be found.       *)
TypedefMeant(i) ==
    /\ types[i].decl \in Typedefs /\ types[i].kind \notin StructKinds
    /\ means[i] = <<"typedef", types[i].decl>>
StructMeant(i) ==
    /\ types[i].decl \in Structs /\ types[i].kind \in StructKinds
    /\ means[i] = <<"struct", types[i].decl>>
BuiltinMeant(i) ==
    /\ types[i].decl = NoDecl /\ types[i].kind = "Builtin"
    /\ means[i] = <<"builtin", i>>
PointerMeant(i) ==
    /\ types[i].decl = NoDecl /\ types[i].kind = "Pointer"
    /\ \E j \in Objects : means[i] = PointerMeans(j) /\ PointerKey(j) \in DOMAIN table
ArrayOf(i, j, n) ==
    Closed(j) /\ means[i] = ArrayMeans(j, n) /\ ArrayKey(j, n) \in DOMAIN table
ArrayMeant(i) ==
    /\ types[i].decl = NoDecl /\ types[i].kind = "Array"
    /\ \E j \in Objects : \E n : ArrayOf(i, j, n)
ProcOf(i, ret, vargs, args) ==
    /\ Closed(ret) /\ ClosedArgs(args) /\ means[i] = ProcMeans(ret, vargs, args)
    /\ ProcKey(ret, vargs, args) \in DOMAIN table
ProcMeant(i) ==
    /\ types[i].decl \in Procs \cup {NoDecl} /\ types[i].kind = "Proc"
    /\ \E ret \in Objects : \E vargs, args : ProcOf(i, ret, vargs, args)
Meant(i) ==
    \/ TypedefMeant(i) \/ StructMeant(i) \/ BuiltinMeant(i)
    \/ PointerMeant(i) \/ ArrayMeant(i) \/ ProcMeant(i)
AllMeant == \A i \in Objects : Meant(i)

(* What a step may do to an object: lay it out or declare it.              *)
Kept(r, s) ==
    \/ s = r
    \/ /\ r.kind \in {"Incomplete", "Completing"} /\ s.kind \in StructKinds
       /\ s.decl = r.decl
    \/ r.kind = "Proc" /\ s.kind = "Proc" /\ r.decl \notin Typedefs /\ s.decl \in Procs
AllKept == \A i \in Objects : Kept(types[i], types'[i])

LEMMA KeptNext ==
  ASSUME TypeInv, [Next]_vars
  PROVE  AllKept
<1>a. ASSUME NEW t, NEW m, NEW key, Intern(key, t, m) PROVE AllKept
  <2>1. CASE UNCHANGED vars
    BY <2>1 DEF vars, AllKept, Kept
  <2>2. CASE Push(t, m)
    BY <2>2, PushFacts DEF AllKept, Kept
  <2> QED
    BY <1>a, <2>1, <2>2, InternFacts
<1>1. ASSUME NEW d \in Structs, RegisterStruct(d) PROVE AllKept
  BY <1>1, PushFacts DEF RegisterStruct, AllKept, Kept
<1>2. ASSUME NEW i \in Objects, BeginAggregate(i) \/ EndAggregate(i) PROVE AllKept
  <2>1. PICK kind \in {"Completing", "Struct", "Error"} :
          types' = [types EXCEPT ![i] = [types[i] EXCEPT !.kind = kind]]
    BY <1>2 DEF BeginAggregate, EndAggregate
  <2>2. types[i].kind \in {"Incomplete", "Completing"}
    BY <1>2 DEF BeginAggregate, EndAggregate
  <2>3. [types[i] EXCEPT !.kind = kind].decl = types[i].decl
        /\ [types[i] EXCEPT !.kind = kind].kind = kind
    BY TypeInvParts DEF ObjectFits, IsType, Type
  <2>4. Kept(types[i], [types[i] EXCEPT !.kind = kind])
    BY <2>2, <2>3 DEF Kept, StructKinds
  <2> QED
    BY <2>1, <2>4, UpdateFacts DEF AllKept, Kept
<1>3. ASSUME NEW i \in Objects, CreatePointerType(i) PROVE AllKept
  BY <1>3, <1>a DEF CreatePointerType
<1>4. ASSUME NEW i \in Objects, NEW n \in Sizes, CreateArrayType(i, n) PROVE AllKept
  BY <1>4, <1>a DEF CreateArrayType
<1>5. ASSUME NEW ret \in Objects, NEW vargs \in BOOLEAN, NEW args \in Args,
             CreateProcType(ret, vargs, args)
      PROVE AllKept
  BY <1>5, <1>a DEF CreateProcType
<1>6. ASSUME NEW d \in Procs, NEW ret \in Objects, NEW vargs \in BOOLEAN, NEW args \in Args,
             DeclareProc(d, ret, vargs, args)
      PROVE AllKept
  <2> DEFINE key == ProcKey(ret, vargs, args)
  <2>1. key[1] = "proc"
    BY DEF ProcKey
  <2> HIDE DEF key
  <2>2. CASE key \in DOMAIN table
    <3> DEFINE i == table[key]
               t == [types[i] EXCEPT !.decl = d]
    <3>1. types' = [types EXCEPT ![i] = t]
      BY <1>6, <2>2 DEF DeclareProc, key
    <3>2. i \in Objects /\ IsType(types[i]) /\ types[i].decl \notin Typedefs
          /\ types[i].kind = "Proc"
      BY <2>1, <2>2, RedeclareFits, TypeInvParts DEF ObjectFits, IsTypedef
    <3>3. t.decl = d /\ t.kind = "Proc"
      BY <3>2 DEF IsType, Type
    <3>4. Kept(types[i], t)
      BY <3>2, <3>3 DEF Kept
    <3> HIDE DEF i, t
    <3> QED
      BY <3>1, <3>2, <3>4, UpdateFacts DEF AllKept, Kept
  <2>3. CASE key \notin DOMAIN table
    BY <1>6, <1>a, <2>3 DEF DeclareProc, key
  <2> QED
    BY <2>2, <2>3
<1>7. ASSUME NEW d \in Typedefs, NEW i \in Objects, CreateTypedef(d, i) PROVE AllKept
  BY <1>7, PushFacts DEF CreateTypedef, AllKept, Kept
<1>8. CASE UNCHANGED vars
  BY <1>8 DEF vars, AllKept, Kept
<1> QED
  BY <1>1, <1>2, <1>3, <1>4, <1>5, <1>6, <1>7, <1>8 DEF Next

LEMMA ClosedIsKept ==
  ASSUME AllKept, NEW i \in Objects, Closed(i)
  PROVE  types'[i] = types[i] /\ Closed(i)'
<1>1. Kept(types[i], types'[i])
  BY DEF AllKept
<1>2. types[i].kind \notin {"Incomplete", "Completing", "Error"}
      /\ ~(types[i].kind = "Proc" /\ types[i].decl \notin Typedefs)
  BY DEF Closed, IsComplete, IsPlainProc, IsTypedef
<1> QED
  BY <1>1, <1>2 DEF Kept, Closed, IsComplete, IsPlainProc, IsTypedef, StructKinds

LEMMA ClosedArgsAreKept ==
  ASSUME Steady, AllKept, NEW args, ClosedArgs(args)
  PROVE  /\ ClosedArgs(args)' /\ ArgBytes(args)' = ArgBytes(args)
         /\ ArgMeans(args)' = ArgMeans(args)
<1>1. IsArgs(args)' /\ ArgMeans(args)' = ArgMeans(args)
  BY SteadyArgs DEF ClosedArgs
<1>2. \A k \in DOMAIN args : types'[args[k].type] = types[args[k].type] /\ Closed(args[k].type)'
  BY ClosedIsKept DEF ClosedArgs, IsArgs
<1>3. ArgBytes(args)' = ArgBytes(args)
  BY <1>2 DEF ArgBytes, ClosedArgs, IsArgs
<1> QED
  BY <1>1, <1>2, <1>3 DEF ClosedArgs

(* What an object means is what it was made to mean.                       *)
LEMMA MeantStays ==
  ASSUME TypeInv, Steady, AllKept, NEW i \in Objects, Meant(i)
  PROVE  Meant(i)'
<1>1. Kept(types[i], types'[i]) /\ means'[i] = means[i]
  BY DEF AllKept, Steady
<1>2. CASE TypedefMeant(i)
  BY <1>1, <1>2 DEF TypedefMeant, Meant, Kept, StructKinds
<1>3. CASE StructMeant(i)
  BY <1>1, <1>3 DEF StructMeant, Meant, Kept, StructKinds
<1>4. CASE BuiltinMeant(i)
  BY <1>1, <1>4 DEF BuiltinMeant, Meant, Kept, StructKinds
<1>5. CASE PointerMeant(i)
  <2>1. PICK j \in Objects : means[i] = PointerMeans(j) /\ PointerKey(j) \in DOMAIN table
    BY <1>5 DEF PointerMeant
  <2>2. j \in Objects' /\ means'[i] = PointerMeans(j)' /\ PointerKey(j)' \in DOMAIN table'
    BY <1>1, <2>1 DEF Steady, PointerMeans, PointerKey
  <2>3. types'[i].decl = NoDecl /\ types'[i].kind = "Pointer"
    BY <1>1, <1>5 DEF PointerMeant, Kept, StructKinds
  <2> QED
    BY <2>2, <2>3 DEF PointerMeant, Meant
<1>6. CASE ArrayMeant(i)
  <2>0. PICK j \in Objects : \E n : ArrayOf(i, j, n)
    BY <1>6 DEF ArrayMeant
  <2>1. PICK n : ArrayOf(i, j, n)
    BY <2>0
  <2>2. types'[j] = types[j] /\ Closed(j)'
    BY <2>1, ClosedIsKept DEF ArrayOf
  <2>3. j \in Objects' /\ ArrayOf(i, j, n)'
    BY <1>1, <2>1, <2>2 DEF Steady, ArrayOf, ArrayMeans, ArrayKey
  <2>4. types'[i].decl = NoDecl /\ types'[i].kind = "Array"
    BY <1>1, <1>6 DEF ArrayMeant, Kept, StructKinds
  <2> QED
    BY <2>3, <2>4 DEF ArrayMeant, Meant
<1>7. CASE ProcMeant(i)
  <2>0. PICK ret \in Objects : \E vargs, args : ProcOf(i, ret, vargs, args)
    BY <1>7 DEF ProcMeant
  <2>1. PICK vargs, args : ProcOf(i, ret, vargs, args)
    BY <2>0
  <2>2. types'[ret] = types[ret] /\ Closed(ret)'
    BY <2>1, ClosedIsKept DEF ProcOf
  <2>3. /\ ClosedArgs(args)' /\ ArgBytes(args)' = ArgBytes(args)
        /\ ArgMeans(args)' = ArgMeans(args)
    BY <2>1, ClosedArgsAreKept DEF ProcOf
  <2>4. ret \in Objects' /\ ProcOf(i, ret, vargs, args)'
    BY <1>1, <2>1, <2>2, <2>3 DEF Steady, ProcOf, ProcMeans, ProcKey
  <2>5. types'[i].decl \in Procs \cup {NoDecl} /\ types'[i].kind = "Proc"
    BY <1>1, <1>7 DEF ProcMeant, Kept, StructKinds
  <2> QED
    BY <2>4, <2>5 DEF ProcMeant, Meant
<1> QED
  BY <1>2, <1>3, <1>4, <1>5, <1>6, <1>7 DEF Meant

(* A meaning no object has yet.                                            *)
IsNew(m) == \A i \in Objects : means[i] # m

LEMMA NewPointer ==
  ASSUME AllMeant, EqualTypesAreIdentical, NEW j \in Objects, PointerKey(j) \notin DOMAIN table
  PROVE  IsNew(PointerMeans(j))
<1> SUFFICES ASSUME NEW i \in Objects, means[i] = PointerMeans(j) PROVE FALSE
  BY DEF IsNew
<1>1. Meant(i) /\ means[i] = <<"pointer", means[j]>>
  BY DEF AllMeant, PointerMeans
<1>2. PointerMeant(i)
  BY <1>1 DEF Meant, TypedefMeant, StructMeant, BuiltinMeant, ArrayMeant, ArrayOf, ArrayMeans,
              ProcMeant, ProcOf, ProcMeans
<1>3. PICK k \in Objects : means[i] = PointerMeans(k) /\ PointerKey(k) \in DOMAIN table
  BY <1>2 DEF PointerMeant
<1>4. k = j
  BY <1>1, <1>3 DEF PointerMeans, EqualTypesAreIdentical
<1> QED
  BY <1>3, <1>4

LEMMA NewArray ==
  ASSUME AllMeant, EqualTypesAreIdentical, NEW j \in Objects, NEW n,
         ArrayKey(j, n) \notin DOMAIN table
  PROVE  IsNew(ArrayMeans(j, n))
<1> SUFFICES ASSUME NEW i \in Objects, means[i] = ArrayMeans(j, n) PROVE FALSE
  BY DEF IsNew
<1>1. Meant(i) /\ means[i] = <<"array", means[j], n>>
  BY DEF AllMeant, ArrayMeans
<1>2. ArrayMeant(i)
  BY <1>1 DEF Meant, TypedefMeant, StructMeant, BuiltinMeant, PointerMeant, PointerMeans,
              ProcMeant, ProcOf, ProcMeans
<1>a. PICK k \in Objects : \E len : ArrayOf(i, k, len)
  BY <1>2 DEF ArrayMeant
<1>3. PICK len : ArrayOf(i, k, len)
  BY <1>a
<1>4. k = j /\ len = n
  BY <1>1, <1>3 DEF ArrayOf, ArrayMeans, EqualTypesAreIdentical
<1> QED
  BY <1>3, <1>4 DEF ArrayOf

LEMMA NewProc ==
  ASSUME AllMeant, EqualTypesAreIdentical, NEW ret \in Objects, NEW vargs, NEW args, IsArgs(args),
         ProcKey(ret, vargs, args) \notin DOMAIN table
  PROVE  IsNew(ProcMeans(ret, vargs, args))
<1> SUFFICES ASSUME NEW i \in Objects, means[i] = ProcMeans(ret, vargs, args) PROVE FALSE
  BY DEF IsNew
<1>1. Meant(i) /\ means[i] = <<"proc", means[ret], vargs, ArgMeans(args)>>
  BY DEF AllMeant, ProcMeans
<1>2. ProcMeant(i)
  BY <1>1 DEF Meant, TypedefMeant, StructMeant, BuiltinMeant, PointerMeant, PointerMeans,
              ArrayMeant, ArrayOf, ArrayMeans
<1>a. PICK k \in Objects : \E dots, others : ProcOf(i, k, dots, others)
  BY <1>2 DEF ProcMeant
<1>3. PICK dots, others : ProcOf(i, k, dots, others)
  BY <1>a
<1>4. means[k] = means[ret] /\ dots = vargs /\ ArgMeans(others) = ArgMeans(args)
  BY <1>1, <1>3 DEF ProcOf, ProcMeans
<1>5. k = ret
  BY <1>4 DEF EqualTypesAreIdentical
<1>6. IsArgs(others)
  BY <1>3 DEF ProcOf, ClosedArgs
<1>7. DOMAIN others = DOMAIN args
  BY <1>4, <1>6, ArgParts
<1>8. ASSUME NEW j \in DOMAIN args
      PROVE  others[j].name = args[j].name /\ others[j].default = args[j].default
             /\ others[j].type = args[j].type
  <2>1. [name |-> args[j].name, type |-> means[args[j].type], default |-> args[j].default]
          = [name |-> others[j].name, type |-> means[others[j].type], default |-> others[j].default]
    <3>1. ArgMeans(args)[j]
            = [name |-> args[j].name, type |-> means[args[j].type], default |-> args[j].default]
      BY ArgParts
    <3>2. ArgMeans(others)[j]
            = [name |-> others[j].name, type |-> means[others[j].type], default |-> others[j].default]
      BY <1>6, <1>7, ArgParts
    <3> QED
      BY <1>4, <3>1, <3>2
  <2>2. args[j].type \in Objects /\ others[j].type \in Objects
    BY <1>6, <1>7 DEF IsArgs
  <2> QED
    BY <2>1, <2>2 DEF EqualTypesAreIdentical
<1>9. others = args
  BY <1>6, <1>7, <1>8, SameArgs
<1> QED
  BY <1>3, <1>4, <1>5, <1>9 DEF ProcOf

LEMMA NewDeclared ==
  ASSUME AllMeant, NEW d, \A i \in Objects : types[i].decl # d
  PROVE  IsNew(<<"struct", d>>) /\ IsNew(<<"typedef", d>>)
<1> SUFFICES ASSUME NEW i \in Objects, means[i] = <<"struct", d>> \/ means[i] = <<"typedef", d>>
             PROVE  FALSE
  BY DEF IsNew
<1>1. Meant(i)
  BY DEF AllMeant
<1>2. StructMeant(i) \/ TypedefMeant(i)
  BY <1>1 DEF Meant, BuiltinMeant, PointerMeant, PointerMeans, ArrayMeant, ArrayOf, ArrayMeans,
              ProcMeant, ProcOf, ProcMeans
<1> QED
  BY <1>2 DEF StructMeant, TypedefMeant

EqualInv == AllMeant /\ EqualTypesAreIdentical

LEMMA EqualInvSame ==
  ASSUME TypeInv, EqualInv, Steady, AllKept, Objects' = Objects
  PROVE  EqualInv'
<1>1. AllMeant'
  BY MeantStays DEF EqualInv, AllMeant
<1>2. EqualTypesAreIdentical'
  BY DEF EqualInv, EqualTypesAreIdentical, Steady
<1> QED
  BY <1>1, <1>2 DEF EqualInv

LEMMA EqualInvPush ==
  ASSUME TypeInv, EqualInv, Steady, AllKept, NEW t, NEW m, Push(t, m), IsNew(m),
         NEW new, new = Fresh, Meant(new)'
  PROVE  EqualInv'
<1>1. AllMeant'
  BY PushFacts, MeantStays DEF EqualInv, AllMeant
<1>2. ASSUME NEW i \in Objects', NEW j \in Objects', means'[i] = means'[j] PROVE i = j
  <2>1. CASE i \in Objects /\ j \in Objects
    BY <1>2, <2>1, PushFacts DEF EqualInv, EqualTypesAreIdentical
  <2>2. CASE i = Fresh \/ j = Fresh
    BY <1>2, <2>2, PushFacts DEF IsNew
  <2> QED
    BY <2>1, <2>2, PushFacts
<1> QED
  BY <1>1, <1>2 DEF EqualInv, EqualTypesAreIdentical

LEMMA EqualInvPointer ==
  ASSUME TypeInv, EqualInv, Steady, AllKept, NEW j \in Objects, CreatePointerType(j)
  PROVE  EqualInv'
<1>1. PICK t, m, key, new : t = Type("Pointer", Fresh, NoDecl, <<j>>) /\ m = PointerMeans(j)
                            /\ key = PointerKey(j) /\ new = Fresh
  OBVIOUS
<1>2. Intern(key, t, m)
  BY <1>1 DEF CreatePointerType
<1>3. CASE UNCHANGED vars
  BY <1>3, EqualInvSame DEF vars, Objects
<1>4. CASE Push(t, m) /\ Inserts(key)
  <2>1. IsNew(m)
    BY <1>1, <1>4, NewPointer DEF EqualInv, Inserts
  <2>2. means'[new] = m /\ types'[new] = t
    BY <1>1, <1>4, PushFacts
  <2>3. t.kind = "Pointer" /\ t.decl = NoDecl
    BY <1>1 DEF Type
  <2>4. j \in Objects' /\ means'[new] = PointerMeans(j)' /\ PointerKey(j)' \in DOMAIN table'
    BY <1>1, <1>4, <2>2 DEF Steady, PointerMeans, PointerKey, Inserts
  <2>5. Meant(new)'
    BY <2>2, <2>3, <2>4 DEF Meant, PointerMeant
  <2> QED
    BY <1>1, <1>4, <2>1, <2>5, EqualInvPush
<1> QED
  BY <1>2, <1>3, <1>4, InternFacts

LEMMA EqualInvArray ==
  ASSUME TypeInv, EqualInv, Steady, AllKept, ProcsInside = FALSE, NEW j \in Objects, NEW n,
         CreateArrayType(j, n)
  PROVE  EqualInv'
<1>1. PICK t, m, key, new : t = Type("Array", Fresh, NoDecl, <<j, n>>) /\ m = ArrayMeans(j, n)
                            /\ key = ArrayKey(j, n) /\ new = Fresh
  OBVIOUS
<1>2. Intern(key, t, m) /\ Closed(j)
  BY <1>1 DEF CreateArrayType, Closed, MayBeInside
<1>3. CASE UNCHANGED vars
  BY <1>3, EqualInvSame DEF vars, Objects
<1>4. CASE Push(t, m) /\ Inserts(key)
  <2>1. IsNew(m)
    BY <1>1, <1>4, NewArray DEF EqualInv, Inserts
  <2>2. means'[new] = m /\ types'[new] = t
    BY <1>1, <1>4, PushFacts
  <2>3. t.kind = "Array" /\ t.decl = NoDecl
    BY <1>1 DEF Type
  <2>4. types'[j] = types[j] /\ Closed(j)'
    BY <1>2, ClosedIsKept
  <2>5. j \in Objects' /\ ArrayOf(new, j, n)'
    BY <1>1, <1>4, <2>2, <2>4 DEF Steady, ArrayOf, ArrayMeans, ArrayKey, Inserts
  <2>6. Meant(new)'
    BY <2>2, <2>3, <2>5 DEF Meant, ArrayMeant
  <2> QED
    BY <1>1, <1>4, <2>1, <2>6, EqualInvPush
<1> QED
  BY <1>2, <1>3, <1>4, InternFacts

LEMMA EqualInvProc ==
  ASSUME TypeInv, EqualInv, Steady, AllKept, ProcsInside = FALSE,
         NEW ret \in Objects, NEW vargs, NEW args \in Args, ProcArgs(ret, args),
         NEW d \in Procs \cup {NoDecl},
         Intern(ProcKey(ret, vargs, args), Type("Proc", Fresh, d, <<ret, vargs, args>>),
                ProcMeans(ret, vargs, args))
  PROVE  EqualInv'
<1>1. PICK t, m, key, new :
        /\ t = Type("Proc", Fresh, d, <<ret, vargs, args>>) /\ m = ProcMeans(ret, vargs, args)
        /\ key = ProcKey(ret, vargs, args) /\ new = Fresh
  OBVIOUS
<1>2. Intern(key, t, m)
  BY <1>1
<1>3. CASE UNCHANGED vars
  BY <1>3, EqualInvSame DEF vars, Objects
<1>4. CASE Push(t, m) /\ Inserts(key)
  <2>1. Closed(ret) /\ ClosedArgs(args)
    BY ArgsAreArgs DEF ProcArgs, Closed, ClosedArgs, MayBeInside
  <2>2. IsNew(m)
    BY <1>1, <1>4, <2>1, NewProc DEF EqualInv, Inserts, ClosedArgs
  <2>3. means'[new] = m /\ types'[new] = t
    BY <1>1, <1>4, PushFacts
  <2>4. t.kind = "Proc" /\ t.decl = d
    BY <1>1 DEF Type
  <2>5. types'[ret] = types[ret] /\ Closed(ret)'
    BY <2>1, ClosedIsKept
  <2>6. /\ ClosedArgs(args)' /\ ArgBytes(args)' = ArgBytes(args)
        /\ ArgMeans(args)' = ArgMeans(args)
    BY <2>1, ClosedArgsAreKept
  <2>7. ret \in Objects' /\ ProcOf(new, ret, vargs, args)'
    BY <1>1, <1>4, <2>3, <2>5, <2>6 DEF Steady, ProcOf, ProcMeans, ProcKey, Inserts
  <2>8. Meant(new)'
    BY <2>3, <2>4, <2>7 DEF Meant, ProcMeant
  <2> QED
    BY <1>1, <1>4, <2>2, <2>8, EqualInvPush
<1> QED
  BY <1>2, <1>3, <1>4, InternFacts

LEMMA EqualInvInit == Init => EqualInv
<1> SUFFICES ASSUME Init PROVE EqualInv
  OBVIOUS
<1>1. Len(types) = NBuiltins
  BY DeclsAssumption DEF Init
<1>2. \A i \in Objects : BuiltinMeant(i)
  BY <1>1 DEF Init, Objects, BuiltinMeant, Type
<1> QED
  BY <1>2 DEF EqualInv, AllMeant, Meant, BuiltinMeant, EqualTypesAreIdentical

LEMMA EqualInvNext ==
  ASSUME ProcsInside = FALSE
  PROVE  TypeInv /\ EqualInv /\ [Next]_vars => EqualInv'
<1> SUFFICES ASSUME TypeInv, EqualInv, [Next]_vars PROVE EqualInv'
  OBVIOUS
<1>a. Steady /\ AllKept
  BY SteadyNext, KeptNext
<1>1. ASSUME NEW d \in Structs, RegisterStruct(d) PROVE EqualInv'
  <2>1. PICK t, new : t = Type("Incomplete", Fresh, d, <<>>) /\ new = Fresh
    OBVIOUS
  <2>2. Push(t, <<"struct", d>>) /\ IsNew(<<"struct", d>>)
    BY <1>1, <2>1, NewDeclared DEF RegisterStruct, EqualInv
  <2>3. types'[new] = t /\ means'[new] = <<"struct", d>>
    BY <2>1, <2>2, PushFacts
  <2>4. Meant(new)'
    BY <2>1, <2>3 DEF Meant, StructMeant, StructKinds, Type
  <2> QED
    BY <1>a, <2>1, <2>2, <2>4, EqualInvPush
<1>2. ASSUME NEW i \in Objects, BeginAggregate(i) \/ EndAggregate(i) PROVE EqualInv'
  <2>1. PICK kind \in {"Completing", "Struct", "Error"} :
          types' = [types EXCEPT ![i] = [types[i] EXCEPT !.kind = kind]]
    BY <1>2 DEF BeginAggregate, EndAggregate
  <2> QED
    BY <1>a, <2>1, UpdateFacts, EqualInvSame
<1>3. ASSUME NEW i \in Objects, CreatePointerType(i) PROVE EqualInv'
  BY <1>3, <1>a, EqualInvPointer
<1>4. ASSUME NEW i \in Objects, NEW n \in Sizes, CreateArrayType(i, n) PROVE EqualInv'
  BY <1>4, <1>a, EqualInvArray
<1>5. ASSUME NEW ret \in Objects, NEW vargs \in BOOLEAN, NEW args \in Args,
             CreateProcType(ret, vargs, args)
      PROVE EqualInv'
  BY <1>5, <1>a, EqualInvProc DEF CreateProcType
<1>6. ASSUME NEW d \in Procs, NEW ret \in Objects, NEW vargs \in BOOLEAN, NEW args \in Args,
             DeclareProc(d, ret, vargs, args)
      PROVE EqualInv'
  <2>1. ProcArgs(ret, args)
    BY <1>6 DEF DeclareProc
  <2>2. PICK key : key = ProcKey(ret, vargs, args)
    OBVIOUS
  <2>3. CASE key \in DOMAIN table
    <3>1. key[1] = "proc"
      BY <2>2 DEF ProcKey
    <3>2. types' = [types EXCEPT ![table[key]] = [types[table[key]] EXCEPT !.decl = d]]
      BY <1>6, <2>2, <2>3 DEF DeclareProc
    <3>3. table[key] \in Objects
      BY <2>3, <3>1, RedeclareFits
    <3>4. Objects' = Objects
      BY <3>2, <3>3, UpdateFacts
    <3> QED
      BY <1>a, <3>4, EqualInvSame
  <2>4. CASE key \notin DOMAIN table
    <3>1. Intern(ProcKey(ret, vargs, args), Type("Proc", Fresh, d, <<ret, vargs, args>>),
                 ProcMeans(ret, vargs, args))
      BY <1>6, <2>2, <2>4 DEF DeclareProc
    <3> QED
      BY <1>a, <2>1, <3>1, EqualInvProc
  <2> QED
    BY <2>3, <2>4
<1>7. ASSUME NEW d \in Typedefs, NEW i \in Objects, CreateTypedef(d, i) PROVE EqualInv'
  <2>1. PICK t, new : t = [types[i] EXCEPT !.decl = d] /\ new = Fresh
    OBVIOUS
  <2>2. Push(t, <<"typedef", d>>) /\ IsNew(<<"typedef", d>>)
    BY <1>7, <2>1, NewDeclared DEF CreateTypedef, EqualInv
  <2>3. types'[new] = t /\ means'[new] = <<"typedef", d>>
    BY <2>1, <2>2, PushFacts
  <2>4. types[i].kind \notin StructKinds
    <3>1. types[i].decl \notin Structs /\ Meant(i)
      BY <1>7 DEF CreateTypedef, EqualInv, AllMeant
    <3> QED
      BY <3>1 DEF Meant, TypedefMeant, StructMeant, BuiltinMeant, PointerMeant, ArrayMeant,
                  ProcMeant, StructKinds
  <2>5. t.decl = d /\ t.kind = types[i].kind
    BY <2>1, TypeInvParts DEF ObjectFits, IsType, Type
  <2>6. Meant(new)'
    BY <2>3, <2>4, <2>5 DEF Meant, TypedefMeant
  <2> QED
    BY <1>a, <2>1, <2>2, <2>6, EqualInvPush
<1>8. CASE UNCHANGED vars
  BY <1>8, <1>a, EqualInvSame DEF vars, Objects
<1> QED
  BY <1>1, <1>2, <1>3, <1>4, <1>5, <1>6, <1>7, <1>8 DEF Next

(* Two types that the source writes alike are one object, as long as no    *)
(* array or procedure type is built of a plain procedure type              *)
(* (src/src/compiler/ast.c, the constructors and L->type_map).             *)
THEOREM EqualTypesShareAnObject ==
  ASSUME ProcsInside = FALSE
  PROVE  Spec => []EqualTypesAreIdentical
<1>1. Spec => []TypeInv
  BY TypeInvInit, TypeInvNext, PTL DEF Spec
<1>2. TypeInv /\ EqualInv /\ [Next]_vars => EqualInv'
  BY EqualInvNext
<1>3. Spec => []EqualInv
  BY <1>1, <1>2, EqualInvInit, PTL DEF Spec
<1>4. EqualInv => EqualTypesAreIdentical
  BY DEF EqualInv
<1> QED
  BY <1>3, <1>4, PTL
=============================================================================
