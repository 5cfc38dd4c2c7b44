----------------------------- MODULE TypeTable -----------------------------
(* The table of types (src/src/compiler/ast.c).                            *)
(*                                                                         *)
(* The rest of the compiler compares types by address: two expressions     *)
(* have the same type when they point to the same LC_Type.  Pointer, array *)
(* and procedure types are therefore looked up in L->type_map before they  *)
(* are made.  A pointer type is found by the address of its base; an array *)
(* or procedure type by a hash of the BYTES of the types it is built from, *)
(* and those bytes change: a struct is laid out after it was declared, and *)
(* a named procedure writes itself into the type it was declared with.     *)
(*                                                                         *)
(* The resolver walks type expressions from the inside out, so here it     *)
(* simply asks, in any order, for types over the types it already has.     *)
(* LC_HashBytes and LC_HashMix are taken to be injective.                  *)
EXTENDS Naturals, Sequences

CONSTANTS
    NBuiltins,   \* number of builtin types
    Structs, Typedefs, Procs,   \* the declarations of a program
    ArgNames,    \* names of procedure arguments
    Defaults,    \* default values of arguments: every expression is its own
    Sizes,       \* lengths of arrays
    NoDecl,      \* type->decl before anything sets it, and of a builtin type
    NoDefault,   \* an argument without a default value
    ProcsInside, \* may arrays and procedures be built of plain procedure types
    MaxArgs,     \* bound on the arguments of a procedure
    MaxTypes     \* bound on the types that are made

ASSUME DeclsAssumption ==
    /\ NBuiltins \in Nat /\ MaxTypes \in Nat /\ MaxArgs \in Nat
    /\ Structs \cap Typedefs = {} /\ Structs \cap Procs = {}
    /\ Typedefs \cap Procs = {}
    /\ NoDecl \notin Structs \cup Typedefs \cup Procs
    /\ NoDefault \notin Defaults
    /\ ProcsInside \in BOOLEAN

VARIABLES
    types,    \* L->type_arena: the LC_Type objects, an address is an index
    table,    \* L->type_map, from keys to addresses
    means     \* the type, as the source writes it, each object was made for

vars == <<types, table, means>>

(* What the union of an LC_Type holds is its parts: the base of a pointer, *)
(* the base and length of an array, the result and arguments of a          *)
(* procedure.  The members of a struct are left out, kind tells them apart *)
(* from nothing: before, Incomplete; while they are added, Completing.     *)
Kinds == {"Builtin", "Incomplete", "Completing", "Struct", "Error", "Pointer", "Array", "Proc"}
Type(kind, id, decl, parts) == [kind |-> kind, id |-> id, decl |-> decl, parts |-> parts]

Objects == 1..Len(types)
Fresh == Len(types) + 1
Args == UNION {[1..k -> [name : ArgNames, type : Objects, default : Defaults \cup {NoDefault}]]
                 : k \in 0..MaxArgs}

(* A typedef is a copy of its base, with its id, and only differs in decl. *)
IsTypedef(i) == types[i].decl \in Typedefs
IsPlainProc(i) == types[i].kind = "Proc" /\ ~IsTypedef(i)

---------------------------------------------------------------------------
(* The keys.  types[i] is the memory of the object at the time of asking.  *)

PointerKey(i) == <<"pointer", i>>
ArrayKey_NoSize(i, n) == <<"array", types[i]>>   \* mutant: the length is no part of the key
ArrayKey(i, n) == <<"array", types[i], n>>
ArgBytes(args) == [k \in DOMAIN args |-> [args[k] EXCEPT !.type = types[@]]]
ProcKey(ret, vargs, args) == <<"proc", types[ret], vargs, ArgBytes(args)>>

PointerMeans(i) == <<"pointer", means[i]>>
ArrayMeans(i, n) == <<"array", means[i], n>>
ArgMeans(args) == [k \in DOMAIN args |-> [args[k] EXCEPT !.type = means[@]]]
ProcMeans(ret, vargs, args) == <<"proc", means[ret], vargs, ArgMeans(args)>>

(* LC_CreateType for the type with the given kind and parts.               *)
Push(type, meaning) ==
    /\ Len(types) < MaxTypes
    /\ types' = Append(types, type)
    /\ means' = Append(means, meaning)

(* The common end of the three constructors: found, or made and inserted.  *)
Intern(key, type, meaning) ==
    IF key \in DOMAIN table
    THEN UNCHANGED vars
    ELSE /\ Push(type, meaning)
         /\ table' = [k \in DOMAIN table \cup {key} |-> IF k = key THEN Fresh ELSE table[k]]

---------------------------------------------------------------------------
Init ==
    /\ types = [i \in 1..NBuiltins |-> Type("Builtin", i, NoDecl, <<>>)]
    /\ means = [i \in 1..NBuiltins |-> <<"builtin", i>>]
    /\ table = [k \in {} |-> 0]

(* A struct gets its type when it is registered.                           *)
RegisterStruct(d) ==
    /\ \A i \in Objects : types[i].decl # d
    /\ Push(Type("Incomplete", Fresh, d, <<>>), <<"struct", d>>)
    /\ UNCHANGED table

(* LC_ResolveTypeAggregate, before and after the loop over the members.    *)
BeginAggregate(i) ==
    /\ types[i].kind = "Incomplete"
    /\ types' = [types EXCEPT ![i].kind = "Completing"]
    /\ UNCHANGED <<table, means>>

EndAggregate(i) ==
    /\ types[i].kind = "Completing"
    /\ \E kind \in {"Struct", "Error"} : types' = [types EXCEPT ![i].kind = kind]
    /\ UNCHANGED <<table, means>>

(* It has run, and returned no error, for every type an array or procedure *)
(* is built of.                                                            *)
IsComplete_Declared(i) == types[i].kind # "Error"   \* mutant: a declared struct will do
IsComplete(i) == types[i].kind \notin {"Incomplete", "Completing", "Error"}

(* The programs that are left out when ProcsInside is FALSE.               *)
MayBeInside(i) == ProcsInside \/ ~IsPlainProc(i)

CreatePointerType(i) ==
    Intern(PointerKey(i), Type("Pointer", Fresh, NoDecl, <<i>>), PointerMeans(i))

CreateArrayType(i, n) ==
    /\ IsComplete(i) /\ MayBeInside(i)
    /\ Intern(ArrayKey(i, n), Type("Array", Fresh, NoDecl, <<i, n>>), ArrayMeans(i, n))

ProcArgs(ret, args) ==
    /\ IsComplete(ret) /\ MayBeInside(ret)
    /\ \A k \in DOMAIN args : IsComplete(args[k].type) /\ MayBeInside(args[k].type)
    /\ \A j, k \in DOMAIN args : args[j].name = args[k].name => j = k

CreateProcType(ret, vargs, args) ==
    /\ ProcArgs(ret, args)
    /\ Intern(ProcKey(ret, vargs, args), Type("Proc", Fresh, NoDecl, <<ret, vargs, args>>),
              ProcMeans(ret, vargs, args))

(* LC_ResolveName of a named procedure: decl->type->decl = decl, in the    *)
(* object every procedure of that type shares.                             *)
DeclareProc(d, ret, vargs, args) ==
    /\ ProcArgs(ret, args)
    /\ LET key == ProcKey(ret, vargs, args)
       IN  IF key \in DOMAIN table
           THEN /\ types' = [types EXCEPT ![table[key]].decl = d]
                /\ UNCHANGED <<table, means>>
           ELSE Intern(key, Type("Proc", Fresh, d, <<ret, vargs, args>>),
                       ProcMeans(ret, vargs, args))

(* LC_ResolveName of a typedef.  A typedef of a struct is that struct and  *)
(* one with @weak is its base: neither makes a type.                       *)
CreateTypedef(d, i) ==
    /\ \A j \in Objects : types[j].decl # d
    /\ types[i].decl \notin Structs
    /\ Push([types[i] EXCEPT !.decl = d], <<"typedef", d>>)
    /\ UNCHANGED table

Next ==
    \/ \E d \in Structs : RegisterStruct(d)
    \/ \E i \in Objects : BeginAggregate(i) \/ EndAggregate(i) \/ CreatePointerType(i)
    \/ \E i \in Objects, n \in Sizes : CreateArrayType(i, n)
    \/ \E ret \in Objects, vargs \in BOOLEAN, args \in Args : CreateProcType(ret, vargs, args)
    \/ \E d \in Procs, ret \in Objects, vargs \in BOOLEAN, args \in Args :
          DeclareProc(d, ret, vargs, args)
    \/ \E d \in Typedefs, i \in Objects : CreateTypedef(d, i)

Spec == Init /\ [][Next]_vars

---------------------------------------------------------------------------
(* An object keeps the id it was made with, a typedef the id of the object *)
(* it copies, so the table only ever leads to objects with ids of their    *)
(* own, and each to an object of the kind that was asked for.              *)
TypeOK ==
    /\ Len(means) = Len(types)
    /\ \A i \in Objects :
         /\ types[i].kind \in Kinds
         /\ types[i].decl \in Structs \cup Typedefs \cup Procs \cup {NoDecl}
         /\ types[i].id \in 1..i
         /\ types[i].id = i <=> ~IsTypedef(i)
    /\ \A k \in DOMAIN table :
         /\ table[k] \in Objects
         /\ types[table[k]].id = table[k]
         /\ k[1] = "pointer" => types[table[k]].kind = "Pointer"
         /\ k[1] = "array" => types[table[k]].kind = "Array"
         /\ k[1] = "proc" => types[table[k]].kind = "Proc"

(* The compiler compares addresses where the language compares types:      *)
(* wherever and whenever a program writes one type twice, both are the     *)
(* same object.                                                            *)
EqualTypesAreIdentical ==
    \A i, j \in Objects : means[i] = means[j] => i = j

(* What a lookup finds is the type that was asked for, even under a key    *)
(* made of bytes that have changed since: two types the source tells apart *)
(* never share an object.                                                  *)
LookupIsSound ==
    /\ \A i \in Objects :
         PointerKey(i) \in DOMAIN table => means[table[PointerKey(i)]] = PointerMeans(i)
    /\ \A i \in Objects, n \in Sizes :
         ArrayKey(i, n) \in DOMAIN table => means[table[ArrayKey(i, n)]] = ArrayMeans(i, n)
    /\ \A ret \in Objects, vargs \in BOOLEAN, args \in Args :
         ProcKey(ret, vargs, args) \in DOMAIN table =>
           means[table[ProcKey(ret, vargs, args)]] = ProcMeans(ret, vargs, args)
=============================================================================
