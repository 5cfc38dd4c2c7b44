------------------------------ MODULE HashMap -------------------------------
(***************************************************************************)
(* LC_Map of src/src/compiler/common.c: open addressing, and growth inside *)
(* every lookup.  LC_GetMapEntryEx doubles a table that is half full, then *)
(* walks from the slot of the key's hash to the key or to a free slot.     *)
(* LC_MapReserve moves the old entries one by one, each with a lookup of   *)
(* its own in the new table.                                               *)
(*                                                                         *)
(* cap is a power of two, so that the mask of LC_WRAP_AROUND_POWER_OF_2 is *)
(* the remainder.                                                          *)
(***************************************************************************)
EXTENDS Naturals

CONSTANTS
  Keys,     \* keys that are used, none of them 0
  Values,
  NoKey,    \* the key of a free slot, 0 in the code
  NoValue,  \* no value
  NoOp,     \* no request is being served
  Hashes,   \* the hash functions to consider: LC_HashBytes of the key
  InitCap   \* the size of the first LC_MapReserve

ASSUME MapAssumption ==
  /\ NoKey \notin Keys
  /\ NoValue \notin Values
  /\ Hashes \subseteq [Keys -> Nat]
  /\ InitCap \in Nat /\ InitCap >= 2 /\ InitCap % 2 = 0

VARIABLES
  hash,     \* the hash function, fixed
  cap,      \* map->cap
  len,      \* map->len
  entries,  \* map->entries
  old,      \* old_map.entries of LC_MapReserve
  oldcap,   \* old_map.cap
  at,       \* its loop variable; both are 0 when no table is being moved
  op,       \* the request being served
  ret       \* the answer to the last request

vars == <<hash, cap, len, entries, old, oldcap, at, op, ret>>

Entry == [key : Keys \cup {NoKey}, value : Values \cup {NoValue}]
Free == [key |-> NoKey, value |-> NoValue]

Table(c) == [i \in 0..(c - 1) |-> Free]
Slots == 0..(cap - 1)

Init ==
  /\ hash \in Hashes
  /\ cap = InitCap /\ len = 0 /\ entries = Table(InitCap)
  /\ oldcap = 0 /\ at = 0 /\ old = Table(0)
  /\ op = NoOp /\ ret = NoValue
-----------------------------------------------------------------------------
(* LC_GetMapEntryEx.                                                       *)

Home(k) == hash[k] % cap

(* The walk from slot h to slot i, wrapping around, passes slot j.         *)
Passes(h, i, j) == IF h <= i THEN h <= j /\ j < i ELSE h <= j \/ j < i

Holds(k, i) == entries[i].key \in {k, NoKey}

FoundAt_Anywhere(k, i) == Holds(k, i)      \* mutant: any free slot will do
FoundAt(k, i) ==
  Holds(k, i) /\ \A j \in Slots : Passes(Home(k), i, j) => ~Holds(k, j)

HalfFull == len * 2 >= cap

Growing == at < oldcap

(* LC_InsertMapEntry, after the lookup.                                    *)
Store(e) ==
  \E i \in Slots :
    /\ FoundAt(e.key, i)
    /\ entries' = [entries EXCEPT ![i] = e]
    /\ len' = IF entries[i].key = NoKey THEN len + 1 ELSE len

Requests ==
  [kind : {"get", "clear"}, key : Keys, value : {NoValue}]
    \cup [kind : {"put", "putnew"}, key : Keys, value : Values]

Request(r) ==
  /\ op = NoOp /\ op' = r /\ ret' = NoValue
  /\ UNCHANGED <<hash, cap, len, entries, old, oldcap, at>>

(* LC_MapReserve(map, map->cap * 2).                                       *)
Grow ==
  /\ op # NoOp /\ op.kind # "clear" /\ ~Growing /\ HalfFull
  /\ cap' = cap * 2 /\ len' = 0 /\ entries' = Table(cap * 2)
  /\ old' = entries /\ oldcap' = cap /\ at' = 0
  /\ UNCHANGED <<hash, op, ret>>

(* One turn of its loop; the old table is forgotten after the last.        *)
Step ==
  IF at + 1 < oldcap
  THEN at' = at + 1 /\ UNCHANGED <<old, oldcap>>
  ELSE at' = 0 /\ oldcap' = 0 /\ old' = Table(0)

Move_Forgets ==                            \* mutant: the first slot is not moved
  /\ Growing /\ Step
  /\ IF at = 0 \/ old[at].key = NoKey THEN UNCHANGED <<entries, len>> ELSE Store(old[at])
  /\ UNCHANGED <<hash, cap, op, ret>>

Move_Stuck ==                              \* mutant: a free slot is not stepped over
  /\ Growing
  /\ IF old[at].key = NoKey
     THEN UNCHANGED <<entries, len, at, old, oldcap>>
     ELSE Step /\ Store(old[at])
  /\ UNCHANGED <<hash, cap, op, ret>>

Move ==
  /\ Growing /\ Step
  /\ IF old[at].key = NoKey THEN UNCHANGED <<entries, len>> ELSE Store(old[at])
  /\ UNCHANGED <<hash, cap, op, ret>>

Serve(kind) ==
  /\ op # NoOp /\ op.kind = kind /\ ~Growing
  /\ kind # "clear" => ~HalfFull
  /\ op' = NoOp
  /\ UNCHANGED <<hash, cap, old, oldcap, at>>

Get ==                                     \* LC_GetMapEntry
  /\ Serve("get")
  /\ \E i \in Slots : FoundAt(op.key, i) /\ ret' = entries[i].value
  /\ UNCHANGED <<entries, len>>

Put ==                                     \* LC_InsertMapEntry
  /\ Serve("put")
  /\ Store([key |-> op.key, value |-> op.value])
  /\ ret' = op.value

PutNew ==                                  \* LC_InsertWithoutReplace
  /\ Serve("putnew")
  /\ \E i \in Slots :
       /\ FoundAt(op.key, i)
       /\ ret' = (entries[i].key = NoKey)
       /\ IF entries[i].key = NoKey
          THEN /\ entries' = [entries EXCEPT ![i] = [key |-> op.key, value |-> op.value]]
               /\ len' = len + 1
          ELSE UNCHANGED <<entries, len>>

Clear ==                                   \* LC_MapClear
  /\ Serve("clear")
  /\ entries' = IF len # 0 THEN Table(cap) ELSE entries
  /\ len' = 0 /\ ret' = NoValue

Map == Grow \/ Move \/ Get \/ Put \/ PutNew \/ Clear

Next == Map \/ \E r \in Requests : Request(r)

Spec == Init /\ [][Next]_vars /\ WF_vars(Map)
-----------------------------------------------------------------------------
TypeOK ==
  /\ hash \in [Keys -> Nat]
  /\ cap \in Nat \ {0} /\ len \in Nat
  /\ entries \in [Slots -> Entry]
  /\ oldcap \in Nat /\ at \in 0..oldcap
  /\ old \in [0..(oldcap - 1) -> Entry]
  /\ op \in Requests \cup {NoOp}
  /\ ret \in Values \cup {NoValue} \cup BOOLEAN

(* No key is behind a gap: a lookup that stops at a free slot is right to  *)
(* say that the key is not in the table, also after the table has moved.   *)
ChainsAreUnbroken ==
  \A i \in Slots : entries[i].key # NoKey =>
    \A j \in Slots : Passes(Home(entries[i].key), i, j) => entries[j].key # NoKey

(* Every lookup ends: the walk of any key comes to the key or to a free    *)
(* slot, also during a move, where the check at the top of                 *)
(* LC_GetMapEntryEx must not start another move.                           *)
LookupsEnd ==
  /\ len * 2 <= cap
  /\ \A k \in Keys : \E i \in Slots : FoundAt(k, i)
  /\ Growing => ~HalfFull

(* The value of a key: in the table, or among the entries still to move.   *)
ValueOf(k) ==
  IF \E i \in Slots : entries[i].key = k
  THEN entries[CHOOSE i \in Slots : entries[i].key = k].value
  ELSE IF \E i \in at..(oldcap - 1) : old[i].key = k
       THEN old[CHOOSE i \in at..(oldcap - 1) : old[i].key = k].value
       ELSE NoValue

(* Collisions, wrap-around and growth do not show: the table is a function *)
(* from keys to values.                                                    *)
D == INSTANCE Dictionary WITH map <- [k \in Keys |-> ValueOf(k)]
ImplementsDictionary == D!Spec

(* Every request is answered, whatever moves it takes.                     *)
RequestsAreServed == (op # NoOp) ~> (op = NoOp)
=============================================================================
