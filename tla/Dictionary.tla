----------------------------- MODULE Dictionary -----------------------------
(***************************************************************************)
(* What an LC_Map promises to its callers: a function from keys to values, *)
(* one request at a time.  HashMap implements it.                          *)
(***************************************************************************)
CONSTANTS
  Keys,
  Values,
  NoValue,   \* what a lookup returns for a key that is not there
  NoOp       \* no request is being served

VARIABLES
  map,       \* the value of each key
  op,        \* the request being served
  ret        \* the answer to the last request

Requests ==
  [kind : {"get", "clear"}, key : Keys, value : {NoValue}]
    \cup [kind : {"put", "putnew"}, key : Keys, value : Values]

Init ==
  /\ map = [k \in Keys |-> NoValue]
  /\ op = NoOp
  /\ ret = NoValue

Request(r) == op = NoOp /\ op' = r /\ ret' = NoValue /\ UNCHANGED map

Serve(kind) == op # NoOp /\ op.kind = kind /\ op' = NoOp

Get == Serve("get") /\ ret' = map[op.key] /\ UNCHANGED map

Put ==
  /\ Serve("put")
  /\ map' = [map EXCEPT ![op.key] = op.value]
  /\ ret' = op.value

(* Leaves a key alone that is there, and says so.                          *)
PutNew ==
  /\ Serve("putnew")
  /\ ret' = (map[op.key] = NoValue)
  /\ map' = IF map[op.key] = NoValue THEN [map EXCEPT ![op.key] = op.value] ELSE map

Clear == Serve("clear") /\ map' = [k \in Keys |-> NoValue] /\ ret' = NoValue

Next == (\E r \in Requests : Request(r)) \/ Get \/ Put \/ PutNew \/ Clear

vars == <<map, op, ret>>
Spec == Init /\ [][Next]_vars
=============================================================================
