------------------------------- MODULE Memory --------------------------------
(***************************************************************************)
(* L->arena and what lives in it: pushes, commits, temporary regions       *)
(* (src/src/compiler/arena.c, unix_arena.c), the table of interned strings *)
(* whose growth is a push of its own (common.c, intern.c), and the pass    *)
(* that works in a temporary region (extended_passes.c).                   *)
(*                                                                         *)
(* A block stays as it is until somebody pushes over it, also when it has  *)
(* been popped; then it is spoiled.  The sizes are those of the code       *)
(* divided by something large.                                             *)
(***************************************************************************)
EXTENDS Naturals, FiniteSets

CONSTANTS
  Reserve,     \* memory.reserve, a multiple of the page size
  Page,        \* LC_V_UNIX_PAGE_SIZE
  AddSize,     \* LC_COMMIT_ADD_SIZE
  Alignment,   \* arena->alignment
  BaseLen,     \* arena->base_len, the arena's own header
  Sizes,       \* the sizes of other pushes
  Names,       \* the strings that are interned
  TextSize,    \* the size of an INTERN_Entry, by name
  InitCap,     \* the size of the table of interns at the start
  VisitsSize,  \* the size of the first map of the pass
  RoomAtPass,  \* the pass is called only when the table need not grow
  MaxPushes    \* bound on the other pushes

ASSUME MemoryAssumption ==
  /\ {Page, Alignment, InitCap, VisitsSize} \subseteq Nat \ {0}
  /\ Reserve \in Nat /\ Reserve % Page = 0 /\ AddSize \in Nat /\ BaseLen \in Nat
  /\ BaseLen <= Page /\ Page <= Reserve
  /\ Sizes \subseteq Nat /\ MaxPushes \in Nat
  /\ "main" \in Names /\ TextSize \in [Names -> Nat \ {0}]
  /\ RoomAtPass \in BOOLEAN

VARIABLES
  mem,      \* the arena, the blocks in it that somebody holds a pointer to,
            \* and which of them are spoiled
  table,    \* L->interns: its size, where it is, how many names it has
  known,    \* the names in the table
  addr,     \* the address LC_InternStrLen last returned for a name
  pc,       \* "run", or "pass" inside the pass
  mark,     \* the position of LC_BeginTemp
  pushes

vars == <<mem, table, known, addr, pc, mark, pushes>>

Nowhere == Reserve   \* no address
-----------------------------------------------------------------------------
(* The arena.                                                              *)

AlignOffset(n, a) == (a - (n % a)) % a                       \* LC_GetAlignOffset
AlignUp(n, a) == n + AlignOffset(n, a)

(* LC_V_AdvanceCommit and LC_VCommit: the new commit.                      *)
Committed_Exact(m, size) == m.commit + AlignUp(AddSize, Page)  \* mutant: only the extra
Committed(m, size) ==
  IF m.commit + AlignUp(size + AddSize, Page) < Reserve
  THEN m.commit + AlignUp(size + AddSize, Page)
  ELSE Reserve

Overlapping(blocks, from, to) == {b \in blocks : b.from < to /\ from < b.to}

PushPos(m) == AlignUp(m.len, Alignment)

(* LC__PushSize: a failed assertion ends the program.                      *)
Fail(m, wanted) == [m EXCEPT !.full = TRUE, !.wanted = wanted]

Push(m, size) ==
  LET from == PushPos(m)
      commit == IF from + size > m.commit THEN Committed(m, from + size - m.len) ELSE m.commit
  IN  IF m.full THEN m
      ELSE IF from + size > commit THEN Fail(m, from + size)
      ELSE [m EXCEPT !.len = from + size, !.commit = commit,
                     !.spoiled = @ \cup Overlapping(m.blocks, from, from + size)]

(* A push whose result somebody keeps under a tag, in place of old blocks. *)
Keep(m, size, tag, old) ==
  LET m1 == Push(m, size)
  IN  IF m1.full THEN m1
      ELSE [m1 EXCEPT !.spoiled = @ \ old, !.blocks = (@ \ old) \cup
              {[tag |-> tag, from |-> PushPos(m), to |-> PushPos(m) + size]}]

Drop(m, old) == [m EXCEPT !.blocks = @ \ old, !.spoiled = @ \ old]

PopToPos(m, pos) ==
  [m EXCEPT !.len = IF pos < BaseLen THEN BaseLen ELSE IF pos > m.len THEN m.len ELSE pos]
-----------------------------------------------------------------------------
(* Interning.                                                              *)

Table(cap) == <<"table", cap>>
Tagged(m, tag) == {b \in m.blocks : b.tag = tag}

(* The table may be read: nothing has been pushed over it.                 *)
TableIsIntact == Tagged(mem, Table(table.cap)) \cap mem.spoiled = {}

HalfFull(t) == t.len * 2 >= t.cap

Moved_Nothing(found) == {}               \* mutant: the old entries are left behind
Moved(found) == found

(* LC_InternStrLen(n), when the names in `seen` are found.  The lookup      *)
(* grows the table before it searches.                                     *)
InternSeeing(n, seen) ==
  LET cap2 == table.cap * 2
      grows == HalfFull(table)
      found == IF grows THEN Moved(seen) ELSE seen
      count == IF grows THEN Cardinality(found) ELSE table.len
      grown == IF grows THEN Keep(mem, cap2, Table(cap2), Tagged(mem, Table(table.cap))) ELSE mem
      m == IF n \in found THEN grown ELSE Keep(grown, TextSize[n], <<"name", n>>, {})
  IN  /\ ~mem.full /\ mem' = m
      /\ IF m.full THEN UNCHANGED <<table, known, addr>>
         ELSE /\ known' = found \cup {n}
              /\ table' = [cap |-> IF grows THEN cap2 ELSE table.cap,
                           len |-> IF n \in found THEN count ELSE count + 1]
              /\ addr' = IF n \in found THEN addr ELSE [addr EXCEPT ![n] = PushPos(grown)]

(* The names in the table, if it is intact, and else whatever is read.     *)
Intern(n) ==
  \E seen \in IF TableIsIntact THEN {known} ELSE SUBSET known : InternSeeing(n, seen)
-----------------------------------------------------------------------------
Start == [len |-> BaseLen, commit |-> Page, full |-> FALSE, wanted |-> 0,
          blocks |-> {}, spoiled |-> {}]

(* LC_BootstrapArena and LC_LangBegin, up to the first names.              *)
Init ==
  LET m1 == Keep(Start, InitCap, Table(InitCap), {})
  IN  /\ mem = Keep(m1, TextSize["main"], <<"name", "main">>, {})
      /\ table = [cap |-> InitCap, len |-> 1]
      /\ known = {"main"}
      /\ addr = [n \in Names |-> IF n = "main" THEN PushPos(m1) ELSE Nowhere]
      /\ pc = "run" /\ mark = 0 /\ pushes = 0

(* A tree, a declaration, a message: anything that is kept.                *)
Alloc(size) ==
  /\ pc = "run" /\ ~mem.full /\ pushes < MaxPushes /\ pushes' = pushes + 1
  /\ mem' = Keep(mem, size, <<"kept", pushes>>, {})
  /\ UNCHANGED <<table, known, addr, pc, mark>>

(* LC_ContainsCallExpr and its like: a walk inside a temporary region.     *)
Walk(size) ==
  /\ pc = "run" /\ ~mem.full
  /\ LET m == Push(mem, size) IN mem' = IF m.full THEN m ELSE PopToPos(m, mem.len)
  /\ UNCHANGED <<table, known, addr, pc, mark, pushes>>

InternName(n) == pc = "run" /\ Intern(n) /\ UNCHANGED <<pc, mark, pushes>>

(* LC_FindUnusedLocalsAndRemoveUnusedGlobalDeclsPass: its map of visits,   *)
(* the growth of that map, LC_ILit("main") for a declaration that nobody   *)
(* references, and the end of the region.                                  *)
Visits == {b \in mem.blocks : b.tag[1] = "visits"}

BeginPass ==
  /\ pc = "run" /\ ~mem.full
  /\ RoomAtPass => ~HalfFull(table)
  /\ pc' = "pass" /\ mark' = mem.len
  /\ mem' = Keep(mem, VisitsSize, <<"visits", VisitsSize>>, {})
  /\ UNCHANGED <<table, known, addr, pushes>>

GrowVisits ==
  /\ pc = "pass" /\ ~mem.full /\ Tagged(mem, <<"visits", VisitsSize>>) # {}
  /\ mem' = Keep(mem, VisitsSize * 2, <<"visits", VisitsSize * 2>>, Visits)
  /\ UNCHANGED <<table, known, addr, pc, mark, pushes>>

CompareWithMain == pc = "pass" /\ Intern("main") /\ UNCHANGED <<pc, mark, pushes>>

EndPass_Late ==                          \* mutant: pops what was there before, too
  /\ pc = "pass" /\ ~mem.full /\ pc' = "run"
  /\ mem' = Drop(PopToPos(mem, mark - 1), Visits)
  /\ UNCHANGED <<table, known, addr, mark, pushes>>

EndPass ==
  /\ pc = "pass" /\ ~mem.full /\ pc' = "run"
  /\ mem' = Drop(PopToPos(mem, mark), Visits)
  /\ UNCHANGED <<table, known, addr, mark, pushes>>

Next ==
  \/ \E s \in Sizes : Alloc(s) \/ Walk(s)
  \/ \E n \in Names : InternName(n)
  \/ BeginPass \/ GrowVisits \/ CompareWithMain \/ EndPass

Spec == Init /\ [][Next]_vars
-----------------------------------------------------------------------------
TypeOK ==
  /\ mem.len \in BaseLen..mem.commit
  /\ mem.commit \in Page..Reserve /\ mem.commit % Page = 0
  /\ \A b \in mem.blocks : b.from % Alignment = 0
  /\ pc \in {"run", "pass"} /\ mark \in 0..Reserve
  /\ known \subseteq Names /\ table.len = Cardinality(known)
  /\ \A n \in Names : addr[n] # Nowhere <=> n \in known

(* What somebody holds a pointer to is below the length of the arena, so   *)
(* that no later push takes it, and no two blocks overlap.                 *)
BlocksAreAllocated ==
  /\ \A b \in mem.blocks : b.to <= mem.len
  /\ \A b, c \in mem.blocks : b # c => b.to <= c.from \/ c.to <= b.from

(* Nothing has been pushed over it.                                        *)
BlocksAreIntact == mem.spoiled = {}

(* LC_ASSERT ends the program only when the reservation is too small for   *)
(* what was wanted, alignment included, and never because of how memory    *)
(* was committed before.                                                   *)
FailsOnlyWhenFull == mem.full => mem.wanted > Reserve

(* A name keeps its address: names are compared by address everywhere.     *)
InternsAreStable == [][\A n \in Names : addr[n] # Nowhere => addr'[n] = addr[n]]_vars
=============================================================================
