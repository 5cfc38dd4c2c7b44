----------------------------- MODULE BuildCache ------------------------------
(***************************************************************************)
(* The build tool: main of src/src/build_tool/main.cpp and the cache of    *)
(* src/src/build_tool/cache.cpp.  An invocation hashes the build file with *)
(* all it includes, compiles it unless the executable is there and the     *)
(* cache file of an earlier invocation has the same hash, runs it, and     *)
(* writes the cache file.  A failure deletes the cache file.               *)
(*                                                                         *)
(* Somebody edits the files, between invocations or during them, and an    *)
(* invocation may be killed at any point.                                  *)
(*                                                                         *)
(* A project gives the includes of every version of every file; version 0  *)
(* of a file is its absence.  Hashes are injective: the hash of a file is  *)
(* its name, its version and the hashes of its includes in order.          *)
(***************************************************************************)
EXTENDS Naturals, Sequences, FiniteSets

CONSTANTS
  Files,
  Root,        \* the build file
  Projects,    \* of [Files -> Seq(Seq(Files))]: the includes of each version
  Disks,       \* of [Files -> Nat]: the versions to start with
  Worlds,      \* what may happen: see World
  MaxEdits,    \* bound on the edits
  MaxDepth,    \* bound on the recursion: the stack of the process
  EntryCap     \* SRC_CACHE_ENTRY_COUNT

World == [meddles : BOOLEAN,  \* files change while the tool runs
          reverts : BOOLEAN,  \* a file may get an earlier version again
          cleans  : BOOLEAN,  \* the executable is deleted between invocations
          kills   : BOOLEAN]  \* the tool is killed

ASSUME BuildAssumption ==
  /\ Root \in Files
  /\ Worlds \subseteq World
  /\ Projects \subseteq [Files -> Seq(Seq(Files))]
  /\ \A d \in Disks : d \in [Files -> Nat] /\ \A p \in Projects, f \in Files : d[f] <= Len(p[f])
  /\ MaxDepth \in Nat \ {0} /\ EntryCap \in Nat /\ MaxEdits \in Nat

VARIABLES
  world, project,
  disk,      \* the version of each file
  edits,
  cacheFile, \* the entries of build_tool.cache, <<>> if there is no such file
  exe,       \* what the executable was compiled from
  pc,        \* where main is
  fromFile,  \* SRC_FromFileCache
  mem,       \* the entries of SRC_InMemoryCache
  stack,     \* the calls of SRC_HashFile
  since,     \* what there was to compile, from the start of the invocation on
  settled    \* what the last invocation compiled or left, when nothing disturbed it

vars == <<world, project, disk, edits, cacheFile, exe, pc, fromFile, mem, stack,
          since, settled>>

NoExe == <<>>
Broken == [broken |-> 1]   \* an executable that was not written to the end

Includes(f, v) == project[f][v]
Named(s) == {s[i] : i \in DOMAIN s}

(* What a C compiler reads: the files included from the build file on, the *)
(* least set that has the build file and what the files in it include.     *)
Present(d) == {f \in Files : d[f] # 0}
HasIncluded(F, d) ==
  \A f \in F : \A g \in Named(Includes(f, d[f])) : d[g] # 0 => g \in F
Reached(d) ==
  {f \in Present(d) : \A F \in SUBSET Present(d) : Root \in F /\ HasIncluded(F, d) => f \in F}
Sources(d) == IF d[Root] = 0 THEN NoExe ELSE [f \in Reached(d) |-> d[f]]

Quiet == <<cacheFile, exe, fromFile, mem, stack>>

Init ==
  /\ world \in Worlds /\ project \in Projects /\ disk \in Disks /\ edits = 0
  /\ cacheFile = <<>> /\ exe = NoExe
  /\ pc = "idle" /\ fromFile = <<>> /\ mem = <<>> /\ stack = <<>>
  /\ since = {} /\ settled = NoExe
-----------------------------------------------------------------------------
(* The world outside.                                                      *)

Edit(f) ==
  /\ edits < MaxEdits /\ edits' = edits + 1
  /\ pc = "idle" \/ world.meddles
  /\ \E v \in 0..Len(project[f]) :
       /\ v # disk[f] /\ (v < disk[f] => world.reverts)
       /\ disk' = [disk EXCEPT ![f] = v]
  /\ since' = IF pc = "idle" THEN {} ELSE since \cup {Sources(disk')}
  /\ UNCHANGED <<world, project, pc, settled, Quiet>>

Clean ==
  /\ world.cleans /\ pc = "idle" /\ exe # NoExe
  /\ exe' = NoExe /\ settled' = NoExe
  /\ UNCHANGED <<world, project, disk, edits, cacheFile, pc, fromFile, mem, stack, since>>

Stop ==
  /\ pc' = "idle" /\ fromFile' = <<>> /\ mem' = <<>> /\ stack' = <<>>
  /\ since' = {}

(* A kill while the compiler writes the executable leaves a part of it, or *)
(* nothing; one while SRC_SaveCache writes leaves the first entries.       *)
Kill ==
  /\ world.kills /\ pc # "idle" /\ Stop
  /\ exe' \in IF pc = "compile" THEN {exe, NoExe, Broken} ELSE {exe}
  /\ cacheFile' \in IF pc = "save"
                    THEN {cacheFile} \cup {SubSeq(mem, 1, n) : n \in 0..Len(mem)}
                    ELSE {cacheFile}
  /\ settled' = NoExe
  /\ UNCHANGED <<world, project, disk, edits>>
-----------------------------------------------------------------------------
(* SRC_HashFile.                                                           *)

Find(cache, f) ==                                            \* SRC_FindCache
  LET at == {i \in DOMAIN cache : cache[i].file = f}
  IN  IF at = {} THEN <<>> ELSE cache[CHOOSE i \in at : \A j \in at : i <= j].total

(* The file is read when it is reached, all of it at once.                 *)
Frame(f) == [file |-> f, ver |-> disk[f], at |-> 1, includes |-> <<>>]
Top == stack[Len(stack)]
Below == SubSeq(stack, 1, Len(stack) - 1)
NextInclude == Includes(Top.file, Top.ver)[Top.at]
HasInclude == Top.at <= Len(Includes(Top.file, Top.ver))
Took(frame, hash) == [frame EXCEPT !.at = @ + 1, !.includes = Append(@, hash)]

Hashing == pc = "hash" /\ UNCHANGED <<world, project, disk, edits, cacheFile, exe,
                                      fromFile, since, settled>>

SkipInclude ==
  /\ Hashing /\ HasInclude /\ disk[NextInclude] = 0
  /\ stack' = [stack EXCEPT ![Len(stack)].at = @ + 1]
  /\ UNCHANGED <<pc, mem>>

Known(f) == Find(mem, f) # <<>>

KnownInclude ==
  /\ Hashing /\ HasInclude /\ disk[NextInclude] # 0 /\ Known(NextInclude)
  /\ stack' = [stack EXCEPT ![Len(stack)] = Took(@, Find(mem, NextInclude))]
  /\ UNCHANGED <<pc, mem>>

EnterInclude ==
  /\ Hashing /\ HasInclude /\ disk[NextInclude] # 0 /\ ~Known(NextInclude)
  /\ Len(stack) < MaxDepth
  /\ stack' = Append(stack, Frame(NextInclude))
  /\ UNCHANGED <<pc, mem>>

Total_Shallow(frame) == <<frame.file, frame.ver>>  \* mutant: includes_hash is lost
Total(frame) == <<frame.file, frame.ver, frame.includes>>

CacheIsFull == ~(Len(mem) + 1 < EntryCap)

(* The end of SRC_WasModified.                                             *)
Modified(total) == exe = NoExe \/ Find(fromFile, Root) # total

(* SRC_AddHash, and the return to the caller, SRC_HashFile or main.        *)
Finish ==
  /\ Hashing /\ ~HasInclude /\ ~CacheIsFull
  /\ mem' = Append(mem, [file |-> Top.file, total |-> Total(Top)])
  /\ IF Len(stack) > 1
     THEN /\ stack' = [Below EXCEPT ![Len(Below)] = Took(@, Total(Top))]
          /\ UNCHANGED pc
     ELSE /\ stack' = <<>>
          /\ pc' = IF Modified(Total(Top)) THEN "compile" ELSE "run"

(* The stack overflows, or IO_Assert of SRC_AddHash fails.                 *)
Abort ==
  /\ pc = "hash"
  /\ \/ HasInclude /\ disk[NextInclude] # 0 /\ ~Known(NextInclude) /\ Len(stack) >= MaxDepth
     \/ ~HasInclude /\ CacheIsFull
  /\ Stop
  /\ UNCHANGED <<world, project, disk, edits, cacheFile, exe, settled>>
-----------------------------------------------------------------------------
(* main.                                                                   *)

Invoke ==
  /\ pc = "idle" /\ disk[Root] # 0
  /\ pc' = "hash"
  /\ fromFile' = cacheFile /\ mem' = <<>> /\ stack' = <<Frame(Root)>>
  /\ since' = {Sources(disk)}
  /\ UNCHANGED <<world, project, disk, edits, cacheFile, exe, settled>>

(* The compiler reads the files as they are when it runs; one that fails   *)
(* may have deleted the executable.                                        *)
Compile ==
  /\ pc = "compile" /\ settled' = NoExe
  /\ \/ pc' = "run" /\ exe' = Sources(disk) /\ disk[Root] # 0
     \/ pc' = "failed" /\ exe' \in {exe, NoExe}
  /\ UNCHANGED <<world, project, disk, edits, cacheFile, fromFile, mem, stack, since>>

Run ==
  /\ pc = "run" /\ pc' \in {"save", "failed"}
  /\ UNCHANGED <<world, project, disk, edits, Quiet, since, settled>>

FailedBuild ==                   \* OS_DeleteFile("build_tool.cache")
  /\ pc = "failed" /\ Stop
  /\ cacheFile' = <<>> /\ settled' = NoExe
  /\ UNCHANGED <<world, project, disk, edits, exe>>

SaveCache_Merged ==              \* mutant: entries of before come first
  /\ pc = "save" /\ Stop
  /\ cacheFile' = fromFile \o mem
  /\ settled' = IF Cardinality(since) = 1 THEN CHOOSE s \in since : TRUE ELSE NoExe
  /\ UNCHANGED <<world, project, disk, edits, exe>>

SaveCache ==
  /\ pc = "save" /\ Stop
  /\ cacheFile' = mem
  /\ settled' = IF Cardinality(since) = 1 THEN CHOOSE s \in since : TRUE ELSE NoExe
  /\ UNCHANGED <<world, project, disk, edits, exe>>

Tool ==
  \/ SkipInclude \/ KnownInclude \/ EnterInclude \/ Finish \/ Abort
  \/ Compile \/ Run \/ FailedBuild \/ SaveCache

Next == Tool \/ Invoke \/ (\E f \in Files : Edit(f)) \/ Clean \/ Kill

Spec == Init /\ [][Next]_vars
-----------------------------------------------------------------------------
(* Main is hashing exactly while calls of SRC_HashFile are active; every   *)
(* call but the topmost waits for an include of its file that it has not   *)
(* taken yet; and a cache has a hash of the file it is entered under.      *)
TypeOK ==
  /\ pc \in {"idle", "hash", "compile", "run", "failed", "save"}
  /\ (pc = "hash") = (stack # <<>>)
  /\ disk \in [Files -> Nat] /\ \A f \in Files : disk[f] <= Len(project[f])
  /\ exe \in {NoExe, Broken} \/ (Root \in DOMAIN exe /\ DOMAIN exe \subseteq Files)
  /\ \A k \in 1..(Len(stack) - 1) :
       stack[k].at \in DOMAIN Includes(stack[k].file, stack[k].ver)
         /\ Includes(stack[k].file, stack[k].ver)[stack[k].at] = stack[k + 1].file
  /\ \A c \in {cacheFile, fromFile, mem} : \A i \in DOMAIN c :
       c[i].file \in Files /\ c[i].total[1] = c[i].file

(* The executable that runs was compiled from the build file and includes  *)
(* as they were at some moment of this invocation.                         *)
RunsCurrent == pc = "run" => exe \in since

(* main.cpp:45 "Compile the build file only if code changed": nothing is   *)
(* compiled that the last invocation has compiled or found compiled, if    *)
(* neither was disturbed and the executable has not been deleted.          *)
OnlyIfChanged == pc = "compile" => since # {settled}
=============================================================================
