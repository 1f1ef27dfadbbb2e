---------------------------- MODULE BuildDriver ----------------------------
(***************************************************************************)
(* The build driver of Main.cpp: the build program's compile() is          *)
(* interpreted, and then every target it asked for is configured, compiled *)
(* (RunPipeline), its globals evaluated by an interpreter of its own,      *)
(* turned into code and linked; the build program's inspect_ast and        *)
(* after_link run in between.  All of it is the main thread; what the      *)
(* steps share are globals: the type table, which is swapped between the   *)
(* build program's and the target's, RegisterBitSize, PTarget, ConfigIDs   *)
(* and the look-up paths.                                                  *)
(*                                                                         *)
(* A type object is on the heap; a table, current or saved, points to it.  *)
(* Entries are counted from 1 here and from 0 in the code.                 *)
(***************************************************************************)
EXTENDS Integers, Sequences, FiniteSets

CONSTANTS
    Targets,          \* the compile infos, in the order compile() gives them
    HostOS,           \* PTarget of the compiler itself
    Basic,            \* the name of the one basic type
    Structs,          \* names a program may declare
    MaxTypes,         \* bound: entries of a table
    MaxObjects        \* bound: types made in all

VARIABLES
    pc, target,       \* the step of the loop, and the target it is for
    hooks,            \* the functions the build program has
    stopped,          \* g_StopCompileOutput
    PTarget, RegisterBitSize, SaveRegisterBitSize,
    ConfigIDs, Lookups,
    LinkArgs,         \* the targets whose link arguments CommandLine.LinkArgs has
    tt,               \* TypeTable, TypeCount, TypeMap and what they refer to
    BuildTable, CompileTable,   \* BuildTimeTypeTable and CompileTypeTable
    buildIR, targetIR \* the types the two programs' IR speaks of, by their index

config == <<PTarget, ConfigIDs, Lookups, LinkArgs>>
bits == <<RegisterBitSize, SaveRegisterBitSize>>
tables == <<tt, BuildTable, CompileTable>>
vars == <<pc, target, hooks, stopped, config, bits, tables, buildIR, targetIR>>

Invalid == 0

HostBits == 64        \* sizeof(void*) * 8: the compiler is built for 64 bit hosts
Arches32 == {"x86", "arm32", "wasm32"}
Arches64 == {"x86_64", "arm64", "wasm64"}
Bits(arch) == IF arch \in Arches32 THEN 32 ELSE 64

Flags == {"CrossVOS", "CrossAndroid", "NoLibC", "Standalone"}

ASSUME BuildAssumption ==
    /\ \A k \in DOMAIN Targets :
        /\ Targets[k].arch \in Arches32 \cup Arches64
        /\ Targets[k].flags \subseteq Flags
        /\ Targets[k].link \in BOOLEAN
    /\ Len(Targets) > 0
    /\ HostOS \in {"Windows", "Unix"}
    /\ {Basic, "*", "?*"} \cap Structs = {}
    /\ {MaxTypes, MaxObjects} \subseteq Nat

Info == Targets[target]

-----------------------------------------------------------------------------
(* The type table: a record of                                              *)
(*   heap   the type objects: name, register size of CachedSize (0: none),  *)
(*          and CachedAsPointer                                             *)
(*   slots  the objects TypeTable points to, past count what was left there *)
(*   count  TypeCount                                                       *)
(*   dicts  the dictionaries; a copy of a dict shares its storage           *)
(*   map    the dictionary that TypeMap is                                  *)

BasicTypesCount == 1
NULLType == BasicTypesCount + 1      \* the first entry of every table

Types(T) == 1 .. T.count
Entry(T, i) == T.heap[T.slots[i]]
Dict(T) == T.dicts[T.map]
PointerName(T, i) == <<"*">> \o Entry(T, i).name
Names(T) == [i \in Types(T) |-> Entry(T, i).name]

Put(s, i, x) == IF i \in DOMAIN s THEN [s EXCEPT ![i] = x] ELSE Append(s, x)

AddType(T, name, size) ==
    IF name \in DOMAIN Dict(T) THEN T ELSE
    [heap |-> Append(T.heap, [name |-> name, size |-> size, pointer |-> Invalid]),
     slots |-> Put(T.slots, T.count + 1, Len(T.heap) + 1),
     count |-> T.count + 1,
     dicts |-> [T.dicts EXCEPT ![T.map] =
                    [n \in DOMAIN @ \cup {name} |-> IF n = name THEN T.count + 1 ELSE @[n]]],
     map |-> T.map]

GetPointerTo(T, i, size) ==
    IF Entry(T, i).pointer # Invalid THEN T ELSE
    LET U == AddType(T, PointerName(T, i), size)
    IN  [U EXCEPT !.heap[U.slots[i]].pointer = Dict(U)[PointerName(T, i)]]

\* Mutant: the pointers cached with the basic types stay.
KeepCaches(T) ==
    [T EXCEPT !.heap = [o \in DOMAIN @ |->
        IF \E i \in 1 .. BasicTypesCount : T.slots[i] = o THEN [@[o] EXCEPT !.size = 0] ELSE @[o]]]

ResetBasic(T) ==
    [T EXCEPT !.heap = [o \in DOMAIN @ |->
        IF \E i \in 1 .. BasicTypesCount : T.slots[i] = o
        THEN [@[o] EXCEPT !.size = 0, !.pointer = Invalid]
        ELSE @[o]]]

\* SaveTypeTableAndReset: what it returns, and what it leaves: the basic types,
\* an empty dictionary and NULLType anew.
Saved(T) == [pointers |-> SubSeq(T.slots, BasicTypesCount + 1, T.count), dictionary |-> T.map]

Reset(T, size) ==
    LET R == ResetBasic(T)
    IN  AddType([R EXCEPT !.count = BasicTypesCount, !.dicts = Append(@, << >>),
                          !.map = Len(T.dicts) + 1],
                <<"?*">>, size)

\* RestoreTypeTable: the dictionary is the saved one, not a copy of its entries.
Restore(T, from) ==
    LET R == ResetBasic(T)
        top == BasicTypesCount + Len(from.pointers)
    IN  [R EXCEPT !.slots = [i \in DOMAIN R.slots \cup 1 .. top |->
                                IF i \in BasicTypesCount + 1 .. top
                                THEN from.pointers[i - BasicTypesCount] ELSE R.slots[i]],
                  !.count = top,
                  !.map = from.dictionary]

\* TypeTableInvalidateSizeCaches
Invalidate(T) ==
    [T EXCEPT !.heap = [o \in DOMAIN @ |->
        IF \E i \in Types(T) : T.slots[i] = o THEN [@[o] EXCEPT !.size = 0] ELSE @[o]]]

StartTable ==
    AddType([heap |-> <<[name |-> <<Basic>>, size |-> 0, pointer |-> Invalid]>>,
             slots |-> <<1>>, count |-> 1, dicts |-> << << >> >>, map |-> 1],
            <<"?*">>, 64)
NoTable == [pointers |-> << >>, dictionary |-> 1]

-----------------------------------------------------------------------------
Init ==
    /\ pc = "compile"
    /\ target = 1
    /\ hooks \in SUBSET {"inspect_ast", "after_link"}
    /\ stopped = FALSE
    /\ PTarget = HostOS
    /\ RegisterBitSize = 64
    /\ SaveRegisterBitSize = 64
    /\ ConfigIDs = {HostOS, "x86", "x64"}
    /\ Lookups = {".", "std", "build"}
    /\ LinkArgs = << >>
    /\ tt = StartTable
    /\ BuildTable = NoTable
    /\ CompileTable = NoTable
    /\ buildIR = << >>
    /\ targetIR = << >>

Goto(label) == pc' = label

\* A step that touches the type table only.
TableStep(T) ==
    /\ tt' = T
    /\ UNCHANGED <<target, hooks, stopped, config, bits, BuildTable, CompileTable, buildIR,
                   targetIR>>

\* A declaration of the program that is compiled, the build program or a target.
DeclareStruct(name) ==
    /\ pc \in {"compile", "pipeline"}
    /\ tt.count < MaxTypes /\ Len(tt.heap) < MaxObjects
    /\ TableStep(AddType(tt, <<name>>, RegisterBitSize))
    /\ UNCHANGED pc

\* The checker, the IR, an interpreter or the code generator asks for a pointer.
InternPointer(i) ==
    /\ pc \in {"compile", "pipeline", "inspect", "comptime", "generate", "after"}
    /\ tt.count < MaxTypes /\ Len(tt.heap) < MaxObjects
    /\ TableStep(GetPointerTo(tt, i, RegisterBitSize))
    /\ UNCHANGED pc

\* no_compile_output() in what is interpreted.
StopOutput ==
    /\ pc \in {"compile", "inspect", "comptime", "after"}
    /\ stopped' = TRUE
    /\ UNCHANGED <<pc, target, hooks, config, bits, tables, buildIR, targetIR>>

\* An error in the program ends the process.
Exit ==
    /\ pc \in {"compile", "pipeline", "comptime"}
    /\ Goto("exit")
    /\ UNCHANGED <<target, hooks, stopped, config, bits, tables, buildIR, targetIR>>

\* compile() has returned.
SaveBuildTable ==
    /\ pc = "compile"
    /\ buildIR' = Names(tt)
    /\ BuildTable' = Saved(tt)
    /\ tt' = Reset(tt, RegisterBitSize)
    /\ Goto("target")
    /\ UNCHANGED <<target, hooks, stopped, config, bits, CompileTable, targetIR>>

-----------------------------------------------------------------------------
(* One target                                                               *)

ArchOf(k) == IF "CrossVOS" \in Targets[k].flags THEN "x86" ELSE Targets[k].arch
Arch == ArchOf(target)

\* PTarget is set for the systems a target names and otherwise left as it is;
\* of several the last one in the code counts.
System ==
    CASE Arch \in {"wasm32", "wasm64"} -> "WASM"
      [] Arch \notin {"wasm32", "wasm64"} /\ "CrossAndroid" \in Info.flags -> "Unix"
      [] "CrossVOS" \in Info.flags /\ "CrossAndroid" \notin Info.flags -> "VOS"
      [] OTHER -> PTarget

ArchIDs ==
    IF Arch = "x86_64" THEN {"x86", "x64"} ELSE {Arch}

\* The identifiers of this target, whatever system it is for.
OwnIDs ==
    Info.defines \cup ArchIDs
    \cup (IF {"NoLibC", "CrossVOS"} \cap Info.flags = {} THEN {"LIBC"} ELSE {})
    \cup (IF "Standalone" \in Info.flags THEN {"Standalone"} ELSE {})
OwnLookups == {".", "std", "build"} \cup Info.directories

\* The 32-bit architectures set RegisterBitSize, the others leave it.  ConfigIDs
\* and the look-up paths begin anew, the linker's arguments never do.
Configure ==
    /\ pc = "target"
    /\ Lookups' = OwnLookups
    /\ PTarget' = System
    /\ ConfigIDs' = OwnIDs \cup {System}
    /\ RegisterBitSize' = IF Arch \in Arches32 THEN 32 ELSE RegisterBitSize
    /\ LinkArgs' = IF Info.link THEN Append(LinkArgs, target) ELSE LinkArgs
    /\ Goto("configured")
    /\ UNCHANGED <<target, hooks, stopped, SaveRegisterBitSize, tables, buildIR, targetIR>>

StartPipeline ==
    /\ pc = "configured"
    /\ Goto("pipeline")
    /\ TableStep(Reset(tt, RegisterBitSize))

\* RunPipeline has returned: the interpreters run at the host's register size.
EndPipeline ==
    /\ pc = "pipeline"
    /\ targetIR' = Names(tt)
    /\ SaveRegisterBitSize' = RegisterBitSize
    /\ RegisterBitSize' = HostBits
    /\ Goto(IF "inspect_ast" \in hooks THEN "swap" ELSE "compiled")
    /\ UNCHANGED <<target, hooks, stopped, config, tables, buildIR>>

\* inspect_ast runs on the build program's types.
StartInspect ==
    /\ pc = "swap"
    /\ CompileTable' = Saved(tt)
    /\ tt' = Restore(Reset(tt, RegisterBitSize), BuildTable)
    /\ Goto("inspect")
    /\ UNCHANGED <<target, hooks, stopped, config, bits, BuildTable, buildIR, targetIR>>

\* Mutant: the target's table is not put back.
EndInspectKeepsTable ==
    /\ pc = "inspect"
    /\ Goto("compiled")
    /\ TableStep(tt)

EndInspect ==
    /\ pc = "inspect"
    /\ Goto("compiled")
    /\ TableStep(Restore(tt, CompileTable))

StartComptime ==
    /\ pc = "compiled"
    /\ Goto("comptime")
    /\ TableStep(Invalidate(tt))

EndComptime ==
    /\ pc = "comptime"
    /\ RegisterBitSize' = SaveRegisterBitSize
    /\ Goto(IF stopped THEN "link" ELSE "output")
    /\ UNCHANGED <<target, hooks, stopped, config, SaveRegisterBitSize, tables, buildIR, targetIR>>

\* Mutant: the sizes the interpreter worked with are not invalidated.
StartGenerateStale ==
    /\ pc = "output"
    /\ Goto("generate")
    /\ TableStep(tt)

StartGenerate ==
    /\ pc = "output"
    /\ Goto("generate")
    /\ TableStep(Invalidate(tt))

EndGenerate ==
    /\ pc = "generate"
    /\ Goto("link")
    /\ TableStep(tt)

\* The linker has run; after_link runs on the build program's types.
EndLink ==
    /\ pc = "link"
    /\ IF "after_link" \in hooks
       THEN /\ RegisterBitSize' = HostBits
            /\ tt' = Restore(tt, BuildTable)
            /\ Goto("after")
       ELSE Goto("clean") /\ UNCHANGED <<RegisterBitSize, tt>>
    /\ UNCHANGED <<target, hooks, stopped, config, SaveRegisterBitSize, BuildTable, CompileTable,
                   buildIR, targetIR>>

EndAfter ==
    /\ pc = "after"
    /\ Goto("clean")
    /\ TableStep(tt)

NextTarget ==
    /\ pc = "clean"
    /\ RegisterBitSize' = SaveRegisterBitSize
    /\ IF target < Len(Targets) THEN target' = target + 1 /\ Goto("target")
                                ELSE UNCHANGED target /\ Goto("done")
    /\ UNCHANGED <<hooks, stopped, config, SaveRegisterBitSize, tables, buildIR, targetIR>>

Terminated == pc \in {"done", "exit"} /\ UNCHANGED vars

Next ==
    \/ \E n \in Structs : DeclareStruct(n)
    \/ \E i \in Types(tt) : InternPointer(i)
    \/ StopOutput \/ Exit \/ SaveBuildTable
    \/ Configure \/ StartPipeline \/ EndPipeline \/ StartInspect \/ EndInspect
    \/ StartComptime \/ EndComptime \/ StartGenerate \/ EndGenerate
    \/ EndLink \/ EndAfter \/ NextTarget
    \/ Terminated

Spec == Init /\ [][Next]_vars

-----------------------------------------------------------------------------
(* What must hold *)

ForHost == {"compile", "inspect", "comptime", "after"}   \* something is interpreted
ForTarget == {"pipeline", "generate"}
OfTarget == {"pipeline", "comptime", "generate"}         \* the target's types are in place
OfBuild == {"inspect", "after"}

\* While a target is compiled the table finds every type under its own name, and
\* a cached pointer points to it, whatever the build program's functions added
\* to the tables that were swapped in and out before.
TargetTypesAreFound ==
    pc \in OfTarget =>
        /\ \A n \in DOMAIN Dict(tt) : Dict(tt)[n] \in Types(tt) /\ Names(tt)[Dict(tt)[n]] = n
        /\ \A i \in Types(tt) :
            LET p == Entry(tt, i).pointer IN
            p # Invalid => p \in Types(tt) /\ Names(tt)[p] = PointerName(tt, i)

\* The IR speaks of a type by its index: while an IR is interpreted or turned
\* into code the index is the type it was when the IR was made, and NULLType is
\* the pointer to nothing in every table.
IndicesKeepTheirMeaning ==
    /\ pc \in OfBuild => \A i \in DOMAIN buildIR : i \in Types(tt) /\ Names(tt)[i] = buildIR[i]
    /\ pc \in {"comptime", "generate"} =>
        \A i \in DOMAIN targetIR : i \in Types(tt) /\ Names(tt)[i] = targetIR[i]
    /\ pc \in OfTarget \cup OfBuild => Names(tt)[NULLType] = <<"?*">>

\* Known: nothing sets RegisterBitSize back, so a 64-bit target that is built after
\* a 32-bit one is compiled with 32-bit pointers (Main.cpp:468-503).
LeftAt32 == Arch \notin Arches32 /\ \E k \in 1 .. target - 1 : ArchOf(k) \in Arches32

\* Code is made at the register size of its target and interpreted at the host's,
\* however often the two alternate, and a cached size is never used at another
\* register size than it was computed for.
SizesFitTheMachine ==
    pc \in ForHost \cup ForTarget =>
        /\ pc \in ForHost => RegisterBitSize = HostBits
        /\ pc \in ForTarget /\ ~LeftAt32 => RegisterBitSize = Bits(Arch)
        /\ \A i \in Types(tt) : Entry(tt, i).size \in {0, RegisterBitSize}
=============================================================================
