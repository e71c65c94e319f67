# Niffler in TLA+

Niffler compiles small C fragments with an embedded TinyCC while an Erlang
virtual machine is running, and calls the result as NIFs. Its own code is small;
what is hard about it is shared: programs are garbage collected resources that
several processes run at the same time, TinyCC keeps its parser in global
variables, generated Elixir functions compile on their first call, and library
modules initialise C globals on theirs. This directory models those parts and
checks and proves what makes them correct.

## 1. The system

| part | source | state | operations |
|---|---|---|---|
| program resource | `c_src/niffler_nif.c` 99-132, 150-352 | the `Method` array, one `ParamDef` list per method and side, the `TCCState`, the reference count of the resource | `compile()`, the destructor `free_state()`; references move by messages, garbage collection and exits |
| method call | `c_src/niffler_nif.c` 49-72, 354-479 | input and output arrays on the stack, the `Env` list of `$alloc` blocks | `run()`: decode, call the fragment, encode, free |
| libtcc state | `c_src/tinycc/libtcc.c` 150-161, 517-595, 700-746, `tcc.h` 1873-1882; its users in `tccelf.c`, `tccrun.c` | the semaphore and its init flag, the global `tcc_state`, the parser globals, `error_set_jmp_enabled` and `nb_errors` of each state | `tcc_enter_state`, `tcc_exit_state`, `tcc_compile`, `error1`, errors of `tcc_add_symbol` and the link steps |
| defnif cache | `lib/niffler.ex` 298-391 | `persistent_term` at `{module, name}`; static variables of the programs | the generated function: look up, compile, store, run |
| library modules | `lib/niffler/library.ex` 86-97, 192-212, 246-290 | the collected functions, their indices, the program, its `niffler_initialized` flag and `header()` globals | `defnif`, `pre_compile`, the generated `run()` with `on_load()` |
| source templates | `lib/niffler.ex` 418-516, `lib/niffler/stdlib.ex` | none | string interpolation |
| program memory | `c_src/tinycc/tccrun.c` 70-129, 232-376 | the sections of a `TCCState`, its `runtime_mem` blocks in the C heap, the protection of their pages | `tcc_relocate()`, `tcc_run_free()` |
| in-memory linker | `c_src/tinycc/tccelf.c` 161-210, 392-496, 649-734, 902-953, 1093-1318, 1338-1356, 1563-1610, `x86_64-link.c`, `tccgen.c` 1031-1169 | `.symtab`, `.hashtab`, relocations, GOT, PLT, `nb_errors` | begin and end of a file, definitions and references, `tcc_add_symbol`, the passes of `tcc_relocate_ex` |
| expression compiler | `c_src/tinycc/tccgen.c`, `x86_64-gen.c` | value stack, registers, temporary frame slots | what `unary()`, `expr_*()` and `gexpr()` call: `vset`, `gv`, `gen_op`, `vstore`, `gfunc_call` ... |
| rest of TinyCC | `tccpp.c`, types, declarations, statements, other processors | per compilation | sequential compiler (vendored) |
| the rest | `resource.ex` (empty), `mix.exs`, `bench/`, `demo.exs` | none | build and examples |

How they meet: `defnif` and `Niffler.Library` call `compile!` which calls
`nif_compile` (`compile()` in C), which enters libtcc three times (compile,
relocate, get symbol). The returned resource term goes to `persistent_term`
and from there to any caller, which enters it by `nif_run` (`run()` in C). No
part takes a lock but libtcc's semaphore. NIF calls of different processes run
on different scheduler threads at the same time.

What makes each part correct:

* *program resource*: memory is freed exactly once and only when nobody can
  name or run the program; errors on any item of any method leave nothing
  behind; no interleaving of run, drop, send, exit and collection pulls the
  code from under a running call.
* *method call*: the fragment starts only with complete inputs; each block
  belongs to one call; results are the call's own; every way out frees.
* *libtcc state*: one thread at a time in the parser, errors charged to their
  own compilation, the semaphore posted exactly once on every path.
* *defnif cache*: a call runs the program of its own source; static state is one
  instance, at least after the first calls have settled.
* *library modules*: functions run on a loaded library; the index compiled into
  a function selects its own case.
* *program memory*: sections fit the block whatever address it gets, keep their
  bytes and protection while the program lives, and leave no protected page to
  others.
* *in-memory linker*: the definition that counts wins whatever the order, and
  references reach what their source meant.
* *expression compiler*: every value still reaches its operation when registers
  and slots are saved and used again.

The hazards, each at its line and with the properties that cover it, are in
`PROJECT.json`.

## 2. Modules

| module | models | composed with |
|---|---|---|
| `ProgramLifetime` | abstract: phase, holders and runners of a program | implemented by `NifProgram` |
| `NifProgram` | `compile()`, `free_state()`, and the memory view of `run()`; the resource references of the Erlang runtime | |
| `NifProgram_proofs` | inductive invariant and theorems of `NifProgram`, the step simulation of `ProgramLifetime`; what is reclaimed | extends it |
| `NifRun` | one call of `run()` in full, with heap, `$alloc` and encoding | |
| `TccState` | semaphore, global state and errors of libtcc | |
| `ProgramCache` | the function generated by `Niffler.defnif/4` | |
| `LibraryModule` | definition, load and calls of a `Niffler.Library` module | |
| `RunMemory` | placement, copy, protection and release of relocated programs in one C heap | |
| `Linker` | symbol table with hash, merge of files, GOT, PLT and relocation of symbols | |
| `ValueStack` | the x86-64 expression compiler with one run of the code it generates | |
| `NifRun_proofs`, `TccState_proofs`, `ProgramCache_proofs`, `LibraryModule_proofs`, `RunMemory_proofs`, `Linker_proofs` | inductive invariants and theorems | each extends its model |
| `Recursion` | induction on numbers and recursive functions, as lemmas without operator parameters | used by `RunMemory_proofs` and `Linker_proofs` |
| `MC*` | instances for TLC | |

Operators named after a plausible mistake (`FreeMethodsInputsOnly`,
`SemWaitInterrupted`, `PushCellLast` ...) stand right before the definition they
vary. They are not used by any specification; they show that a property notices
the mistake.

### NifProgram

A *handle* is one call of `nif_compile/2` and the program it may create.
`compile()` is split where other schedulers can get in between: the checks
(`CompileRejected`, `CompileBegin`), one step per `scan_params()`
(`ScanInputs`, `ScanOutputs`), `tcc_new` with the creation of the resource
(`TccNew`), the three TinyCC calls (`BuildStep`, `BuildFails`), the return
(`CompileOk`). A parameter list is what `scan_params()` can tell apart: empty,
good, oversize, no memory, improper, malformed. `ScanParams` gives the struct
the C function returns for each, including the two in which size and pointer
disagree. `lists`, `arrays` and `states` are the allocated C objects; a free of
something not allocated, a read through NULL and a read of freed memory set
`fault`, after which no step is taken.

The Erlang runtime is external: `Send` copies a term (the receiver gets a
reference of its own), `Drop` makes the process forget it, `Gc` and `Exit`
sweep the off-heap list `mso[p]`, and a resource whose count reaches 0 is
destroyed at once. A process inside a NIF keeps its arguments and is not
collected; one program is in at most one process's hands while it is built.

### NifRun

`Call`, `Decode`, then the fragment (`Alloc`, `SetBinary`, `SetScalar`,
`ReturnNull`, `ReturnError`, in any order), then `Encode` and one of the ways
out: `ReturnOk`, `MissingResult`, `ErrorFree` then `ErrorResult`. Heap blocks
have addresses that are reused; a block remembers who wrote it last, so a
result built from somebody else's bytes is visible. The fragment keeps the
documented rules (it writes inside its blocks and its static buffer, and never to
inputs); within them it does anything. In particular it may fill a
`static char str[10]` (`niffler.ex` 69) to the last byte, so that `strlen()` in
the encoder, which wants a 0 byte when no size was set, runs past it; a block of
`$alloc` has a 0 byte behind it. Binary contents are abstracted to their writer and
whether a 0 byte ends them, integers to the five ranges that the two 64-bit types
separate. An error text is a constant, the text of a library, or in a block of the
call's own. The exit "could not allocate result binary" does what `MissingResult`
does and has no action of its own.

### TccState

A thread is also its current `TCCState`. `WaitSem`, `SemInit` and `SetInit` are
the three steps of the lazy creation in `wait_sem()`; `SemWait`, `SetState`,
`Clear` and `Post` those of entering and leaving. Inside, `CountError` is
`tcc_error_noabort` and `ParseError` the fatal `tcc_error` with its `longjmp`.
Outside, errors of `tccelf_end_file`, `tcc_add_symbol` and `tcc_relocate` enter the
state only to report (the macro `TCC_SET_STATE`), and `error1()` leaves it for them.
Between compiling and relocating, `compile()` adds every function of `symbols.def`
(lines 332-334) and looks at no result: for a program that defines one of them
itself, `AddSymbolError` counts "defined twice", and `AddSymbols` ends the stage with
the counter 0, as `tcc_relocate_ex` begins (`tccrun.c` 240).
`MallocFails` is the one report without entering. `FirstAlone` says whether the
first compilation has created the semaphore before others start; it is TRUE in
the runs that pass and FALSE in `tcc_race`.

### ProgramCache

Lookup, compilation, store, and the begin and end of a run are separate steps.
The fragment is the documented `counter`. A program that neither the cache nor a
caller refers to is collected, and its handle is used again.

### LibraryModule

`DefineNif` is the compile-time part of `defnif`, `PreCompile` the load. In a
call, `CheckInitialized`, one `OnLoadStep` or `OnLoadError` per global of the
`on_load()` fragment, and `SetInitialized` are separate steps; a function is
copy-in (`Switch`) and copy-out (`Compute`) around a shared global, as in the
documented `mul`.

### RunMemory

A heap of pages and smaller units; `heap[a]` says whose byte is at `a`, `perm[g]`
how page `g` is protected. `Relocate` is the first half of `tcc_relocate()`: the
size pass of `tcc_relocate_ex` at address 0, `malloc` at any address the C library
may return, the placing pass. `CopySection` and `Protect` are the third pass,
section by section, because nothing excludes other threads: they allocate, free,
load and unload programs in between. `Unprotect` and `RunFree` are
`tcc_run_free()`. `Malloc` and `MallocFree` stand for everybody else in the
process. A section is its class (executable, read-only, writable), alignment and
length. The SELinux and Windows variants are left out. Alignments are powers of
two, because every place that takes one from a source refuses others
(`tccgen.c` 4421 and 5121, `tccasm.c` 511); the model says only what follows from
that, that of two alignments one divides the other. Every layout has a writable
section, since `tccelf_new` makes `.data` and `.bss` before anything is compiled;
without one the last page of a read-only program would be shared with the heap.

### Linker

`Tab` bundles what the functions of `tccelf.c` read and write; `Find`, `Put`,
`Rebuild` and `Set` are `find_elf_sym`, `put_elf_sym`, `rebuild_hash` and
`set_elf_sym` on it, with the hash table as the array of ints it is. Between
`BeginFile` and `EndFile` the parser adds symbols (`Define`, `Greloca`, `Weaken`)
without hashing; `EndFile` compacts them in place (`Merge`: an entry is read from
where it was while the table grows over it again) and renumbers the
relocations. `AddSymbol` is `tcc_add_symbol`. Then `ResolveCommonSyms` and
`Relocate` are the pass without memory (`tcc_add_linker_symbols`,
`build_got_entries`, `relocate_syms`, with `-nostdlib`), `RelocateSyms` the one with
memory. `AddLinkerSymbols` offers what the linker provides, in its order: `_etext`,
`_edata`, `_end`, the bounds of the three arrays of functions, and `__start_`/`__stop_`
symbols of each section the program names (`UserSections`; such a section exists once
something is in it). Each is a definition like any other, so a program that
defines `_edata` itself fails to relocate, and one that only refers to `_etext`
links. `_fp_hw` may stay undefined (line 938). `put_got_entry` cuts a name to 95
characters before it appends "@plt": `Plt` is given by the instance and two names
may share one. The ghosts `offered` and `statics` remember what was declared;
properties compare the result with them. Names are values with a given hash,
sections hold one unit per symbol; of size and type of a symbol only this is kept,
that those of a C symbol (`"c"`) differ from those of the linker's own (`"notype"`),
because `set_elf_sym` lets a symbol equal in all fields come again. Dynamic symbols,
debug sections and the string table are left out.

### ValueStack

The parser is reduced to the order in which it calls the generator for an
expression with parentheses: operands (`Constant`, `Variable`), operators of one
operand, and constructs that are opened and closed (`open` is the C stack of
`unary()`, `expr_infix()`, `expr_eq()` and `expr_cond()`). Each generator
function is an operator of its name from one generator value to the next. The
generator value also holds one run of the code it emits: registers, frame
and flags change as the emitted instruction would change them, unless the run
has jumped over it (`executed`). Each entry of the value stack carries what the
C source means by it (`means`: an object, or a value), each variable what was
assigned to it (`mem`), so that the properties are agreement of the two sides.
Values of a run are names: an operation yields a new one, and `SetGen` numbers
them again. A value is one word; floating point, structures, casts, `&&` and
`||`, constant conditions, pointer arithmetic, calls with several arguments and
algebraic simplifications (`x * 1`) are left out, and a conditional whose two
values are both flags is not taken.

## 3. What the runs check

| run | bounds | shows |
|---|---|---|
| `program` | 2 processes, 2 programs, 13 method lists of up to 2 methods: every bad shape alone and after a good method | `TypeOK`, `FaultsExplained`, `RunningAlive`, `ParamsReclaimed`, `StateReachable`, the refinement `LifetimeSpec`, and under fairness `CompileReturns` |
| `program_malformed` | same | violated: a refused item is freed twice |
| `call` | 2 calls, 2 addresses, 2 blocks per call; one method with results, decode methods of 1 and 2 inputs with 32 argument lists | `TypeOK`, `EnvOwnsBlocks`, `ResultsAreOwn`, `InputsDecoded`, `FaultsExplained` |
| `call_errortext` | same, two binary results | violated: the error text is read after it was freed |
| `tcc` | 3 threads, one of them with 2 compilations | `TypeOK`, `MutualExclusion`, `SemaphoreBalanced`, `ErrorsGoHome`, `NoForeignJump`, and under fairness `CompilationsReturn` |
| `tcc_race` | 2 threads, `FirstAlone` FALSE | violated: two threads in the parser |
| `cache` | 2 callers, 2 functions, counters up to 2, calls unbounded | `TypeOK`, `RunsOwnSource`, `SoloCallsCount`, `OneInstanceInTheEnd` |
| `cache_arity` | `f/1` and `f/2` | violated: a call runs the other function's program |
| `library` | 3 callers, 2 calls each, 2 functions, 2 globals | `TypeOK`, `LoadedBeforeUse`, `QuietCallsOwnResult` |
| `memory` | 2 programs, 1 other block, 8 pages of 4 units, 3 layouts: empty sections, alignment above a page, a section that comes late in its class | `TypeOK`, `SectionsFit`, `LoadedIntact`, `WritersDoNotFault` |
| `linker` | 2 files, 3 symbols, 2 relocations, 1 added symbol; a name of the program and one the linker provides (`_edata`) with one "@plt" name, and a section the program names; global, weak, hidden, common, static; half of the names in one bucket | `TypeOK`, `HashFinds`, `WinnerKept`, `MissingReported`, `ReferencesReach` |
| `vstack` | an `int` and a pointer, frame of 4 words (2 of them for saving), constructs 2 deep, expressions of any length; `<<`, `/`, `<` and the `+` of increments | `TypeOK`, `EntriesHold`, `VariablesKept`, `OperandsMeant` |

Why the bounds are enough to be interesting. The races need two actors; the
third thread in `tcc` and the third caller in `library`
let a bystander act while two race. Two programs let a freed list belong to the
wrong program, two methods put an error after a table already built, two
addresses force reuse of a freed block while the other call still writes. In
`program` `MaxMethods` is 2 and `MAX_ARGS` is abstracted to the shapes;
the theorems below hold for any number of methods. In `memory` the block between
two programs may start and end in a page they fill half; in `linker` the third
symbol makes the hash table grow and the chains are rebuilt, and the symbols the
linker provides make it grow again (the exemption of `_fp_hw` is in no run, but in the
theorem `MissingFound`); in `vstack` two constructs
with a compound assignment hold more values than there are registers, and two
slots for saving are enough to confuse one with the other. One operator of each
kind that `gen_opi()` treats differently is used: the shift wants `%rcx`, the
division `%rax` and destroys `%rdx`, the comparison leaves flags. `MaxAllocs`, `MaxCompiles`
and `MaxCalls` bound what a process does in a run, `MaxCount` saturates the
counters. Symmetry is used only in the runs `call` and `library`, which check
invariants.

Deadlock is not checked where the system really may stop: after a memory fault
or an `exit(1)`, when all processes have exited, when every thread has used up
its compilations, when a module is not loaded, or when a program is linked. It
is checked in the runs `cache`, `memory` and `vstack`.

Fairness. `NifProgram!FairSpec` assumes that a process inside `compile()` goes
on (a scheduler does not abandon a NIF; `compile()` calls nothing that waits for
other processes but the semaphore, see `TccState`); nothing is assumed of
`run()`, whose fragment may loop. `TccState!FairSpec` assumes that a thread goes
on and that the parser reaches the end of a source, which is finite; weak
fairness of `SemWait` is enough because each thread compiles a bounded number of
programs. No fairness is assumed of errors. `ProgramCache!FairSpec` assumes that
a call under way goes on and that the counter fragment returns.

## 4. Disagreements between code and documents

The first four are runs that end in a violation.

* An item refused by `scan_param()` leads to a double free (`program_malformed`).
* An error text in `$alloc` memory is copied after it was freed
  (`call_errortext`).
* libtcc's semaphore is created without exclusion (`tcc_race`).
* Functions of one name share a cache entry whatever their arity (`cache_arity`).
* A parameter list of more than 10 items is diagnosed and then accepted
  ("parameter list above maximum size", line 236); running the program reads
  through NULL. A failed allocation of the list takes the same way.
  `FaultsExplained` names both as the causes of a read through NULL.
* Racing first calls of a defnif function run separate instances of its static
  variables, although `niffler.ex` 110 promises "the same instance on each call";
  it settles afterwards (`OneInstanceInTheEnd`).
* `on_load()` may run more than once when first calls race, although `library.ex`
  139 says "on the first call to the module"; `LoadedBeforeUse` is about the other
  behaviours.

Also modelled, but contradicting no document: the `Method` array is never freed,
and the early return at line 292 leaves the lists built so far.
`ParamsReclaimed` states exactly what is reclaimed. Results arrive in reverse
order of declaration, which `ResultsAreOwn` states (`bench/nifflerlru.exs` still
expects the other order). `on_destroy()` is declared and documented but no code
ever compiles or calls it.
A program that defines a function of `symbols.def` itself is told nothing, although
the link step counts an error ("defined twice"), and one that defines `_edata` fails
to relocate with nothing missing; `ErrorsGoHome` and `MissingReported` name both.

## 5. What is proved

All theorems hold for every value of the constants that satisfies the assumptions
declared with them. In each proof module an invariant `IInv` is shown to hold
initially (`InitIInv`) and to be kept by every action (one lemma per action or
group of actions); `Invariance` is `Spec => []IInv`, and each property
follows from it. Every such `IInv` was checked by TLC on the bounds of section 3
first.

### The program resource (`NifProgram_proofs`)

For all finite sets of processes, all sets of handles and any method lists:

* `TypeCorrect`: `Spec => []TypeOK`. Not a formality here, since
  `refc \in [Handles -> Nat]` says that no reference is given up twice.
* `RunsOnlyLivePrograms`: `Spec => []RunningAlive`.
* `NoStateIsLost`: `Spec => []StateReachable`.
* `FaultsHaveTwoCauses`: `Spec => []FaultsExplained`. The emulator dies in
  `compile()` only of a list that `scan_param()` refused, and in `run()` only of
  an oversize or unallocated table; no use after free is reachable.
* `ListsReclaimed`: `Spec => []ParamsReclaimed`.
* `LifetimeKept`: `Spec => LifetimeSpec`, the refinement of `ProgramLifetime`.

None of these is inductive. `IInv` adds:

* `RefsInv`: what a process can name is on its off-heap list, only finished
  programs can be named, and the count of a resource is the number of processes
  that list it. Without the exact count, nothing says that the collection of one
  process leaves another's program alone.
* `StatesInv`: a `TCCState` exists exactly while its resource does and is listed.
* `StagesInv`: a runner still names its program; a builder has it to itself.
* `TablesInv`: pointers in a published or half-scanned table are to allocated
  lists, so that the destructor frees nothing twice.

For the causes of memory errors, `FInv` is proved on top of `IInv`: a table with a
length and no array comes from an item of an oversize or unallocated shape
(`TablesExplained`), outputs are scanned only of pairs, and `run()` enters an
existing method. `TablesInv` then rules out every other double free and every use
after free. For what is reclaimed, `PInv` is: an allocated list is in the table of
its handle, and the scan has not gone past it (`Listed`, `InOrder`). The
refinement maps status, names and runners of a program to the phase, holders
and runners of `ProgramLifetime`, and shows for each action which abstract step
it is, or that it is none.

The hardest step is `ReleaseStep`: a collection destroys exactly the programs
whose count is one, and with the count equal to the number of listing processes
nobody else lists them. The assumptions: finitely many processes, `NoHandle` is
no handle, at least one method, method lists of at most `MaxMethods` elements.

### One call (`NifRun_proofs`)

For any number of calls, any heap addresses, methods, argument lists and
fragments: `BlocksHaveOneOwner` (`EnvOwnsBlocks`), `CallsReturnTheirOwn`
(`ResultsAreOwn`), `FragmentsGetTheirInputs` (`InputsDecoded`), `FaultsHaveThreeCauses`
(`FaultsExplained`: an error text in a block that is freed before it is read, a result
without a size in an input binary, one in a static buffer without a 0 byte),
`TypeCorrect`. The properties are one induction: what a call
reads while it encodes depends on who owns the block. `IInv` says per call that
its `Env` list holds just its blocks, once each (`EnvInv`); the inputs before `i`
are decoded and accepted (`InputInv`); outputs point to blocks it holds and wrote
last (`OutputInv`); the results before `i` are consed in reverse (`RetInv`); and
that every block held ends in a 0 byte (`BlocksEnd`), which is why only inputs and
static buffers can be read past their end.

### libtcc's state (`TccState_proofs`)

For any number of threads and compilations, under the hypothesis `FirstAlone`:
`OneThreadAtATime` (`MutualExclusion`), `SemaphoreNeverLost` (`SemaphoreBalanced`),
`ErrorsReachTheirOwner` (`ErrorsGoHome`), `JumpsStayHome` (`NoForeignJump`),
`TypeCorrect`. The hypothesis is needed: `tcc_race` shows that all this fails when
two first compilations meet. `Booting` says that one thread creates the
semaphore, `Guarded` that it then is free exactly when nobody is inside,
`OwnGlobals` that from `SetState` to `Clear` the globals and the handler belong to
the one inside. `Counted` relates the error counter of a state with whether its
own thread erred at every point of a call, which `ErrorsGoHome` says only of
its end. The code keeps one exception, which the property names: the "defined twice"
of a program that shares a symbol with `symbols.def` is printed, but does not fail the
compilation. Every other error of a program's own reaches it, and none of others does.

### The defnif cache (`ProgramCache_proofs`)

For any callers, functions and programs, with reclaimed handles used again:
`RunsOwnName` (a call runs a program compiled from a function of its name),
and, under `UniqueNames` (no two functions of a module differ in arity alone;
`cache_arity` shows that it is needed), `RunsOwnFunction` (`RunsOwnSource`) and
`CountsAreKept` (`SoloCallsCount`). `CachedNames` and `HeldNames` relate cache and
callers to the sources of programs; a handle is used again only if neither
refers to it. While no calls have overlapped, `Counted` says that the counter of
each cached program is the number of calls that returned.

### Library modules (`LibraryModule_proofs`)

For any list of distinct functions, any number of globals and callers:
`OnLoadComesFirst` (`LoadedBeforeUse`), `CallsGetTheirFunction`
(`QuietCallsOwnResult`). `Collected` says that the attribute lists the functions
in order with the index each was compiled with, before, during and after the
load; `Loading` that, until two `on_load()` fragments race, the globals before the
current step are assigned and the flag follows the last; `Quiet` that calls in
the program together know of it, and others find their input where they put it.

### Program memory (`RunMemory_proofs`)

For any sections with alignments as in section 2, any page size, heap, and
number of programs and other blocks: `EverySectionFits` (`SectionsFit`),
`LoadedStaysIntact` (`LoadedIntact`), `ProtectionStaysHome` (`WritersDoNotFault`).

Three arguments carry it. The size: placing at address `mem` costs at most the
largest alignment minus one more than at 0 (`Allowance`), since aligning to
divisors of one another commutes with moving by a multiple of the largest; this is
the assumption on alignments. The order: the passes visit sections class by class
(`ByClassOrders`), so sections follow each other (`SectionsInOrder`) and the first
section of a class starts a page (`PageOfClass`). The pages: a page that is not
writable lies wholly in the block of one loaded program, in front of all that is
still to be copied (`Guarded`); the writable class comes last, so the page a
program shares with its successor is never protected.

Layouts are computed by recursion. `Recursion` makes that provable: the
library's induction theorems take an operator, which the provers cannot
instantiate, but `WFMin` does not; from it follow the least natural number
(`LeastNatural`), induction for a set, and that a function defined from its value
before exists (`RecursiveFunction`). So the lemmas `OfClassLoop` and `LayoutLoop`
hold for section lists of any length.

### The in-memory linker (`Linker_proofs`)

For any names, hash function, declarations, number of files and symbols:

* `SymbolsFound`: `Spec => []HashFinds`. Looking up a name gives its latest entry,
  and there is no other unless it is the name of PLT entries.
* `DefinitionsKept`: `Spec => []WinnerKept`. The table holds the definition that
  counts, and double definitions are what is counted as errors.
* `MissingFound`: `Spec => []MissingReported`, if `GotName \notin Names`. Relocation fails
  exactly when a name is missing or one the linker provides is taken.
* `ReferencesFollowed`: `Spec => []ReferencesReach`, if `GotName \notin Names`. What
  the program jumps to or reads at a reference is what its source meant.
* `TypeCorrect`: `Spec => []TypeOK`.

The assumptions are those of `Linker`: `Hash` is a function of names to numbers, no
C name ends in "@plt" (`PltAssumption`; two names may have one "@plt" name), statics
are not common symbols, the names the linker provides are among the names
(`NamesAssumption`), and sections the program names are none of the linker's own
(`UserSectionsAssumption`). The hypothesis of `MissingFound` is needed: for a program
that itself refers to `_GLOBAL_OFFSET_TABLE_`, relocation defines that symbol, so
the name is missing nowhere although nothing the program offered defines it.
`ReferencesFollowed` has it for the same reason: such a reference reaches the GOT.

The lemmas are about operators on a table, not about actions, because
`put_elf_sym()` runs inside merges, GOT passes and definitions alike.
`Good(t)` is the conjunction every operation keeps: the links of each chain and
bucket lead to the latest earlier entry of the same bucket (`Chained`, with
`Link` for one link), a name of `Names` and `GotName` has one global or weak
entry (`Once`), and what is static is defined (`StaticsDefined`, so that the merge
offers the rest).
`FindFacts` walks a chain: what `find_elf_sym()` returns is the latest entry with
that name, or there is none. `RebuildFacts` builds the chains of a bigger table by
recursion over the entries; `PutKeeps` adds one entry and, past the limit,
rebuilds; `SetFacts` is `set_elf_sym()` case by case. Two loops are inductions of
their own: the merge in place (`MergeFacts`: behind the entry being read the table
is as the file left it, before it is `Good`), and the two passes for the GOT
(`BuildGotEntriesFacts`: `GotOK` says among others that the entries of before keep
their names and that attributes, slots and relocations lead into the table; several
entries of one "@plt" name do no harm, since nothing looks them up).

The inductive invariant `IInv` is `TablesOK /\ OffersOK`. `TablesOK` says that the
table is `Good` (while a file is parsed: the part before the file is, with the chains
of that time), that handles and relocations of the file point behind that part and
earlier ones into it, and that no "@plt" entry and no GOT exist before the program is
relocated. `OffersOK` says that nothing offered before that has the form of a symbol
the linker provides, and that the symbols of a file have the type of C symbols. So
`Provided` tells the linker's definitions from the program's.

`WinnerKept` and `MissingReported` compare the table with `offered`, the history of
all symbols that were ever given to `set_elf_sym()`, and their rules speak of that
whole sequence (first global, last reference, a conflict of any two). `AsOffered` is
the second inductive invariant, checked by TLC like the first and proved on top of
it. It says of the table what `Agrees(t, o)` says of a table and a sequence:

* `Knows`: a name that was offered has an entry, and an entry is defined exactly if
  a definition was offered; undefined, it has the binding last offered (`KnownAs`).
* `Counts`: the entry of a defined name has the binding, the place, the value and
  the visibility that the rules give it (`CountsAs`). Visibility is in no property,
  but decides which later definition is taken or is an error.
* `Counted`: errors are counted exactly if some name has a conflict.

While a file is parsed this holds of the part before the file, with the symbols
offered before it; after `resolve_common_syms()` only `Knows` is left, since places
and values have changed. `SetKnows` and `SetAgrees` are the step for one symbol, the
cases of `set_elf_sym()` against the rules for one more element of the sequence. The
invariant of the merge loop, `MergeOK`, carries `Agrees` along with the part of the
file already merged; that of the GOT passes carries `Own` (the old entries stay, the
new ones are defined), which is where `GotName \notin Names` comes in.

`ReferencesReach` speaks of the linked program only, but what a relocation is for is
known only when the parser emits it. `Referring`, the third inductive invariant,
carries that through all stages; TLC checks it on the instance of `MCLinker`:

* `Stands(statics, s, for)`: symbol `s` has the name the source wrote. If it is
  global or weak, the file of the reference has no defined static of that name; if
  it is local, it is that static, with its section and place. While a file is
  parsed, its relocations point where its handles do (`OfFile`), and a handle leads
  to an entry of its own name and linkage (`HandleKept`), also through later
  declarations that change the entry; earlier relocations stand for their symbol.
* The merge renumbers. `Traced`, in the invariant of its loop, says where each entry
  went, and `Keeps` what an entry may become there: a local one nothing else, a
  global one the one entry of its name. A static that was only declared is offered
  as a global (`Offer`), so a reference to it comes to stand for the global.
* `Settled`: once common symbols have their place, the entry of a name has what the
  definition that counts says, or lies in .bss if that one was common. The symbols
  the linker provides keep this (`LinkerFacts`, by induction over `LinkerSyms` with
  `LinkerOK` as its invariant): `ProvidedSettles` compares one `set_elf_sym()` with
  the rules for one more definition, which may count, yield, or clash.
* `LinkerOK` also relates the counter of errors, 0 since common symbols were resolved,
  to `Taken`: `TakenMore` says that one more provided symbol makes a name taken exactly
  if it is a definition too many (`Twice`). `MissingFound` rests on this together
  with `Settled`, and so on `Referring`.
* `Led`: after the GOT passes there is such a symbol for each relocation, and the
  relocation goes to it (`Goes`) directly, with a GOT slot if it needs one, or by the
  PLT symbol whose slot names it. The loop carries `Routed`: slots given out lead to
  the symbol of their attributes (`Slots`), and what a step changes is one
  relocation, which goes where it went before.
* `Clean`: no symbol of the program is in the PLT, and an undefined one has value 0,
  so that a weak reference to nothing reaches 0.

`relocate_syms()` with memory adds addresses once; from `Led`, `ReachesItsSymbol`
follows the relocation and `SymbolIsMeant` compares the symbol with the source.

## 6. Model-checked only, and not modelled

Only model-checked: all of `ValueStack`, and all liveness (`CompileReturns`,
`CompilationsReturn`, `OneInstanceInTheEnd`), which is out of the provers' reach. One
step of `ValueStack` is a composition of up to a dozen operators that each change
the value stack, the registers and the code together (`gv2()`, `save_regs()`,
`gfunc_call()`), with folds over sets of registers in between; the provers cannot
see through a fold over an operator argument, and the operators would have to be
written otherwise to be reasoned about.

Not modelled:

* most of what TinyCC computes: preprocessing, types, declarations, initializers,
  statements, floating point, structures, inline assembly, debug information,
  other processors and file formats. They are sequential, and a model of them
  would be another compiler. `Linker` and `ValueStack` take the two parts in
  which state is moved, compacted and used again.
* string templates and the standard library header: no state.
* reloading a module or upgrading the application: what an `on_load` function
  sees exported, and which NIF library owns a resource type, are decided by the
  code server and the runtime. `LibraryModule` has one load.
* fragments that break the documented rules (writing outside their memory).
* `gen!/4`, which nothing calls; Windows and macOS variants of the semaphore.

## 7. Plan

Order of work, the most important behaviour first:

1. done: `NifProgram` with its abstract specification and proofs, `NifRun`,
   `TccState`, `ProgramCache`, `LibraryModule`.
2. done: `RunMemory`, `Linker`, `ValueStack`.
3. next, if more is modelled: the scopes of C symbols (`sym_push`, `sym_pop`),
   jumps and their chains (`gsym`, `&&`, `||`, loops), the item-by-item
   `scan_param`; the composition of `NifProgram` with `TccState` (a build step is
   an entry to libtcc; failed builds and other programs' errors).
4. done: proofs about `NifProgram` (with the refinement), `NifRun`, `TccState`,
   `ProgramCache`, `LibraryModule`, `RunMemory`, `Linker`: every safety invariant
   and action property that a passing run of these checks.
5. open: `ValueStack` (`EntriesHold` from the save of a register on, with recursive
   functions in place of the folds).
