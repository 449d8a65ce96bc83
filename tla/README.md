# A verification project for ulua_runtime

The repository builds the native Lua runtime of a family of Unity games: LuaJIT
2.1 or, for the MAC, iOS and WinPhone hosts, plain Lua 5.1.4, with the tolua
bridge and a set of Lua C libraries, and a converter that rewrites LuaJIT
bytecode compiled for one-slot call frames (FR1) into bytecode for two-slot
frames (FR2). This directory holds TLA+ modules for the parts of it that keep
state across calls and are hard to test, the TLC configurations that check
them, and TLAPS proofs.

    tlc -workers 2 -config MCBcShift.cfg MCBcShift     # any configuration below
    tlapm BcShift_proofs.tla
    tlapm BcInsert_proofs.tla
    tlapm SockBuffer_proofs.tla
    tlapm LuaCallStacks.tla
    tlapm LuaCalls_proofs.tla
    tlapm LuaGC_proofs.tla
    tlapm LuaTable_proofs.tla
    tlapm SprotoPack_proofs.tla

Paths below are relative to the repository. `FR` stands for
`tolua_fr1_to_fr2_shared.inc` and `luavm/` for `win_build_src/luavm/src/`, `sock/` for
`win_build_src/luasocket/src/`.

## 1. Inventory

| Component | State it keeps | Operations | Hard about it | Right when |
|---|---|---|---|---|
| **Bytecode converter, register shift** (`FR` 418-502, 11942-12119, 15195-15527, 15859-15882) | the instruction buffer, rewritten in place; the shift map; the frame-size byte | collect holes, validate, rewrite, fix the frame size | ranges of operands checked opcode by opcode; validation of instruction n sees 1..n-1 already shifted; holes collected twice | the FR2 interpreter computes from the result what the FR1 interpreter computes from the source |
| **Converter, driver and insertion** (`FR` 195-293, 848-1178, 15529-15940) | header and prototypes of the chunk; the retry index; the *static* pending insertion | convert, prepare (remap opcodes), patch, schedule copies, rebuild, retry | a prototype is rebuilt many times, and its state "already prepared" must survive; a static variable survives a failed conversion | jumps lead where they led, no opcode is mapped twice, no request reaches another prototype |
| **Converter, version 1 repair** (`FR` 5008-11410, 12121-15102) | none of its own | pattern matchers over one compiler's output | size | its choices are arbitrary in BcInsert |
| **Lua 5.1 collector** (`luavm/lgc.c`, `lgc.h`, upvalues of `lfunc.c`, string table of `lstring.c`) | colours, current white, gray / grayagain / weak lists, sweep position, tmudata, FINALIZEDBIT | markroot, propagatemark, atomic, sweeps, GCTM, fullgc, write barriers | the program runs between any two steps, finalizers run inside it and bring objects back | nothing in use is freed, garbage is freed, a finalizer is called once |
| **Lua 5.1 tables, strings** (`luavm/ltable.c`, `lstring.c`) | array and node parts with Brent's collision chains; string table | get, set, rehash, resize, next, length | keys cleared and made dead during a traversal, sizes at every power of two, chains through reused nodes | behaves as a map; `next` visits every key once; the length is a border |
| **Lua 5.1 calls, errors, coroutines** (`luavm/ldo.c`, parts of `lapi.c`, `lvm.c`, `ldebug.c`, `lbaselib.c`, `lparser.c`) | per thread: CallInfos, status, C-call depth, error jump, error handler, permission to hook; the C stack | call, pcall, load, hook, finalizer, error, resume, yield, return | an error is a long jump over any number of C activations, a yield returns through them; both skip what these would have undone | whatever was skipped is put right; the C stack is bounded; coroutines behave as the library says |
| **Lua 5.1 API, interpreter** (`luavm/lapi.c`, `lvm.c`) | the stack | every store of a reference | each store needs the right barrier | see the collector |
| **Lua 5.1 parser, code generator, libraries** | none across calls | | | |
| **LuaJIT** (`win_build_src/luajit`) | vendored | only its frame layout matters to the converter | | |
| **tolua bridge** (`win_build_src/lua_wrap.c`, `mac_build_src/lua_wrap.c`) | a weak userdata cache by object number; index and newindex fallback chains | pushudata, pushnewudata, index, newindex | numbers reused by the host's object translator; metatable chains that do not end | a number leads to the object that has it now |
| **sproto** (`sproto.c`, `lsproto.c`) | none across calls; within one: the run of literal groups, sizes used and needed | zero-packing, encode, decode | heads of runs patched backwards; full buffers; the last group is filled up | unpack(pack(x)) = x, no byte outside the buffers |
| **luasocket** (`sock/buffer.c`, `timeout.c`, `usocket.c`, `select.c`, `tcp.c`) | receive buffer, block and total limits | send, receive by size, line or all, settimeout, select, close | a timeout returns a partial result and the next call goes on from there; signals interrupt waits; the buffer hides bytes from select | no byte lost or given twice; calls return |
| **pbc, pb; lpeg; cjson; sqlite** | vendored, or stateless primitives | | growth of cjson's strbuf, sqlite statements' life cycle | |
| **meta_patcher, build files** | none | pure I/O | | |

How they interact. The host calls the converter with a chunk and hands the
result to LuaJIT's loader; the converter calls nothing else. The Lua machine
calls the collector at allocation points (`luaC_checkGC`), the collector calls
Lua finalizers (`__gc`, among them tolua's, which release the host's objects),
which run the interpreter and so may store, revive and allocate; the
interpreter and the API call back with write barriers. The collector also clears
weak tables and makes the keys of empty table entries dead, which `next` must
still find. The tolua cache is a weak-value table: its entries disappear in the
collector's atomic step. A socket's calls run in the one thread of the Lua
machine; only the kernel and the peer move while one of them waits.

The hazards found in the survey are listed, line by line, under `hazards` in
`PROJECT.json`, each with the properties that would catch it or the reason
that no property does.

## 2. Plan

Written, in this order:

1. `BcShift`, `BcShift_proofs` - the register shift, and the execution of its result.
2. `BcInsert`, `BcInsert_proofs` - the driver: retries, the pending request, jumps.
3. `LuaGC`, `LuaGC_proofs` - the collector and the program it runs against.
4. `SockBuffer`, `ByteStream`, `SockBuffer_proofs` - a socket object, shown to
   implement a byte stream.
5. `LuaTable`, `LuaMap`, `LuaTable_proofs` - one table, shown to implement a map with
   traversals.
6. `SprotoPack`, `SprotoPack_proofs` - zero-packing, into a buffer and back.
7. `LuaCalls`, `Coroutines`, `LuaCallStacks`, `LuaCalls_proofs` - the C stack over calls, errors
   and coroutines, shown to implement coroutines.

To do:

8. `ToluaCache` - the weak userdata cache against the weak tables of `LuaGC`,
    once the host's object translator, which is not in this repository, is known.

## 3. Modules and the code

### BcShift

One prototype goes through the generic path of the converter, one action per
turn of a loop of the code:

| Action | Code |
|---|---|
| `CollectHoles`, `RefuseOpenResults` | `tolua_collect_proto_holes`: every base of CALL, CALLT, ITERC gets a hole above it; CALLM, CALLMT, RETM are refused |
| `RewriteIns`, `RefuseIns` | one iteration of `tolua_patch_proto_bytecode`: `tolua_validate_proto_ins` (`Valid`) and `tolua_rewrite_proto_ins` (`Fits`, `Shifted`) |
| `FixFramesize`, `RefuseFramesize` | the end of the prototype in `tolua_convert_bytecode_inplace`, with the holes collected again from the shifted code |
| `Enter`, `Execute` | both interpreters run the prototype, instruction by instruction, with the slots the handlers of `vm_x64.dasc` read and write (`Reads`, `Writes`, not the converter's own tables of them, `FR` 591-674, which its repack heuristics use); a value is "parameter k", "nil" or "result k of instruction n", `Junk` where a call may have written anything |

The buffer is mutated in place as in the code: `Accepts` for instruction `pc`
sees the shifted instructions before it, and TSETM is validated after its
operand has been shifted (`ShiftedForCheck`).

Left out: the repack heuristics that run before (they are the reason for
`BcInsert`), branches (a shift does not move instructions), opcodes whose only
operands are single registers and behave as MOV, USETV, TGETV or TSETV do, and
ITERN and ISNEXT, which the preparation has turned into ITERC and JMP.

`InPlace` names the shapes for which the validator makes no promise: it never
looks below A (ITERC's generator at A-3..A-1, ITERL's and TSETM's A-1), and
results from the second on (section 6). The invariants are about the other
shapes.

### BcInsert

The driver over the prototypes of a chunk, for several conversions in a row.
`Begin*` is `tolua_convertbytecodeex` with the header checks (a chunk that is
FR2 already is returned, or refused, without touching anything else; only the
generic path clears the pending request). `PatchProto`, `ScheduleCopies` and
`PatchFails` are the outcomes of patching one prototype: success, a request
for copies, an error. Each includes the preparation (`Prepared`) unless the
prototype is being retried. `Rebuild` is `tolua_rebuild_chunk_with_insert_copy`
with the driver's bookkeeping; `RebuildRefused` its refusal to insert at a
jump target, after which the request *stays* active. `Finish` writes the header.

Which copies are asked for, and when patching fails, is any choice the
heuristics could make. Instructions carry their number in the compiled
prototype, so that the properties can compare old and new code; opcodes carry
the numbering they are in ("v1", "v2", "bad" when mapped twice).

### LuaGC

Cells of six kinds, coloured "free", one of two whites, gray or black. One
action per state of `singlestep`:

| Action | Code (`luavm/lgc.c`) |
|---|---|
| `MarkRoot` | `markroot` |
| `Propagate(o)` | `propagatemark`, with `traversetable`, `traverseclosure`, `traversestack` |
| `Atomic` | `atomic` as one step: `remarkupvals`, the three propagations, `luaC_separateudata`, `marktmu`, `cleartable`, the flip of the white |
| `SweepStrings(bucket)` | `GCSsweepstring` |
| `SweepObject(o)` | `GCSsweep`; one object a step, where the code takes up to 40, which allows more interleavings than the code has |
| `Finalize(u)` | `GCTM` up to the call of the finalizer; the program goes on inside it, and `FinalizerReturns` ends it |
| `EndCycle` | the end of `GCSfinalize` |
| `FullGC` | `luaC_fullgc`: forgets a marking, then `drain` keeps the program out until the sweep is over and `MarkRoot` has run; after that the collector and the program interleave freely, which includes the code's running to the end of the cycle |

and one per kind of store or load of the program, with the barrier the code
calls: `TableSet` (`luaV_settable`, `luaC_barriert`), `SetEnv`
(`lua_setfenv`), `SetUpval` (`OP_SETUPVAL`), `SetBaseMt` (no barrier),
`NewClosure`, `ShareUpval` (`OP_CLOSURE` with `luaF_findupval`), `CloseUpvals`
(`luaF_close`, `luaC_linkupval`), `Intern` (`luaS_newlstr`, which revives a dead
string), `Create`, `Move`, `TableGet`, `GetEnv`, `GetBaseMt`, `GetUpval`,
`Resume`, `Yield`.

Abstractions. A table has one hash entry (weak entries and dead keys are about
one entry; chains are in `LuaTable`). Metatables are immortal, what matters
of them is an attribute: `mode` of a table, `hasgc` of a userdata. The order of
the lists is left free: `Propagate` takes any gray object, `SweepObject` any
object not swept yet, `Finalize` any pending userdata; `tosweep` is the part of
the root list the sweep has not reached, so an object linked during the sweep
is not swept. Debts and thresholds only decide when a step happens, so a step
may happen at any time. `Reached` is the least closed set, computed over
subsets of the cells.

Not modelled: prototypes and their constants, the global table and the registry
(a table on the stack plays their part), errors in finalizers (`LuaCalls` has
what they leave of the C stack), `lua_close`
(`luaC_freeall`), C closures, the environments of closures and threads (a
userdata's has the same barrier), the shrinking of stacks in `traversestack`.

A nested full collection in a finalizer can begin while userdata of an
older cycle are pending and black. `TriColour` therefore excepts pending
userdata, which `marktmu` marks afresh, and `FinalizeOnlyGarbage` the paths
through them.

### SockBuffer and ByteStream

A connected client object and everything around it: the program makes one call
at a time, and between the system calls of a call the peer writes and ends, the
kernel drains, signals arrive and time passes. The bytes of both directions are
named by their place in the stream, so that a lost, repeated or swapped byte
shows; `Kind` says which bytes of the peer are CR, LF or other.

| Action | Code |
|---|---|
| `Receive(pattern, n, again)` | `buffer_meth_receive` up to the first turn; `again` gives the partial text of the last, broken answer as prefix. What is wanted is n minus the prefix as a `size_t` (`% Word`) |
| `TurnFromBuffer`, `TurnFromKernel`, `TurnOnError`, `TurnOnTimeout` | one turn of the loop of `recvraw`, `recvall` or `recvline` after `buffer_get` answered from the buffer, from `recv`, with an error, with a timeout |
| `RecvWait`, `SendWait`, `WaitDone`, `Interrupted` | `socket_recv` and `socket_send` when they would block: `socket_waitfd`, its select, and EINTR |
| `Send`, `SendSome`, `SendFails` | `buffer_meth_send` with indices from either end, one step of `sendraw`, its failure |
| `SetTimeout`, `Select`, `SelectAnswers`, `Close` | `timeout_meth_settimeout`; `global_select` with `check_dirty` on one object; `meth_close` |
| `Write`, `Finish`, `Drain`, `Tick` | the peer, the kernel and the clock (external) |

Details of the code that the model keeps because answers depend on them: a
block limit alone is counted from the beginning of the call, and with both
limits set it starts again at every signal, within the total one; `'*a'` answers
success at the end of the connection only when this call has received something;
a reset is told to whichever of recv and send meets it first and is a plain end
afterwards ("broken"); and `select` passes over a closed object, which has no
descriptor any more: whatever its buffer holds, and receive would still give, it
answers "timeout", or, without a limit, never. `SelectHonest` and `CallsReturn`
are therefore about the buffer of an open object.

`ByteStream` is what a reader of the object relies on: an answer is the text the
pattern selects from the bytes between two places of the stream, whole if it says
so. The refinement (`AnswersTheStream`) reads `pos` as `received` between calls
and as `received` at the beginning of the call while one runs.

Not modelled: connecting, accepting, datagrams, options, name resolution, the
Lua files of the library, `setstats`, and several objects in one select.

### LuaTable and LuaMap

One table as `ltable.c` has it: an array part and a node vector with Brent's
variation. `Set` is `luaV_settable` on a table without metatable, whole: `Put`
(`luaH_set`, `newkey`), and where no node is free `Rehash`, which counts the keys
(`Nums`), computes the sizes (`NewArraySize`), moves everything (`Moved`, in the
order of `resize`) and puts the key in again. `ResizeArray` is the constructor,
`Collect` what the collector does to the keys of empty entries, `Begin`, `Visit`,
`Finish` a traversal with `next`, during which, as the manual demands, only
existing fields are assigned. `GetN` is the length operator, called in every
state by `LengthIsBorder`. `ArrayFits` is about every key that might be inserted
next; it accepts both rules for a size that is exactly half used (section 6).

`Hash` is a constant, so collisions of every shape are chosen by the instance.
`LuaMap` is the map: the refinement reads it with `luaH_get` (`Get`), key by key,
and demands that a traversal answers every key that keeps its value, once.

Not modelled: float keys, metamethods, failing allocations in the middle of a
resize (the array part has grown and the nodes still hold its keys), and sizes
at the limits of an int.

### SprotoPack

`PackGroup` and `PackEnd` are one turn of `sproto_pack` and its end, in a buffer
of the size `lpack` computes; `UnpackRun`, `UnpackGroup` one turn of
`sproto_unpack`; `UnpackEnd` `lunpack`'s second call with a larger buffer. The
head of a run of literal groups is written when the run ends, over what was
stored in the meantime, and not at all when the buffer is full, as in the code;
the last group is filled up from behind the source (`junk`). The input check of
`sproto_unpack` comes after the byte was read (`srcsz < 0`): the byte that Lua
keeps behind a string is what it reads.

Not modelled: input that `sproto_pack` did not write, so none that ends inside a
group, and answers beyond `ENCODE_MAXSIZE`, for which `expand_buffer` raises
"object is too large".

### LuaCalls and Coroutines

The C stack is part of the state: `cstack` holds the activations of
`luaV_execute`, C functions, `luaD_call`, `luaD_pcall`, parsers, `lua_resume`,
error handlers, hooks and finalizers of all threads; `mode` says whether the
deepest one goes on, returns, calls the error handler or throws; `th` holds the
fields of every `lua_State`.

| Action | Code |
|---|---|
| `CallByOp`, `Call`, `PCall`, `Load` | OP_CALL, which runs a Lua function in the same `luaV_execute`; `lua_call` and metamethods over `luaD_call`; `lua_pcall`, `luaD_protectedparser` over `luaD_pcall` |
| `EnterLevel`, `LeaveLevel`, `Parsed` | the parser's own count of the C stack |
| `Hook`, `Finalizer` | `luaD_callhook`, `GCTM` |
| `ReturnLua`, `ReturnC`, `CallReturns`, `PCallReturns`, `HookReturns`, `FinalizerReturns`, `HandlerReturns` | what each activation does when what it called comes back |
| `Raise`, `ThrowAtOnce`, `ErrorMsg` | `luaG_runerror` and `luaG_errormsg`; errors without a handler (memory, syntax); the call of the handler, which may fail itself |
| `Catch`, `CoroutineFails`, `Panic` | `luaD_throw` to `luaD_pcall`, to `lua_resume`, or to nobody |
| `Create`, `Start`, `NotCallable`, `Continue`, `ResumeTooDeep`, `Yield`, `YieldRefused`, `ResumeReturns`, `TooManyResults` | `luaB_cocreate`, `auxresume` with `lua_resume`, `lua_yield`; `NotCallable` is `tryfuncTM` failing on what is to be started, `TooManyResults` `auxresume` without room for what came back |

`Coroutines` is what the library's user relies on: a chain of threads that
resumed one another, and a state for every coroutine. The refinement
(`IsCoroutines`) reads the chain off the `lua_resume` activations of the C stack,
and the states from `costatus` as asked by the running thread.

A coroutine that returns more than the stack of its resumer can take (those in
`Overfull` may) keeps it, and the resume fails. `costatus` takes the coroutine for
one that is still to start, so `Coroutines` lets it be left suspended, not dead,
and the next resume calls what lies below the arguments: `entry` says whether
that is the function the coroutine was created with or such a result, which may
be a Lua function, a C function or nothing that can be called. `calls_results`
holds this against the library's own description (section 6). A C function that
is entered this way and yields leaves a coroutine with one CallInfo; resuming
it breaks the assertions of `luavm/ldo.c` 395-396 and would run the base CallInfo
as Lua code. What follows is undefined, and `Continue` has no such step.

Not modelled: arguments to resume that do not fit (`luaL_error` before anything
is changed), yields inside hooks (only C hosts can), tail calls between Lua
functions, `lua_resume` without `auxresume`'s check of the status, hooks on C
functions, the shrinking of the CallInfos by the collector, what a dead
coroutine's stack holds for tracebacks, and kinds of errors. Upvalues closed at
a catch are in `LuaGC`.

## 4. Runs

| Run | Bounds | What it shows |
|---|---|---|
| `shift` | 6 registers, frames of 4 and 5 slots, 1 parameter, every prototype of up to 3 instructions of a menu of all opcode classes, 2 on the larger frame | operands land on the images of their slots; the frame slot of a call is nobody's; both interpreters compute the same |
| `shift_frame` (violation) | 2 instructions | `FrameCovers`: the frame size can miss the last register |
| `insert` | 3 chunks in each version (a forward and a backward jump, a paired and an unpaired pairs loop), 2 conversions, 3 insertions of up to 2 copies | jumps, order, the numbering of opcodes, the pending request |
| `gc` | a table whose `__mode` is none, `k` or `v` and changes at any time, a userdata and a string as keys and as values, two slots (`kv` clears by both conditions at once, each of which occurs here; it is left to larger runs) | marking, both barriers, weak entries, dead keys, revived strings, finalizers that store, revive and drop |
| `gc_upvals` | two threads, a closure, two upvalues, full collections | open, found, shared, closed and swept upvalues; dying threads |
| `gc_live` | a table, a userdata, a basic metatable | `EventuallyFreed`, `EventuallyFinalized` |
| `sock` | a stream of CR, LF and a letter, a string of 2 bytes to send, a buffer of 2, room for 1 in the kernel, block limits none and 0, total limits none and 1 tick | no byte lost or repeated, waits within their limits, timeouts and select told the truth, the byte stream, `CallsReturn` |
| `table` | number keys 1, 2, 3, a string and an object, hashes that collide in every size, each part asked for with 0 or 2 places | chains, sizes, `next`, the border, the map |
| `sproto` | up to 4 groups with 0, 5, 6, 7 or 8 bytes that are not 0, the last one of 1, 6 or 8 bytes, runs of up to 3 groups, output buffers that are too small and large enough | what is packed is unpacked, inside the buffers |
| `sproto_size` (violation) | up to 3 groups, runs of up to 256 | `PackFits`: the size `lpack` allows is too small |
| `calls` | the main thread and two coroutines, a C stack of 4 and room for 1 in error handling, 3 CallInfos, one error handler, one coroutine that may return or yield too much (`Overfull`), 2 saved states at once (`MaxSaved`), calls from C nested 1, 2 and 0 deep in the three threads (`MaxDeep`) | what errors and yields skip is put right, the C stack is bounded, coroutines |
| `calls_results` (violation) | the same | `InitialState`: a coroutine that has finished can be suspended, and resumed, again |

Why the bounds are enough. A register shift goes wrong within one
instruction (its operands on both sides of a hole), between a hole and another
instruction, or between a producer and its consumer: three instructions hold a
producer, a consumer and a third party, and four slots put holes below, at,
inside and above a range. Insertions act on one prototype at a time; three
rebuilds give a jump from before, inside and behind the copies and let a later
batch split an earlier one, two conversions are needed for a request or an
opcode numbering to leak from one to the next. A collector invariant fails at
an edge between two cells, or on a short path: the instances have a table, a
userdata, a thread, a closure and an upvalue each at the start of an edge, and
`gc` has the table, the userdata and the string in weak and strong entries of one
another under the same interleavings. With two userdata and no weak modes its
properties hold too; the theorems cover any number.

A receive goes wrong where a line, a block or a prefix meets a
boundary: of the buffer (2 bytes, so that a stream of 3 takes two fillings),
of a system call (any number of bytes at a time), of a limit (0, 1 tick, none), or
of the stream (closed, reset, closed by the program); the theorems of section 5
cover every other size. A table of five keys goes through sizes 0, 1, 2 and 4 of
both parts, which is a chain with a reused node, a moved node and a rehash in any
order; an instance with a fourth number key (144,784 states) passes too. A run
of literals can end in four ways, by its length, by another group, by the end,
and full or not, and 3 is the least `MaxRun` that tells a run's length from its
first two groups. For an error or a yield to meet every kind of activation, the C
stack must hold a caller, the activation and what it called; errors in the error
handler need the limit to be reached, and coroutines that resume each other need
two.

No counter in `LuaGC` grows: its state space is finite without a bound. The
bounds of `BcInsert` are `MaxBatch`, `MaxInserts`, `MaxConvs`; `MaxReg` of
`BcShift` is `BCMAX_A`, 255 in the code; `Horizon` of `SockBuffer` stops the clock
once every limit has passed; `MaxSaved` and `MaxDeep` of `LuaCalls` bound the
nesting the host and the program ask for, `Overfull` who returns too much. MaxCCalls, ErrRoom, MaxCalls, BasicCI,
BufSize, StepSize, Word and MaxRun are constants of the code, smaller.

Deadlock is checked for `LuaGC`, `LuaCalls`, `SockBuffer` and `LuaTable`, where
some step is always possible. The converter ends - a prototype has run, or
`MaxConvs` is reached -, and so does a packing, so their configurations do not
check it.

Symmetry: the slots of `gc`: no property or constant of that run names one.
`gc_upvals` and the liveness run use none.

Fairness. `FairSpec` of `LuaGC` asks only that collector steps happen again and
again: `luaC_checkGC` steps the collector whenever allocation reaches the
threshold, and every `luaC_step` sets a finite one. Nothing is asked of the
program, which may run for ever between two steps. Some collector step is always
enabled, so this is weak fairness of `GCStep`, stated as its consequence `[]<>`
because TLC evaluates that much faster. `FairSpec` of `SockBuffer` asks that the
process is scheduled (`WF_vars(Run)`) and that time passes (`WF_vars(Tick)`);
nothing is asked of the peer, of the kernel's queue, or of the program between
two calls, so `CallsReturn` demands a limit, an end or something to read. In
`LuaGC`, liveness is checked without full collections: a program that calls
`collectgarbage("collect")` inside every marking throws it away each time.

Every property of a passing run has a mutant in `PROJECT.json`: an operator of
the module, changed the way a slip in the code would change it (a barrier
dropped, a table grayed and put on no list, a hole not opened for tail calls,
an off-by-one in the rebuilt code), under which TLC finds the property violated.

## 5. What is proved

`BcShift_proofs` proves for every register width `MaxReg` and every set of
prototypes that satisfies `IsProgram`:

| Theorem | States |
|---|---|
| `TypeCorrect` | `Spec => []TypeOK` |
| `OperandsFollowAlways` | `Spec => []OperandsFollow` |
| `FrameSlotsAlwaysFree` | `Spec => []FrameSlotsFree` |
| `ExecutesTheSame` | `Spec => []SameExecution` |

The argument. `OperandsFollow` is not inductive: it says nothing of the
instructions the loop has not reached, nor that the holes are still those of
the source. `IInv` adds `Covered` (after the collection, `holes` holds the base
of every call of the source), that instructions before `pc` are the shifted
images of the source's and were accepted, that the others are as they were
read, and that `pc` and the phase agree. The rest is about one instruction:
`MapStrict` (the map is strictly increasing), `MapContiguous` (it keeps a range
with no hole in it contiguous), `HoleIsNobodysImage` (no register is mapped
to the slot above a mapped hole), and from these `SpanFollows`,
`CallSpanFollows`, and one lemma per group of opcodes for what is read and
written. `Inductive` collects them; the temporal step is one use of PTL.

`ExecutesTheSame` needs a second invariant on top of that, `MachineInv`: no hole
is opened below a parameter (so parameters are entered where the shifted code
looks for them), nothing has been read before the program is entered, and the
two register files agree. One step of both interpreters keeps them in agreement
(`FetchedFollows`, `StoredFollows`): what is read agrees because operands follow,
what is written goes to the image of its register since the map is injective
and an instruction writes no register twice, and what a call clobbers is in
both what lies above its base, since the map is strictly increasing.

These proofs rest on `MaxRegAssumption` and `ProgramsAssumption` only, both of
which TLC evaluates on every run.

`BcInsert_proofs` proves, for every set of chunks that satisfies `IsChunk` and
for all bounds `MaxBatch`, `MaxInserts`, `MaxConvs`:

| Theorem | States |
|---|---|
| `TypeCorrect` | `Spec => []TypeOK` |
| `JumpsAlwaysFollow` | `Spec => []JumpsFollow` |
| `NothingEverSkipped` | `Spec => []NoSkippedCopy` |
| `OrderAlwaysKept` | `Spec => []OrderKept` |
| `RemappedOnce` | `Spec => []RemapOnce` |
| `RequestAlwaysOwned` | `Spec => []PendingOwned` |

The argument. Each property needs to know how far the driver is. `Done(k)`
says that prototype `k` has been prepared: it lies before `proto`, or it is the
one in hand and a retry or a rebuild is under way. `StageNumbered` says that
exactly these are numbered as version 2, which is why preparing a prototype
only when `retry # proto` maps no opcode twice. `StageIntact` says that the
others, and everything in a chunk that has not been converted to FR2, are
instruction for instruction where they were compiled; so the first time a
prototype is prepared its jumps are those of the source (`IntactGood`).
`AllGood` carries the jumps on: `Good` holds of a prototype after any number of
rebuilds, because a rebuild moves whatever is at or behind the request by the
same distance and retargets what lies strictly behind it (`LandingMoves`,
`RebuiltGood`), and what is in order stays in order, each instruction once
(`InOrder`). `Protocol` ties the request to the prototype in hand; a request
that an earlier conversion left behind is told from one of this conversion by
its number (`pending.conv < convs`). There is one lemma per action; the three that
change code share `Replaced`, the ways into "idle" share `IdleInv`.

These proofs rest on `CopyAssumption`, `ChunksAssumption` and
`BoundsAssumption`, which TLC evaluates on the runs of `BcInsert`.

`SockBuffer_proofs` proves, for every stream, string, buffer, step and kernel
room and every set of limits:

| Theorem | States |
|---|---|
| `TypeCorrect` | `Spec => []Types`: every variable is of its type, the position of a call included |
| `BufferAlwaysSound` | `Spec => []BufferSound` |
| `SendAlwaysExact` | `Spec => []SendExact` |
| `WaitsAlwaysBounded` | `Spec => []WaitsBounded` |
| `TimeoutsAlwaysHonest` | `Spec => TimeoutHonest`, an action property |
| `SelectAlwaysHonest` | `Spec => []SelectHonest` |
| `AlwaysAnswersTheStream` | `Spec => AnswersTheStream`, the refinement of `ByteStream` |

The argument. There are five invariants. `ReadInv` is the types, `BufferSound`,
and that a receive waits only with an empty buffer (`WaitsEmpty`), which is what
lets a refilled buffer follow on the bytes that were used. `SendInv` adds to
`SendExact` where a send that is under way stands in the string, so that the
index a cut-short send answers is the one to go on from. `WaitInv` says of
what a wait was given (`GetRetry` at every turn and after every signal) that it
reaches no further than the limits of the call (`WaitsBounded`) and that it does reach
one of them (`Reaches`), so that a "timeout" is none too early.
`SelectInv` is `SelectHonest` with the answer that is under way, for open and
closed objects. The last two are
proved on top of the types.

`StreamInv` carries the refinement: the text of a running receive, and that of a
broken answer, is what its pattern selects from where it began to where it is now
(`GoodText`), and `'*a'` and a number have counted what they read. One turn of
each loop extends such a text (`BlockGrows`, `LineGoesOn`, from the recursive
definitions of both modules by `LineIs` and `CharsAre`) and answers only what
is whole or cut short for a reason (`RawGives`, `AllGives`, `LineGives`, then
`AnswerMaps`). A number less a longer prefix wraps around (`WantedIs`): then more is
wanted than the stream ever holds, because `Word` exceeds `Len(Kind)`, so such a
call is never answered as whole. Every other step is a step of the peer, of the
close or of a reported reset, or a stutter.

All of them rest on `SizesAssumption`, which TLC evaluates on the run `sock`.

`LuaCallStacks` and `LuaCalls_proofs` prove, for any number of coroutines and
all limits:

| Theorem | States |
|---|---|
| `TypeCorrect` | `Spec => []TypeOK` |
| `FramesAlwaysMatch` | `Spec => []FramesMatch` |
| `AlwaysRestored` | `Spec => []Restored` |
| `AlwaysBounded` | `Spec => []Bounded` |
| `AlwaysCoroutines` | `Spec => IsCoroutines`, the refinement of `Coroutines` |

The argument. What an error restores was saved by an activation that may lie any
number of activations above, so the invariant must speak of every activation
and not of the deepest. `IInv` (in `LuaCallStacks`) has three parts. `Fits`: every
activation `Lies` well on those before it - its kind may call it, and what it
saved (`nCcalls`, the number of CallInfos, `errorJmp`, `errfunc`, `allowhook`) is
what its thread had there -, and the fields of every thread are those that the
stack calls for (`Fine`), a C function directly above `lua_resume` among them, which
must be a result that was left (`EntryFits`). `ModeFits`: the deepest activation is one that can run,
return or fail, at a depth where it can. `YieldFits`: a suspended thread is on the
stack only while its `lua_resume` returns. Since `Lies` of an activation
speaks only of what is before it, a well-formed stack that is cut anywhere is
well formed (`CutTo`): an error then restores exactly what belongs to the
stack that is left. So the work is one lemma for each way the stack changes -
`Push`, `PopTop`, `Recount` (a parser's level), `CutTo`, `ResumeOff`,
`ResumePush`, `Suspend` - and one lemma per action that says which way it is. A
change of the stack of one thread leaves the fields of the others fine because
the activations they are computed from stay (`Agree`, `OthersFine`).

The refinement needs no invariant beyond `IInv`. The chain of threads grows with
each `lua_resume` of the C stack (`ChainUpTo`), and its last is the thread that runs
(`ChainTop`), so a step that leaves the chain alone and changes only that thread
is no step of `Coroutines` (`Still`, `StillMaps`): whatever pushes or pops another
activation, and also a jump to `luaD_pcall`, which crosses no `lua_resume`
(`NoneSince`), a yield, which leaves `lua_resume` on the stack, and a panic, which
only the main thread meets. The others are steps of it: a thread that resumes is
"normal" because the C function it is in is one of its CallInfos (`CallerIs`), and one that
is returned from is "dead" or "suspended" because nothing else of it is left on
the stack (`ReturnMaps`).

Depths, CallInfos and the chain are recursive functions along the stack. `DepthRec`,
`RunRec` and `ChainRec` establish their values and types from `Iterated`, which is proved by
the well-foundedness of the naturals in the form of a set of numbers
(`SmallestIs`, `Upwards`), since the induction theorems of the library take an
operator. These proofs rest on `CallsAssumption`, which TLC evaluates on the run
`calls`. `IInv` itself has been checked by TLC on the instance of `calls`
with `MaxSaved` 1 (454,124 states), types apart.

`LuaGC_proofs` proves, for any number of objects of every kind, of
slots and of keys:

| Theorem | States |
|---|---|
| `TypeCorrect` | `Spec => []TypeOK` |
| `NothingDangles` | `Spec => []NoDangling` |
| `SweepIsSafe` | `Spec => []SweepSafe` |
| `BarriersHold` | `Spec => []TriColour` |
| `ListsAreSound` | `Spec => []ListsSound` |
| `UpvaluesAreSound` | `Spec => []OpenUpvalsSound` |
| `FinalizedOnce` | `Spec => FinalizeOnce`, an action property |
| `OnlyGarbageIsFinalized` | `Spec => FinalizeOnlyGarbage`, an action property |

The argument. What is freed is what is of the other white when the sweep comes
to it, so `Alive` is everything but the free and the dead white, and the two
properties that matter most are one statement about it: what is alive leads
only to what is alive (`AliveClosed`), and the roots are alive (`RootsAlive`).
No step of the program can break that, since whatever it can store it has
found alive; no step of the sweep, since it frees what is not alive. The one
step that could is the atomic one, which makes everything dead that is not
marked. So the rest of `IInv` says that the marking has lost nothing: `ListsSound`
and `Coloured` (all gray is on a list and comes to be traversed, a userdata or a
closed upvalue is never gray) and `NoneLost`, the tri-colour invariant, stated
stronger than `TriColour`: also of weak references, and of the key that an
empty entry keeps, which a later `luaH_set` finds without a barrier. `NoneLost`
holds at the start of a marking only if nothing is black then, so `SweepInv`
says that outside the marking every object is free, of the current white, still
to come in the sweep, or a userdata waiting for its finalizer. `FinInv` relates
FINALIZEDBIT, `tmudata` and the finalizers called. Reachability is the least closed
set (`Reached`), so to show that something is not reached it is enough to give a
closed set without it: `Alive` for `NoDangling`, the marked objects with what the
atomic step reaches (`Remarked`) for `FinalizeOnlyGarbage`. There is one lemma per
action, the longest for the atomic step (`AtomicKeeps`), which is where revived
userdata, cleared weak entries and strings meet.

These proofs rest on the assumptions of `LuaGC` on its constants - the kinds
are disjoint, the main thread is a thread, keys and values are objects or
numbers, modes are the four of `__mode`, basic metatables are tables -, which TLC
evaluates on every run of it; it has also checked the parts of `IInv` on the
instances of `gc` and `gc_upvals`.

`SprotoPack_proofs` proves, for all sources, whatever lies behind them, every
`MaxRun` from 2 to 256 and every size of the first output buffer:

| Theorem | States |
|---|---|
| `TypeCorrect` | `Spec => []Sound`: the types, and where an open run of literals lies |
| `AlwaysInBuffer` | `Spec => []InBuffer` |
| `AlwaysStreamSound` | `Spec => []StreamSound` |
| `AlwaysRoundTrip` | `Spec => []RoundTrip` |

The argument. The head of a run is written when the run is over, and the bytes
behind it were stored, in part, as groups of their own in the meantime. So `Sound`
carries `RunPlaces`: a run of n groups that began at byte `from` of the source and `at` of
the buffer has `i = from + 8 * n` and `size = at + 2 + 8 * n`, hence `write_ff` stores
exactly what is used and no more; with the test against `MaxSize` it stays in
the buffer. For the round trip `Coded` says that what is packed `Stands` for the
part of the source that has been taken: there is a set of places in the packed
string, with the number of source bytes before each, such that what begins at a
place tells the source from there on (`Tells`) and the next place follows it by
what it takes (`After`). While a run is open the chain ends at its head; a group, or
a run that is closed, lengthens it (`StandsGrows`, `GroupWritten`, `RunWritten`),
and bytes stored behind its end change nothing (`StandsSame`). `Read` says that
`sproto_unpack` stands at a place of the chain with as much output as the chain
says, and that the output is that of the source; one turn of its loop goes on to
the next place (`StandsOnward`, `ReadOn`). What a header tells is the arithmetic of
its bits (`HeaderIs`: bit b of `Header` is 1 for the bytes that are not 0) and
that the bytes of a group are stored in the order of their rank (`Counted`). All
this is claimed while what is packed fits: when it does not, `lpack` raises an error
and nothing is unpacked, which is also why `PackFits` can fail (section 6) while
these hold. The proofs rest on `PackAssumption`, which TLC evaluates on the run
`sproto`.

`LuaTable_proofs` proves, for any finite set of number, string and address keys,
every hash function, every `MaxBits` and `MaxInt`, and any sizes a constructor asks
for:

| Theorem | States |
|---|---|
| `AlwaysInv` | `Spec => []Inv`, the inductive invariant |
| `AlwaysChainsSound` | `Spec => []ChainsSound` |
| `AlwaysRoomForAll` | `Spec => []RoomForAll` |
| `AlwaysKeyFound` | `Spec => []KeyFound` |
| `AlwaysArrayFits` | `Spec => []ArrayFits` |
| `AlwaysLengthIsBorder` | `Spec => []LengthIsBorder` |
| `AlwaysMap` | `Spec => IsAMap`, the refinement of `LuaMap` |

The argument. `ChainsSound` speaks of live nodes only, but an insertion goes along
chains that dead keys and emptied nodes are still part of, so it is not
inductive. `Sound` gives every node a path and a distance from the end of it (`Laid`): the
link of a node is the next on its path, and no two nodes are in the same place,
so chains neither meet nor come back. `Ordered` says of every node with a key, with
or without a value, that it lies on the chain from the main position of its
key, and that this chain begins with a node in its own; of a node without a key
that it is alone; and of several nodes with one key that all but the first on
the chain are dead: a dead key is not found by `luaH_get`, which may put the same
object in again, while `findindex` answers dead keys too and must meet the live one
first. `Search`, the walk along a chain, is then the first node of the path that is
looked for (`SearchIs`). `InsertIs` has the three cases of `newkey`: an empty main
position is taken over and keeps its link (`TakesOver`), a node that is out of
its own place moves to a free one (`MovesAway`), or the new key does and is linked
in second (`PutsOff`); each gives the new paths and distances. `PutIs` is `luaH_set`
with its assignment: it stays sound, or finds no free node and nothing else has
changed.

A rehash must then not fail. `ResizeIs` follows the loops of `resize`: as long as
there are at least as many nodes as keys still to come, every `Put` finds one, since
every free position is below `lastfree` and each takes one. `RehashSizes` shows that
`rehash` asks for enough: the slices of `Nums` count each number key with a value
once (`NumsIs`, `UpToIs`), the array part takes exactly `ToArray` of them
(`ArraySizeIs`, and `BestSizeFits` for what `ArrayFits` says of the size), and the key to be inserted is counted with them. So `SetValueIs`:
after `Set`, `Get` answers the value at the key and what it answered before at all
others.

A traversal survives because nothing it may meet moves a node: an assignment to
a field that has a value, or a collection, keeps sizes, keys and links (`Frozen`,
`CollectIs`), so the key that it stands at is still found, at the same index.
`Traversed` says that the owed keys seen so far are those up to that index; with
it, `Visit` is a visit of the map, and `Finish` finds nothing owed and unseen. For
the length, `BetweenIs` is the binary search, `UnboundIs` the doubling, which ends
with `j` at a nil or where doubling would pass `MaxInt`, and `LinearIs` what follows
then.

These proofs rest on `KeysAssumption`, which TLC evaluates on the run `table`: the
three kinds of keys are disjoint and only number keys are integers, 0 hashes to
0 (`hashnum` answers the first node for it), nil is neither a key nor a value, no
constructor asks for more than 2^`MaxBits` places of a part, and there are no
more keys than that. The last one stands for an error the model leaves out: with
more keys `setnodevector` raises "table overflow". `TwoTo`, `Search`, `Resize` and the
searches of `GetN` are recursive functions, whose values `Iterated` establishes as in
`LuaCalls_proofs`.

Only model-checked: everything temporal beyond invariants, action properties and
refinements without fairness - `EventuallyFreed`, `EventuallyFinalized`,
`CallsReturn` -: liveness under fairness and ENABLED are beyond TLAPS as used
here, as are induction with operator parameters and RECURSIVE operators, of
which no module has one. The three violations of section 6 are TLC's by nature.

## 6. Findings

Three disagreements between the code and what the repository says of it are kept
as runs that TLC must find violated:

- `shift_frame`: the frame size that `FR` 15859-15882 writes can miss the last
  register that the shifted code uses;
- `sproto_size`: the buffer that `lpack` allows (`lsproto.c` 462, with the bound
  its comment states in line 461) is one byte short for some inputs, for which
  `sproto_pack` then fails;
- `calls_results`: a coroutine has finished, what it returned does not fit on
  the stack of its resumer, and `auxresume` raises "too many results to resume"
  (`luavm/lbaselib.c` 531) before it takes the results away. `costatus` (502)
  takes them for the "initial state", so the coroutine is suspended where the
  manual has it dead, and resuming it calls one of its results.

Others were met on the way and have no run, because they are known from one
line of the code and a run would only repeat it:

- a CALL with two fixed results passes the range check at `FR` 15319, and its
  second result lands one slot off (`InPlace` of `BcShift` excludes it);
- ISNEXT is a jump that only some paths know (`FR` 848), and the line table is
  copied unchanged when instructions are inserted (`FR` 1162);
- `iscleared` (`luavm/lgc.c` 344) tests FINALIZEDBIT where its comment and the
  manual speak of userdata *being* finalized; upstream Lua 5.1.4 has it too;
- `luaC_barrierf` asserts (`luavm/lgc.c` 665) that no barrier happens while
  finalizers run, which a pending userdata reached by another finalizer breaks.
  `BarrierAsserted` of `LuaGC` states it; the branch taken is harmless
  (`NoDangling`), and release builds compile the assertion out;
- the header of `luavm/ltable.c` (12-13) calls the size of the array part the
  largest n of which "at least half" of the slots are in use, `computesizes`
  (198) asks for more than half. `ArrayFits` accepts either where exactly half
  is used, and demands what both agree on;
- `luaD_call` raises "C stack overflow" only when nCcalls is exactly
  LUAI_MAXCCALLS (`luavm/ldo.c` 370-375), and a parser and `lua_resume` may have
  taken it there already: then calls go on into the room for error handling
  without the message, and the error at its end has no handler called. `Bounded`
  holds all the same.

## 7. Not modelled

- The converter: the version 1 repair heuristics, which match the output of one
  compiler and keep no state (their choices are arbitrary in `BcInsert`); two
  threads in the converter at once, whose static request and error buffer have
  no lock.
- Lua 5.1: the parser, the code generator and the libraries, as far as they keep
  nothing across calls; the instructions that neither store references nor call;
  the resizing of the string table; failing allocations; and what each module
  of section 3 names.
- tolua: the userdata cache answers by numbers of the host's object translator,
  which is not in this repository, so what the cache promises depends on code
  that cannot be read; `tolua_index` is a lookup over metatables without state.
- luasocket: connecting, accepting, datagrams, options, name resolution, the Lua
  files. sproto: encoding and decoding by type, which call back for each field.
- sqlite, LuaJIT (two copies), pbc, lpeg, cjson and the tools of their builds are
  third-party code, and most of the implementation lines of the repository. The
  modules are about the converter, which is this repository's own, and about
  the parts of the plain Lua runtime and of the C libraries that keep state
  across calls.
