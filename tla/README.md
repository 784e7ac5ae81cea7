# A verification of varnish-rs

TLA+ modules for the parts of varnish-rs that keep state, TLC configurations
that check them on small instances, and TLAPS proofs of theorems that hold for
every instance. Paths are relative to the repository; `lines` of each definition
are in the `map` of `PROJECT.json`.

    tlc -workers 2 -config MCVtcTests.cfg MCVtcTests.tla   # any run below
    tlapm WorkspaceProofs.tla                              # any *Proofs module

Contents: [the system](#the-system), [plan](#plan),
[modules](#modules), [runs](#runs), [fairness](#fairness), [proofs](#proofs),
[observations](#observations), [not modelled](#not-modelled).

## The system

varnish-rs lets one write Varnish modules (vmods) in Rust. A vmod is a shared
library that varnishd loads when a VCL program imports it. `varnish-macros`
reads the annotated Rust module and generates C-callable wrappers;
`varnish-sys` gives the wrappers and the vmod safe types over varnishd's C
structures; `varnish` adds the test macro and the metrics. There is little
concurrency inside the crates. The difficulty is elsewhere: objects cross to C
as raw pointers, are kept there, and come back in other callbacks, in an order
that varnishd chooses, with failures in between. What the Rust compiler checks
in a program written in one language, nothing checks here.

### Components

**Test slots** (`varnish/src/varnishtest.rs`). State: `TEST_SLOTS`, a mutex with
the number of free slots, and a condition variable. `run_one_test` acquires a
slot, starts a varnishtest process and drops the slot; `run_all_tests` and
`run_varnish_test` start the process directly. Called from all test threads of
a binary. Hard: interleaving, lost wakeups, a slot lost on an early return, a loop
over files left in the middle. Correct if slots are neither lost nor made, the cap
holds for those that take slots, every generated test ends, and `run_all_tests`
returns what happened.

**VTC test generator** (`varnish-macros/src/vtc_tests.rs`). `run_vtc_tests!` finds
the files of a pattern while the crate is compiled, and makes one `#[test]` of
each, under a name derived from the file's. State: how often each base was used.
Hard: names that become equal only by the number that should make them different.
Correct if a build that succeeds has each file once, and one that fails has a
reason.

**Workspace** (`varnish-sys/src/vcl/ws.rs`, `ws_str_buffer.rs`). State: the
free pointer and the reservation of a C `struct ws`; a live builder
(`WsStrBuffer`, `WsBlobBuffer`, `WsTempBuffer`) with its position. Operations:
`alloc`, `allocate`, the copy functions, builders that reserve the rest, grow,
and `finish` or are dropped. Used by almost everything else; the memory is the
task's. Hard: alignment at both ends, the last byte, failed reservations.
Correct if nothing is given out twice, a builder writes within its reservation,
and the assertions of `release` hold.

**Backend fetch** (`varnish-sys/src/vcl/backend/backend_main.rs`). State: the
boxed `VclResponse`, as a raw pointer in `http_conn.priv_` and in `priv1` of a
fetch processor. `wrap_gethdrs`, `vfp_pull`, `wrap_getip` and `wrap_finish` are
called by varnishd's worker thread. Hard: two owners of a raw pointer, callbacks
that fail between its birth and its registration, abandoned and retried
fetches. Correct if a pull meets a live response, it is dropped once and in
the end, and a complete body is whole.

**Backend and director references** (`backend_ref.rs`, `director.rs`,
`backend_main.rs`, `convert.rs`). State: the count of varnishd's `vcldir`, the
`BackendRef`s that directors store, and the Rust owners of methods and
implementation. Hard: `VCL_BACKEND` values that nobody counts while they are
returned to C; owners dropped in any order. Correct if the count is exact and
the `vcldir` is freed with the last reference.

**Per-task state** (`varnish-sys/src/extensions.rs`,
`varnish-macros/src/gen_func.rs`). State: a `vmod_priv` slot with pointer and
methods. Generated wrappers `get_ref`, or `take` before and `put` after the
user's function; `call_sub` nests calls. Hard: re-entrance, errors between
`take` and `put`. Correct if no object has two owners, references are stable,
and the end of the task drops all. The first holds; the others have one way each to
fail, when a mutable call of a vmod runs below another call of the same vmod.

**Calls, restrictions, conversions** (`gen_func.rs`, `varnish-sys/src/vcl/ctx.rs`,
`subroutine.rs`, `convert.rs`, `probe.rs`). A wrapper checks `#[restrict]`, converts
the arguments, calls the user's function, converts the result into the task's
workspace, and turns every error into `Ctx::fail` and a default value. A function may
call a VCL subroutine (`call_sub`), in which VCL calls functions again. Hard: an
error at any of those steps, at any depth; a panic; values that the other side
cannot express. Correct if functions and subroutines run only where they may, an
error leaves the task failed, and values arrive as they were sent.

**Per-VCL state and filter registries** (the same, with
`varnish-sys/src/vcl/processor.rs` and `ctx.rs`). State: `PerVclState`, the
user's data and two vectors of boxed filters, whose addresses varnishd keeps
per VCL, and the boxed objects that constructors make. Events and constructors run
on the CLI thread. Hard: VCLs that fail to
load, events that fail, filters that varnishd refuses, several VCLs at once. Correct
if varnishd knows exactly the live filters that it did not refuse and nothing is lost.

**Filter pipelines** (`processor.rs`). State: one boxed processor per object
in `priv1` (fetch) or `priv` (delivery); init, push or pull, fini. A fetch goes
through the backend's processor and those of vmods into the object, a delivery
from the object through others to the client, perhaps at the same time. Hard:
init may fail or decline, processors keep bytes back, fail and stop early.
Correct if each box is dropped once, on every path, and a delivery without an
error has brought every byte.

**Request body** (`varnish-sys/src/vcl/ctx.rs`). State: varnishd's
`req_body_status`, the busyobj's `no_retry` and `err_code`, `doclose`.
`req_body`, `cached_req_body` and `req_body_state` read the body once from the
connection or any number of times from the cache. Hard: who reads first, what a
retry finds, whom to blame for a failure. Correct if a result that says "whole"
means it, and no attempt follows one that used up the body.

**HTTP headers** (`varnish-sys/src/vcl/http.rs`). State: varnishd's arrays of
headers and flags and the number in use. Hard: compaction in place, failures
for want of slots or memory. Correct if the arrays behave as a list.

**Vmod parser and generated wrappers** (`varnish-macros/src/parser*.rs`,
`model.rs`, `gen_func.rs`, `gen_objects.rs`, `generator.rs`). State: flags of a
function, the two shared types of the vmod, the names taken, the model. Runs in the compiler.
Hard: what one function leaves behind for the next; the generated casts of
`vmod_priv.priv_` are unchecked; each function is described in Rust, C and JSON,
which no compiler compares. Correct if what is accepted is what the rules
allow, all casts of one slot agree, and so do the three descriptions.

**Metrics reader and publisher** (`varnish/src/metrics_reader.rs`,
`metrics_publisher.rs`, `varnish-macros/src/metrics.rs`). The publisher puts a
struct of atomics into a shared memory segment with a description of its fields,
and destroys the segment when dropped. The reader keeps a map of points that
`libvarnishapi` adds and deletes through callbacks during `update`, and two
vectors of what came and went. Hard: keys are addresses, which come back;
callbacks run while the reader is dropped; a gauge below zero is a large
number. Correct if the map is what the library has mapped, a client can follow
it, and a name shows its own field's value.

**The rest**: ACLs, `StrOrBytes`, the documentation generator, FFI validation, errors,
the setters of `NativeBackendBuilder`, examples. They keep no state of their own; see
[not modelled](#not-modelled).

### Interactions

- The macro's tests are what takes the slots: `VtcTests` extends `TestSlots`, and its
  harness runs only what the macro generated.
- Wrappers (generated) call `vmod_priv` methods, then the user's function, then
  `put`. The slots' destructors (`on_fini`, `on_fini_per_vcl`) are called by
  varnishd. What the parser accepts decides which casts the wrappers make: the
  `SlotTyped` of `VmodParser` is what `VmodPriv` and `VclState` take for granted
  when they say that a slot holds an object of its vmod.
- `VmodCalls` puts the conversions, the restrictions and the subroutines around the
  shared argument: each of its actions is one of `VmodPriv` with what the wrapper does
  before and after. The workspace of a task is what the conversions of results use up.
- The fetch callbacks take memory from the task's workspace (each may fail) and
  set headers through `HttpHeaders`, which copies into the workspace too. In
  those modules a full workspace is an outcome that any allocation may have.
- `Ctx::req_body` runs in client and in backend VCL over varnishd's body.
- Directors resolve to backends through `BackendRef`; varnishd counts.
- The fetch callbacks are the lowest stage of the pipelines: `Pipelines` composes
  the actions of `BackendFetch` with the processors of vmods.
- The wrappers are generated from what the parser accepted: `VmodWrappers` reads
  the model that `VmodParser` leaves.

## Plan

In the order in which the parts matter and depend on each other. 1 to 17 are
done; 18 is left.

1. `TestSlots`, the only code with threads of its own; proofs.
2. `Workspace`, on which everything else rests; proofs.
3. `BackendFetch`, raw pointers across callbacks.
4. `VmodPriv`, per-task state under nesting; proofs.
5. `VclState`, per-VCL state, filters, objects and the life of a VCL; proofs.
6. `BackendRefs`, reference counts; proofs.
7. `ReqBody`, the body over tasks and retries; proofs.
8. `HeaderList` (abstract) and `HttpHeaders` (arrays), a refinement.
9. `VmodParser`, the parser's decisions, names and values, and the generated casts.
10. `VmodWrappers`, the three descriptions of each generated function, over 9.
11. `Pipelines`, processors of vmods above and after the fetch of 3.
12. `Metrics`, from the derive macro to the reader's map.
13. `Semaphore` (abstract), which 1 implements; proof of the refinement.
14. `VtcTests`, the macro that generates the tests, over 1; proofs.
15. `Conversions`, the values on both sides.
16. `VmodCalls`, the calls of a task as VCL sees them, over 4 and 15; proofs.
17. Proofs for `Pipelines`, `VmodParser`, `VmodWrappers`, `Metrics` and `HttpHeaders`
    (the refinement), on `Recursion`, the induction that their loops need.
18. Abstract specifications of `Workspace` (a set of disjoint regions) and of a
    pipeline (a body arrives whole, or with an error), with refinement theorems.

All modules are written for proofs: no `RECURSIVE` operator, parameters with named
assumptions, one action per operation. Loops, that of `unset_header` and the sums
over fields, parts and processors, are recursive functions or folds, which
[Recursion](#proofs) reasons about.

## Modules

Where a module has constants that are functions or records, an `MC` module gives
them values. A definition whose comment starts with "Mutation:" is a plausible
bug, defined before the definition it would replace; nothing refers to it.
`PROJECT.json` names for each checked property the mutation that breaks it.

### TestSlots, Semaphore

`available` is the value of the mutex, `pc[t]` the place of a test's thread. One
action is one critical section: `Take` and `Sleep` are the two sides of the
`while` of `TestSlot::acquire`; `Release` is `Drop`, with the choice of the
sleeper that `notify_one` wakes; `SpuriousWakeup` is what a condition variable
may do. A woken thread locks the mutex again and may find that a late-comer was
faster. `LibMissing` is the early return of `run_one_test`. The harness runs
`Threads` tests at once.

One thread calls `run_all_tests`, whose children take no slot. `Open` finds the
library and the files of the pattern (`Globbed`, in the order of `glob`), or returns
the error of either; `RunDirect` and `ExitDirect` are the child of the next file;
`PathFails` is the `?` in the loop, after which the rest is not run; `Return` gives
an error for no file or for one that failed. `at` is the place in the loop, `outcome`
what it returned.

`Semaphore` is what the slots promise: at most `Max` inside, with neither counter nor
mutex. The mapping takes the tests that hold a slot; waiting, waking and the
tests that run directly are stutters.

### VtcTests, MCVtcTests

`build` follows the compilation, `Order` the pattern's files as `glob` sorts them.
`Glob` finds some of them, `Name` gives the next one the name of its base and, from
the second on, a number; `GlobFails` and `NameFails` are the compile errors of the
macro, `Compile` the check of rustc that no two functions share a name. `RunStep` is
a step of `TestSlots`, for the tests that exist. `Sanitize` is `sanitize_ident`, on
sequences of letters. A build that fails is over for good. `CallerStep` is a step
of the caller of `run_all_tests`.

### Workspace

Addresses are integers. `f` and `r` are the fields of `struct ws`; `builder` is
the live `WsBuffer`; `given` is the history of ranges handed out. The allocator
is varnishd's; what is modelled is its replacement of `ws.rs:41-64` and the
`TestWS` of the same file, which the repository's tests use: `RoundUp`, the
assertion on the size and the arithmetic are its own. `Allocate` truncates
lengths to a `u32` (`% U32`), as `as u32` does. `NewBuilder` is the chain of
`reserve_all`, alignment of the first item and of the suffix, and `Capacity`;
`Extend` and `Write` are the two ways to grow; `Finish` and `Drop` release. A
failed assertion ends in `out \in Panics`, where only `TaskEnd` goes on: the
worker process is started again.

Two constants delimit the use: `SharedUse` says whether callers use the workspace
under a live builder, and `U32` how many values a `u32` has. See the
[observations](#observations).

### BackendFetch

One worker's fetches. `htc` is `bo.htc` with its `priv`, `vfe` the processor's
`priv1`, `box` the heap. Each path of `wrap_gethdrs` is an action: `ResponseErr`,
`HeadersFail`, `NoBody`, `Body`, `BodyFail`. `priv_` is not assigned in `NoBody`;
the model chooses between null and garbage. `Pull` is `vfp_pull`, with the
contract of `VclResponse::read` in `Produced`; `Finish` is `wrap_finish`. Order
and choice of callbacks (`Deliver`, `GiveUp`, `Restart`) are varnishd's. A wrong
dereference or a failed assertion sets `crash`, and the process starts again. The
module has the actions; `Pipelines` puts them together.

### Pipelines

`vfps` are the `priv1` of the fetch processors above the backend's; `OpenFetch` is
`wrap_vfp_init` for each, `PullThrough` a pull of varnishd through all of them
down to `vfp_pull`, `CloseFetch` is `wrap_vfp_fini`. `object` is the body in
storage. `vdps` are the delivery processors, `delivery` what was fed, what the
client got and the result that varnishd keeps: `OpenDelivery` is `gen_vdp_init`,
`Push` and `PushStops` are `gen_vdp_push`, `CloseDelivery` is `gen_vdp_fini`. Fetch
and delivery interleave. What a processor does with the bytes is that of the
repository's examples: a fetch processor hands on what it pulls (`vmod_vfp`), a
delivery processor pushes what it gets, or keeps it all until the last push
(`vmod_vdp`); each may fail at any call. `boxes` counts the processors on the heap.

### VmodPriv, MCVmodPriv

`priv` and `methods` are the fields of each vmod's slot; `calls` is the stack of
wrappers that run, with what each took. `EnterRef`, `EnterMut` and `EnterRefCell`
are the three forms of argument; `Leave` is the code after the call, the same
for `Ok` and `Err`; `Store` and `Clear` are what the user's function may do to the
`Option<Box<T>>`. `Bounce` is a wrapper that leaves before it has called the user's
function, as the conversion of an argument failed. A call of any form can be entered
on top of any other, of the same vmod as well, as `call_sub` allows and nothing in
the code prevents. Its properties say what nesting may do: an object never has two
owners (`SoleOwner`); it loses its owner only where `put` overwrites what a nested
call left (`LostOnlyInPut`), and a reference loses its object only to a mutable
call below it (`RefsLostOnlyToMut`). `RefsStay` is what the documentation of `get_ref`
promises, without the exception.

### Conversions, VmodCalls

`Conversions` has `FromVcl` and `IntoVcl` for every type of the table `ParamTy` but
`i64` and `f64`, over classes of values: a text that is UTF-8, one that is not, one
with a NUL inside or at the end; a time before the epoch, too long, or none at all.
The outcome of a conversion is a value, an error, or a panic, which in an
`extern "C"` function aborts the worker. `IntoVcl` also says how many allocations it
made of those for which there was room, as one that fails halfway keeps the first.
`Echoes` and `ReadsBack` are the reference: what a value means, on either side.

`VmodCalls` extends `VmodPriv` with the rest of a wrapper: `Refuse` is the check of
`#[restrict]`, `BadArgument` and `Panic` a conversion that fails, `CallUser` the call,
`ReturnErr`, `ReturnArgument` and `ReturnOther` its end, with the conversion of the
result. `Fail` is `Ctx::fail` with the default value. `CallSub` and `EndSub` are
`call_sub`, with varnishd's own checks (external). `method` and `handling` are the
task's; `frames` go with the `calls` of `VmodPriv`.

### VclState

`slot` and `call` hold the `PerVclState`: in the slot, or taken by the wrapper
that runs. `known` is varnishd's list of filters, by address; `live` is the heap.
`Enter`/`Return` is a wrapper's `take_per_vcl` and `put`; `Register`, `Unregister`
and `SetData` are done by user code inside; `MakeObject` is the end of a constructor,
`Destroy` the destructor of an object; `Fini` is `on_fini_per_vcl`. The life
of a VCL (`Calls`, `Outcome`) is varnishd's: load, constructors, warm, cold,
discard, with events and constructors that fail.

### BackendRefs

`refcnt` and `vdir` are varnishd's; `owner` is the Rust `Backend` or `Director`, or
the native backend of `NativeBackendBuilder`; a backend of the VCL has none and is
not counted. `stored[h]` are the references in the implementation of `h`; `tref`
and `traw` what a task holds, counted and not. `DropRefs` is `BackendRef::drop`.
`CallBackend`, `CallDirector`, `Probe`, `Pipe` and `Resolve` are the callbacks and
uses that go through a `vcldir` to its methods. `faults` collects what is wrong with
a use: "assert" a failed assertion of `BackendRef::new` or of varnishd, "vdir" a
freed `vcldir`, "methods" a freed method table. `Drop` of an owner may come at any
moment, between a wrapper's return and varnishd's assignment as well, as nothing in
the code prevents it. `hasty` remembers the owners that went while a director stored
a reference to them or a task had one, counted or not (`Referred`): the use that the
documentation of `Backend` warns of (`backend_main.rs:59`). `RefsExact` is
checked for every drop, `NoFault` for the others.

### ReqBody

`status` is `req_body_status`, `bo` the busyobj's view, `read` the last read with
its result. `Iterate` is `VRB_Iterate` (external): how far it got, what failed,
and the status it leaves. `ReadNone`, `ReadClient`, `ReadCached` and
`ReadStreamed` are the branches of `Ctx::req_body`, with the bookkeeping for
retries and for the blame; `ReadSlices` is `cached_req_body`. `Cache`,
`StartFetch`, `Retry`, `Deliver` and `End` are varnishd's. `StartFetch` clears
`bo.req` when no byte of the body is left, which is varnishd's and no code of the
repository, but its test relies on it (`test16.vtc:166-179`); whether it does so for
a body that broke is left open.

### HeaderList, HttpHeaders, MCRequest

`HeaderList` is the documentation of `HttpHeaders`: the fields of the first line,
the version of the protocol, and a sequence of headers with flags; `SetField`,
`SetStatus`, `Set`, `Unset`, `Weaken`. `HttpHeaders` is the code: arrays of fixed
size, in which the first line has the slots below `HDR_FIRST` and the headers those
up to `nhd`, the compaction loop of `unset_header`, the increment of the count that
is taken back on failure. The refinement mapping takes the used slots. A header
is a name, a value and whether the value starts with `W/`; names compare without
case (`Fold`). `Headers` are those in use.

`MCRequest` puts body and headers of a request into one run: see `MCVmod`.

### VmodParser, VmodWrappers, MCVmodParser

`source` is the module as written, grown by one argument at a time; the other variables
are the parser's. A head is where a function stands (in the module or in the `impl`
block), its result, its VCL name if another may have it too, and its attributes. `Begin`
classifies it (`FuncType`) and refuses what `HeadOk` and `ResultOk` do not allow: a rename
or a restriction of an event, a result of one. An argument with two attributes that
exclude each other is "combined". `ParseArg` keeps the order in which the code checks and
sets; a value has a type, an `Option` or `#[required]`, and a default, whose kind of
literal must be that of the type. `End` and `Finish` are the end of a function and of the
vmod, with the two loops over the names (`NamesApart`). `Legal` states the rules directly
over `source`, without flags. They are those of the code; where the documentation of
events has another (any number of `#[shared_per_vcl]` arguments), `EventsAsDocumented`
states that. `TaskCasts` and `VclCasts` are the types to which the generated code casts
the two slots.

`VmodWrappers` has the generator's decisions about each accepted function: `Rust`
(result and parameters of the wrapper, or the struct of arguments when one is
optional), `C` (the prototype), `FuncJson`, and `Reads`, what the wrapper's body takes from
where. `VccPasses` and `VccExpects` are the VCL compiler, which calls the function
as the JSON says.
A parameter is the argument it stands for with its type, so that a shift by
one shows, and a type that is not the same in the three.

### MCVmod

One run of two parts that share no state: the compiler, over `MCVmodParser`, and the
calls of a task, over `VmodCalls`. Each property is about one of them, so that one moves
while the other is at its start: their states add up and do not multiply. `MCRequest`
does the same. Nothing that a part does on its own is left out.

### Metrics, MCMetrics

`shm`, `mem` and `net` are the publisher's: the segments, their words by offset, and the
sum of what was added to each field. `Index` is the offset that the derive macro writes
into the metadata, `Offset` where `#[repr(C)]` puts the field. Words wrap at `2 * Half`.
Counters and gauges are changed by adding (`Change`), within `Bound`; a bitmap gets any of
the words `Stored` (`Store`), and is read raw. The rest is the reader's: `Build`,
`BuilderDropped`, `Drop` and `Dropped` move and destroy the handles; `Update` starts a
walk of the library over the segments (`Map`, `Unmap`), which calls `add_point` and
`del_point` for each (`AddPoints`, `DelPoints`); `UpdateEnd` returns the two vectors.
`seen` is a client that follows them, as the comment of `update` describes. The publisher
runs at any time, between the callbacks of one walk as well.

## Runs

Each passing run checks the whole state space of its instance; none has a state
constraint.

| run | instance and why it is enough | shows |
|---|---|---|
| `test_slots` | 6 files, called `a` (twice, in two directories), `a-1`, `1`, `_1`, and one that is not UTF-8, in every subset that the pattern may match, and 2 files of `run_all_tests`; 2 slots, 4 threads: names that collide in every way, two sleepers and late-comers at once, a loop that stops before, between and after its files | one test per file or a build that says why not; a semaphore of 2; conservation of slots, no lost wakeup; every generated test ends, and `run_all_tests` returns the truth |
| `workspace` | 20 usable bytes at alignment 4, a blob header of 8, items of 1, 2 and 8 bytes: full, exactly full and too small all occur for each builder | ranges apart, builders inside, `release` never fails its assertions, blobs aligned |
| `workspace_reserve` | the same | violated: a failed builder keeps the reservation |
| `backend_fetch` (`Pipelines`) | 3 responses, bodies of 0 to 2 bytes, buffers of 0 to 2, up to 2 processors in each pipeline: more than one response leaked or dropped, read in one or more pulls, a processor above and below one that fails, a delivery before, during and after the fetch | ownership of responses and processors, no use after free, whole bodies end to end, responses dropped |
| `vmod_priv_ref` | 2 vmods, 3 objects, nesting of 2 | violated: a nested call takes what an outer one refers to |
| `vmod` | compiled: up to 2 functions with 20 heads and 16 kinds of argument, with 3 arguments, attributes, names and results in all; called: 2 vmods, one of the `RefCell` form and one of all three, with a function for every type, two of them restricted; 2 subroutines, 3 methods, 2 objects, nesting of 2, room for 2 allocations: flags across arguments, types and names across functions; each form below each other one of the same vmod; errors before, in and after the user's function, a workspace that is full at once and halfway | accepted exactly if legal by the code's rules; casts agree; Rust, C and JSON agree, but for an event's result; no object has two owners, and one is lost, or a reference broken, in one way only; nothing runs where it may not; values unchanged, but for a probe's threshold and for text in it that is not UTF-8 |
| `vcl_state` | 2 VCLs, a filter of each kind, 4 boxes: one VCL may own both filters, data and an object, or both VCLs some of it, and each reuses what the other dropped; each filter may be refused | agreement on filters, nothing lost |
| `backend_refs` | a Rust backend, a director, a native backend and one of the VCL, 2 tasks: each kind of owner, references stored and held by tasks at once, owners dropped under all of them | exact count, freed with the last one; no fault without haste |
| `request` | bodies of 0 to 3 chunks, 3 attempts: failure at the first, a middle and the last chunk; a retry of a retry; room for 3 headers, 3 names of which two differ in case only: remove first, middle, last, all; only one of the ETags may be weak; a first line of a request and of a response | what each reader is told of the bytes it got, and the blame is right; nobody gets a byte twice; safe retries; the arrays implement the list |
| `req_body_taken` | bodies of 0 to 2 chunks, 2 attempts | violated: a backend is told `Ok(false)` of a body that client VCL read |
| `vmod_parser_events` | the compiler of `vmod`, 1 function with 2 parts | violated: an event with two `#[shared_per_vcl]` arguments is refused |
| `metrics` | a counter, a gauge and a bitmap, declared in another order than by name, in 3 segments over time at 2 addresses, 2-bit words, values from -1 to 1, bitmaps without and with the top bit: a key that comes back in the same update, a value below zero, a word that only looks like one | the map, the vectors and the values are right |

The heaps of `VmodPriv`, `VclState` and `BackendFetch`, and the addresses of
`Metrics`, are small sets. Addresses are reused, as an allocator does, but in
`BackendFetch` each response lives once, so that a double drop shows. When the
addresses are used up, an allocation is disabled: the bound of the instance.
`MaxAttempts`, `Depth`, `MaxRoom`, `MaxProcs`, `MaxFuncs` and `MaxParts` bound
retries, nesting, the room of a task's workspace, pipelines and the size of a vmod
(its arguments, and attributes and names beyond the plainest); `Bound` the values of
a counter or a gauge; the length of `Digits` the number in a test's name. `metrics` uses
symmetry in segments and addresses, `vmod` in objects; they check no liveness.

The larger runs have some 135 thousand (`test_slots`), 183 thousand (`metrics`), 185
thousand (`backend_refs`), 345 thousand (`request`), 1.3 million (`vmod`) and 2.6 million
states (`vcl_state`).

Deadlock is checked except in `req_body_taken` (a request ends), `vmod_parser_events` (the
compiler stops) and `metrics` (the reader is gone and the segments are used up). A test
binary that has finished and a build that failed stutter by `Over`, as does a request that
is over; a module that was compiled by `Compiled`.

## Fairness

Safety needs none. Two runs check liveness.

- `VtcTests!FairSpec`: weak fairness of the compilation (`Expand`), of each
  thread's steps (`RunStep`) and of the caller of `run_all_tests` (`CallerStep`). A
  compiler goes on; the operating system runs every thread, and a varnishtest process
  ends because it has a time limit.
  Nothing is assumed of the mutex or of `notify_one`: a sleeper may be passed over
  for as long as others contend. Spurious wakeups are not fair: they may never
  happen.
- `Pipelines!FairPipeSpec`: weak fairness of the steps that drive a fetch: opening
  the processors, a pull with some buffer, closing them, and finish. A worker
  thread of varnishd drives a fetch with headers to its end and calls the backend's
  finish on every path. Nothing is assumed of new fetches or of deliveries. `read`
  gives at least one byte or an end when there is room: that is the contract of
  the trait, and each response is finite in the model.

## Proofs

TLAPS, without a bound on the constants: every invariant and action property that a
passing run checks, and both refinements, are theorems. In each module the invariant of
the run is not inductive as it stands; the strengthening is `Inv` (`IInv`, `CallsInv`,
`ParserInv`, `MetricsInv`), and there are three facts: it holds at first, every step
keeps it (one step per action), it implies the property.

**`Recursion`** has what the other modules need for loops. The library's induction
theorems take an operator as a parameter, which the provers cannot instantiate, so
induction and recursion are stated here about sets and functions, which they can:
`SetInduction` and `UptoInduction` (a set that has 0 and with each number the next one
has all of them), `PrimitiveRecursion` (a function that takes the steps given by a
function of functions exists), and sums over finite sets, which may be taken in any
order (`SumOneLess`, `SumOfInterval`). A recursive function of a model is a `CHOOSE` of
its equation; the lemmas show that the equation has a solution, by recursion, and that
a solution has the values wanted, by induction.

**`TestsAndMetricsProofs`**, on the slots: for every finite set of tests, every cap and
every number of threads, `TypeOK`, `SlotConservation` and `NoLostWakeup` are invariants,
and the slots implement a semaphore (`SlotsAreASemaphore`), whatever `run_all_tests` does
meanwhile, with any files. The inductive invariant adds `DirectApart`: a file of
`run_all_tests` is never at a place of the semaphore; without it, a `Release` could be one
of a test that holds nothing. The counting is by the lemmas
about finite sets. For the refinement, `Take` is an `Enter`: conservation and a free slot
say that fewer than `Max` are inside; every other step is a `Leave` or a stutter.

On the macro: the binary that it generates is an instance of `TestSlots`
(`BinaryImplementsSlots`), so that everything above holds of it, the cap among it
(`BinaryIsCapped`). `TestsAreFiles`: in a build that succeeds, tests and matched files are
in one-to-one correspondence, for any names. `LoopInv` says what the loop has done with
the files before `next`; distinctness comes from the check of the compiler.
`OneTestForEachFile` adds when that check fails: exactly when a file is called like a
numbered test of others. It needs that the number of a name is the count of the files of
that base before it (`Numbered`), and that names of different bases meet only where one of
them has no number and ends like a number of the other (`NamesMeet`).

On the metrics, for any list of fields, segments, addresses and range of a word:
`MetricsTyped`, `MapExact`, `ClientsFollow` and `ReadersRight`. `MetricsInv` has the words
as the sums of what was added, modulo `2 * Half`, or as what was stored, for a bitmap
(`WordsRight`), live handles (`Handles`), arrays of
points that do not overlap and a map that has all of them (`Mapped`), and what the client
believes in the middle of an update: right, but for what this update has mapped and the
keys it has deleted (`Updating`). A key that is deleted and comes back in one update is in
both vectors, and the client must apply the deletions first, as the comment of `update`
says. `ReadersRight` has the arithmetic: the index that the macro counts is the offset
where `repr(C)` puts the field. Every field is one word of 8 bytes, as the macro takes
`AtomicU64` fields only. A bitmap may have any bits, and its raw value is read; a counter or
a gauge stays within half the range of a `u64` (`HalfAssumption`), beyond which the
reader could not tell it from one below zero.

**`WorkspaceProofs`**: for every arena, alignment, `u32` and builder kind, `TypeOK`,
`GivenApart`, `BuilderSafe` and `BlobsAligned` are invariants, assuming `WellUsed`:
callers do not use the workspace under a builder (`~SharedUse`), and no length
reaches the `u32`'s range. Their conjunction is inductive. The proof starts
from lemmas about `AlignUp` and `AlignDown` (multiples, order, least multiple
above), then one lemma per operation: an allocation gives out `f` to the new `f`,
above everything given before (`GiveMore`); a new builder fits because `Capacity`
is rounded down (`NewBuilderStep`); growing moves `pos` and `room` in step
(`ExtendStep`); finishing gives out the items and the suffix, which are inside the
reservation because the builder was (`FinishStep`). That blobs are aligned needs one fact
about the layout of C: no member of `struct vrt_blob` is more aligned than a pointer,
which is what the workspace is aligned to.

**`PipelinesProofs`**: for any responses, bodies, buffers and number of processors,
`PipesTypeOK`, `OwnersRight` and `DeliveredWhole`. `FetchInv` is about the response: its
box is live while the `http_conn` points to it, and the processor has no other
(`Fetching`). `PipeInv` counts the boxes: they are the delivery processors and the fetch
processors that were opened (`Owners`), it relates the stages of fetch, object and
delivery (`Storing`), and it has where the bytes are: what was fed is what the client got
and what the processors keep (`Conserved`). A push goes through any number of processors;
`PushConserves` follows it from one to the next by induction: what comes in is kept or goes
out, and the last push takes everything out.

**`VmodProofs`**, on the calls: for any vmods, forms of functions, subroutines, nesting
and workspace, re-entrant calls included, `CallsTypeOK`, `OnlyWhereAllowed` and
`ValueFaithful` are invariants of the calls, and `SoleOwner` an invariant, `LostOnlyInPut`
and `RefsLostOnlyToMut` properties of every step of the shared objects. The invariant: a
slot has methods exactly when it has an object (`Slots`), no two owners have the same
object (`Single`), and what they have is live (`Owned`). The two action properties need
it, as an object that a call drops by storing another must not be that of a slot or of
another call, and a new box must not be one that somebody refers to. They say as much as
is true: without its exception the second is what `vmod_priv_ref` refutes, and the
exception of the first is in the [observations](#observations). `Framed` ties the frames
to the calls. `ValueFaithful` speaks of the value that a call returned; the strengthening
`ArgsRight` says of each argument that is still to be used that it is what `FromVcl` made
of the value passed, and the rest is by type, as `Echoes` and `ReadsBack` are. These
compare a probe without its threshold, which `into_vcl_probe` loses, and with its text as
the code reads it (`from_utf8_lossy`).

On the parser: for any functions and arguments in any number and order, `ParserTypeOK`,
`SlotTyped` and `AcceptsLegal`. The parser decides by flags and by two stored types, the
rules (`Legal`) by counting over the whole module. `ParserInv` ties them: the flags are
the kinds of the arguments so far (`Reading`), a stored type is that of some argument
(`Stored`), the functions in the model are `Fair` and have the stored types (`Modelled`),
and where there is an error a rule is broken that nothing later can mend (`Blamed`,
`Broken`). The last is what `AcceptsLegal` needs: a refused argument may already have set
its flag or stored its type, and later ones may be refused for that; it must not be so in
a legal module. The rules are the code's: one `#[shared_per_vcl]` argument per function,
and no renamed event.

On the generated code: `AbiAgrees` for any function of an accepted module. Rust and C put
the same declarations in the same places (`RustIsC`); what the VCL compiler passes is
what the JSON has (`VccIsC`): in the same order when there are no flags (`FuncAgrees`,
from one argument to the whole by `ImageFlatten`), and as the same set of fields when
there is a struct; and whatever the body reads was declared (`ReadsAreThere`). Results
agree by the table of types, but for that of an event, which the statement leaves out. The
concatenation over the arguments is followed by induction (`FlattenIs`).

**`VclStateProofs`**: for any VCLs, filters and boxes, `TypeOK`, `FiltersAgree` and
`NothingLost`. The state of a VCL is in one place, the slot or the running call
(`InOnePlace`); the heap is what the VCLs hold, each box once (`HeapHeld`); what
varnishd knows is what the state has and was not refused, and there is one of each type
(`Registered`). `NothingLost`
speaks of sets of states and of cardinalities; the invariant speaks of the one state of
a VCL and of disjointness, which is what a step keeps.

**`BackendRefsProofs`**: for any finite sets of backends, directors and tasks, `TypeOK`,
`RefsExact` and `NoFault`, with owners dropped at any moment. `RefsExact` says nothing
once freed memory was used, so the invariant has the count without that condition
(`Counted`) and the `vcldir` with it (`Placed`), and that whatever is referred to, by the
pointer of a wrapper too, was made (`Shape`) and, while no owner was hasty, still has its
owner (`Owned`). The counting: a change of what one director stores, or of what one task
runs through, changes the cardinality by as much (`HoldersChange`, `UsersChange`).

**`RequestProofs`**, on the body: for bodies of any length and any number of attempts,
`TypeOK`, `ReadReported`, `ReadersServed` and the action property `RetryReadable`. The
strengthening relates varnishd's status to the reads there were (`Consumed`), to the
busyobj's view (`Fetching`), and to what a backend has done with the body
(`Attempted`); `RetryReadable` follows from the latter in every retry. What they say of a
body that is gone is what the code does: an error where there is a request to ask, and
`Ok(false)` in a fetch that began without one. That the documentation promises an error
there is refuted by `req_body_taken`.

On the headers: `HttpTypeOK`, and `ListImplemented`, the refinement of `HeaderList` by the
arrays, of any length. Most steps are the list's by a look at the slots (`Listing`). That
of `unset_header` is the compaction loop: `Compacted` is its invariant, from slot to slot,
and says that what it has kept is what the promise's filter keeps of the list so far
(`Filters`), that the slots from here on are untouched, and that its writing place is
behind its reading place once a header was left out.

Assumptions: those stated with the constants (`LayoutAssumption`, `KindsAssumption` and so
on), which TLC evaluates in the runs, and `WellUsed` in `WorkspaceProofs`. Most say what a
set of model values must be apart from (`NullAssumption`, `NoneAssumption`,
`AbsentAssumption`, `GoneAssumption`) or that bounds are numbers; `StemAssumption` and
`DigitsAssumption` say that names are sequences and that numbers are written differently;
`GlobbedAssumption` that a pattern finds a file once; `StoredAssumption` that a bitmap is
a word; `HeadersAssumption` that the weak form of an ETag is a header. The proofs made two
definitions more exact: in `FromVcl` and `Canonical` the case of an absent optional
argument overlapped with those of the types, and now comes first.

Model-checked only: liveness (`AllFinish`, `EventuallyDropped`), which needs fairness and
`ENABLED`, and the four runs that expect a violation.

## Observations

Four disagreements of code and text are runs that TLC refutes, and `findings` in
`PROJECT.json`:

- `WsBuffer::new` (`ws_str_buffer.rs:77`) returns an error, for want of room,
  without releasing the reservation; the next `reserve_all` fails its assertion
  (`ws.rs:69`). `workspace_reserve`.
- A reference from `get_ref` is held over the user's function
  (`gen_func.rs:272`), in which a nested call of the same vmod may `take` the
  object, which `extensions.rs:48` forbids. `vmod_priv_ref`.
- A body that was read in client VCL is reported to the backend as no body,
  `Ok(false)`, where `ctx.rs:391-393` says that the later read fails and 428 keeps
  `Ok(false)` for no body at all. `req_body_taken`.
- An event with two `#[shared_per_vcl]` arguments is refused (`parser_args.rs:176`),
  where `varnish-macros/src/lib.rs:54-55` allows any number. `vmod_parser_events`.

Others came up while modelling. The models contain the behaviour; no run is
made of them.

- `wrap_gethdrs` (`backend_main.rs:825`) leaves `priv_` of the `http_conn`
  unassigned for a response without a body, and `wrap_finish` (956-963) frees what
  it finds. `NoBody`, and `Finish` with "bad_free".
- `wrap_getip` (`backend_main.rs:919`) asserts the magic of a busyobj on an
  `http_conn`: it fails whenever it is reached. `GetIp`.
- The `put` of a mutable call (`extensions.rs:63`) overwrites what a nested call of the
  same vmod stored meanwhile, which is then dropped by nobody, where
  `varnish-macros/src/lib.rs:90-91` has every value dropped with the task. The exception
  of `LostOnlyInPut`.
- `into_vcl_probe` does not copy the threshold (`probe.rs:78-86`), which `probe.rs:46`
  documents. `Alike` compares probes without it.
- The wrapper of an event returns `VCL_INT`, which is an `i64` (`gen_func.rs:440`), where
  the line above says `int`, as `vmod_event_f` has it. `AbiAgrees` leaves it out.
- When a processor cannot be pushed (`backend_main.rs:845-869`), the boxed response
  is in no structure that `wrap_finish` will see, and is leaked. `BodyFail`.
- `run_varnish_test` and `run_all_tests` take no slot: with them the cap of
  `varnishtest.rs:12` is exceeded. `RunDirect`. A path that cannot be read ends
  `run_all_tests` between two files, and those that failed before it are not named in
  its error. `PathFails`.
- `register` ignores the error of `VRT_AddFilter` (`processor.rs:318-323`, 370-373): it
  says true, keeps the box, and finds the type registered ever after; unregistering,
  and the end of the VCL, call `VRT_RemoveFilter` with a filter that varnishd does not
  know. `AddFilter`.
- `alloc` casts the length with `as u32` (`ws.rs:127`), and `allocate` makes a slice
  of the whole length. With `U32 = 8` in `MCWorkspace.cfg`, TLC finds `GivenApart`
  violated.
- A builder does not borrow the workspace exclusively (`ws.rs:235`). With
  `SharedUse = TRUE`, `GivenApart` is violated.
- `WsBlobBuffer::finish` (`ws_str_buffer.rs:224`) leaves magic and type of the
  `vrt_blob` as the memory was. The region is called `unmarked_blob`.
- An owner dropped before a stored `BackendRef`, or under a task, leaves a `vcldir`
  without methods (`backend_main.rs:258`), or frees it between a wrapper's return and
  varnishd's assignment: `hasty`, with the faults "methods" and "vdir".
- After a writer's error, a second read in the same attempt blames the client
  (`ctx.rs:523`): `StreamBlamed` has no converse.
- `chunk_collector` (`ctx.rs:308`) makes a slice of the pointer it gets, where
  `write_body_iterate` checks it for null: a flush without data would matter.
- `weaken_etag` (`http.rs:244`) removes the header before the new one is known to
  fit: `HeaderList!Weaken` may lose it.
- `set_proto` (`http.rs:195`) changes `protover` even when the field cannot be
  changed: `HeaderList!SetField`. `unset_header` panics on a header that cannot be
  parsed, which `iter` skips.
- When init of a delivery processor returns `Err`, varnishd leaves its entry in the
  pipeline without a box, and `gen_vdp_fini` (`processor.rs:83`) asserts that there
  is one; `wrap_vfp_fini` (234) allows for it. `OpenDelivery`, with "vdp_fini".
- `InitResult::Pass` of a fetch processor is `VFP_END` (`processor.rs:194`), which
  varnishd takes for a failure to open; that of a delivery processor removes it
  from the pipeline. `OpenFetch`, `OpenDelivery`.
- `wrap_vfp_pull` leaves `*len` as it was on an error (`processor.rs:216`).
- `report_json` writes `[0, 0, healthy]` without quotes (`backend_main.rs:201-207`),
  which is not JSON.
- No code calls `VSM_Destroy` for the handle of `VSM_New` (`metrics_reader.rs`):
  `vsm = "live"` to the end, in the type invariant of `Metrics`.
- `get_clamped_value` does not look at the semantics: of a bitmap with the top bit set it
  gives 0. `Metrics` reads bitmaps by `get_raw_value`.
- An error in a field's `level` or `format` is swallowed
  (`varnish-macros/src/metrics.rs:302-320`).
- `vtc_tests.rs:99-129` makes names distinct by numbers per base, and does not compare a
  numbered name with the others: `a_1.vtc` beside two files `a.vtc` makes `vtc_a_1`
  twice, which the compiler refuses. `NamesCollide`, `FailsForNames`. Two uses of
  `run_vtc_tests!` in one Rust module collide on `_VTC_REBUILD_ANCHOR_0` as well.
- A negative, infinite or huge `VCL_DURATION` makes `Duration::from_secs_f64` panic
  (`convert.rs:199`), which aborts the worker, where a `VCL_TIME` of that kind falls
  back to the epoch. `Panic`. A `SystemTime` before the epoch can be read from VCL and
  not returned to it: `IntoVclTime`.
- `from_vcl_probe` panics on a probe with neither or both of URL and request
  (`probe.rs:103`), and replaces what is not UTF-8 in them (`probe.rs:126`): `Lossy`.
- An empty blob cannot be copied into a workspace (`ws.rs:176`): `CopyBlob`.
- `call_sub` returns `Ok(true)` also when the subroutine failed the task: `Run`.
- Names of methods are not compared with each other (`parser.rs:137`), so that two
  methods renamed to one VCL name are accepted; the name of the event function counts
  although VCL never sees it. `NamesApart`.
- A default with a suffix or in another base, such as `#[default(5i64)]`, makes the
  macro panic (`parser_args.rs:309`); the menu of `VmodParser` has plain literals.
- `varnish/src/lib.rs:327-330` lists `&[u8]`, `Option<CowProbe>`, `Option<Probe>` and
  `Option<SocketAddr>` as types of results: `OutputTy` refuses the first
  (`parser_args.rs:453-457`), and the others have no `IntoVCL`.
- `VclBackend` and `VclDirector` take `&self` in callbacks that several workers make at
  once (`backend_main.rs:148`, `director.rs:19`), and ask for neither `Send` nor `Sync`.

## Not modelled

- The match of ACLs (one call of varnishd), `StrOrBytes`, `txt`: views of a value.
- FFI validation, `VSB`, errors: checks that panic, and wrappers of one call.
- The documentation generator, the text of generated names, levels, formats and
  documentation of metrics: text.
- In the parser, the items that a vmod may not have (generics, traits, other kinds of
  item), which are refused one by one.
- `i64` and `f64` as arguments, the same number on both sides.
- The setters of `NativeBackendBuilder`, which fill a struct for varnishd.
- The examples and the vmods of the tests, users of the library. `BackendRefs` takes a
  director's use of `BackendRef`, and `Pipelines` what processors do, from them.
- varnishd and its libraries: external, as the code uses them. A definition for
  them is marked external in the `map`.
