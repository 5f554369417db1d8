# A TLA+ verification of RedBPF

RedBPF is a toolchain for eBPF programs in Rust: `redbpf` loads programs and
maps into the kernel and talks to them, `redbpf-probes` and `redbpf-macros` are
what the programs are written with, `cargo-bpf` compiles them, `bpf-sys` finds
the kernel they are compiled for, and `redbpf-tools` and the examples are
ready-made programs.  This directory holds TLA+ specifications of the parts
whose correctness depends on order, concurrency, failure or arithmetic, the TLC
configurations that check them on small instances, and proofs checked by TLAPS.

Every definition is translated from the source.  `PROJECT.json` gives the lines
each one stands for (`map`), the runs, a mutant for each property that shows
the property can fail, the hazards of the code with the properties that watch
them, the findings, and the theorems.  The kernel, libbpf, LLVM, cargo and the
async runtime are not part of the repository; they are modelled as far as the
code depends on them and marked external.

## Inventory

| Part | Source | State and operations | Module |
|---|---|---|---|
| Perf ring and stream | `redbpf/src/perf.rs`, `load/map_io.rs` | ring shared with the kernel; `PerfMap::read`, `poll_next`, `read_messages` | `PerfRing`, `EventStream`, `PerfRingProofs` |
| Loader | `load/loader.rs`, `perf.rs` (`bind`), `cpus.rs` | programs, one buffer and one task per perf map and CPU, one channel | `Loader`, `CargoProofs` |
| Program lifecycle | `redbpf/src/lib.rs`, `xdp.rs` | descriptors, attachment points, interfaces, links; load, attach, detach, Drop of nine kinds | `Programs`, `ProgramsProofs` |
| Place of a uprobe | `redbpf/src/lib.rs`, `symbols.rs` | mappings, ld.so.cache, symbols; `attach_uprobe` | `Symbols` |
| One `load` call | `redbpf/src/lib.rs` | rounds of attempts, memlock limit, verifier log | `ProgramLoad`, `LoadProofs` |
| Module, ModuleBuilder | `redbpf/src/lib.rs` | map builders, relocations, BTF; `parse`, `replace_map`, `to_module` | `ModuleBuild`, `LoadProofs` |
| BTF of an object | `redbpf/src/btf.rs` | types, shared names, data sections; `parse_elf`, `load`, `get_map_type_ids` | `BtfTypes` |
| BTF for tc | `redbpf/src/btf.rs` | type graph; `parse_raw`, `filter`, `dump` | `BtfFilter`, `CounterProofs` |
| Map and pins | `redbpf/src/lib.rs` | BPF file system, `pin`, `unpin`, `from_pin_file`, Drop | `MapPin`, `MapProofs` |
| Hash maps, iteration | `redbpf/src/lib.rs` | `set`, `delete`, `MapIter::next` | `MapIter`, `MapProofs` |
| Typed views of maps | `redbpf/src/lib.rs`, `xdp.rs`, `cpus.rs` | ten views: `new`, `get`, `set`, `delete`; per-CPU layout, possible CPUs | `TypedMaps` |
| Return probe pair | `redbpf-macros/src/lib.rs` | parameter map; entry and return probe | `RetProbe`, `MapProofs` |
| Network buffers, XDP events | `redbpf-probes/src/net.rs`, `xdp/mod.rs`, `redbpf/src/xdp.rs` | bounds, headers; `MapData` in the program and in user space | `NetBuffer`, `XdpEvent`, `NetworkProofs` |
| Port knocking | `redbpf-tools` (`knock`, `redbpf-tcp-knock`) | map of knocks shared by CPUs; the XDP probe | `Knock`, `KnockProofs` |
| iotop | `redbpf-tools` (`iotop`, `redbpf-iotop`) | three maps that follow a request; three kprobes, the display | `Iotop`, `MapProofs` |
| Counters of the example `hashmaps` | `examples` | a plain and a per-CPU map; the kprobe, the reader | `Counters`, `CounterProofs` |
| Parser of the example `p0f` | `examples` | position in the options of TCP; one action per option | `P0f`, `NetworkProofs` |
| Server of the example `echo` | `examples` | sockmap, index map, tasks, channel; the verdict program | `Echo`, `NetworkProofs` |
| cargo-bpf | `cargo-bpf/src/new.rs`, `new_program.rs`, `build.rs`, `llvm.rs` | files of a package; `new`, `add`, `build` | `CargoBuild`, `CargoProofs` |
| Generated bindings | `redbpf-probes/build.rs`, `bpf-sys/src/headers.rs`, `type_gen.rs` | environment, trees of headers, two files; the build script | `Bindings` |

How the parts interact: `CargoBuild` makes ELF objects, compiled against the
files of `Bindings`, and applies `BtfFilter` to the ones meant for `tc`.
`BtfTypes` and `ModuleBuild` turn an object into BTF, maps and programs;
`ProgramLoad` and `Programs` take the programs through their life, and
`Symbols` finds where uprobes go.  `Loader` puts these together and starts one
stream per buffer; it relies on what `EventStream` promises of a stream, and
`PerfRing` is shown to implement `EventStream`.  `MapPin` shares maps between
processes; `MapIter` and `TypedMaps` are how a user reads and writes them, and
`RetProbe`, `Counters`, `Iotop`, `Knock` and `Echo` are BPF programs at the
other end.  `NetBuffer` is what `XdpEvent` and `P0f` look at packets with.

A run covers a group of components that belong together.  Where components
share no state, its MC module gives each behaviour one `part`: the others rest
in one initial state, so that the states add up and do not multiply.

## The modules and their runs

In each module one action is one access to state that others can change: a
system call, a load or store of shared memory, or the handler as a whole where
nobody else can see its intermediate states.  Every step of the code that can
fail has a failing alternative.

### `perf_ring`: PerfRing, EventStream

The kernel writes records into a ring that user space has mapped and publishes
them by storing `data_head`; `PerfMap::read` copies the next record out, stores
`data_tail`, and looks at the type of the record.  One action for each access
of `read` to shared memory (`ReadLoad`, `ReadCopy`, `ReadRelease`, `ReadType`),
the kernel (`KernelOutput`, `KernelPublish`), the runtime (`EpollNotify`,
`DriverShutdown`) and the stream task (`PollReady`, `PollError`, `SendBatch`).
Memory is counted in cells of eight bytes, the alignment of records and the
size of a header; a cell is abstracted to the record and offset it belongs to,
so a torn or misplaced copy is visible.

Eight cells, samples of 2 and 5 cells, four samples: the ring wraps, fills,
drops twice in a row and is lapped.  Copies are whole (`CopyIsWholeRecord`),
delivery is in order and once, and every sample is delivered, reported lost or
about to be (`DeliveredInOrder`); the system implements `EventStream`.  No
wakeup is lost although readiness is cleared before the records are read, and a
stream whose receiver is gone ends at its next record (`StreamProgress`).

`perf_ring_consumed` (violation): the type is read after the space was
released, so a kernel that has lapped the reader can end the batch early.

### `loader`: Loader

`Loader::load`: programs one by one, the list of online CPUs, `PerfMap::bind`
and a task for every perf map and CPU, then events flow and `Loaded` is dropped
field by field.  CPUs go on- and offline between all steps.  Two maps, two CPUs,
one map with fewer entries than CPUs, two events per buffer: the events of a
buffer arrive in order, none is lost between buffer and owner, an error leaves
no program and no buffer (`NothingLostOrLeft`), and each event is received
while `Loaded` is there (`AllReceived`).

### `programs`: Programs, Symbols

`Programs`: the descriptor table (lowest free number first, as the kernel does,
and limited), XDP slots per interface and mode, the sockmap, and for each
program what its Rust value records.  Other code of the process opens and
closes descriptors, interfaces come and go, and every system call may fail.
`OwnedFdsRight`: a recorded descriptor is open and still the one that was
opened, so no Drop closes a stranger's, and nothing but the event of a
tracepoint outlives its program.  `DetachComplete`: a detach that reports
success has detached.  The initial state picks one of three modules (probes;
links and sockets; two XDP programs on a native and a generic interface),
because the kinds share only the descriptor table, which has four entries.  XDP
programs are attached with default flags; UPDATE_IF_NOEXIST only adds reasons
to fail.

`Symbols`: the three steps of `attach_uprobe` (find the file, read the symbol,
open the event) while packages are upgraded and ld.so.cache is renewed or not.
Names of libraries are sequences of parts, so that `libc` is a prefix of
`libcrypto` here as well.  A version of a library has its symbols, each defined
or imported, and the distance (`bias`) between addresses and offsets of its
code; four versions, one upgrade, two calls.  `ProbeAtFunction`: the probe is at
the function that was asked for, in a library of that name, and with a pid in
one that the process has mapped.  Three exceptions are named: the path got
another file between the read and the open, the addresses of the code are not
its offsets in the file, or the first symbol of the name is not defined there.

`programs_xdp_mode` (violation): detaching uses other flags than attaching, so
a program attached in SKB mode stays on a native interface.

### `maps`: MapPin, MapIter, TypedMaps

`MapPin`: processes that share a BPF file system and may be killed between any
two system calls; `pin` checks before it pins, `from_pin_file` opens before it
asks for the definition.  Two processes with two Map values each, two paths, two
maps: a remembered path holds the map unless another Map removed the file
(`PinFileTrue`); no step replaces a pinned map; files disappear by `unpin` only.

`MapIter`: `next` is two system calls; the map changes before, between and
after.  The kernel walks the buckets in order, and each from its head, where it
also puts what is inserted or, except in per-CPU maps, updated.  Four keys in
two buckets, room for three, with and without LRU eviction and per-CPU values:
when the kernel has no further key, every entry that was there all the time and
was not replaced has been returned, even if the iterator was thrown back to the
first key; repetitions need a deletion, an eviction or an update of the entry
the iterator stands on (`StableReturned`); the iteration ends once the map is
left alone (`IterationEnds`).

`TypedMaps`: ten views over maps of eleven definitions, with the checks of each
`new`, the buffers of each call and the layout the kernel gives them.  Per-CPU
values are copied one CPU at a time while programs read, write and insert, and
an element of a deleted key is used again.  `PerCpuExact`: the i-th value of a
`get` is one the i-th possible CPU had during the call, a `set` reaches every
possible CPU, and the kernel stays inside the buffers.  The possible CPUs
(`{0, 2}` and `{1, 2}`) are read from the text of the kernel by
`list_from_string`; values of 4, 8 and 12 bytes meet the rounding to 8.

### `module`: BtfTypes, BtfFilter, ModuleBuild, ProgramLoad

`BtfTypes`: the type section is a sequence of words, read type by type; names
are rewritten in the string table, which types share, and sections, symbols and
maps are looked up by name afterwards.  `NamesFixed`: the kernel accepts every
name.  `LookupsRight`: the kernel gets the types as they were, and everything is
found by the name it has in the source.  The objects have a type of any kind in
front of the types that describe a map, with names that need fixing in every
way; a name shared by two types is one that the compiler may share.

`BtfFilter`: the graph of types, with cycles, repeated references and void.
`filter` walks it with a stack, renumbers what is left and moves the freed
bytes to the strings; `dump` checks all lengths again.  The order in which
referrers are visited is left open, which covers the order the code has.  Every
section of up to three types of eight kinds: exactly the types that need a
rejected one are removed (`RemovesExactly`), each reference leads to the type it
led to before and the section keeps its size (`SameGraph`), the walk ends
(`WalkEnds`), and "inconsistency detected in BTF" does not occur
(`NeverInconsistent`).  Three types suffice for cycles, chains that end in a
rejected type and types reached twice.

`ModuleBuild`: `parse` section by section, `replace_map` in between,
`to_module`: BTF, maps, relocation.  An object is its sections, symbols and
relocations; seven objects cover both map styles (`maps/<name>` and `maps`),
section data, shared values of symbols, references to functions and undefined
symbols, and iterators, with six descriptors.
`RelocatedRight`: each map reference of a built program is the descriptor of the
map its symbol denotes, with the offset for section data; a symbol of another
section gets the map in the section `maps` that has its value, if there is one.
`NoDescriptorLost`:
no descriptor is lost or closed early on any path.

`ProgramLoad`: one `load` call, attempt by attempt; `Programs` uses it as one
step, since nothing else looks at the program meanwhile.  It returns
(`LoadCallReturns`), holds at most one descriptor, and fails only for a reason:
neither the low memory limit nor the size of the verifier's log decides
(`LoadOutcome`).  Logs of up to 4 buffer units and one transient failure per
call.

`btf_kinds` (violation): a type of a kind that is newer than the table makes
the parser panic where an error is intended.

### `network`: Knock, NetBuffer, XdpEvent, P0f, Echo

`Knock`: the XDP probe on several CPUs, one action per access to a map or to the
value `get_mut` points to.  `set` for a key that exists replaces the element, as
the kernel's preallocated hash table does, and pointers to the old one stay in
use.  Two CPUs, three sources, two ports, four packets, room for two sources.
`ParallelRight`: a source is allowed only after it knocked on all ports, what
passes to the target port was allowed unless the map has no room for it, and
the index stays inside the array.  With three CPUs an element may be given to
another source while an old pointer to it is in use; the sources it happens to
are in `mixed` and excepted, and the property says that two CPUs cannot reach
that.  Before user space has stored the sequence everything passes, and the
property is about what passes afterwards.  `SerialRight`: a source whose packets
do not overlap gets exactly the rounds the probe promises and one notification.
Which free element the kernel takes for a new source makes no difference to the
properties, so the model fixes one.

`NetBuffer`, `XdpEvent`: packets that end before, at and after the end of each
header, with header lengths that fit and that do not; the program calls the
functions in any order.  `PointersInside`: what it gets is inside the packet.
`PayloadRight`: the payload that user space finds in the event is the data the
program sent, for every type of event with an alignment of at most 8.

`P0f`: one action per option, each with the bytes it reads.  Packets end
anywhere in and after the options.  `ParserInside`: reads are inside the packet
and the array of options does not overflow.  `p0f_optbad` (violation): options
that are well formed and end with the packet get the quirk OPT_BAD.

`Echo`: clients connect, send, half-close, reset and come back from the same
address; the main loop and the tasks interleave at their awaits.  Three
connections from up to three addresses, maps with room for two.
`EchoesToSender`: what a client sends goes to that client only, and a
registered socket has its index, but for the two cases the property names (a
Delete that is handled after the address came back, a full `idx_map`).
Connections and addresses are interchangeable, so one initial assignment stands
for all that share addresses alike.

### `probes`: RetProbe, Counters, Iotop

`RetProbe`: the entry probe stores the parameters of a call under the id of the
thread, the return probe copies them and deletes the entry (two actions).
Threads recurse, die inside the function, and compete for room in the map; the
idle tasks of the CPUs all have the id 0; the two probes are attached in any
order; the kernel may miss the return of a call.  A thread and two idle tasks,
of which two are inside at once, depth two, room for one entry: the handler gets
the parameters of the call that returns, unless the kernel missed a return since
the thread entered the function or two idle tasks were inside at once
(`ParmsOriginal`), and is left out only for calls that could not be stored, that
had another call on top, or that shared their id (`SkippedForReason`).
Parameters and idle tasks are interchangeable, so TLC treats them as symmetric.

`Counters`: increments as loads and stores, insertion by two CPUs at once,
elements used again.  `CountsRight`: the per-CPU counts are exact and always
found; the plain ones lose calls and are never above the exact ones unless an
element was used again under a probe.  Two CPUs, two sizes, five calls.

`Iotop`: request addresses are used again, probes are skipped, maps are full,
and `counts.set` for an entry that another CPU has made replaces its element
under the pointers to it.  `IotopNeverOvercounts`: a request is charged to its
own process or to none, and no process is shown with more requests than it was
charged for, unless an element was put to use again under a pointer
(`recycled`), for which it takes three CPUs.  Two CPUs, two requests, two
processes, room for one request and two counters, three completions.

### `cargo`: CargoBuild, Bindings

`CargoBuild`: the commands as sequences of changes of files, each of which may
fail or be the last; the sources are edited meanwhile.  A file is what it was
made of; a file that is written is created or truncated first, and a command
that stops then leaves part of it.  The scan of map accesses in `llvm.rs` is one
step per instruction.  `BuildResultTrue`: Ok means that every program has an
object at least as new as the sources when the build began, and an error leaves
no old object of the program it names.  `ElfsSound`: the scan refuses exactly the
bitcode in which a lookup follows a record of `get` or `get_mut`, with no other
record or lookup in between, on a map whose values are aligned to more than 8
bytes; an object is whole and not of such bitcode, and tc objects are fixed if
their sections could be read.  `AddsConsistent`: as long as no command stopped,
the library compiles after each; and those that stopped leave no source file
whose module `lib.rs` does not name, nor one without its target unless they were
writing `Cargo.toml`.  Three programs, one with a name that is no identifier, the
other two interchangeable (symmetry); one edit; one `new` or `add` that stops
before another `add`, and any number after.

`Bindings`: the build script over environments (four variables), trees of
headers and failures of every step, run again after a failure.
`BindingsRight`: success means two whole files from one kernel, the one that the
environment names, with the helpers numbered as the kernel numbers them.

## Fairness

Only where a property needs it, and only for what the code or its runtime
keeps doing.  `PerfRing`: the kernel finishes an output it began, and the
runtime polls its driver and its ready tasks.  `Loader`: each spawned task and
the receiving loop run on.  `MapIter`, `ProgramLoad`, `BtfFilter`: a sequential
function runs on.  Never assumed: that events are emitted, that a caller makes
another call, that a map stops changing (the property says so instead).

Deadlock is not checked where the system may rightly stop: a module that is
loaded, an iteration at its end, a packet that has passed, a bounded number of
calls.  `cargo` checks it: a command that is running can always go on or stop.

## Proofs

TLAPS proves the following for every value of the constants that satisfies the
named ASSUMEs of the modules, which TLC evaluates in the runs.  A property that
appears here is the definition that the run checks.  Few of them are inductive;
each entry says what the invariant adds and why.

`PerfRingProofs` (any ring size, sample sizes, number of samples)

* `TypeCorrect`, `RingSound`, `CopyCorrect`: `TypeOK`, `RingInv`,
  `CopyIsWholeRecord`.  The invariant says where `read` stands between its
  steps: the copy is of record `rd` as long as its space is not released.  The
  arithmetic of positions modulo the ring size is in lemmas of its own.
* `DeliveryCorrect`: `DeliveredInOrder`.  `HeaderInv` says that the header of the
  released record is in its cell or that the kernel has come round to it;
  `CountInv` compares the records with the samples emitted when each was
  written (`upto`), so that no sum over records is needed.
* `StreamImplemented`: the system implements `EventStream` under the mapping of
  `PerfRing`; each step is a step of the stream or leaves it as it is.

`LoadProofs` (any objects, sections, symbols, relocations, maps, descriptors)

* `BuildKeepsDescriptors`: `NoDescriptorLost` of `ModuleBuild`.  The invariant says
  who owns the open descriptors in each phase, and that no descriptor has two
  owners one of which may close it.
* `RelocationsRight`: `RelocatedRight` of `ModuleBuild`.  The invariant says that
  every map builder is for the map of its key, that what `replace_map` puts in
  keeps it so, that the values of symbols lead to the maps those symbols
  denote, and (`Covered`) that each section of a map or of data that was parsed
  has a builder or a map, so that a lookup by section does not fall through to
  the one by value.  One hypothesis says where the code relies on its input,
  evaluated by TLC for the objects of the run: `NewMapsFit`, because
  `replace_map` compares definitions only.
* `LoadFailsForReason`: `LoadOutcome` of `ProgramLoad`.  The invariant says which
  round of attempts can be reached with and without a reason to fail.

`ProgramsProofs` (any modules, programs, interfaces, descriptors)

* `DescriptorsOwned`: `OwnedFdsRight`.  Every open descriptor has an owner, and
  what a program records is of the type it opened, refers to that program and is
  recorded once.
* `DetachTakesOut`: `DetachComplete`, if interfaces are attached to in the default
  mode (with other flags it fails, see `programs_xdp_mode`).  The invariant says
  which program sits in which slot, and that each event which runs a program is
  recorded by it.

`MapProofs` (any processes, paths, maps, threads, keys, requests, sizes)

* `TypeCorrect`, `PinFileCorrect`, `NeverReplaces`, `OutliveMaps`: `TypeOK`,
  `PinFileTrue`, and the action properties `PinNeverReplaces` and
  `PinsOutliveMaps` of `MapPin`.  The invariant says what holds inside `pin` and
  `from_pin_file`: the file opened still holds the map, or it is known to be
  removed.
* `IterationComplete`: `StableReturned` of `MapIter`.  The order of the kernel's
  walk is a total order of the keys that respects the buckets (`Walk`); of the
  buckets before the iterator's own, all that was there all the time has been
  returned (`Standing`), and as long as no entry was taken from under it, what
  was returned is behind it, also when it is stored again (`Behind`).
* `ParmsCorrect`, `SkipsForReason`: `ParmsOriginal`, `SkippedForReason` of
  `RetProbe`.  The invariant looks at the innermost call of each thread, and
  needs that, as long as no return was missed, a call on top of one whose return
  is seen is seen as well (`Matches`), and that two threads with one id are not
  inside at once unless the id is in `crossed` (`Alone`).
* `NeverOvercounts`: `IotopNeverOvercounts`.  The invariant also bounds what a probe
  has read and not stored yet, says that the entry of a request is that of its
  own process while the request lives, and that an element is that of one
  process or the extra one of one CPU.  `Pairs` says what would have to be the
  case for two CPUs to use an element again under a pointer, and that it is not.

`CounterProofs` (any finite set of CPUs, any sizes; any BTF sections)

* `CountsCorrect`: `CountsRight`.  A probe that was counted exactly and has not
  reached the plain map yet makes the plain count smaller by one (`Behind`), so
  the bound survives lost updates.  Both counts are sums over the CPUs.  The
  lemmas about sums do not use induction: a least set for which one failed would
  give a smaller one.
* `FilterTypeCorrect`, `NoInconsistency`, `ExactRemoval`: `FilterTypeOK`,
  `NeverInconsistent`, `RemovesExactly` of `BtfFilter` (any sections and kinds).
  During the walk a type may be left that refers to a removed one; it is then
  still on the stack, and no type that could stay is removed or on the stack.
* `GraphKept`: `SameGraph` of `BtfFilter`, if the references of a section lead to
  its types or to void (`RefsInside`, evaluated by TLC for the sections of the
  run).  The lemmas count: the place of an id among those that are left is the
  number of smaller ones, so the new id of a type is its new position.  The
  invariant adds that the lengths in the header are those of the types at hand.
  The length of a sequence of types is a recursive function; that it is a number
  follows from the least prefix for which it is not.

`KnockProofs` (any sources, packets, ports, sequence, size of the map)

* `ElementsApart` (any number of CPUs): an element of the map belongs to one
  source or is the spare of one CPU, and the index stays inside the array.
* `SerialKnocks` (any number of CPUs): `SerialRight`.  While the packets of a
  source do not overlap, its element holds the knocks of the round, up to what
  the packet under way has still to write.
* `ParallelKnocks` (any number of CPUs): `ParallelRight`.  When an element is
  replaced under a pointer, it becomes the spare of the CPU that replaced it.
  `Mixes` says that a CPU shares the element it points to with no other source
  unless both are in `mixed`; so the element of any other source holds only ports
  that source knocked on (`Mine`).  `Pairs` says that of two CPUs one that is
  about to replace an element will not use the one the other points to, so that
  `mixed` stays empty; a third CPU makes it possible.

`NetworkProofs` (any packets, option lengths, connections, addresses, sizes)

* `GotInside`, `PayloadCorrect`: `PointersInside`, `PayloadRight` of `XdpEvent`.
  First the lemmas about `NetworkBuffer`: whatever lengths a packet claims, what
  `ptr_at`, `ip`, `transport` and `data` point to is inside it.  The payload
  rests on the lemma that `MapData` has no padding after its field `size` if T
  is aligned to at most 8 bytes; sizes are natural numbers, alignments powers of
  two up to 16.
* `ReadsInside`: `ParserInside` of `P0f`.  While options are read, their end is
  inside the packet and the position is not before their start; that the option
  in front of the position fits is checked by each action itself.
* `EchoCorrect`: `EchoesToSender`, if the value for "no connection" is not a
  connection.  The invariant orders the connections of one address: those that
  wait come after those that were accepted, and all but the last are over; an
  index belongs to one connection for good; the sockmap holds only connections
  that live, at their index; the channel only closed ones.

`CargoProofs` (any programs, names, bitcode, edits, commands, failures)

* `BuildsTellTheTruth`, `AddsAgree`: `BuildResultTrue`, `AddsConsistent`.  The
  programs in front of those that are left have an object of this build, and
  the one that is compiled has none if the old directory was removed.  For `add`
  the invariant is about the targets in `Cargo.toml`, or those about to be
  written to it (`Targets`): as long as no command stopped, `lib.rs` names their
  modules in the same order (`InStep`), and a program with a source file has its
  module and is a target, or was lost when `Cargo.toml` was cut off.
* `ElfsChecked`: `ElfsSound`, for any functions and instructions.  While the scan
  goes on (`Scanned`), the maps it has found are those that the instructions read
  so far refer to, and the method it remembers is that of the last record with no
  lookup since (`Pending`).
* `StreamsDeliver`: `NothingLostOrLeft` of `Loader` (any CPUs, maps, events).  For
  each buffer, what was received, what is in the channel, what its task holds and
  what is in the ring are, in this order, the events emitted; and nothing is
  bound or spawned before the last step that can fail.

TLAPS 1.4.5 tells its SMT solver that the length of anything is at least 0, which
is true of sequences only.  The SMT leaves of the modules were solved again
without that axiom.

Only model-checked:

* liveness (`StreamProgress`, `AllReceived`, `IterationEnds`, `WalkEnds`,
  `LoadCallReturns`), which needs fairness;
* properties of what recursive or folded definitions compute, which needs
  induction over data: `PerCpuExact` (list of CPUs, layout of the values),
  `NamesFixed` and `LookupsRight` (words of types, characters of names),
  `ProbeAtFunction` (prefixes of names, search in ld.so.cache) and `BindingsRight`
  (numbering of the helpers).

## Where the code promises less than it says

Four places are runs with a finding (`perf_ring_consumed`, `programs_xdp_mode`,
`btf_kinds`, `p0f_optbad`).  The other properties are stated as far as they
hold, and these are the limits met while stating them:

* `MapIter::next` ends the iteration when its entry is deleted between its two
  system calls, with entries left (`StableReturned` leaves that case out).  An
  entry that is updated during the iteration may move behind the iterator and be
  left out, although it is in the map all the time (`stable` does without it).
* `detach_xdp` and Drop empty the slot of an interface without looking whose
  program is in it.
* `attach_uprobe` reads the symbol in one file and attaches to whatever is at
  the path a moment later (`moved`).  It passes the value of the symbol, an
  address, where the kernel expects an offset in the file, and takes the first
  symbol of the name, also one that the file only imports.
* `apply_with_symmap` looks for the value of any symbol in the section `maps`,
  also for that of a function or an undefined one (`Denotes`).
* `replace_map` does not look at maps of a section `maps`, does not compare
  sizes for section data, and lets a map that was replaced once be replaced by
  one that is not for section data (the maps given to `replace_map` in the run
  do not contain such a pair).
* `unpin` removes what is at the path, whichever map it is (`PinFileTrue` says
  when it is the own one); `from_pin_file` keeps a descriptor open when it
  cannot read the definition (`leaked`).
* `StackTrace` and `SockMap` accept a map of any type and size, and `HashMap`
  accepts a perf event array.
* `fix_btf_identifier` replaces characters and not bytes: a name with a
  character of several bytes becomes shorter, and the old end stays in the table
  (`NamesFixed` leaves such names out).
* `Loader` has no buffer for a CPU that comes online after `load`, or beyond
  `max_entries` (`missed`).
* The knock probe keeps its promises for packets that do not overlap in time;
  with a full map a packet passes, and so does everything until the sequence is
  stored.  On three CPUs the knocks of two sources may get mixed (`mixed`), and
  in iotop the counts of two processes (`recycled`).
* A return probe may hand out the parameters of another call when the idle tasks
  of two CPUs are inside the function at once (`crossed`).
* `MapData<T>` in user space misses the payload if T is aligned to 16 bytes,
  because the struct in the program then has padding behind `size`.
* The echo server forgets the new index when the Delete of an old connection
  from the same address arrives late, and a task that panics on a reset never
  sends its Delete (`unindexed`).
* The build script ignores a KERNEL_SOURCE in which it finds no headers and
  takes those of the running kernel or of KERNEL_VERSION.  With DOCS_RS it sets
  KERNEL_SOURCE to the last of the trees in the order of their names, which need
  not be the newest; the environment that `BindingsRight` speaks of is the one
  after that.
* `cargo bpf add a-b` declares the module `a_b` in `lib.rs` and makes the
  directory `src/a-b`, so the library does not compile (`AddsConsistent` is
  about names that are identifiers).
* `cargo bpf add` rewrites `Cargo.toml` in place: when it is cut off, the targets
  of other programs may go as well (`lost`), or the manifest cannot be read any
  more.  Part of a line in `lib.rs` spoils the next one.
* The scan of map accesses goes by the order of instructions and by debug
  information: a `get` whose record rustc has dropped or moved is not seen.  A
  failure to read the sections of the bitcode counts as "no tc program", and the
  object is not fixed (`unread`).

## Abstractions and what is not covered

* Memory is sequentially consistent, which is what x86-64 gives the loads and
  stores of `PerfRing`; weaker machines are listed as a hazard.
* Names, paths, instructions, packets and payloads are members of small sets.
  Truncation of names by the kernel is left out.
* Interfaces vanish and appear, they are not renamed.
* `Knock` models SYN packets only; all others pass and touch nothing.  That
  the target port is not one of the knocks, and that none of the ports is the
  reserved port 0 (what a new element is filled with), are assumptions which
  `parse_opts` does not enforce.
* `BtfFilter` abstracts strings to their length and the header to the three
  lengths that change.  In `BtfTypes` strings do not overlap, as LLVM writes
  them, and the run leaves out objects in which a type that must be named by an
  identifier shares an odd name with a section.
* `Echo`: a client address has one live connection at a time, as TCP has it for
  the address and port the maps are keyed by.
* `Iotop` keeps the count of a Counter; bytes and time are added in the same
  way.
* `CargoBuild` keeps of the bitcode the instructions that `llvm.rs` looks for, the
  sections and the relocations.  What rustc, LLVM and bindgen make is external.
  Nobody repairs a package by hand; a target that was cut off is there or not.

## Not modelled

* Wrappers without state: `helpers.rs`, `registers.rs`, `socket.rs`,
  `socket_filter`, iterator contexts, the prelude modules.  Each forwards to one
  helper of the kernel or reads one field.
* Declarations and generated code: `error.rs`, `sys/`, `bindings.rs`, the
  templates of `cargo bpf new`.
* Text: `accessors.rs`, `bindgen.rs`, `build_c.rs`, `uname.rs`, the C dump of
  `type_gen.rs`, argument parsing and output of all commands and tools.  They
  map text to text, and no state depends on their order.
* Attribute macros other than the return probes and `xdp`: they put an item
  into a section.
* The other examples: each stores into one map or sends one event, as the
  programs above do.
