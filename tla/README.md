# OZONE3_64: a verification project

OZONE3_64 is a 64-bit hobby kernel for one CPU, written in C++ and assembly. It boots through
multiboot, loads ELF modules as processes, schedules processes by time slices and offers them
processes, semaphores, joins, signals, shared memory and drivers through `int 0x80` and `int
0x81`. This directory models its core in TLA+, checks it with TLC and proves theorems about it
with TLAPS. Paths below are relative to the repository.

## Inventory

The kernel is entered only through interrupt gates (`src/interrupt.cpp:126-165`), so a handler
runs with interrupts disabled from its first instruction to `iret`. Each handler is
`save_state()`, its own work, `load_state()`; the last runs `scheduler()` and returns the
context of the process to continue. A handler is therefore atomic, and the concurrency of the
system is that of the programs, between whose calls the clock and the devices may interrupt.

| component | state | operations | hard behaviour | must hold | here |
|---|---|---|---|---|---|
| process manager (`src/multitasking.cpp`) | `process_array`, `process_count`, `execution_index`, `ready_queue`, one `next` pointer per process | `create_process`, `fork`, `exit`, `kill`, `join`, `destroy_process`, `abort`, `scheduler`, `next`, `drop` | one link shared by all lists; recursive destruction; slots used again | a process is in one list; a family dies together; joins end; ready processes run | `Multitasking` |
| semaphores (same file) | `semaphore_array` | create, acquire, release, destruction with the creator | waiters that die | a negative count is the number of waiters | `Multitasking` |
| clock (`src/clock.cpp`) | `timer_list`, `scheduler_timer_ticks` | `callback`, `add_timer`, `clean_timer_list` | a list of differences, edited in the middle | each sleeper wakes after the ticks it asked for | `TimerList`, `Sleepers` |
| system calls (`src/syscalls.cpp`, `lib/ozone.*`) | none | the dispatch of 18 + 3 calls | caller's context is read after the work | refused calls change nothing | guards of the other modules |
| signals (`src/multitasking.cpp:253-385`) | handlers and a saved context per process | `signal`, `set_signal_handler`, `return_from_signal` | a signal during a blocking call or a handler; slots used again | a program resumes where it was; a handler is its process's own; a join returns its value | `Signals` |
| shared memory (`src/multitasking.cpp:387-543`) | `shm_array`, a history per process, a list of frames | get, attach, detach, wait and destroy | owners, users and waiters that die; the last user's detach | users counted; frames freed once; waiters woken | `SharedMemory` |
| drivers (`src/interrupt.cpp:195-286`) | `io_descriptor_array` | `set_driver`, `wait_for_interrupt`, `driver_call`, `irq_handler` | irqs before the driver is ready again; user programs that start code at system level | a driver is queued once per irq; no irq of a waiting driver is lost | `Drivers` |
| APIC / 8259 (`src/apic.cpp`, `src/8259.s`) | controller registers | mask, route, `send_EOI` | which interrupt an EOI ends | the irq that a driver ends is its own | the 8259 pair in `Drivers` |
| page frames (`src/paging.cpp:48-183`) | free list, `free_frames` | `frame_alloc`, `free_frame`, `table_alloc` | exhaustion, double free, one word used for two things | a frame is free or has one user | `Paging` |
| page tables (`src/include/paging.h`, `src/paging.cpp`) | tries of tables | `map`, `unmap`, `destroy_paging_trie` | counts of entries kept by hand; tables that are shared; rights of the levels | tables say what the histories say; one address space per process | `Paging`, `ProcessMemory`, `AddressSpaces` |
| module loader (`src/modules.cpp`) | none | `load_module` | one offset for memory and file; failure in the middle | a process sees its module | `ProcessMemory` |
| heap (`src/heap.cpp`) | ordered list of free blocks | `malloc`, `free` | split and merge | zones tile the heap, free zones never touch | `Allocator`, `Heap` |
| keyboard driver (`build_module/.../ps2_keyboard.cpp`) | ring of 1024 characters, two semaphores, the keys held down | the driver loop, `get_char` | readers and driver interleave; the port that brings keys brings answers | no character lost, doubled or misread; the driver comes back to its loop | `Keyboard` |
| printing (`src/printing.cpp`) | cursor, saved cursor, colors, screen | `printf`, `vsnprintf`, `kprint`, `parse_ansi` | a test for room per conversion; counters of 8 bits; numbers read twice | texts mean what their formats mean; the cursor stays on the screen; `printf` returns | `Printing` |
| boot, kernel processes | `startup_done` | `kmain`, `kernel::init` | start of multitasking | | `Init`, `EnterMultitasking`, `Boot` |
| strings, memory, math, ACPI, PCI, debug, user modules | tables | pure helpers and I/O | | | not modelled |

`PROJECT.json` lists every component with its status and every hazard with its line and the
properties that watch it.

Interactions: the process manager is called by the system calls, by the irq handler and by
processor exceptions; the clock calls `add_ready` and `drop` of the process manager, and the
process manager calls `clean_timer_list`; semaphores, shared memory and joins queue processes
through the same `add_to_list` and `pop_from_list`; `driver_call` forks the driver process in
the caller's name. A process takes frames when it is created, forked, loaded, or faults on its
stack, and gives them back in `destroy_process`. The keyboard driver is a process on top of all
this: it waits for its irq, shares memory with the children that `driver_call` makes of it, and
uses two semaphores.

## Modules

* `ProcessLists` - the operations on lists of processes. A list is a head, a tail and the `next`
  fields of the descriptors; while no process is in two lists this is a sequence of ids, and is
  written so. `AddToList` is `add_to_list` (which skips a process that is not present),
  `Survivors` is `remove_not_present`. The property `OnePlace` is what makes the abstraction
  legitimate: the model stops with status `"undefined"` at the step that would link a process
  twice.
* `TimerList` - `add_timer`, the head decrement and the due prefix of `callback`, and
  `clean_timer_list`, over sequences of `[id, ticks]`. Ticks are unsigned and wrap at
  `TICK_MODULUS`, which stands for 2^64.
* `Sleepers` - the abstract specification of sleeping: one countdown per process.
* `Multitasking` - the process manager, semaphores and clock composed.
* `Drivers` - extends `Multitasking` with drivers, their interrupts and the 8259 controllers.
* `Signals` - extends `Multitasking` with signal handlers, contexts and the values of joins.
* `SharedMemory` - shared memories, with the free list of frames they take from and the deaths
  of the processes that own, use or wait for them.
* `Paging` - operators on the physical memory: frames, tables, `map`, `unmap`, tries,
  translation.
* `ProcessMemory` - extends `Paging` with what uses it: boot and the module loader, `fork`, page
  faults, `destroy_process`.
* `AddressSpaces` - the abstract specification of page tables: who sees which frame at which
  page.
* `Allocator` - the abstract specification of a heap: disjoint blocks, and refusal only for lack
  of room.
* `Heap` - `src/heap.cpp`: `malloc`, aligned `malloc`, `free`; implements `Allocator`.
* `Keyboard` - the keyboard driver, its device, and the readers of its ring buffer.
* `Printing` - `printf()` with its conversions, the cursor and the escape sequences.
* `MCMultitasking`, `MCDrivers`, `MCSignals`, `MCSharedMemory`, `MCProcessMemory`, `MCPrinting` -
  values and symmetries for TLC that a `.cfg` cannot write.
* `ProcessListsProofs` - facts about the list operators, for lists of any length.
* `MultitaskingProofs` - the theorems about `Multitasking`: first about processes, types, the timer
  list and semaphores, then about the lists and the implementation of `Sleepers`.
* `CompositionProofs` - the theorems about `Signals` and `Drivers`, which extend `Multitasking`.
* `SharedMemoryProofs`, `HeapProofs`, `KeyboardProofs` - the theorems about the modules they are
  named for.
* `PagingProofs` - what `map`, `unmap` and the other loops on page tables do, as lemmas;
  `ProcessMemoryProofs` - the theorems about `ProcessMemory`, by these lemmas.

### Multitasking: state and actions

| variable | code |
|---|---|
| `present`, `father_id`, `level` | the fields of `process_array` |
| `waiting[p]` | `process_array[p].waiting_head`, the processes that joined `p` |
| `process_count`, `execution_index`, `ready_queue`, `scheduler_timer_ticks`, `timer_list`, `semaphore_array` | the variables of those names |
| `status` | `"panic"` after `panic()`; `"undefined"` after a step that dereferences null, reads or writes past an array, resumes a dead process or links a process twice |

`Schedule(queue, ticks)` is `scheduler()` with `next()`, run at the end of every handler;
`Drop(queue)` is `drop()`. Both read `present'`, since `destroy_process()` has run by then. The
argument is the ready queue that the handler's own work leaves. `Destroy(id)` is
`destroy_process(id)`: the recursion over the children is the least set closed under children
(`Family`), the semaphores of `execution_index` are closed and their waiters made ready, then
every list is purged of the dead. `Kill`, `Exit` and `Abort` are its callers, and differ in what
happens to those that joined the dead process.

The actions are the handlers: `Sleep`, `Exit`, `Fault`, `Fork`, `Join`, `Signal`,
`CreateSemaphore`, `AcquireSemaphore`, `ReleaseSemaphore` by the running process,
`ClockInterrupt` by the hardware, and `EnterMultitasking`, the last call of `kmain()`. A refused
call (`fork` with a full array, `join` or `signal` without permission or with an absent target)
returns to its caller with nothing changed and is no step of its own. Programs are arbitrary
within the set `Calls`; process 0 is `kernel::init`, which only forks
(`src/kernel_process.cpp:81-97`) and is signalled by no program of the repository.

`join()` and `release_semaphore()` use the id they are given as an index and do not test it
(`src/multitasking.cpp:204` and `137`, with the caller's register from `src/syscalls.cpp:67` and
`55`), while `acquire_semaphore()` does. An id past the array, such as the `MAX_PROCESS_NUMBER`
that a refused `fork()` or `driver_call()` returns, is `NoProcess` or `MAX_SEMAPHORE_NUMBER`,
one for all that are too large, and leads to `"undefined"` (`PastTheArray`). `IdsInRange` says
whether programs keep to ids of the array.

Left to other modules: contexts and return values (`Signals`), page tables, stacks and heaps, so
that here allocation never fails (`ProcessMemory`), shared memory (`SharedMemory`), and drivers
(`Drivers`). `DriverIrqs` gives the one place where joins look at drivers
(`src/multitasking.cpp:210`), which compares a `father_id` with an irq number.

### SharedMemory: state and actions

| variable | code |
|---|---|
| `present` | `is_present` of the processes |
| `blocked` | processes that `shm_wait_and_destroy` queued and dropped |
| `shm_array` | the array; `frames` is the list from `first_frame`, `waiting` from `waiting_head` |
| `shmem_history[p]` | the list from `shmem_data`, latest first; `page` counts from the first shared address |
| `free_frames` | the list from `first_free_frame_index` (`src/paging.cpp`) |
| `status` | `"undefined"` after a write past an array or a process linked into two lists |

The module composes with the process manager by abstraction: any present process that does not
wait may make the next call, which allows every schedule that `Multitasking` does.
`destroy_process(p)` is the death of one process by whatever cause; the death of a family is a
sequence of these. Its work on memories is `Abandoned`: a fold over the history, since each
detach may destroy a memory and wake its waiters. The calls that are refused (an absent memory,
one attached twice) change nothing and are no steps. `WINDOW` is the number of pages between the
first shared address and what is mapped above it; an `shm_attach` that does not fit counts its
user and then dies in `abort()`. Frames that `map()` takes for page tables, the contents of
memories, and the right to write to them are left out; processes are user processes.

### Heap: state and actions

`freemem` is the list of free zones in its order, `used` the zones given out. A zone is a start
and a size, and its data begins `DESCRIPTOR` bytes after its start, as in `memory_descriptor_t`.
`reply` and `cleared` record what the last call of `malloc` returned and which bytes it set to
zero. `InternalFree` is `internal_free()` with all its cases (before, between and after free
zones, with or without union); `Taken` is the first fit with its split; `FrontTrimmed` and
`BackTrimmed` are the cuts of the aligned `malloc`. Numbers wrap at `WORD`, which stands for
2^64. A client frees only what it holds, so the two checks of `free()` that call `abort()`
("double free", "wrong delete") are never met and not modelled.

### Drivers: state and actions

| variable | code |
|---|---|
| `io_descriptor_array[irq]` | the descriptor of an irq; `functions` are the indexes whose pointer is set |
| `requested`, `in_service` | the IRR and ISR registers of the two 8259, the second one on line 2 |
| `rip[p]` | where the process began: the `main()` of its module (`Main`), or the function of a driver |

`Interrupt(irq)` is `irq_handler()`, `ClockTick` the same for irq 0 with the clock's callback
(the `ClockInterrupt` of `Multitasking`). An irq is `Deliverable` when no irq of the same or a
higher priority is in service. `send_EOI()` writes the non-specific end of interrupt, which ends
whatever has the highest priority (`AfterEOI`): the code sends it at once for an irq without a
ready driver, and in `wait_for_interrupt()` otherwise. `PIC8259_compatibility_mode` is always
true, so this is the only branch of `send_EOI()` that runs. `DriverCall` is `driver_call()` with
the `fork` of the driver it makes, `JoinCall` the `join` of that child with the rule that looks
at drivers, or of the id that a refused call returned (`getc()` in `lib/ps2_keyboard.cpp` calls
again until it is not refused; another program may not).

A driver is a boot process that registers once, sets its functions, and calls
`wait_for_interrupt()` in a loop, as the keyboard driver does, the only one of the repository;
it may sleep, and be preempted, anywhere in it. A process that calls `wait_for_interrupt()`
without being a driver never runs again; the model leaves that call out. `reset_driver()` has no
caller.

### Signals: state and actions

| variable | code |
|---|---|
| `signal_descriptor[p]` | the descriptor; `handlers` are the signals whose pointer is set |
| `context[p]` | the saved registers: the code that `rip` is in, `rax`, `rdx` |
| `owed`, `returned`, `installed` | history: what a join has to return, what processes returned, which handlers they set |

Every call of `Multitasking` that remains enabled here is conjoined with what it does to
contexts. `SendSignal` is `signal()`: it tests the handler `Tested(signal)` and calls
`Called(signal)`, which differ for `SIGUSR1` (tested for itself, called for `SIGUSR2`,
`src/multitasking.cpp:326`) and use the handler of `SIGSEGV` for `SIGILL`. A signal that arrives
during a handler is dropped and reported as sent. `Answered` writes the value of `exit()` or
`kill()` into the contexts of the joiners; `JoinEnded` is the join of a process that has ended,
which returns the `rdx` that its last call left in the descriptor. The return address that
`call_signal_handler()` pushes on the target's stack is left out: the model's handlers return
into `return_from_signal()`, as the library arranges.

### Paging and ProcessMemory: state and actions

| variable | code |
|---|---|
| `memory` | the frames: the free list and its count, the word of `frame_descriptor_t` (the next free frame, or the present entries of a table), the tables, and what the loader copied into a frame |
| `process_array` | level, father, `paging_root`, `mapping_history` and `private_mapping_history` of the processes |
| `next_module` | how far `kmain()` has come with the modules |
| `forks` | bound of the model on the processes made after boot |

The operators of `Paging` carry the names of the source and return the memory they leave. `map`
and `unmap` take the template argument of the code (`gen_addr`, `free_addr`) as an operator.
Their loops walk the indexes as the code does (`LoopIndex`), without a carry from one level to
the next, and stop with `"fault"` where the code dereferences the null pointer of an exhausted
`table_alloc()`. `RemovePage` gives back the tables that become empty, which their counts of
present entries decide.

The actions: `Boot` loads one module and creates its process, or leaves what a failed load has
taken; `Fork` maps the regions of the father's `mapping_history` and gives the child a stack and
a heap of its own; `PageFault` is the branch of `isr_handler()` for a page that is not present:
the stack grows, or the process dies, or the kernel panics; `End` destroys a process with its
`Family`, in the order of the recursion, each with `ReleasePages`. `load_module` keeps the loop
of the code, which after a segment that is not `PT_LOAD` never advances (`src/modules.cpp:71`).
`ModuleLevel` keeps the test of `kmain()` (`src/boot.cpp:67`), which compares the module's
number with the result of `memcmp()`. `Walk` is what `unmap()` and the translations share, the
table of each level on the way to a page. Where the code goes through a null pointer, the
model's memory stays as it was before the call and the status is `"undefined"`; no step follows.
`Mappings` is what a walk over all tables finds; with it
as refinement mapping the tables implement `AddressSpaces`.

### Keyboard: state and actions

| variable | code |
|---|---|
| `port`, `replies`, `irq` | external: the bytes the device holds, the commands it has to answer, its irq line |
| `down`, `lock` | external: what whoever types sees |
| `pc`, `scancode`, `is_key_pressed`, `is_caps_lock_active` | the driver in `main()` |
| `buffer`, `next_reading_pos`, `next_writing_pos` | the ring |
| `keyboard_buffer_mutex`, `keyboard_buffer_sync` | the two semaphores, as `Multitasking` serves them |
| `at[r]` | where a process that runs `get_char()` is |
| `unread`, `swallowed` | history: the characters stored and not read; whether a key's byte was taken for an answer |

Each access to shared state is a step, so that driver, readers and device interleave between any
two. Keys are classes: those with a character, the shifts, caps lock. The device is modelled by
what the driver relies on: reading port `0x60` takes a byte and withdraws its irq, and the next
byte raises its own; an answer comes before or after the keys held back; the status port is
never zero. The typing stops after a key's byte was swallowed by `kbd_ack()`, from which point
on driver and keyboard legitimately disagree.

### Printing: state and actions

| variable | code |
|---|---|
| `pc`, `call` | where `printf()` is, and which format it prints |
| `fmt`, `str` | what is not converted yet, and `printf()`'s buffer |
| `string` | the position of `kprint()` in the buffer |
| `curx`, `cury`, `saved_curx`, `saved_cury`, `default_color` | the variables of those names |

`Vsnprintf` is one round of the loop over the format, with the test for room that its conversion
makes; `Kprint` shows one character or obeys one escape sequence, with `NewLine`,
`CarriageReturn`, `Escape` and `PutChar` as its cases. Numbers are read again from the text as
`get_number` does, colors by `set_color`, and the character at which a sequence ended is
skipped. `ByteLoopEnds(limit)` says whether a loop on an 8-bit counter reaches its limit; a step
that contains an endless one changes nothing, so that `PrintfReturns` fails. Colors outside the
palette are one value. Pixels are not kept: nothing reads them but the scrolling.

## Runs

Several invariants are conjunctions of named parts, so that a run that breaks one names the
matter, and the part can be tried alone: `ListsOK` is `Defined` (no list is read empty, no array
overrun, no process linked twice) and `OnePlace` (each process runs, is ready or waits exactly
once); `ZonesOK` is `TypeOK` and `Tiles` (each byte is in one zone); `FreeListOK` is `Coalesced`
(the list is ordered and free zones never touch) and `WholeAgain` (after all is freed the heap
is one zone); `UsersOK` is `TypeOK`, `UsersCounted` (the count that decides the destruction is
the number of processes that have the memory attached) and `MappedIsPresent` (no memory ends
while mapped); `TablesOK` is `TypeOK`, `EntriesCounted` (the present entries of each table) and
`HistoriesMatch` (a process's tables map what its histories record, with those rights, and
nothing else); `DriversOK` is `DriversTypeOK` and `OnePlaceOrAwaits` (a driver waits for its
irq, or is queued while its irq stays in service, never both); `ContextsOK` is `SignalsTypeOK`
and `ProgramResumes` (nested signals never lose the program); `RingOK` is `TypeOK`, `RingHolds`
(the ring has the unread characters in order) and `SyncCounts` (the semaphore lets in one reader
per character); `KeysOK` is `CharsAsMeant` (a character is shifted when it was meant to be) and
`KeysFollow` (the driver agrees with the keyboard on keys and lock when it has read all);
`InBounds` is `TypeOK`, `InScreen` (the cursor) and `Defined` (buffers and terminators).

| run | expects | question |
|---|---|---|
| `Sched` | pass | A system and a user module with the calls sleep (1 and 3 ticks: sleepers are inserted before, between and behind each other), exit, fork, join of an own child, and signal. `ListsOK`. `JoinReturns`: the death of a joined process, which here is by `exit`, by `kill` or with its family, makes its joiners ready. `FatherPresent`, `LevelInherited`: the tree of processes stays consistent through recursive deaths. `SystemProcessesSurvive`: no call of a user process ends a system process. `SleepersSpec`: the list of differences implements `Sleepers`. `ReadyRuns`, `SleepersWake`, with fairness of the clock only. |
| `Semaphores` | pass | Two semaphores, starting at 0 or 1, and processes that exit, fork, fault and signal each other. `SemaphoreBalance`: a negative count is the number of waiters, also after waiters were killed. `OnePlace`. |
| `SharedMemory` | pass | Three processes, two memories of one or two pages, three frames. `UsersOK`. `OrphansAreUsed`, `EndWakesWaiters`: a destruction requested by an owner's death or a waiter happens with the last detach, by call or by death, and wakes all waiters. `FramesConserved`: each frame is free or in one memory. `MappedApart`: a process's memories do not overlap. |
| `Heap` | pass | All sequences of `malloc`, aligned `malloc` and `free`. `ZonesOK`, `FreeListOK`. `AllocatorSpec`: a request is refused only when no run of free bytes could hold it. |
| `ProcessMemory` | pass | Two modules are loaded, forked twice, fault and end in every order. `TablesOK`. `FramesConserved`: each frame is free, or a table or page of one process, or a page of one module's family. `SystemPagesProtected`: nothing a user program can reach is a table, its system stack, or a system process's. `ImageVisible`: a process and its children see the bytes of their module, and zeros after them. `AddressSpacesSpec`: the tables implement `AddressSpaces`. |
| `Drivers` | pass | A driver of irq 1 and two users that call it, with irqs at any moment. `DriversOK`. `SystemLevelIsDriver`: what user processes start at system level is a child of a driver that runs a function which the driver has set. `InterruptServed`: an irq of a driver that waits reaches it, unless the kernel stopped. |
| `Signals` | pass | A user and a system module that fork, join, exit and signal each other. `ContextsOK`. `HandlerIsItsOwn`: no process runs the handler of one that had its slot before. `JoinValueUndisturbed`: a join returns what the child returned, unless a handler ran meanwhile. |
| `Keyboard` | pass | The driver, its device and two readers, step by step. `RingOK`, `KeysOK`. `ByteWillInterrupt`: the driver never waits for an irq that will not come. `DriverComesBack`, `ReaderServed`. |
| `Printing` | pass | The texts of `kmain()`, `startup()`, `status()` and `panic()` and one of each other escape sequence, in any order. `InBounds`. `MeaningKept`: the text is what the format means, or the beginning of it when it does not fit. `ColorsKept`: a sequence that is no color leaves the colors alone. `PrintfReturns`. |
| `ShmSoleUser` | violation | `WaitsForUsers`: who waits in `shm_wait_and_destroy` waits for a user. |
| `UserHeap` | violation | `UserPagesReachable`: a page that `map()` gave to user level can be used there. |
| `JoinStranger` | violation | Joins of processes of another family. `NoDeadJoiner`: no dead process is in the list of a process that it joined. |

### Bounds

`Sched`, `Semaphores`, `Signals` and `Drivers` have 4 or 5 process slots, one of them
`kernel::init`, so that a father, a child and a grandchild or sibling exist at once and slots
are used again; a time slice of 1 or 2 ticks, so that both outcomes of the test in `scheduler()`
occur; `TICK_MODULUS` 16, more than the sum of all sleeps, so that only an underflow wraps.
`MAX_COUNT` bounds how high a semaphore is released, the only counter that the system does not
bound itself. `Sched` excludes by its constants what is known to fail (below): it has no fault
and no semaphore, whose misuse aborts a process like one, and with `JoinOwnChildren` a joiner
never dies before the process it waits for, since a father's death takes its children along.
`Semaphores` has the faults. `JoinStranger` lifts the second restriction. `IdsInRange` is `TRUE`
in `Sched`, whose `ListsOK` says that no step is undefined, and `FALSE` in `Semaphores`, `Signals`
and `Drivers`, so that every join and release past an array is a step of theirs. `Semaphores`
starts counts at 0 or more, and checks `OnePlace` without `Defined`, since a program that creates
a semaphore too many overruns the array.

`SharedMemory`: three processes are an owner, a user and a waiter, or two waiters and a user;
two memories give a history with an order; memories of one and two pages and three frames let
both memories exist, and let one request too many occur. A request beyond the free frames leads
to `"undefined"`, after which the program's behaviour is not defined and the model stops (hence
`CHECK_DEADLOCK FALSE`). `MAX_PAGE` bounds the page at which a memory is attached, which
otherwise moves up without end (below); `WINDOW` is larger, so the attach that fails is not
reached in this run. Frames are interchangeable, hence the symmetry.

`Heap`: units are bytes of a machine whose descriptor has 2, and the heap 18, so that three
zones with descriptors fit with a hole between two others. The sizes are zero, one to be rounded
up, and one larger than the smallest rest worth a split. The alignments are one that is refused
and one of two descriptors, which cuts at the front and at the back. `WORD` is far above all
sums.

`ProcessMemory`: the four levels of the code with 4 entries each; the regions of a process laid
out as in the code, with the system stack and the heap under one lowest table and the stack
under another; a memory map with a hole, whose frames must never be given out; modules laid out
as the linker lays them out, with a segment that starts in the middle of a page and is longer in
memory than in the file; two modules and two forks for 5 slots, so that the process table gets
full, and 52 frames, so that in some orders they run out in the middle of a `fork()` or a load.
There is no fork beyond the slots: it would leave its tables behind (`Created` below).

`Drivers`: a driver sleeps, is preempted, and is interrupted in its loop; two users compete for
the one slot that is left for the child of a `driver_call`, and join it. The repository has one
driver; with a second one `EndedByItsDriver` and `DriversOK` fail, which is recorded below.

`Signals`: `SIGTERM` both kills and is handled. The other signals with a handler go the same way
through the code, but for the two above.

`Keyboard`: a ring of two characters is filled, wraps around and is emptied by two readers; the
device holds one byte back besides its answers. `TypeAhead` 2 keeps no more unread than fit,
since the code overwrites beyond that (below). Nobody has to type, hence `CHECK_DEADLOCK FALSE`.

`Printing`: numbers of 4 and 8 bits stand for `int` and `long`; coordinates of 2 bits, so that a
screen 3 characters wide is the widest that a counter can walk, as one of 255 characters is in
the code; a buffer of 31, which two of the texts exceed, one in a string and one in a number.

### Fairness

`Multitasking` assumes weak fairness of two actions. `EnterMultitasking` is the end of
`kmain()`, a sequence without a loop that could wait. `ClockInterrupt` is the timer chip,
programmed at 1 kHz (`src/clock.cpp:20-31`); processes run with interrupts enabled (`IF` is set
in the context that `create_process` builds) and handlers are finite. Nothing is assumed of
programs: they may loop forever without a call, exit, or never release what they hold.

`Drivers` adds weak fairness of the delivery of each irq, which the controller owes, and strong
fairness of the registration and of `WaitForInterrupt` of a driver: its code between two calls
is finite, so a driver that gets to run again and again comes back to its loop.

`Keyboard` assumes weak fairness of the driver's and the readers' next steps, which `ReadyRuns`
of `Multitasking` provides to whoever is ready, of the irq's delivery, and of the device's
answer to a command. Nobody has to type or to read. `Printing` assumes that the process that
prints goes on.

### Findings

1. `ShmSoleUser`: `shm_wait_and_destroy()` detaches before it queues its caller
   (`src/multitasking.cpp:440`), so that the last user finds nobody waiting, destroys nothing,
   and waits for users that do not exist; `lib/ozone.h:71` documents that the call waits for
   every user to detach and detaches its caller itself.
2. `UserHeap`: `map()` gives its rights to the tables it allocates and to no other
   (`src/include/paging.h:135`). `create_process()` maps the system stack first
   (`src/multitasking.cpp:603`), and the heap of a user process lies under the same table, which
   has no `USER`. `map()` returns what its comment calls "all ok" (`src/include/paging.h:76`),
   and the pages cannot be used at user level.
3. `JoinStranger`: `destroy_process()` takes the dead out of the ready queue, the lists of
   semaphores and the timer list, and not out of the lists of joiners
   (`src/multitasking.cpp:787`; line 786 says "check if the process is present in some list, in
   case remove it"). A process that joins one of another family and is killed stays in its list;
   when its slot is used again, the new process is in two lists that share one link, or is made
   ready a second time.

Known disagreements that the passing runs keep out by their constants. TLC shows each one when
the property is checked with the change in the last column:

| in the code | against | property | with |
|---|---|---|---|
| `abort()` destroys a process without waking those that joined it (`src/multitasking.cpp:970`), while `exit()` and `kill()` wake them: a father that joined a child which then faults is in no list any more | `lib/ozone.h:58` | `JoinReturns` | `"fault"` in `Calls` of `Sched` |
| a signal with a handler that arrives during a `join` saves the context from before the value is written (`src/multitasking.cpp:262`), and the end of the handler restores it (378-385): the value is lost | `lib/ozone.h:58` | `JoinValue` | `Signals` |
| `next_writing_pos + 1 % MAX_BUFFER_LEN` computes `1 % MAX_BUFFER_LEN` first (`ps2_keyboard.cpp:116`): with the writing position at the last cell a full ring is not seen, then looks like an empty one, and unread characters are overwritten | the comment at line 117 | `SufficientSpace` | `TypeAhead = 3` in `Keyboard` |
| `destroy_process(id)` destroys the semaphores of `execution_index` (`src/multitasking.cpp:773`): a process that kills another one loses its own | line 132 | `SemaphoreDiesWithCreator` | `Semaphores` |
| `callback()` decrements the head before it tests it (`src/clock.cpp:61`): `sleep(0)` lasts 2^64 ticks and delays all behind it | | `SleepersSpec` | 0 in `SleepTicks` of `Sched` |
| aligned `malloc()` tests its first sum for overflow and not the second (`src/heap.cpp:255-261`): with a size within two descriptors of 2^64 it takes a zone of size 0 and cuts more from it | | `ZonesOK` | `Sizes = {0, 1, 60}`, `Alignments = {1, 4}` in `Heap` |
| `malloc()` sets memory from null on when no zone fits (`src/heap.cpp:244`) | line 237 | `ClearsFreeMemory` | `Heap` |
| an irq before the driver's first wait is ended and lost (`src/interrupt.cpp:203-210`), and its byte stays in the port, so that no other comes: the keyboard is dead | | `ByteWillInterrupt` | `EarlyKeys = TRUE` in `Keyboard` |
| the end of interrupt that one driver sends ends the irq of another one with a higher priority (`src/interrupt.cpp:207`), which can then queue its driver a second time | the comment there | `EndedByItsDriver`, `DriversOK` | `BootLevels <- TwoSystem`, `DriverProcess <- KeyboardAndMouse` in `Drivers` |
| `join()` compares a `father_id` with an irq number (`src/multitasking.cpp:210`), so that a user process may join what `driver_call()` gave it only if the driver's process id happens to be an irq in use | `lib/ozone.h:60` | `DriverCallJoinable` | `BootLevels <- UserAndDriver`, `DriverProcess <- KeyboardSecond` in `Drivers` |

Read in the code, and outside what the models state or reach:

* process manager: `return_from_signal()` outside a handler restores the context saved last, or
  one of zeros (`src/multitasking.cpp:378-385`), which no program of the repository does;
  `shm_wait_and_destroy()` by the last user while another process waits queues
  its caller in the list of a memory that is gone (`src/multitasking.cpp:441`); a process that
  dies while it waits for a memory stays in its list (line 787); an owner that never attached
  its memory leaves its id in `owner_id`, and the memory is never freed (line 731); an attach
  that reaches the pages above has counted its user (line 475); `create_semaphore()` and
  `shm_get()` with full arrays write past them (line 110); a semaphore that starts negative is
  released into an empty list (line 142); `fork()` builds tables before it knows of a free slot
  (line 155); `create_process()` goes on after the `abort()` of a failed stack; a handler's
  return address is pushed on a stack that may not be mapped (line 266); a signal during a
  handler is lost and reported as sent; a driver that dies keeps its irq
  (`src/interrupt.cpp:206`).
* paging: a child's `mapping_history` is the list of its father (`src/multitasking.cpp:167`),
  which `destroy_process()` frees (lines 752-758) before the recursion over the children (lines
  778-784) walks it (line 763): what is read after `free()` is intact only because `free()` writes
  nothing but descriptors in front of the data, and the model copies the values; no carry between
  the levels of a region's indexes (`src/include/paging.h:105`); a `map()` that fails leaves what
  it has mapped (line 120); a load that fails leaves its tables (`src/boot.cpp:70`); the first
  free frame is the one after the modules even if the memory map has a hole there, since
  `true_first_frame_index` is never used, and a map of more than `FRAME_COUNT` frames is written
  past the array (`src/paging.cpp:104-120`).
* heap: a size within a descriptor of 2^64 is rounded up to zero (`src/heap.cpp:172`); the front
  cut of an aligned `malloc()` has room for a descriptor only because all data is aligned to
  one, which the start of the heap decides (line 274).
* printing: two processes print without a lock (`kprint()`, `src/printing.cpp:780`, called by
  `status()` and `test_ret()` of `src/kernel_process.cpp`), while the model prints one text at a
  time; `E` takes the larger of two distances (717); `1J` loops endlessly unless the cursor is
  at home (694), and so does a new line on a screen 256 or more characters wide; a single
  `\e[1m` is taken for no color and eats the text after it; a text cut inside a sequence is read
  past its terminator; a negative `%d` of an `int` prints it plus 2^32 (918), `%lx` from 2^63
  on prints a sign; `%p` in a buffer of less than 17 bytes, and any text in one of none, run
  over.

## Proofs

`MultitaskingProofs` proves, for every number of processes and semaphores, every boot
configuration and programs that make any calls, with ids past an array or without (after which
the model stops, since nothing is known of what follows):

* `ProcessInvariant`: `Spec => []ProcessInv`,
* `FathersStayPresent`, `LevelsAreInherited`, `CountIsExact`: its parts, the first two of which
  the runs check,
* `SystemSurvives`: `Spec => SystemProcessesSurvive`.

`ProcessInv` is the inductive invariant: the types of the process table, that the running
process is present, and the three properties. Each is needed by another one: a new child's
father is the running process, so `FatherPresent` needs that it is present; `LevelInherited`
needs `FatherPresent`, since otherwise a father's slot could be taken by a process of another
level; and `SystemProcessesSurvive` needs both, because `signal()` checks the level of the
target only, while its whole family dies.

The argument: a step leaves the process table alone, adds one child of the running process, or
takes away one family (`ProcessStep`), and for each call the family is one whose death is
permitted. `FamilyClosed` and `FamilyLevel` are the two facts about families: no survivor has a
dead father, and a family has one level. `FamilyCount` relates the decrements of the recursion
to the cardinality.

It proves two more:

* `TypeCorrect`: `Spec => []TypeOK`, by `ListTypes`, inductive relative to `ProcessInv`;
* `SemaphoresStayBalanced`: `Spec => []SemaphoreBalance` when `StartCounts \subseteq Nat`. The
  assumption is needed: `create_semaphore` accepts any count, and one that starts negative has
  no waiters to match. The balance is inductive given `ListTypes`. Its two interesting steps are
  `DestroyBalance` (every waiter removed by `remove_not_present` gives back one unit of the
  count) and `ReleaseBalance` (a release that leaves the count at zero or below finds a waiter,
  so that `pop_from_list` is never called on an empty wait list).

### The lists of the process manager

`MultitaskingProofs` also proves, for programs whose joins are safe:

* `EveryProcessHasOnePlace`: `Spec => []OnePlace`,
* `OnlyOverflowIsUndefined`: with `StartCounts \subseteq Nat`, the steps to an undefined state are
  the `create_semaphore()` that finds every descriptor taken, and the `join()` or
  `release_semaphore()` of an id past its array (`OverflowStep`): the three places where the code
  does not test an index,
* `ListsAreSound`: `Spec => []ListsOK`, when programs create no semaphores either, and keep to ids
  of the array (`IdsInRange`),
* `JoinsReturn`: `Spec => JoinReturns`. As the joins are safe, the joined process dies by `exit`,
  by `kill` or with its family; after a death by `abort()` it fails, as recorded above.

The invariant, `PlaceInv`, does not count occurrences in lists, as `OnePlace` does: it speaks of
sets of processes, the ready ones (with the running one), the sleeping ones, the joiners of each
process and those queued at each semaphore. `Placed` says that these sets are apart and together
are the present processes, the other conjuncts that no list holds a process twice. A handler then
is one or two moves between sets (`MoveToSleep` and the lemmas after it), the scheduler changes
none of them, and `destroy_process()` intersects each with the survivors. `OwnJoins` (only a
father waits for a process), `NoStaleWaiters` and `InitIsReady` are what makes it inductive:
without the first, a process could die in the wait list of another family and be made ready
afterwards; without the last, `next()` could find no process at all.

`JoinsAreSafe` is the hypothesis that the code needs: programs that join do so with their own
children only, and make no call by which a process is aborted. A joiner of a stranger can be
destroyed while it waits, and nothing takes it out of the list of the stranger; `abort()` does not
wake those that joined the dead process (`src/multitasking.cpp:970`). Without joins it holds for
all programs.

### The timer list

`TimerListImplementsSleepers` in `MultitaskingProofs`: `Spec => SleepersSpec` for safe joins and
`0 \notin SleepTicks`. The list of differences that `add_timer()`, `callback()` and
`clean_timer_list()` edit implements one countdown for each sleeping process, so that no sleeper
is early or late because another one slept, woke or died before, between or behind it.

`Sleeps(list, p, t)` says that the entry of `p` has `t` as the sum of the entries up to it. Each
operator of the list is then said by what it does to these pairs, for lists of any length:
`AddTimerSleeps` adds one, `TickSleeps` takes one from each `t` and drops those that become zero,
`CleanTimersSleeps` drops the pairs of the dead, although the entries behind them change. These
rest on inductions along the list (`ElapsedRecursion`, `PositionInduction`): before the place of
the new entry the sums are the old ones, behind it the old ones shifted; what `clean_timer_list()`
gives to the next entry makes the sums telescope (`KthGrows`, `ElapsedGrows`).

`InTime` is the inductive part: every sum is between 1 and 2^64 - 1. So no difference ever wraps,
and the head is not zero when `callback()` decrements it. This is where the hypothesis on
`SleepTicks` is needed: `sleep(0)` puts an entry of zero in front, which wraps around
(`src/clock.cpp:61`). `PlaceInv` gives the rest: a process that calls `sleep()` is not in the list
yet, none is in it twice, and all that are in it are present.

### Signals

`CompositionProofs` composes these invariants with one of signals, `SignalsInv`:

* `NoProgramIsLost`: `SpecSignals => []ContextsOK`, without hypotheses;
* `HandlersAreOwn`: `SpecSignals => []HandlerIsItsOwn` when no `SIGUSR1` is sent, since `signal()`
  tests for one handler and `call_signal_handler()` calls another one;
* `JoinersGetTheValue`: `SpecSignals => []JoinValueUndisturbed` for safe joins.

`SlotsAreClean` is the strengthening that matters: a slot that no process has keeps no handler, no
debt and no saved context that the next process in the slot could find. The last theorem needs
two more, `JoinersWait` (a process in the wait list of another one is still in the code that
called `join()`, or a handler has come between) and `ResultsKept`, and all of `PlaceInv`: that a
joiner waits in one list only is why its result is written once.

### Drivers

`CompositionProofs`, in its second part:

* `OneDriverIsNeverQueuedTwice`: `SpecDrivers => []DriversOK`, when one irq has a driver
  (`OneDriver`), as in the repository, where `ps2_keyboard` alone calls `set_driver()`. With two
  it fails, as recorded above: the end of interrupt of one ends the irq of the other;
* `SystemLevelBelongsToDrivers`: `SpecDrivers => SystemLevelIsDriver`, for every set of drivers,
  however many share a process. `driver_call()` is the only
  call by which a user process makes code run at system level, a descriptor that is present
  has the id of the process that owns the irq (`Registered`), which is what the caller's new
  child forks; what that child runs is one of the functions of the descriptor, and `RipOK` is its
  type. `AnyDriversInv` has what the proof needs of the process manager, `ProcessInv` and
  `ListTypes`, again kept by the interrupt, the wait for it, the call and the second rule of
  `join()`.

`DriverInv`, the invariant of the first, relates the lists to the 8259s. `WaitersOK` is `PlaceInv`
with the drivers that wait for an interrupt as one more part of the sleeping ones: such a driver
is in no list, and what keeps it from being queued twice is only that its irq stays in service
(`ServiceOK`) from the interrupt to its next `wait_for_interrupt()`. Three lemmas carry this:
nothing is delivered while an irq is in service (`NothingInService`), the end of interrupt of the
driver empties both controllers (`EndOfInterrupt`), and that of the clock ends the clock's own
(`ClockEndsItself`). `DriversLive` is what makes a death simple: processes that may exit have no
children.

### Shared memory

`SharedMemoryProofs`, for every number of processes, memories and frames:

* `FramesAreConserved`, `OrphansHaveUsers`, `MemoriesAreMappedApart`, `WaitersAreWoken`: four
  properties of the runs, without hypotheses, a failing attach included;
* `UsersAreCounted`: `Spec => []UsersOK` under `AttachesFit`. An attach that finds no room returns
  after it has counted the user, so the count is exact only when all that may be attached fits
  the window. The window of the source has 2^32 bytes less the heap and the stacks.

A death walks the history of the dead process, and leaves, orphans or ends each memory in it.
`Abandoned` writes this walk as a fold; `AbandonedRecursion` unfolds it into the states after each
entry, and the proof follows these, with the invariant restated for a process that has left the
first `k` entries of its history (`Orphaned` and `Left` are one entry of the walk). `Ordered`, the
strengthening behind `MappedApart`, says that the history is sorted by address with a page
between any two entries, and that no memory is in it twice.

### Heap

`HeapProofs`, for every size of heap and descriptor and every sequence of calls:

* `HeapIsTiled`: `Spec => []ZonesOK`, `FreeListIsCoalesced`: `Spec => []FreeListOK`,
* `HeapImplementsAllocator`: `Spec => AllocatorSpec`, the refinement: the zones in use are the
  abstract blocks, `malloc` and aligned `malloc` take bytes that were free, and a null pointer is
  returned only when no run of free bytes could hold the request.

The invariant is `ListOK(freemem)` (free zones in order, apart by at least a byte, of whole
descriptors) and `Tiling` (every byte of the heap in one zone, free or in use). `Covers` and `In`
turn zones into intervals, so that a cut, a trim or a merge is a statement on intervals that the
SMT solver can decide; the search for a zone and the merge with its neighbours are the lemmas on
sequences. That a null pointer means that no zone would do comes from the loop's exit condition,
and that no *run of bytes* would do from coalescing: a run of free bytes lies in one zone.

All three assume `RequestsFit`, a fact about the sizes that programs ask for. An alignment and
`sizeof` a descriptor are powers of two, so one divides the other, which the model's integers do
not know. And the aligned `malloc` rounds up twice but tests only the first sum for overflow
(`src/heap.cpp:255-261`): with a size within two descriptors of 2^64 the second one wraps to a
size of zero, and the zone that is trimmed is smaller than what is cut from it. The assumption
leaves out those sizes, and keeps the ones for which the test works. `HEAP_SIZE > DESCRIPTOR`,
an assumption of `Heap`, is what the first free zone needs. Sizes are `size_t`: a difference of
two is taken modulo `WORD` (`Minus`), and that it never wraps is part of what is proved.

### Keyboard

`KeyboardProofs`, for any number of keys and readers and a ring of any length:

* `ByteInterrupts`: `Spec => []ByteWillInterrupt`, when no key is pressed before the driver first
  waits (`EarlyKeys = FALSE`). A byte that comes before is in the port with its interrupt lost;
* `SemaphoreCountsCharacters`: without hypotheses, the semaphore and the readers it let in add up
  to the characters in the ring;
* `RingCorrect`: `Spec => []RingOK`, when the user types ahead no more than the ring holds
  (`TypeAhead <= MAX_BUFFER_LEN`): the driver writes into a full ring without looking;
* `DriverUnderstandsKeys`: `Spec => []KeysOK`.

Its invariants build on each other: `MutexInv` (of the processes between the calls that take and
release the mutex all but one wait for it), `SyncInv`, `CountInv` (characters under way are
counted against `TypeAhead`), `RingInv` (the cells between the two positions hold the unread
characters in order) and, for the last theorem, `KeysInv`: the bytes that the driver has not read
lead from what it believes of the keys and of caps lock to what is true of them (`Lead`).

### Page frames, page tables and the memory of processes

`ProcessMemoryProofs`, for every number of frames, processes, levels and entries of a table, every
memory map, all modules and all sizes of stacks and heaps:

* `TablesHold`: `Spec => []TablesOK`;
* `FramesStayApart`: `Spec => []FramesApart`, the half of `FramesConserved` that needs no
  hypothesis: no frame is twice in the free list, free and in use, or in use at two places;
* `FramesStayConserved`: `Spec /\ [][Created]_vars => []FramesConserved`, the other half: no frame
  is lost;
* `ImageStaysVisible`: `Spec => []ImageVisible` when `LoadableFirst`;
* `SystemPagesStayProtected`: `Spec => []SystemPagesProtected`;
* `TablesImplementSpaces`: `Spec => AddressSpacesSpec`, the refinement.

`Created` is the hypothesis that the code needs: when the process table is full or the module
cannot be loaded, neither `fork()` nor `kmain()` gives back the tables that were built by then,
so that a creation that fails loses frames. `LoadableFirst` is what `load_module()` needs: it
never passes a header that is not `PT_LOAD`. TLC finds that both hold in `ProcessMemory.cfg`.

*The invariant.* The properties are about what a walk from a root reaches, which says nothing on
how one changed entry changes it. The invariant, `State`, has a ghost instead, which the code
does not keep: `use` gives each frame its role, which is free, used by one root at one level and
one index, or lost; `pg` gives each root the entries of its pages as a function of the index;
`birth` gives each process a date. `Forest` relates the first two to memory: an entry of a table
leads to the frame that has the place one level down (`Down`), each used frame is what one entry
leads to (`Up`), no two have the same place (`Placed`), the last tables hold what `pg` says
(`Leaves`), `present_entries` counts (`Counts`), the free list has the free frames once
(`FreeOK`). None of this mentions a path, so that a changed entry concerns one place. `Full`, that
no table but a root is empty, makes `destroy_paging_trie()` find nothing left to clear. `Slots`
says of each process that its row of `pg` is what its histories record (`SlotShape`), with whose
frames, that the rights fit its level, and how it relates to its father, who is older. `Founded`
is `State` for some ghost: no step has to name it. `Conserving` adds that no usable frame is lost.

*The calls.* `PagingProofs` goes up as the code does: one entry set, one frame taken or given back,
one table added or removed; then the walk of `map()` that adds tables, its loop over pages, the
one of `unmap()` that gives back tables that become empty, and the loops of `add_pages`,
`load_module`, `map_shared`, `unmap_all` and `destroy_paging_trie`. All of these are folds over a
sequence. An operator cannot be a parameter of a lemma here, so they are instances of one,
`Loop(c, base, seq)`, where `c` is a record that says which loop: `LoopUnfolds` gives the states
after each round, and each proof is an induction over these (`PositionInduction`). What a loop
does is said by what it adds to one address space (`Extended`), or takes from it (`Vacated`).
Loops that end in the middle, for want of a frame or at a page that is present, are part of it:
what they took is lost, and stays out of use. The recursive functions of the model (`Span`,
`Walk`, `PageAt`, `Below`, `Family`) exist by `PrimitiveRecursion`, the one induction they need.

*The actions.* `CreateProcess`, `BootLeads`, `ForkLeads`, `PageFaultLeads` and `DestroyLeads` show
that each leads from `State` to `State` for another ghost. `FamilyIsKin` is about `Family`, a
recursion over the children that ends because they are younger: it has the process, those that
descend from it and no other, each once. So no process that survives has a father that does not.
Each lemma also says how the rows of `pg` move: they shrink, when processes end, or one process
gains (`Moves`).

*The properties.* `TablesOK` and `FramesApart` follow when what a walk reaches is computed from the
ghost (`BelowNodes`). `ImageVisible` holds for the process that was loaded at boot, and each child
has the frames of its father: `ForebearLives` finds, by induction on dates, an ancestor that is
still there. `SystemPagesProtected`: a page is at level 0 and a table above it, and one frame has
one role. For the refinement, the mappings of the abstract specification are the entries of `pg`
(`MappingsAreEntries`), and `Moves` is its step: what shrinks is `End`, what gains is `Give`.

Two assumptions on the constants come with these proofs, in `ProcessMemory`. `RegionsAssumption`:
the regions that are mapped do not cross the end of a table in the middle, where `map()` would not
carry into the next one, and lie outside the part shared with the kernel. In the code the user
stack ends with the address space, its size is a multiple of 512 pages, the system stack and the
heap have the entries 447 to 510 and 318 to 445 of one table (`src/include/multitasking.h:127-137`),
and modules are linked at `0xFFFF800000000000` (`build_module/src/linker.ld`) and are smaller than
the 2 MiB that one table maps. `MapAssumption`: the memory map has each frame once, and the frame
after the modules is usable, as `init_frame_mapping()` assumes when it starts its list there.

### The lemmas

Lists of any length: `ProcessListsProofs` shows that `Survivors` is the sequence of the present
members in their order, and what `AddToList` and `FlattenSeq` do to the members of lists. In
`MultitaskingProofs` the differences of the timer list sum up as their recursive definition says,
`AddTimer` puts the new sleeper where no difference becomes negative, `CleanTimers` and
`Countdown` keep the range of a 64-bit tick count, and `DueCount` is a prefix of the list.

The assumptions on constants are those that the modules name (`SizeAssumption`, `BootAssumption`,
`WorkloadAssumption`, `TickModulusAssumption`, `SignalsAssumption`, `SharedMemoryAssumption`,
`HeapAssumption`, `KeyboardAssumption`, `KeysAssumption`, `ReadersAssumption`, `PagingAssumption`,
`LayoutAssumption`, `RegionsAssumption`, `MapAssumption`); TLC evaluates them in every run. The
hypotheses named above are written in the theorems. The instance of each property's run satisfies
them: `Sched.cfg` joins children only, by ids of the array, makes none of the aborting calls and
sleeps for 1 or 3 ticks, `SharedMemory.cfg` fits its window, `Heap.cfg` keeps to `RequestsFit`,
`Drivers.cfg` has one driver, `Keyboard.cfg` has no early keys and types ahead what the ring
holds, `Signals.cfg` sends no `SIGUSR1`, and every step of `ProcessMemory.cfg` is `Created`, with
modules whose loadable headers come first.

### Only model-checked

* The liveness properties, here and in `Keyboard`, `Sleepers` and `Drivers`: fairness and
  `ENABLED` are out of the prover's reach.
* `Printing`: what a conversion prints is defined by recursion over digits and text, where the
  proof would be an induction over data. `InBounds` and `MeaningKept` are checked on all the
  formats of the runs.

`CountIsExact`, `OnlyOverflowIsUndefined`, `SemaphoreCountsCharacters` and `FramesStayApart` are
only proved: what they state is in no run, or a part of a property of one.

## Not modelled

* Big pages, which no caller of `map()` asks for, `extend_identity_mapping()` and the part of
  the tables that maps the physical memory, which is shared by all processes and never changes
  after boot; the contents of pages, but for what the loader copies.
* `is_process_memory()` (`src/multitasking.cpp:802-827`) and the overloads of `create_stack()`
  and `destroy_stack()` on a root, which have no caller.
* The branches of the APIC, which `PIC8259_compatibility_mode` switches off, the masks and the
  programming of the timer chip: written once.
* Pixels, fonts, images and animations: output that no code reads again. The debug log, ACPI and
  PCI: I/O, or tables read once at boot.
* The hdd and user modules are demonstration programs; the models let programs make any calls.
* The helpers on strings, memory and numbers are sequential and keep no state; those that a
  modelled component depends on (`utoa`, `itoa`, `align`, `memset`) are modelled with it.

## Plan

1. Done: all modules above, their runs, and the theorems of the section on proofs.
2. `TaskLists`: the lists as head, tail and `next` fields, shown to implement the sequences of
   `ProcessLists`.
