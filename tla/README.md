# nanolibc, specified

nanolibc is a small C library (with a little of the C++ library) for programs
that run where there is no operating system, above all UEFI applications. It asks
very little of what is underneath: eight hooks (`c/libc.h`). This directory holds
TLA+ specifications of its parts, TLC configurations that check them on small
instances, and TLAPS proofs.

## 1. Inventory

| Component | State it keeps | Operations | What makes it correct |
|---|---|---|---|
| memory allocator, `c/malloc.c` | a `malloc_block` header below every payload; the runtime's regions | malloc, free, calloc, realloc | headers survive, blocks are aligned and disjoint, the runtime gets back exactly what it gave, contents survive realloc |
| hooks and initialization, `c/libc.c` | `__nnlc_internal_data.sysdeps`, the write hooks of the FILEs | `_nnlc_initialize` | every hook is set before it is used |
| standard output, `c/stdio.c`, `c/unistd.c` | the FILEs; vfprintf's buffer on the stack; vsnprintf's cursor | fputc ... fwrite, the printf families, write | counts tell what was printed, in order; buffers are never overrun |
| EFI console, `efi/start_main.c:43-118` | the wide string of a chunk | write_stdout, write_stderr | the text comes out whole, `\n` as `\r\n`, whatever the chunks |
| EFI start and exit, `efi/start_main.c`, `efi/gnu_efi_crt.h`, `c/stdlib.c` | the one `jmp_buf`, `main_retval`, the stack, the block with argv | libnanolibc_start, retrieve_argv, call_main, exit, EFI_NANOLIBC_CALL | exit lands in a live frame of its own call; the status is main's; argc and argv are as C says |
| time and sleep, `efi/start_main.c:138-178`, `native/start_main.c`, `c/time.c` | none | time, clock_gettime, gettimeofday, sleep over the hooks | dates are converted exactly; sleeps are not shortened |
| PCI under Linux, `efi/ggl_pci_linux.cc` | config-space descriptor, mappings by BAR ordinal | open, close, cfg and BAR accesses, mpoll32 | BARs at the ordinals EFI gives them; mappings belong to the device; accesses in range; polls tell the truth |
| PCI under EFI, `efi/ggl_pci.c` | opened protocols, handle buffer, device block | the same | nothing stays open or allocated when a step fails; registers in the right byte order; a locator names the device it names under Linux |
| `std::unordered_map` | vector of entries, chains of indices, hash table | [], find, erase, move | a finite map through collisions, growth and erasure |
| `std::vector` | buffer, capacity, count | every method of the header | a sequence; one owner per buffer, and no access to what is none |
| `std::string` | a buffer of characters and a size | every method of the header | each string has a buffer of its own with its text and a NUL; an operation gives the text it says, also through an alias |
| `std::unique_ptr` | a pointer | reset, release, move | one owner |
| string functions, `c/string.c`, `c/strings.c`, `c/ctype.c` | strtok's saved position | strtok, memmove, the loops that compare, search and copy | tokens in order; blocks moved exactly; the others stay in their arrays and do what C says |
| string to integer, `c/strtox.c` | none | strtol family | value, clamping, end pointer |
| unsupported functions, `c/unsup.c`, `google_warn.h` | a flag per call site | warn once | one warning, however often it is called |
| native runtime, `native/start_main.c` | none | the hooks, one system call each; usleep two | sleeps are not shortened, but by a signal, and then the caller is told what is left |
| byte order, headers, `noimpl` | none | | pure |

**How they interact.** The program calls the libC; the libC calls the hooks, each
through a function pointer in `sysdeps`. Under EFI the hooks are in
`efi/start_main.c`, natively in `native/start_main.c`. `abort()`, `assert()` and
`exit()` end in the exit hook, which under EFI is a `longjmp` to the frame of the
last TRY. `unordered_map` is built on `vector`, and `new` and `delete` on `malloc`
and `free`. The PCI implementations share only the header `efi/ggl_pci.h`.

**What is hard here.** Nothing in nanolibc runs concurrently with itself: there are
no threads, locks or signals. What is hard is (a) callees that do less than they
are asked (a write that is short, a malloc that fails, a console or a PCI step
that fails, a sleep that a signal interrupts, a device that stops answering or changes
while it is polled); (b)
pointers and indices that outlive what they point to (headers found by going back
from a payload, references into a vector's buffer, chains of indices in a vector
whose last entry moves, a `jmp_buf` of a frame that has returned); (c) the edges of
widths and buffers; (d) long sequences of legal calls. `PROJECT.json` lists these
hazards one by one, each with its line and the properties that are about it.

## 2. Modules

A module of a component has the component's state as VARIABLES, one action for each
operation (or for each turn of a loop that calls out), and its assumptions on the
constants. An abstract module says what a component promises and nothing of how.

| Module | Models | State and actions in the code |
|---|---|---|
| `Heap` | what malloc promises (abstract) | blocks with their bytes: Alloc, Release, Resize, Write |
| `Malloc` | `c/malloc.c` | `mem` is the heap byte by byte, headers included; `rt` the runtime's regions; one action per function, every outcome of the hooks. Implements `Heap` |
| `WriteHook` | what a write hook may do | operators: what it returns and prints, for the native runtime (any part of a write, or a failure) and for EFI (any of the pieces up to a NUL, and always the full count) |
| `Stdio` | `c/stdio.c`, write() | `runtime` is whose write hooks `_nnlc_initialize` has put into the FILEs; `call` is the function in progress with its locals (what is left to write, vfprintf's buffer and count). An action is one call of the write hook: what happens between two of them is the caller's. The result 1 of fputc and putchar stands for the character they return |
| `Snprintf` | `vsnprintf` and its callback | `dest` is the destination with the memory behind it, `dest_used` the cursor; a `Putcf` per character |
| `EfiConsole` | the write hooks of `efi/start_main.c` | `pos` is the cursor, `s16` the wide string of the chunk; an action per turn of `efi_conio_write` |
| `EfiStart` | start, main, exit, resident methods | `frames` is the stack, `exc_jmp_buf` the frame of the last TRY; THROW needs it alive |
| `EfiArgv` | `retrieve_argv` | the block cell by cell: the pointers, their NULL and the strings; an action per argument |
| `DynArray` | what vectors promise (abstract) | a sequence and a capacity for each |
| `Vector` | `cxx/include/vector` | `vec` holds the three members, `mem` the buffers with all their slots, `wrong` the kinds of access that the last method made outside of them: a read or write past the end or of a deleted buffer, a second delete, or an argument that refers to a deleted buffer. Implements `DynArray` but for three cases (section 3) |
| `FiniteMap` | what a map promises (abstract) | a partial function |
| `UnorderedMap` | `cxx/include/unordered_map` | `entries_` with their links and `hash_table_`. Implements `FiniteMap` |
| `StringValues` | what strings promise (abstract) | a text for each |
| `StdString` | `cxx/include/string` | `str` holds the two members, `mem` the buffers that are allocated; an action per method, every other string or the string itself as its argument. Implements `StringValues` |
| `UniquePtr` | `unique_ptr` of `cxx/include/memory` | what each points to, the objects there are, and the raw pointers the program keeps |
| `PciLocator` | `parse_pci_address`, `resolve_location`, the path under Linux | a locator is numbers, as they may be written, with separators; an action per item |
| `PciLinux` | `ggl_pci_linux.cc` but for polling | the device's layout is chosen at the start; an action per turn of the loop of `ggl_pci_open` |
| `PciEfi` | `ggl_pci.c` but for polling | `opened`, `buffer`, `blocks` count what the firmware has given; each firmware call may fail |
| `PciRegisters` | the register accesses of `ggl_pci.c` | bytes of config space and of a BAR, for hosts of both byte orders |
| `PciPoll` | both `ggl_pci_mpoll32` | the loop, the register the device changes, and time |
| `Clock` | `c/time.c`, `efi_gettime_wall` | the date of the firmware; the arithmetic in 8 and 16 bits |
| `Sleep` | sleep(), usleep() and both usleep hooks | the time gone by and what is left; an action per sleep of the system, interrupted or not |
| `Strtox` | `c/strtox.c` | the locals of the conversion; an action per character. A character stands for those the code treats alike: a small letter for its capital too (also in `0X`), `" "` for any white space |
| `Strtok` | strtok, strspn, strpbrk | the strings, cut in place, and `saveptr` |
| `Memmove` | memmove, memcpy | an action per byte |
| `CString` | the other functions of `c/string.c`, `c/strings.c`, and the table of `c/ctype.c` | a call with its arrays and the position of its loop; an action per function and turn; operators for the classes of a character |
| `Unsup` | `c/unsup.c`, `google_warn.h`, the warnings of `c/time.c` | a flag per function, `stderr`, `errno`, `optind` |
| `Output`, `Efi`, `Pci`, `Containers`, `Algorithms` | compositions of `Stdio`, `Snprintf`; of `EfiStart`, `EfiConsole`, `EfiArgv`; of the `Pci` modules; of `Vector`, `UnorderedMap`, `StdString`, `UniquePtr`; of the seven modules from `Clock` to `Unsup` | `part` is the component a behaviour is of; an action per component, its Next with the others' variables unchanged. They state the properties of section 4 |
| `MallocProofs` | | proofs about `Malloc`: its invariants; that it implements `Heap` |
| `StdioProofs`, `EfiProofs`, `PciProofs`, `AlgorithmsProofs` | | proofs about `Output`, `Efi`, `Pci`, `Algorithms` |
| `ContainersProofs` | | proofs about `Containers`: vectors, strings, pointers, the map |
| `StringsProofs` | | proofs about `CString`, in `Algorithms` |
| `Induction` | | lemmas on sequences and iteration that need induction, for the other proof modules |
| `MCMalloc`, `MCStdio`, `MCEfi`, `MCContainers`, `MCPci`, `MCAlgorithms` | | small instances for TLC; those of a composition give it constants and nothing else |

**Why parts share a run.** `Output`, `Efi`, `Pci`, `Containers` and
`Algorithms` compose several components. These share no state in the code and
their calls do not overlap (there is one thread), so every interleaving of two of
them is one of each alone: a behaviour is of one `part`, chosen at the start. The
variables of the other parts keep their first value, or `"off"` where they would
otherwise multiply the initial states.

**What composes what.** `Stdio` is checked over the outcomes of `WriteHook` for both
runtimes, and `EfiConsole`, which has the code of the EFI hooks turn by turn, is shown
to print what `WriteHook` says (`ShowsText`): the two meet at the hook, and that
the EFI hook returns the size it was given, whatever was printed, reaches the streams. `Malloc`, `Vector`, `UnorderedMap` and `StdString` instantiate the abstract
modules they implement. `LocatorsAgree` relates the two PCI implementations.

**Names.** Definitions have the names of the functions and variables of the source
where TLA+ allows it. Indices that are 0-based in C are 1-based where a TLA+ sequence
holds the data; addresses stay numbers. `NULL` is 0 where
addresses are numbers (`Malloc`, `EfiArgv`, `CString`), which start at 1, and a value of
its own elsewhere. A definition such as `MemSizeNoPad` just before
`MemSize`, with the same parameters, is what a plausible slip in that function would
do. Nothing refers to it: it is there to show that a property notices the slip
(`PROJECT.json`, "mutants").

## 3. Runs

### Runs that pass

| Run | Shows | Bounds, and why they are enough |
|---|---|---|
| `malloc` | headers intact, blocks aligned and disjoint, no leak, contents survive, calloc zeroes or refuses; implements `Heap` | 11 bytes of heap, alignment 2, header 2, two blocks of up to 3 bytes, `size_t` of 5 bits: two blocks and their headers can lie side by side in either order, with and without padding, a third request fails, 3-byte blocks grow, shrink and move; 11 * 3 wraps in the word |
| `stdio` | prefixes and gaps, in order, over both runtimes; counts that tell what was printed, over the native one; abort() unreachable; every call returns; vsnprintf stays in its buffer | a vfprintf buffer of 2 and texts of up to 5, one with a NUL in it: the buffer fills never, once, twice, with and without a rest. The native hook takes any part or fails; the console gets pieces of two, each of which may fail. vsnprintf with every size from 0 to one past the longest text |
| `efi` | the console shows the text to its first NUL, but for the chunks it refuses, and a write returns; the status is that of main and exit() ends the call it was made in; argv is right to the last byte of its block | every text of up to 5 of letter, newline, NUL, in chunks of 2: a NUL and a newline at each place in a chunk. Exit codes success, failure, -1 and one more. The stack is at most three frames, as TRY does not nest. No argument up to three, empty ones too, pointers of two cells, so that a byte and a pointer are told apart |
| `containers` | ownership of buffers and objects, no access outside of buffers, sequences; chains partition the entries, finite map; strings keep text and NUL | two vectors of up to 3 items with buffers of 2 and then 4, at two addresses: each vector grows while the other has no buffer, each is assigned from the other with and without room, a buffer is leaked by a move, and growth while both addresses are taken is covered by the proofs alone. Four keys, three of which collide in every table; up to 3 entries, which reach tables of 8 slots; a chain of three has a first, middle and last entry to erase. Two strings of up to three characters, every pair of them, also one twice, and every position and length to the one behind the end. Two unique_ptrs, three objects |
| `pci` | locators name the same device to both implementations; BARs at their ordinals, mappings of the device only, accesses inside and in the right byte order, balanced protocols, polls that tell the truth, in time | locators of one to four numbers, written in all the ways the code tells apart, with every separator and with more behind, for devices in two domains. 4 registers with every mix of 32- and 64-bit, absent and unmappable BARs; accesses ending before, at and behind the end, and, of BARs, at offsets whose sum with 4 wraps (a `size_t` of 16 values, an `unsigned` of 12); both byte orders and 4 bytes of each space; 3 handles and 2 devices, each step failing; 2-bit registers, every mask, time in steps smaller than a microsecond |
| `algorithms` | dates from February on; conversion to integers; strtok; memmove; the loops over strings; one warning for each unsupported function; what an interrupted sleep tells of the whole seconds left | first and last days of months in leap, common and century years; all strings of up to 4 of 7 characters and 4-bit integers, so overflow takes two digits; two strings cut by turns; every two blocks of 6 bytes; every array of up to 3 of four characters, unterminated ones where C allows them, with every limit up to one past the end, so that a loop that goes one too far leaves its array; any three of the unsupported functions; seconds of four microseconds and any time of interruption |

Named bounds in guards: `MaxLive` (blocks held), `MaxItems`, `MaxEntries`,
`MaxSize` (of a string), `MaxDevices`, `MaxCalls` (of unsupported functions), `MaxTime` (time goes on only as long as a poll may notice). They limit
what the program does, never how libC answers.

Deadlock is not checked: in every part the program may stop, and a part that is a
single call ends when it returns.

### Runs that show a disagreement

Each checks one sentence of the repository that the code does not keep.

| Run | The repository says | The code |
|---|---|---|
| `malloc_wrap` | `c/libc.h:30`: the size passed to the runtime is guaranteed to be > 0 | `malloc.c:61` adds padding and header without a test; near SIZE_MAX the sum is 0 |
| `sleep_left` | `c/libc.h:46`: the hook returns the microseconds left to sleep when interrupted | `native/start_main.c:61-63` takes no notice of an interrupted usleep(3) and returns 0; of an interrupted sleep(3) it returns the whole seconds left, without the microseconds behind them (line 58) |
| `vector_insert` | `tests/std_vector_test.cc:356-357` expects the items behind an insertion | `_insert_hole` has `_reserve` carry only the items before it to a new buffer |
| `string_append_own` | `cxx/include/string:195-196`: a `'\0'` at the end of every non-empty string | `s += s` resizes `s`, then copies `other.size_` characters, which is the new size: over the `'\0'` and past the buffer |
| `pci_poll_wrap` | `ggl_pci.h:105`: reads until the timeout | `ggl_pci.c:336` multiplies by 10 in 32 bits |
| `efi_time_january` | `start_main.c:158`: months `1..12 -> 11,12,1..10` | `Month` is unsigned and 8 bits wide: in January it becomes 255, which is not <= 0, and the time comes out about 21 years late |

`vector_insert`: the test in the repository inserts into a vector that has room, so
the buffer is not replaced.

`DynArray` promises what each operation on a sequence should do, and `ImplementsDynArray`
says which operation of `Vector` does which of these. Three cases do less, and the
property names each: an insertion that replaces the buffer may
leave anything behind what it inserts (`InsertLosingTail`; `vector_insert` is about it);
`push_back(v[i])` and `insert(p, v[i])` that replace the buffer add any value, since they
read the item in the buffer that `_reserve` has deleted (vector:245, :222); and
`insert(p, v[i])` within the buffer takes the item that the hole has moved to the place of
`v[i]`. `Owned`
allows of all wrong accesses only that read of an argument. No document or test of the
repository says that an item of the vector may be passed, so there is no run that shows a
disagreement.

`OwnAppend` is FALSE in the run
`containers`: appending a string to itself is the one call left out there, and
`string_append_own` is about it.

**Also seen while modelling**, without a run of their own; the properties state what the
code does where they touch it.

- *EFI.* `write_stdout` returns the size it was given also when it stopped at a NUL or the
  console failed (`Return` in `EfiConsole`), where `c/libc.h:36-37` asks for the number of
  bytes actually printed; `PrintedInOrder` and `ShowsText` say what comes of it. Without a
  console `libnanolibc_start` returns `EFI_OUT_OF_RESOURCES`
  (`NoConsole`), although `start_main.c:336-337` allows only success and unsupported.
  When `retrieve_argv` fails, main is called with argc -1 and argv NULL.
- *Allocation.* `calloc` clears through NULL when `malloc` fails (`fault` in `Malloc`).
  A move assignment of `unique_ptr` loses what the pointer held (`LostOnlyByMove`), as
  one of `vector` does (`LeaksOnlyByMove`).
- *PCI.* `ggl_pci_open` on Linux leaves its descriptor open when it fails late (`lost` in
  `PciLinux`; `MappingsOfDevice` speaks of mappings only). `ggl_pci_mread32` and
  `ggl_pci_mwrite32` there add 4 to a 64-bit offset before they compare it with the size of
  the BAR (`ggl_pci_linux.cc:266`, `:276`): an offset a few bytes below 2^64 passes, and what
  is accessed lies before the BAR (`EndsInside`, the exception that `AccessInside` names).
  They do not test `bar_index` at all; the modelled program passes one of a register.
  `ggl_pci_mpoll32` there stores no last value when it times out,
  although `ggl_pci.h:105-106` speaks of the last value read (`StoreLast` in `PciPoll`).
  EFI accepts spellings Linux has no path for (fewer digits, capitals, 0x), and looks at
  the low 32 bits of each number only, so a huge one may pass (`Valid` in `PciLocator`).
- *Strings.* A `std::string` assigned to itself, by copy or move, is empty afterwards.
  memcmp compares signed characters, so it orders those from 128 on before the others;
  strchr and strrchr do so too and never find the NUL; strstr does not go back after a
  partial match and may miss an occurrence when the needle's first character comes again
  in it; strndup takes the length of the whole string first, so it must be terminated.
- *Sleep.* `SecondsTold` says how much of the promise of `sleep_left` the native hook does
  keep: what it returns is right within a second as long as whole seconds are left.
  `sleep()` hands back the hook's microseconds where C has seconds.
- *Warnings.* The flag is set whether or not the warning could be printed, so one whose
  first print fails is never printed.

### Fairness

Nothing is assumed about the program: it may stop at any time. What is assumed is that
a call that has begun goes on, since the code is a loop in a single thread that
nothing suspends: `WF` of the steps of `Stdio` while a call is in progress, over either
runtime, of the console's steps, and of the loop of a poll. The write hook and the firmware are assumed
to return, not to succeed. A poll also needs time to pass (`WF` of `Tick`): without it
a poll that never sees its value need not end, and the code relies on the same. Nothing
is assumed of the device. All other properties are safety properties.

## 4. Proofs

The proof modules prove what the runs check on small instances for every value of the
constants that satisfies the modules' assumptions. Of the 40 properties the passing runs
check, 37 are theorems. Each proof has the same shape: an inductive invariant, one lemma
for each action that the invariant is kept, and from it the properties.

| Module | Theorems | Invariant |
|---|---|---|
| `MallocProofs` | `HeapInvariant`, and from it `TypeCorrect`, `BlocksAligned`, `HeadersIntact`, `NothingLeaks`, `RuntimeRespected`; `HeapImplemented`: malloc, free, calloc, realloc are steps of `Heap`; `CallocGivesZeros` | `IInv` |
| `StdioProofs` | `BufferNeverFull`, `PrintsInOrder`, `CountsAreTrue`, `FormatsIntoBuffer` | `StdioInv`, `BufferInv` |
| `EfiProofs` | `StatusTrue`, `ExitsCaught`, `WideStringsFit`, `TextShown`, `ArgumentsExact` | `StartInv`, `ConsoleInv`, `ArgvInv` |
| `PciProofs` | `MappingsKept`, `OrdinalsTrue`, `AccessesTrue`, `PollsTellValue`, `PollsWait`, `NothingLeft`, `LocatorsNameOne` | `LinuxInv`, `PollInv`, `RegistersInv`, `EfiInv`, `LocatorInv` |
| `ContainersProofs` | `OwnersTrue`, `LossesTrue`, `ArraysImplemented`: every method of `Vector` is the step of `DynArray` it should be, but for the three cases of section 3; `StringsSound`, `ValuesImplemented`: every method of `StdString` is one of `StringValues`; `ChainsTrue`; `MapImplemented`: every method of `UnorderedMap` is a step of `FiniteMap` | `VectorInv`, `StringInv`, `PointerInv`, `MapInv` |
| `StringsProofs` | `StringsTrue` | `StringsInv` |
| `AlgorithmsProofs` | `MovesExactly`, `SecondsAreTold`, `WarnedOnce`, `ClocksTrue`, `TokensTrue`, `ConversionsTrue` | `CopiedSoFar`, what has been copied, by the direction; `SleepInv`, `UnsupInv`, `StrtokInv`, `StrtoxInv` |

### Why the properties alone are not inductive

- *malloc.* That a store through one block leaves another's header alone needs the
  runtime's regions to be apart (`Apart`), and that freeing a block keeps the others needs
  each region to have one block. `IInv` says that every block is where malloc puts one in
  its region (`BlockOK`) and that the two correspond one to one. The arithmetic of the
  layout comes first (`AlignAfterBounds`, `BlockFits`), then a lemma for each thing that
  can be done to a heap (`CarveKeepsHeap`, `FreeKeepsHeap`, `StoreKeepsHeap`), and
  `realloc` composes them. The second half of the module turns the layout into what the
  program sees.
- *memmove.* The step that needs the choice of direction is that the byte read next is not
  among those already written.
- *sleep and warnings.* Between the two sleeps of the hook the first one has slept its
  seconds but for less than one, or was interrupted (`SleepInv`). For warnings, the calls that printed are
  as many as the warnings on stderr, and the j-th of them printed the j-th (`UnsupInv`).
- *Time.* Nothing is needed of the states, but that the sums over years and months, which
  define the calendar, have the closed forms the code uses: `LeapDay` is a statement on
  division, `SumsAgree` the induction, `MonthsClosed` the reason for the 367/12 days of a
  month in a year that begins in March.
- *strtok.* The string begun last is as it was from `saveptr` on and may have NULs only for
  delimiters before (`Cut`), so that what is read from there is what was there when it was
  begun (`AtIs`); the tokens told are those that begin before `saveptr` (`Told`). A call
  moves `saveptr` over delimiters and one token, so over one beginning of a token
  (`TokenCut`). Any other string ends in a NUL, which is all that is needed to begin it.
- *string functions.* Each loop has passed characters of which one thing is known
  (`Looping`): they are the same in both arrays, none of them is the byte, they are of the
  text, they have been copied. At every call `EndsAt` is the end of a string, which each
  array has or the limit comes before (`Given`), so that the next character may be read; and
  for each way a loop ends what is known of the characters passed says the result
  (`LoopDone`). strstr keeps the part of the needle that the last characters match; if the
  needle's first character does not recur in it, no occurrence can begin within that part.
- *strtol.* `StrtoxInv` says what has been read before each step: white space, a sign
  (`WholeFront`), the digits from `Start` on (`ReadOut`), which count `absval`, or more than
  fits if `overflow` is set (`Reached`). `LimitPassed` is why the two comparisons before a
  digit is added tell an overflow, `ResultClamped` why the word that is returned is the
  clamped number, for every even Word. The other half is that no other number begins the
  text: any reading has the same front (`FrontUnique`), start and base, but for the 0 of a
  prefix without digits (`OnlyReading`), so that the digits read are the longest
  (`DigitsLongest`), or that 0 is, or there is none (`NoDigits`).
- *stdio.* `StdioInv` says of a call in progress that its text is what the runtime has been
  given and what it has not: for vfprintf its buffer and what tfp_format has still to send,
  for the others the writes to come. What is printed is embedded in what has been given
  (`EmbedsConcat`: order is kept when both grow), and is all of it unless a write fell
  short. That a hook of EFI prints its pieces in order, whichever of them are refused, is
  `ConsoleTrue`.
- *EFI.* There are four stacks an image can have, and the frame of the last TRY is alive in
  each where exit() may be called. The console shows a text chunk by chunk, some refused
  (`InChunks`); what is shown of the first chunks grows by one chunk or by nothing. The
  block of argv is right for the arguments copied so far (`Filled`), and the size asked for
  is exactly what the pointers and strings take.
- *PCI.* Under Linux the loop of `ggl_pci_open` has, at every register where a BAR begins,
  mapped each BAR before it at its ordinal (`Placed`), so nothing is mapped over. Under EFI
  what the firmware has given is what the open devices hold and what the step in progress
  does. A poll knows of the last value that it was read and whether it matched. Two
  spellings of a locator that both parsers accept have the same numbers, by what each has
  consumed so far (`LocatorInv`).
- *Containers.* `VecSound` gives every buffer one owner, with the capacity and the count its
  owner believes in, and initialized slots up to the count; `StrSound` the same for strings,
  with the NUL. Both are of a record of all the state, so that a method composed of others
  (`insert`, `resize`, `operator=`) is proved step by step, each on the state the last one
  left. From the same lemmas comes what a method does to the abstract value.
- *Map.* `ChainsPartition` speaks of walks along chains, but a method changes links. `Linked`
  says what is true of the links of a set of entries: each is the first of its slot or behind
  exactly one other of its slot, and a rank grows along every link, which is what excludes
  circles. Inserting an entry (`LinkInsert`) and taking out a first (`LinkRemoveHead`) or a
  later one (`LinkRemoveBehind`) keep it, for one entry more or less; so `erase`, which takes
  out two entries, moves one and inserts it again, and the expansion, which starts over with
  no entry linked, are proved step by step. That only some entries are linked between the
  steps is why `Linked` has a set. From it follows that a walk ends within as many steps as
  there are entries (`WalkEnds`, by counting), passes each entry of its slot (`WalkCovers`)
  and none twice (`WalkOnce`), hence what `Chain` and `Find` return. `MapInv` adds that
  entries keep the hash of their key and that no two have the same key: then `find` tells
  the value of the key.

### What is assumed

The assumptions on the constants are those of the modules, which TLC evaluates on each run.
Some theorems have one more hypothesis:

| Hypothesis | Says | Without it |
|---|---|---|
| `AllFit` | no request, and no product of calloc, comes so near SIZE_MAX that `mem_size` wraps | the run `malloc_wrap` |
| `NoTimeoutWraps` | a timeout under EFI fits 32 bits in units of 100 ns | the run `pci_poll_wrap` |
| `~OwnAppend` | the program appends no string to itself | the run `string_append_own` |
| `NoJanuary` | the firmware's date is not in January | the run `efi_time_january` |
| `ArgumentsOfBytes` | the characters of the arguments are bytes, none of them 0 | `retrieve_argv` keeps the low byte of a 16-bit character, so another could become a NUL |

`CountIsTrue` is of the native runtime only: that of EFI does not say what it printed.
`NeverAborts` and `PrintedInOrder` are of both.

### Induction over data

The library's induction principles cannot be used, since they quantify over predicates.
`Induction` does without: a set of numbers that is not empty has a least element
(`LeastNat`, as strict inclusion of finite sets is well-founded), so a set that has 0, and
the successor of each of its elements up to n, has all of them (`UpTo`), and a function
given by iterating another exists (`Recursion`). The set stands for the predicate. From
these come what the community modules' `FlattenSeq` does (`FlattenAppend`, `FlattenConcat`),
on which the console, argv and stdio rest. So are the loops
of the map proved, which go along a chain or over all entries (`ChainTrue`, `FindTrue`,
`ExpandTrue`; `RecursionAt` when a turn depends on its number). What the function `Number`,
recursive over a sequence of digits, computes follows likewise: any function with the same
first value and the same step agrees with it everywhere (`NumberIs`).

### Only model-checked

Liveness (`CallsReturn`, `Returns` of the console and of polls): neither ENABLED nor
fairness is within reach of the prover.

## 5. Not modelled, and the plan

Not modelled:

- tinyprintf, which is not in the repository: what it does is a sequence of calls of its
  callback, and any sequence is taken.
- What passes one call on or holds nothing that changes: `new` and `delete`
  (`cxxrt.cc`), `optional`, `hash`, `compare` and `to_string` of strings, strerror,
  perror, fflush, write() of other descriptors, the native runtime's main and time hook.
- `_nnlc_initialize`, which sets the table of hooks and the write hooks of the streams
  once, before anything else runs, checks nothing and cannot fail.
- `inet.c`, which formats addresses; the declarations and constants of the headers and
  of `noimpl`.
- The text of sysfs's resource file: any layout of BARs, or a failure, comes out of it.

- Of `vector`, a range of the vector itself passed to `insert` (`v.insert(p, v.begin(),
  ...)`): items of it are passed one at a time (`InsertOwn`). Items are plain values, so
  moving one out leaves it as it was.
- Of the BAR accesses under Linux, an index that is not one of a register.

Everything that was planned has been modelled, and every safety property that a passing
run checks is proved.
