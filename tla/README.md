# Verification of simple_process_monitor

simple_process_monitor reads `/proc` and reports which processes, or which threads of a
process, use most CPU time or memory. This directory holds TLA+ modules translated from its
source, configurations that check them with TLC, and theorems checked with TLAPS.
Paths below are relative to the repository. The build modelled is the Debug build, with
assertions (the Release build stops on unused-function warnings, which are errors).

## The system

| Part | State it keeps | Operations | What makes it correct |
|---|---|---|---|
| Process tree, `src/ProcessTree.c` | the caller's array of entries and its size; during a call the previous array, the loop index, `root` | `ProcessTree_init`, `ProcessTree_delete` | links agree with the ppids read; the recursion starts at a root and ends; sums are those of subtrees; the previous tree is alive while it is compared with, and freed after |
| Scan of `/proc`, same file | one record and one name buffer, filled again for every process; the array | the parsers of `stat`, `status`, `io`, `cmdline`, `attr/current`, `fd`, `limits` | a published entry holds only its own data, whichever process exits when |
| Top processes, `src/process_tree_wrapper.cpp` | the tree it owns; a priority queue | constructor, `update`, `getTopProcessInfos`, destructor | the list is the top of the real processes |
| Process monitor, `src/process_monitor.cpp` | nothing between calls; during `logTopCpu` a thread per listed process, a vector of tables | `logTopCpu`, `logTopRam` | tables are complete when read, each next to its process; two intervals in all |
| System information, `src/system_info.c` | `SystemInfo_T`, with the CPU counters of the last reading | `init_system_info`, `update_system_info`, `getNowSingleCoreCpuTime` | what a failure leaves is zero or of this update, except for seven rates; rates are those between the last two good readings |
| Fixed system information, same file | `g_fixed_system_info` | a constructor before `main`; every update refreshes the memory's size | used memory is compared with the size read from the same file, or last found |
| StringBuffer, `src/util/StringBuffer.c` | memory that grows, the length of the text in it | create, append, replace, trim, delete, clear, searches | the text is the one appended, terminated inside its memory; a replacement stays in it and ends |
| Str, `src/util/Str.c` | none | functions that change a C string in place, and comparisons | each leaves what its header says, inside the array |
| Mem, file, time, debug in `src/util` | none | allocation, reading a file, the clock, printing | - |

How they interact: `ProcessMonitor` makes a `ProcessTreeWrapper` for each reading
(`collectTopInfo`), which calls `ProcessTree_init` in its constructor and again after the
interval; `ProcessTree_init` calls the scan, takes the clock from the system information and
compares with the tree of the call before. `logTopCpu` of all processes starts a thread per
listed process, each with a monitor and a wrapper of its own; the threads share with the
caller only the vector they write their tables into. Everything else is sequential, but runs
beside a system that changes: processes exit between two reads, pids come back, counters jump.

What is hard here: processes that vanish in the middle of a scan, with a record shared by
all of them; an array that grows and moves in the loop that walks it; `root` being a pid for
a while and an index later; the life of the previous tree; threads that write into their
parent's frame; and failures half way through an update. `PROJECT.json` lists each of these
hazards at its line with the properties that are about it.

## The modules

```
ProcessTree -- ProcessTreeProofs -- ProcessTreeLinksProofs (with MCProcessTree)
   |    |             |
   |    |             \--- ProcessTreeWrapperProofs (with ProcessTreeWrapper)
   |    \--- implements ProcListing
   \-- ProcessTreeWrapper (with TopProcesses) -- MCProcessTreeWrapper
ProcScan -- ProcScanProofs, implements ProcListing
ProcessMonitor -- ProcessMonitorProofs, implements MonitorReport
SystemInfo -- SystemInfoProofs, MCSystemInfo
TextFunctions -- CMemory -- StringBuffer, Str -- MCStrings -- StringsProofs -- StrProofs
StringBuffer implements TextBuffer
```

**ProcessTree.tla** - `ProcessTree_init` as a machine of small steps: `Begin` (139-155: the
previous tree is saved and stripped), `Glob`/`GlobFails`, `Publish`/`Skip` (what the scan does
for one pid), `ScanEmpty`/`ScanDone` (157-171), one action per way an iteration of the loop
173-212 can go (`LinkRoot`, `LinkThread`, `LinkChild`, `LinkOrphan`), one per outcome of the
end of the loop (`LinkDone...`), and `_fillProcessTree` with an explicit stack (`LinkDoneFill`,
`FillChild`, `FillReturn`, `FillDone`). `Delete` is `ProcessTree_delete`. `pt` is the array;
`agg` has the fields of the same entries that only the recursion writes; `heap` and `parts`
say which arrays, and the strings and lists of which arrays, are allocated. Percentages are
integers; the CPU clock is a number per call, 0 when `/proc/stat` is unreadable. Of the data
of a process, memory and thread count are kept, to be summed (file descriptors are summed in
the same way). ppids are arbitrary: processes are read one after another while others exit, so
what was read need not be a tree.

**ProcScan.tla** - the scan of `/proc`, one action per file. What is modelled of a datum is
whose it is. `Exit` may strike between any two reads. That a name is empty is modelled as that
nothing was appended: a process whose name in `stat` is the empty string counts as named.
**ProcListing.tla** is the abstract scan, repeated: a set is listed, its pids are decided in
order, each published or skipped, and the caller takes the array. ProcScan implements it, and
so does ProcessTree, whose `Publish` and `Skip` stand for the reads of one process: it is where
the two meet. The order of the numbers stands for that of the names, by which `glob` sorts.

**TopProcesses.tla** - `getTopProcessInfos`. `std::priority_queue` is external: `Greatest` is
what it returns. Popping from an empty queue is undefined; `PopEmpty` does what the vector of
the build's library does, whose storage still holds the last pointer.
**ProcessTreeWrapper.tla** - the life of a wrapper, which composes ProcessTree (whose steps are
the steps of its updates) with TopProcesses (over the tree of that moment): constructor and
`update` with its assertion, queries between two updates, destructor. Objects live one after
another.

**ProcessMonitor.tla** - `logTopCpu` and `logTopRam` with the worker threads, time, and
processes that exit. A tree is abstracted to whether it could be read and when. With `prompt`,
time stands still unless every thread sleeps or waits, so that what a call takes is what its
sleeps take; without it, any thread may be late. **MonitorReport.tla** is the abstract report,
without threads: a list is taken, the tables are obtained, the lines are written in order, each
next to its own table.

**SystemInfo.tla** - the constructor before `main` (`g_fixed_system_info`), `init_system_info`
and `update_system_info` in four stages. `/proc/meminfo` is a record of three numbers, from
which the used memory is computed modulo `W`; where `MemTotal` cannot be parsed the size found
earlier stays (line 129). Load, swap and file descriptors are abstracted to the number of the
update that wrote them. All ten CPU counters advance, each by its own amount, and all ten rates
are computed, or are a mark: `UNKNOWN` (-1 in the code), `NAN` for 0/0 and `INF` for a counter
that moved while the total did not. `AdvancesAssumption` is about the kernel: it adds the time of
a guest to `user` or `nice`, too. The labels 386-405 zero three of the ten rates, and a stage
that cannot read `/proc/stat` all but `idle`; the others, and the size of the swap when the load
cannot be read, keep what an earlier update left.
`NothingStale` is therefore about what is zeroed, and `ComparesLastGood` says of all ten rates
which two readings they are of, or that they were zeroed since.

**CMemory.tla** - arrays of bytes, unwritten ones included, and what the C library does on
them: what is written beyond the end of an array makes it longer, and what is read there is
unwritten, so that an overrun is seen by whatever is said of the array's domain.
**StringBuffer.tla** - every function that changes a buffer, over memory that grows and
keeps what shorter texts left behind; the second loop of `replace` is a step per iteration, and
reading or writing what is not there is a state (`"undefined"`). Sizes are computed modulo `W`
(`size_t`) and cast to an `int` modulo `IntW` (line 147). **TextBuffer.tla** is the abstract
buffer: a text, without memory, and with the preconditions of the header; `KeepsText` says that
each step of the buffer is one of TextBuffer, or a delete at the very end (`DeleteAtEnd`), which
the header excludes and the code accepts. **Str.tla** - the functions that change a string in
place, called one after another on the same array, and those that compare or search, against
the definitions of **TextFunctions.tla**, which are those of the header. **MCStrings.tla**
composes the two as ProcessTree.c does with a command line: what a buffer holds is duplicated,
and the duplicate is worked on.

**MCProcessTree.tla**, **MCProcessTreeWrapper.tla**, **MCSystemInfo.tla**, **MCStrings.tla**
give constants their values; the first also defines what the sums should be (`Subtree`, the
least set that has an entry and is closed under "whose parent is in it") and what a walk
covers. In the modules of the strings recursion is written with recursive functions, which the
provers can unfold, and not with recursive operators.

Definitions marked as mutants are variants of the definition after them with a plausible
mistake in it. No specification uses them: they show that a property would notice.

## The runs

| Run | Shows | Bounds |
|---|---|---|
| `tree_structure` | for any ppids: links, walk, sums, that entries are collected in order, that calls end | four pids, one call: enough for two missing parents, cycles of two and three, and chains |
| `tree_refresh` | over the life of a wrapper: life of the previous tree, results, sums, usages only of who was there before, every list a top of the tree of that moment, every call ends | two pids (three entries with a missing parent), three updates with deletes and queries between, failures at every step, CPU times that go back, an unreadable clock, counts -1, 1 and 3 |
| `scan` | no datum of another process but the I/O counters; survivors are published; order | four pids, of which one has no command line and no readable `fd`, one no readable `io`, one an odd `io` |
| `monitor_threads` | slots, pairing, intervals, refinement of MonitorReport, two intervals in all, every call ends | two pids, lists of up to three (a process may be listed twice), interval of 2, any thread late while another sleeps and by 1 otherwise, or none ever late (`Paces`); both kinds of monitor, both calls |
| `system_info` | stale values, the readings that rates are of, their sum, used memory | three updates, five loads of the machine between them (none, idle, every counter but idle by an amount of its own, a program, a guest); six memory files: memory that grows or shrinks, an old kernel, a container that contradicts itself, two without `MemTotal`; two processors, none (taken for one) or an error |
| `strings` | the buffer implements the text, stays in its memory, replacement ends; changes agree with the headers, searches and comparisons where header and code do | texts of up to 4 characters over a letter or two and white space, growth steps of 2, first sizes 1 and 4; then up to any number of Str calls on one array |

Memory in `MCMem` is a power of two per pid, so that equal sums mean equal sets. Two processes
suffice for the refresh run, since what is compared is one entry with its predecessor and the
arrays of two calls; three calls are needed to tell the previous tree from an older one. The
buffer grows in steps of `STRLEN`, 256 in the code: with 2 a text of a few characters passes
every boundary (fits, fills, is cut, grows twice). `W` stands for 2^64 and `IntW` for 2^32: `W` is
a multiple of `IntW`, as there, and half of `IntW` is more than any size the texts need, so that a
wrapped difference is seen as one. `MaxUsed` bounds the text that `new`, `append` and `replace`
make; nothing in the code bounds it.

`CHECK_DEADLOCK FALSE` is given where the modelled call ends (`monitor_threads`), an assertion
may stop the program (`tree_refresh`, `top_few`), the process of one scan is over (`scan`), the
bound on updates is met (`system_info`) or an array has been changed as it can (`strings`); the
process tree is checked for deadlock.

Runs that end in a violation, each a disagreement of the code with a comment or a test:

| Run | The code | What it contradicts |
|---|---|---|
| `tree_leak` | a refresh that finds nothing, or whose glob fails, does not free the previous array (157-161) | `ProcessTree.c:213`, "Free the rest of old ptree" |
| `tree_two_roots` | with two missing parents only one tree is summed (203, 222) | `ProcessTree.c:197-199`, "full tree-like structure with root" |
| `scan_io` | I/O counters of a process that exited are published for the next one whose `io` is denied (649, 418-422) | `ProcessTree.c:613-614`, "prevent partial data" |
| `top_few` | the bound of the loop counts the virtual root that was not pushed: an empty queue is popped (52) | `process_tree_wrapper.cpp:46`, "Skip the virtual root" |
| `system_info_iowait` | the total the rates are divided by contains the counter that jumped back (291) | `system_info.c:187` and `test.cpp:26`, "/ 100%" |
| `strings_overlap` | occurrences that overlap are all counted, but not all found again: the loop that replaces runs past the text (`StringBuffer.c:129`) | `StringBuffer.h:94` and 103, "Replace all occurrences", "The number of replacements that took place" |

More that the models reach, and where a header and the code disagree on calls that nothing in
the repository makes. The first four are about what no document speaks of; of the others, the
properties say what is promised where code and header agree, and the rest is stated here:

- the first usage of a process that was a missing parent in the tree before counts all its CPU
  time since its start;
- after one unreadable `/proc/stat` the next usages are computed over the time since boot;
- a missing parent with a pid other than 0 is a process of the list, with the name "(null)";
- after a failed load average or memory stage seven public rates (`system_info.h:57-70`) are
  those of an earlier update, and after a failed load average so is `swap.size`; after an
  unreadable `/proc/stat` `idle` is;
- `StringBuffer_delete` accepts the index that is the length (`StringBuffer.c:190`), for which
  `StringBuffer.h:120-127` promises an AssertException: `KeepsText` admits it as a step of its
  own;
- `Str_endsWith` ("Returns true if a ends with b", `Str.h:159-164`) never compares the first
  character of `b`;
- `Str_startsWith` says that no text but the empty one starts with the empty text;
- `Str_compareConstantTime` (0 if the strings are equal) tells texts apart that are equal and
  longer than its limit.

`ComparisonsAgree` leaves out exactly the last three; the lemmas `StartsWithAgrees`,
`EndsWithAgrees` and `ConstantTimeIs` of `StrProofs` say what the code answers for every
argument.

## Fairness

`CallReturns` assumes that the thread in `ProcessTree_init` keeps running (`WF_vars(Step)`);
nobody is obliged to begin a call, and `CollectsInOrder` needs no more. `Answers` of the
wrapper assumes it of updates (`Refresh`, `Updated`) and of queries (`GetTopStep`): one thread
runs what it called. ProcScan assumes the same of the scanning thread (`DecidesInOrder`), not
that anybody exits. `Returns` assumes that each thread of a monitor is scheduled and that time
passes: the caller, every worker and the clock have weak fairness, as the operating system's
scheduler gives it. `ReplaceReturns` assumes that the loop of a replacement goes on.
SystemInfo states no liveness: an update is four stages in a row.

## The proofs

All theorems hold for every value of the constants under the assumptions named in the
component's module: any finite set of pids, any data and clock, any number of calls, threads
and updates. Each has an inductive invariant behind it, and one lemma per action or group of
actions that keeps it.

| Module | Theorem | Property | Invariant |
|---|---|---|---|
| `ProcessTreeProofs` | `TypeCorrect` | `TypeOK` | `IInv` |
| | `RootFound` | `RootPending` | |
| | `StartsAtRoot` | `FillsFromRoot` | |
| | `NothingDangles` | `NoDangling` | `MInv` |
| | `ComparesWithPrevious` | `OldIsPrevious` | |
| | `OneTreeHasParts` | `OnePartsHolder` | |
| | `ResultTells` | `ResultAgrees` | |
| `ProcessTreeLinksProofs` | `PidsUnique` | `UniquePids` | `LInv` |
| | `ParentsRight` | `ParentsAgree` | |
| | `ListsRight` | `ListsAgree` | |
| | `ScanInOrder` | ProcessTree implements `Listing!Safety` | `SInv` |
| | `WalksTree` | `FillWalksTree` | `WInv` |
| | `RecursionBounded` | the recursion is never deeper than the array is long | |
| | `SumsRight` | `SubtreeSums` | `SumsInv` |
| | `VisitsOneTree` | `OneTreeVisited` | |
| `ProcessTreeWrapperProofs` | `UsesTree` | the wrapper's steps are the tree's | `WrapperInv` |
| | `TwoReadings` | `UsageNeedsTwoReadings` | |
| | `NoClock` | `NoClockNoUsage` | |
| | `ListsTop` | `TopOfReal` | `FirstIsListed`, `QueryInv` |
| `ProcScanProofs` | `ScanTypes` | `TypeOK` | `ScanInv` |
| | `NameCleared` | `NameClearedBetween` | |
| | `EntriesOfOne` | `EntriesOwn` | |
| | `SurvivorsKept` | `SurvivorsPublished` | |
| | `ScanDecides` | ProcScan implements `Listing!Safety` | |
| `ProcessMonitorProofs` | `OutlivesWorkers` | `SlotsOutliveWorkers` | `MonInv` |
| | `PairsLines` | `LinesPaired` | |
| | `MeasuresTwice` | `SecondInterval` | |
| | `TakesTwoIntervals` | `TotalTime` | |
| | `ReportsAsPromised` | `ReportsInOrder`: ProcessMonitor implements MonitorReport | |
| `SystemInfoProofs` | `SystemTypes` | `TypeOK` | `SystemInv` |
| | `ShowsThisUpdate` | `NothingStale` | |
| | `RatesOfLastGood` | `ComparesLastGood` | `RatesInv` |
| | `MemoryFits` | `UsedWithinSize` | |
| | `UnknownFirst` (1) | `UnknownUntilSecond` | `ReadInv`, `UnknownInv` |
| | `RatesWithinHundred` (1, 2) | `WithinHundred` | `ReadInv`, `GrowInv` |
| `StringsProofs` | `TextTerminated` (4) | `Terminated` | `BufferInv`, `BoundInv` |
| | `SearchesRight` (4) | `SearchesAgree` | |
| | `ReplaceSafe` (3, 4) | `ReplaceDefined` | `SafeInv` |
| | `ImplementsText` (3, 4) | `KeepsText`: StringBuffer implements TextBuffer | |
| | `TakenSafely` (3, 4) | the same of `MCSpec`, which the run checks | |
| `StrProofs` | `ComparisonsRight` (4) | `ComparisonsAgree` | `StringInv` |
| | `FunctionsDocumented` (4) | `ChangesDocumented` | |

Those with a number have the hypotheses of that number, and each of these is needed:

1. `CountersFit`: the counters of `/proc/stat` add up to less than 2^64. The code adds them in
   64 bits, and takes a total of 0 for no reading at all (`system_info.c:279`).
2. `Drops \subseteq {0}`: no counter jumps back. The run `system_info_iowait` is the
   counterexample when iowait does.
3. `PatternsApart`: no pattern can overlap an occurrence of itself, as "aa" does.
   `strings_overlap` is the counterexample. Nothing in the program calls `replace`.
4. `RoomyInt`: `W` is a multiple of `IntW`, as 2^64 is of 2^32, and twice what the longest text
   may need in a replacement fits an `int`. The code keeps sizes in an `int` and casts what it
   computed modulo 2^64; without this the size of a replacement may be cut or negative.
   `MaxUsed`, which bounds the text in the model, is what the hypothesis speaks of.

`RootPending`, `OldIsPrevious`, `NameClearedBetween` and `LinesPaired` are theorems only: the
runs check what they serve (where the recursion starts, what dangles, whose data is published,
that the report is MonitorReport's).

**`IInv`.** `TypeOK` is not inductive: that a stack frame holds an index of the array needs
that children lists do (`ListsBounded`), that an array with entries is there while it is
linked needs to know the phase (`PhaseInv`), and that `root` is an index when the recursion
starts needs `RootPending`: a pid in `root` means that an entry which is its own root is still
ahead of the loop, and the iteration over that entry stores its index. `FindResult` says of
`_findProcess`, for every array, that it returns an index of an entry with the pid, or -1 when
there is none; `UsageSelfType` that a usage is -1 or not negative.

**`MInv`** adds what is allocated in which phase. The new array has the number of the call
from `Glob` on; the previous one is that of the call before, and there is one only until the
links are made; parts belong to the array of the current call alone, because `Begin` takes
them from the previous one, and a scan that published nothing made none. The leak of
`tree_leak` does not disturb it: what is left behind has no parts and is never `old` again.

**`LInv`** is `IInv` with `UniquePids`, `ParentsAgree` and `ListsAgree`, which no step keeps
one by one: a child is appended to the list of the entry `Find` names, it names the right one
because pids are unique, and it is not in that list yet because the list holds only indexes
below `cur`. `LinkStepAgrees` is this argument, once for `LinkChild` and `LinkOrphan`; the
virtual entry keeps pids unique since `Find` has just returned -1.

**`WInv`** adds that whatever is visited was reached through its parent, and that no entry has
two activations. Then nothing below an entry that is not visited is visited, so that the lists
of a newly entered entry are untouched, and a child that is entered is in no list but its
parent's (`ParentsAgree`, `ListsAgree`), of which it is not a later element (the lists
increase). Cycles among the ppids read do no harm: they are not reachable from a root. An
entry with one activation at most bounds the stack by the number of entries (`StackFits`).

**`WrapperInv`** is `MInv` with what is known of usages: those computed so far are of pids in
`seen`, which are the pids of the array compared with, and a usage that is not -1 had a clock.
It carries over the tree's own theorems, since every step of a wrapper is a step of its tree or
leaves it alone (`TreeStep`).

**`QueryInv`** says that the queue of a query is what is not listed yet, that every listed value
bounds it, and that its front is a greatest of it or, once it is empty, the least of the list:
this is why an extra pop (`top_few`) repeats an entry but does not spoil the order. The queue is
not empty from the start, because the first entry of an array is that of a listed process
(`FirstIsListed`): virtual entries are appended behind others.

**`ScanInv`** says of every point of an iteration whose data the record holds: what the
mandatory files gave is of the process being read as soon as they were (`DataInv`), its
descriptors and limits are nobody's before they are read, and so is the name, which is appended
last of what may fail, so that no failure leaves it behind (`NameInv`). `SurvivorsInv` says
where a living process is: ahead, being read, or published.

**`MonInv`** says of each thread what it has done when the caller is at a given place, at any
speed. Threads are started in the order of their slots (`BornInv`), so that the number of those
started is the number of the last; a process found gone stays gone, so that a table that was
obtained has a first reading (`WorkerInv`); after the joins all have finished, and an exception
escapes only from the first start (`JoinInv`). That a worker at work implies a caller that
still starts or joins (`AtWork`) is the heart of `SlotsOutliveWorkers` and of the refinement,
where a worker's last step is `Fill`. `PromptInv` pins the time at each place when running
takes none.

**`SystemInv`** adds to the properties what each stage leaves to the later ones: which values
are this update's, and which a failure is still to zero (`StagesInv`); and, at every stage, that
each rate is zero or that of the last two good readings, and all are when the last of them was
made in this update (`RatesInv`). That `cpu.usage.old` is the last good reading is one conjunct
of it; that the memory's size in force is the one the used memory was subtracted from, even when
a later line of the file is missing, is what `UsedWithinSize` needs of the stages.

**`ReadInv`, `UnknownInv`, `GrowInv`.** `old` is all zero until the first good reading, and no
reading is: so a rate is unknown exactly as long as nothing was read before. Readings grow from
one to the next, guest time within user time (`GrowInv`); so each of the ten differences, with
the guest's share taken from `user` and `nice`, is not negative, and they add up to the
difference of the totals, since what is taken from the two is what the guest's two rates are of.
A hundred times that, divided by the total and rounded down ten times, is at most 100 and at
least 91. With `RatesInv` this need not be kept through failures: the rates are the ones computed
from the two readings whenever a report is made.

**`SumsInv`** says what the sums are while the recursion runs: those of an entry are over the
children that have returned (`Finished`) and everything below these (`Added`), and a child that
is on the stack has not been counted. The subtrees of two children have nothing in common, since
who is below both would have a parent in one of them and, going up, a single way to the root
(`ParentsAgree`); so the sum over the union is the sum of the sums when a child returns. An
entry that is visited and not on the stack has all its children visited (`FillShape`), so that
at the end `Added` is the subtree without its root, and what is visited is the root's subtree.
That a sum over a finite set does not depend on the order of its elements is proved first, from
the definition of the fold, by induction on the set.

**`BufferInv`** says of the memory between calls that it holds `used` characters and a NUL
behind them; in the loop of a replacement the text may fill the memory, and nothing is said of
what follows it. **`BoundInv`** bounds the text by `MaxUsed`: with `RoomyInt` the cast of the
size of a replacement is then the size. **`SafeInv`** adds how many occurrences are ahead of the loop (`Ahead`): as
many as the counter still has to replace, and there is room for them. That no pattern overlaps
itself gives that an occurrence ahead stays one when the one before it gives way, and that the
count of the first loop, which moves by one character, is that of the second, which moves past
what it replaced.

**The refinement** of TextBuffer maps a buffer to `Shown`: the text already passed by a
replacement followed by what it will do to the rest (`ReplacedFrom`). A step of the loop moves
an occurrence from the second part to the first and does not change the whole, so it is a
stutter; the last step leaves the text of the memory. Creating, appending, trimming and cutting
are one step of the text each, a cut at the very end none (`DeleteAtEnd`). What `Replaced` and `Occurrences` are is unfolded from their
recursive functions, whose existence is proved first; statements about every text are proved by
taking the least position, counted from the end of the text, at which one fails.

**`StringInv`** says that the array is a C string (`HoldsText`): characters of a text, a NUL
behind them, and behind this whatever earlier calls left. Each function has a lemma (`...Held`)
that says which text it makes of any text, and with that, that the next call finds a string
again. The functions that are loops in the code are recursive functions in the model, which exist and
stay in the set an iteration keeps (`Iterated`). That set is the loop invariant: what has been
written, followed by what `Unescaped` or `ZerosEscaped` makes of the rest, is what they make of
the whole (`Unescaping`, `EscapingZeros`); the second also says that the bytes still to be read
are in place, which the code moves each time a NUL becomes two characters. `LettersAssumption` says that
the letters Str.c writes are characters: TLC evaluates it, and no prover knows that two strings
differ unless it sees both.

Only model-checked:

- liveness (`CallReturns`, `Answers`, `Returns`, `ReplaceReturns`) and with it the full
  refinements of ProcListing, `CollectsInOrder` and `DecidesInOrder`: fairness is out of the
  prover's reach. Their safety parts are theorems.

## Not modelled

- The formats of `/proc` files and of the report; the truncation of long lines, and of files
  longer than their buffers; allocation failures, which abort; a negative return of `vsnprintf`,
  which a format could cause; kernels with fewer than ten counters in `/proc/stat`.
- In ProcessMonitor, the assertion of `update` (`process_tree_wrapper.h:57`), which aborts when
  all processes are asked for and cannot be listed: ProcessTreeWrapper models it.
- `Str_match` (POSIX regular expressions), `Str_hash`, `Str_cmp` (`strcmp`), `Str_cat` and
  `Str_vcat` (`vsnprintf`), and the `Str_parse` functions, which are `strtol` and `strtod` with
  an assertion. Nothing of this is called with state.
- uptime, owners and limits, which are copied; `hz` and `page_size`, which do not change.
- A process whose pid was reused, which the tree cannot tell from its predecessor.
- The Release build, in which assertions do nothing; the build files and the two test programs.

## Plan

Done: all components with state, the abstract specifications of the scan, the report and the
buffer, and the theorems above, which state every safety property of the runs. Left, if the
code grows in that direction:

1. A property of `Str_endsWith`, `Str_startsWith`, `Str_compareConstantTime` and
   `StringBuffer_delete` for the arguments that are left out, once code or header is changed.
2. Hazards without a property, listed in `PROJECT.json` each with its reason: they concern pids
   that are reused and values that no document says anything of.
