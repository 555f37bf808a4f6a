----------------------------- MODULE SystemInfo -----------------------------
(***************************************************************************)
(* src/system_info.c: the constants of the machine (g_fixed_system_info),  *)
(* set before main and refreshed by every update, and one record made by   *)
(* init_system_info and updated in four stages, any of which may fail.     *)
(* The CPU rates are differences of two readings of the kernel's counters, *)
(* the used memory one of two numbers of the same file.                    *)
(*                                                                         *)
(* Other values are abstracted to the number of the update that wrote      *)
(* them, 0 for zero.                                                       *)
(***************************************************************************)
EXTENDS Integers

CONSTANTS
  Advances,   \* by how much the counters may grow between two updates
  Drops,      \* how much iowait may jump back between two updates
  MemFiles,   \* what /proc/meminfo may hold: MemTotal (NONE if it cannot be parsed), MemAvailable
              \* (NONE on an old kernel) and the sum of what counts as available without it
  CpuCounts,  \* what sysconf may say of the number of processors
  MaxUpdates, \* bound: calls of update_system_info
  W           \* unsigned arithmetic is modulo W

AllRates == {"user", "nice", "system", "idle", "iowait", "hardirq", "softirq", "steal", "guest", "guest_nice"}
Counters == [AllRates -> Nat]

\* The kernel adds the time of a guest to user, or to nice, as well.
ASSUME AdvancesAssumption ==
  /\ Drops \subseteq Nat /\ Advances \subseteq Counters
  /\ \A a \in Advances : a.guest <= a.user /\ a.guest_nice <= a.nice
ASSUME BoundAssumption == MaxUpdates \in Nat /\ W \in Nat \ {0} /\ CpuCounts \subseteq Int

VARIABLES
  kernel,  \* the counters of /proc/stat
  meminfo, \* /proc/meminfo
  fixed,   \* g_fixed_system_info
  pc,      \* "boot", "init", "aborted", "idle" between updates, or the stage of an update
  calls,   \* number of updates begun
  result,  \* what the last update returned
  si,      \* the stages' values: loadavg, memory, swap and its size, filedescriptors
  used,    \* memory.usage.bytes (the unit of the file, kB, is left out)
  rates,   \* cpu.usage: percentages, UNKNOWN, NAN or INF
  old,     \* cpu.usage.old
  good     \* history: the last two readings of the counters that succeeded, and the
           \* number of the update that made the last

vars == <<kernel, meminfo, fixed, pc, calls, result, si, used, rates, old, good>>

NONE == -1
UNKNOWN == -1
NAN == -2   \* 0.0 / 0.0
INF == -3   \* 1.0 / 0.0

ASSUME MemAssumption ==
  MemFiles \subseteq [total: Nat \cup {NONE}, available: Nat \cup {NONE}, reclaimable: Nat]

\* Boot: no counter is zero in all of /proc/stat.
Booted == [user |-> 3, nice |-> 2, system |-> 2, idle |-> 5, iowait |-> 4, hardirq |-> 1,
           softirq |-> 1, steal |-> 1, guest |-> 1, guest_nice |-> 1]
NoReading == [c \in AllRates |-> 0]

\* guest and guest_nice are part of user and nice already.
Added(r) == r.user + r.nice + r.system + r.idle + r.iowait + r.hardirq + r.softirq + r.steal
Total(r) == Added(r) % W

\* The rates that init_system_info makes unknown and every failure before the last stage zeroes.
Shown == {"user", "system", "iowait"}

\* memset() of a record.
Init ==
  /\ kernel = Booted /\ meminfo \in MemFiles
  /\ fixed = [cpu_count |-> 0, memory_size |-> 0]
  /\ pc = "boot" /\ calls = 0 /\ result = TRUE
  /\ si = [loadavg |-> 0, memory |-> 0, swap |-> 0, swapsize |-> 0, files |-> 0] /\ used = 0
  /\ rates = [c \in AllRates |-> 0]
  /\ old = NoReading /\ good = [before |-> NoReading, last |-> NoReading, at |-> 0]

\* _constructor: the assertion fails without the number of processors (or hz, or page_size);
\* without /proc/meminfo the memory's size is 0 for now.
Constructor ==
  /\ pc = "boot"
  /\ \E n \in CpuCounts, size \in {0, meminfo.total} \ {NONE} :
       IF n < 0 THEN pc' = "aborted" /\ fixed' = fixed
       ELSE /\ pc' = "init"
            /\ fixed' = [cpu_count |-> IF n = 0 THEN 1 ELSE n, memory_size |-> size]
  /\ UNCHANGED <<kernel, meminfo, calls, result, si, used, rates, old, good>>

\* (uname does not fail.)
init_system_info ==
  /\ pc = "init"
  /\ rates' = [c \in AllRates |-> IF c \in Shown THEN UNKNOWN ELSE 0]
  /\ pc' = "idle"
  /\ UNCHANGED <<kernel, meminfo, fixed, calls, result, si, used, old, good>>

\* The machine runs: every counter may advance and iowait jump back; memory is used or freed,
\* added or taken away.
Run ==
  /\ pc = "idle" /\ calls < MaxUpdates
  /\ \E a \in Advances, d \in Drops :
       /\ kernel.iowait + a.iowait >= d
       /\ kernel' = [c \in AllRates |-> kernel[c] + a[c] - (IF c = "iowait" THEN d ELSE 0)]
  /\ meminfo' \in MemFiles
  /\ pc' = "load"
  /\ calls' = calls + 1
  /\ UNCHANGED <<fixed, result, si, used, rates, old, good>>

\* Mutant: they do not.
FailStageOnly(stage) ==
  /\ si' = [si EXCEPT !.loadavg = IF stage = 1 THEN 0 ELSE @,
                      !.memory = IF stage = 2 THEN 0 ELSE @,
                      !.swap = IF stage = 2 THEN 0 ELSE @,
                      !.files = IF stage = 4 THEN 0 ELSE @]
  /\ result' = FALSE
  /\ pc' = "idle"
  /\ used' = IF stage <= 2 THEN 0 ELSE used
  /\ UNCHANGED <<kernel, meminfo, calls, old, good>>

\* The labels error1 to error4 fall through: a failure zeroes its stage and those after it.
\* The size of the swap is zeroed by the second stage itself only.
Fail(stage) ==
  /\ si' = [si EXCEPT !.loadavg = IF stage <= 1 THEN 0 ELSE @,
                      !.memory = IF stage <= 2 THEN 0 ELSE @,
                      !.swap = IF stage <= 2 THEN 0 ELSE @,
                      !.swapsize = IF stage = 2 THEN 0 ELSE @,
                      !.files = 0]
  /\ result' = FALSE
  /\ pc' = "idle"
  /\ used' = IF stage <= 2 THEN 0 ELSE used
  /\ UNCHANGED <<kernel, meminfo, calls, old, good>>

ZeroRates(S) == [c \in AllRates |-> IF c \in S THEN 0 ELSE rates[c]]

LoadAverage ==
  /\ pc = "load"
  /\ \/ /\ si' = [si EXCEPT !.loadavg = calls]
        /\ pc' = "memory"
        /\ UNCHANGED <<kernel, meminfo, fixed, calls, result, used, rates, old, good>>
     \/ Fail(1) /\ rates' = ZeroRates(Shown) /\ fixed' = fixed

\* What counts as available.
Available(file) == IF file.available # NONE THEN file.available ELSE file.reclaimable

\* The size of the memory is refreshed from the same file first; where MemTotal cannot be
\* parsed, the one found earlier stays.
Size(file) == IF file.total # NONE THEN file.total ELSE fixed.memory_size

\* Mutant: the size of the memory is refreshed after it was used.
UsedStale(file) == (fixed.memory_size - Available(file)) % W

Used(file) == (Size(file) - Available(file)) % W

\* A line of the file that is missing is found after the used memory was stored, which is zeroed
\* again.
UsedMemory ==
  /\ pc = "memory"
  /\ LET refreshed == [fixed EXCEPT !.memory_size = Size(meminfo)] IN
       \/ /\ fixed' = refreshed
          /\ used' = Used(meminfo)
          /\ si' = [si EXCEPT !.memory = calls, !.swap = calls, !.swapsize = calls]
          /\ pc' = "cpu"
          /\ UNCHANGED <<kernel, meminfo, calls, result, rates, old, good>>
       \/ fixed' \in {fixed, refreshed} /\ Fail(2) /\ rates' = ZeroRates(Shown)

\* Mutant: the operands of the difference are swapped.
UsageSwapped(previous, current, delta) ==
  IF delta = 0 THEN NAN ELSE (100 * (previous - current)) \div delta

Usage(previous, current, delta) ==
  CASE current < previous -> 0
    [] current = previous /\ delta = 0 -> NAN
    [] current > previous /\ delta = 0 -> INF
    [] OTHER -> (100 * (current - previous)) \div delta

\* Mutant: guest time is counted as user time, too.
With(r) == r

Without(r) == [r EXCEPT !.user = @ - r.guest, !.nice = @ - r.guest_nice]

\* Mutant: the first reading is compared with the zeros of init_system_info.
RatesSinceBoot(previous, current) ==
  LET delta == (Total(current) - Total(previous)) % W
  IN [c \in AllRates |-> Usage(Without(previous)[c], Without(current)[c], delta)]

\* The first reading has nothing to be compared with.
Rates(previous, current) ==
  IF Total(previous) = 0 THEN [c \in AllRates |-> UNKNOWN]
  ELSE LET delta == (Total(current) - Total(previous)) % W
       IN [c \in AllRates |-> Usage(Without(previous)[c], Without(current)[c], delta)]

\* Mutant: the counters are read into cpu.usage.old before it is known that they are all there.
UsedCpuMovesOld ==
  /\ pc = "cpu"
  /\ \/ /\ rates' = Rates(old, kernel) /\ result' = result /\ si' = si /\ pc' = "files"
        /\ good' = [before |-> good.last, last |-> kernel, at |-> calls]
     \/ /\ rates' = ZeroRates(AllRates \ {"idle"}) /\ result' = FALSE /\ pc' = "idle"
        /\ si' = [si EXCEPT !.files = 0] /\ good' = good
  /\ old' = kernel
  /\ UNCHANGED <<kernel, meminfo, fixed, calls, used>>

\* The rates of reading r; idle is not among those a failure zeroes.
UsedCpu ==
  /\ pc = "cpu"
  /\ \/ /\ rates' = Rates(old, kernel)
        /\ old' = kernel
        /\ good' = [before |-> good.last, last |-> kernel, at |-> calls]
        /\ pc' = "files"
        /\ UNCHANGED <<kernel, meminfo, fixed, calls, result, si, used>>
     \/ Fail(3) /\ rates' = ZeroRates(AllRates \ {"idle"}) /\ fixed' = fixed

FileDescriptors ==
  /\ pc = "files"
  /\ \/ /\ si' = [si EXCEPT !.files = calls]
        /\ result' = TRUE
        /\ pc' = "idle"
        /\ UNCHANGED <<kernel, meminfo, fixed, calls, used, rates, old, good>>
     \/ Fail(4) /\ UNCHANGED <<fixed, rates>>

Update == LoadAverage \/ UsedMemory \/ UsedCpu \/ FileDescriptors
Next == Constructor \/ init_system_info \/ Run \/ Update
Spec == Init /\ [][Next]_vars

-----------------------------------------------------------------------------
\* The values a caller is given.
Reported == {"loadavg", "memory", "swap", "files"}

Percentages == [AllRates -> Nat \cup {UNKNOWN, NAN, INF}]

\* (getNowSingleCoreCpuTime divides by the number of processors.)
TypeOK ==
  /\ kernel \in Counters /\ old \in Counters
  /\ good \in [before: Counters, last: Counters, at: 0 .. MaxUpdates]
  /\ meminfo \in MemFiles
  /\ fixed \in [cpu_count: Nat, memory_size: Nat]
  /\ fixed.cpu_count = 0 => pc \in {"boot", "aborted"}
  /\ used \in 0 .. W-1
  /\ pc \in {"boot", "init", "aborted", "idle", "load", "memory", "cpu", "files"}
  /\ calls \in 0 .. MaxUpdates /\ result \in BOOLEAN
  /\ si \in [Reported \cup {"swapsize"} -> 0 .. MaxUpdates]
  /\ rates \in Percentages

\* "@return true if successful": the load, the used memory and swap, the file descriptors and
\* the rates of user, system and iowait are then this update's, and after a failure this update's
\* or zero.  (The other seven rates and the size of the swap are not zeroed by all failures:
\* ComparesLastGood says what the rates hold.)
NothingStale ==
  pc = "idle" /\ calls > 0 =>
    /\ \A f \in Reported : si[f] \in IF result THEN {calls} ELSE {0, calls}
    /\ good.at = calls \/ \A c \in Shown : rates[c] = 0
    /\ result => good.at = calls

\* The rates between the last two readings that succeeded, zero before there was one.
LastRates == IF good.at = 0 THEN [c \in AllRates |-> 0] ELSE Rates(good.before, good.last)

\* However many updates failed between or after them, the rates are those between the last two
\* readings that succeeded: all ten if the last update made the second of them.  After an update
\* that made none, a rate is zero or still that of those two readings, and idle, which no
\* failure zeroes, is.
ComparesLastGood ==
  pc = "idle" /\ calls > 0 =>
    /\ good.at = calls => rates = LastRates
    /\ \A c \in AllRates : rates[c] \in {0, LastRates[c]}
    /\ rates.idle = LastRates.idle

\* A rate is unknown until a second reading: a failed first update does not count as one.
UnknownUntilSecond ==
  pc = "idle" /\ result /\ calls > 0 => (good.before = NoReading <=> rates.user = UNKNOWN)

Sum(r) == r.user + r.nice + r.system + r.idle + r.iowait + r.hardirq + r.softirq + r.steal
          + r.guest + r.guest_nice

\* From the second reading on the ten rates are shares of the time between two readings and
\* together the whole of it, less what ten roundings take off, although guest time is in two
\* counters each; where no time has passed none of them is a number.  (As long as no counter
\* jumps back.)
WithinHundred ==
  pc = "idle" /\ calls > 0 /\ good.at = calls /\ good.before # NoReading =>
    IF Total(good.last) = Total(good.before) THEN \A c \in AllRates : rates[c] = NAN
    ELSE (\A c \in AllRates : rates[c] \in 0 .. 100) /\ Sum(rates) \in 91 .. 100

\* "System CPU usage is %.1f%% / 100%%", where there is a number to print.
PrintedWithinHundred ==
  pc = "idle" /\ result /\ rates.user >= 0 /\ rates.system >= 0 => rates.user + rates.system <= 100

\* The used memory is within the size of the memory, through updates that fail half-way and
\* memory that is added or taken away.  The unsigned difference wraps only when the file says
\* that more is available than there is, or has no MemTotal and more available than the memory
\* had when its size was last found.
UsedWithinSize ==
  pc = "idle" => used <= fixed.memory_size \/ Available(meminfo) > Size(meminfo)
=============================================================================
