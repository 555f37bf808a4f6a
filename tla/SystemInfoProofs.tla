-------------------------- MODULE SystemInfoProofs --------------------------
(***************************************************************************)
(* Theorems about SystemInfo: through updates that fail at any stage, what *)
(* a record shows is of the last update or zero, the rates are those       *)
(* between the readings they should compare, and the used memory fits the  *)
(* memory there is.                                                        *)
(***************************************************************************)
EXTENDS SystemInfo, TLAPS

\* The stages of the update in progress that are done, each by this update.
StagesInv ==
  /\ pc \in {"boot", "init"} => calls = 0 /\ used = 0
  /\ pc \in {"load", "memory", "cpu", "files"} => calls > 0
  /\ pc \in {"memory", "cpu", "files"} => si.loadavg = calls
  /\ pc \in {"cpu", "files"} => si.memory = calls /\ si.swap = calls
  /\ pc = "files" => good.at = calls
  /\ pc \in {"cpu", "files"} => used <= fixed.memory_size \/ Available(meminfo) > Size(meminfo)

\* cpu.usage.old is the last good reading, and the rates that a failure does not make zero are
\* those it gave.
RatesInv ==
  /\ old = good.last /\ good.at <= calls
  /\ pc \in {"boot", "init"} => good.at = 0
  /\ pc \in {"load", "memory", "cpu"} => good.at < calls
  /\ good.at = calls /\ calls > 0 => rates = LastRates
  /\ \A c \in AllRates \ Shown : rates[c] \in {0, LastRates[c]}
  /\ rates.idle = LastRates.idle

SystemInv == TypeOK /\ StagesInv /\ NothingStale /\ RatesInv /\ UsedWithinSize

LEMMA NoReadingType == NoReading \in Counters
BY DEF NoReading, Counters

\* What the counters of a reading are.
LEMMA CounterTypes ==
  ASSUME NEW r \in Counters
  PROVE  /\ r.user \in Nat /\ r.nice \in Nat /\ r.system \in Nat /\ r.idle \in Nat
         /\ r.iowait \in Nat /\ r.hardirq \in Nat /\ r.softirq \in Nat /\ r.steal \in Nat
         /\ r.guest \in Nat /\ r.guest_nice \in Nat
         /\ Added(r) \in Nat /\ Total(r) \in Nat /\ Total(r) < W
         /\ (Added(r) < W => Total(r) = Added(r))
<1>1. /\ r.user \in Nat /\ r.nice \in Nat /\ r.system \in Nat /\ r.idle \in Nat
      /\ r.iowait \in Nat /\ r.hardirq \in Nat /\ r.softirq \in Nat /\ r.steal \in Nat
      /\ r.guest \in Nat /\ r.guest_nice \in Nat
  BY DEF Counters, AllRates
<1>2. Added(r) \in Nat
  BY <1>1 DEF Added
<1>3. \A n \in Nat : n % W \in Nat /\ n % W < W /\ (n < W => n % W = n)
  BY BoundAssumption
<1> QED BY <1>1, <1>2, <1>3 DEF Total

LEMMA WithoutTypes ==
  ASSUME NEW r \in Counters
  PROVE  /\ \A c \in AllRates : Without(r)[c] \in Int
         /\ Without(r)["user"] = r.user - r.guest
         /\ Without(r)["nice"] = r.nice - r.guest_nice
         /\ \A c \in AllRates \ {"user", "nice"} : Without(r)[c] = r[c] /\ r[c] \in Nat
<1>1. r \in [AllRates -> Nat]
  BY DEF Counters
<1>2. /\ Without(r)["user"] = r.user - r.guest /\ Without(r)["nice"] = r.nice - r.guest_nice
      /\ \A c \in AllRates \ {"user", "nice"} : Without(r)[c] = r[c] /\ r[c] \in Nat
  BY <1>1 DEF Without, AllRates
<1>3. \A c \in AllRates : Without(r)[c] \in Int
  BY <1>2, CounterTypes
<1> QED BY <1>2, <1>3

\* The usage of a counter is not the mark of an unknown one.
LEMMA UsageKnown ==
  ASSUME NEW previous \in Int, NEW current \in Int, NEW delta \in Nat
  PROVE  Usage(previous, current, delta) \in (Nat \cup {UNKNOWN, NAN, INF}) \ {UNKNOWN}
<1>1. CASE current < previous \/ delta = 0
  BY <1>1 DEF Usage, UNKNOWN, NAN, INF
<1>2. CASE current >= previous /\ delta # 0
  <2>1. 100 * (current - previous) \in Nat /\ delta \in Nat \ {0}
    BY <1>2
  <2>2. (100 * (current - previous)) \div delta \in Nat
    BY <2>1
  <2> QED BY <1>2, <2>2 DEF Usage, UNKNOWN
<1> QED BY <1>1, <1>2

LEMMA RatesKnown ==
  ASSUME NEW p \in Counters, NEW r \in Counters, Total(p) # 0
  PROVE  Rates(p, r) \in [AllRates -> (Nat \cup {UNKNOWN, NAN, INF}) \ {UNKNOWN}]
<1> DEFINE delta == (Total(r) - Total(p)) % W
<1>1. delta \in Nat
  <2>1. Total(r) \in Nat /\ Total(p) \in Nat /\ W \in Nat \ {0}
    BY CounterTypes, BoundAssumption
  <2> QED BY <2>1
<1>2. Rates(p, r) = [c \in AllRates |-> Usage(Without(p)[c], Without(r)[c], delta)]
  BY DEF Rates
<1> HIDE DEF delta
<1>3. ASSUME NEW c \in AllRates
      PROVE  Usage(Without(p)[c], Without(r)[c], delta) \in (Nat \cup {UNKNOWN, NAN, INF}) \ {UNKNOWN}
  <2>1. Without(p)[c] \in Int /\ Without(r)[c] \in Int
    BY WithoutTypes
  <2> QED BY <1>1, <2>1, UsageKnown
<1> QED BY <1>2, <1>3

LEMMA RatesType ==
  ASSUME NEW p \in Counters, NEW r \in Counters
  PROVE  Rates(p, r) \in Percentages
<1>1. CASE Total(p) = 0
  <2>1. Rates(p, r) = [c \in AllRates |-> UNKNOWN]
    BY <1>1 DEF Rates
  <2> QED BY <2>1 DEF Percentages
<1>2. CASE Total(p) # 0
  BY <1>2, RatesKnown DEF Percentages
<1> QED BY <1>1, <1>2

\* What a failure that zeroes some of the rates leaves of them.
LEMMA ZeroRatesLeave ==
  ASSUME TypeOK, NEW S \in SUBSET AllRates, "idle" \notin S, rates' = ZeroRates(S)
  PROVE  /\ rates' \in Percentages /\ rates'.idle = rates.idle
         /\ \A c \in AllRates : rates'[c] \in {0, rates[c]}
         /\ \A c \in S : rates'[c] = 0
<1>1. rates \in [AllRates -> Nat \cup {UNKNOWN, NAN, INF}]
  BY DEF TypeOK, Percentages
<1>2. rates' = [c \in AllRates |-> IF c \in S THEN 0 ELSE rates[c]] /\ "idle" \in AllRates
  BY DEF ZeroRates, AllRates
<1> QED BY <1>1, <1>2 DEF Percentages

\* What is shown, and which of the rates a reading that fails zeroes.
LEMMA RateNames ==
  /\ Shown \subseteq AllRates /\ "idle" \notin Shown /\ "idle" \in AllRates
  /\ Shown \subseteq AllRates \ {"idle"}
BY DEF Shown, AllRates

-----------------------------------------------------------------------------
LEMMA SystemInit ==
  ASSUME Init
  PROVE  SystemInv
<1>1. TypeOK
  <2>1. kernel \in Counters
    BY DEF Init, Counters, Booted, AllRates
  <2>2. /\ old \in Counters /\ good \in [before: Counters, last: Counters, at: 0 .. MaxUpdates]
    BY NoReadingType, BoundAssumption DEF Init
  <2>3. si \in [Reported \cup {"swapsize"} -> 0 .. MaxUpdates]
    BY BoundAssumption DEF Init, Reported
  <2>4. rates \in Percentages
    BY DEF Init, Percentages
  <2> QED BY <2>1, <2>2, <2>3, <2>4, BoundAssumption DEF Init, TypeOK
<1>2. StagesInv /\ NothingStale /\ UsedWithinSize
  BY DEF Init, StagesInv, NothingStale, UsedWithinSize
<1>3. RatesInv
  BY DEF Init, RatesInv, LastRates, AllRates
<1> QED BY <1>1, <1>2, <1>3 DEF SystemInv

\* The values of the record that a failure does not zero stay.
LEMMA FailFields ==
  ASSUME TypeOK, NEW stage \in 1 .. 4, Fail(stage)
  PROVE  /\ si' \in [Reported \cup {"swapsize"} -> 0 .. MaxUpdates]
         /\ si'.loadavg = IF stage = 1 THEN 0 ELSE si.loadavg
         /\ si'.memory = IF stage <= 2 THEN 0 ELSE si.memory
         /\ si'.swap = IF stage <= 2 THEN 0 ELSE si.swap
         /\ si'.files = 0
         /\ used' = IF stage <= 2 THEN 0 ELSE used
         /\ used' \in 0 .. W-1
         /\ result' = FALSE /\ pc' = "idle"
         /\ UNCHANGED <<kernel, meminfo, calls, old, good>>
<1>1. si \in [Reported \cup {"swapsize"} -> 0 .. MaxUpdates] /\ 0 \in 0 .. MaxUpdates
  BY BoundAssumption DEF TypeOK
<1>2. si' \in [Reported \cup {"swapsize"} -> 0 .. MaxUpdates]
  BY <1>1 DEF Fail, Reported
<1>3. /\ si'.loadavg = IF stage <= 1 THEN 0 ELSE si.loadavg
      /\ si'.memory = IF stage <= 2 THEN 0 ELSE si.memory
      /\ si'.swap = IF stage <= 2 THEN 0 ELSE si.swap
      /\ si'.files = 0
  BY <1>1 DEF Fail, Reported
<1>4. used' = (IF stage <= 2 THEN 0 ELSE used) /\ used' \in 0 .. W-1
  BY BoundAssumption DEF Fail, TypeOK
<1> QED BY <1>2, <1>3, <1>4 DEF Fail

\* A failure at a stage leaves nothing stale: what it zeroes and what the update has done.
LEMMA FailStep ==
  ASSUME SystemInv, NEW stage \in 1 .. 4, Fail(stage),
         fixed' \in [cpu_count: Nat, memory_size: Nat],
         fixed'.cpu_count = fixed.cpu_count,
         pc = CASE stage = 1 -> "load" [] stage = 2 -> "memory" [] stage = 3 -> "cpu" [] stage = 4 -> "files",
         rates' \in Percentages, rates'.idle = rates.idle,
         \A c \in AllRates : rates'[c] \in {0, rates[c]},
         IF stage = 4 THEN rates' = rates ELSE \A c \in Shown : rates'[c] = 0,
         stage >= 3 => fixed' = fixed
  PROVE  SystemInv'
<1>1. /\ si' \in [Reported \cup {"swapsize"} -> 0 .. MaxUpdates]
      /\ si'.loadavg = IF stage = 1 THEN 0 ELSE si.loadavg
      /\ si'.memory = IF stage <= 2 THEN 0 ELSE si.memory
      /\ si'.swap = IF stage <= 2 THEN 0 ELSE si.swap
      /\ si'.files = 0
      /\ used' = IF stage <= 2 THEN 0 ELSE used
      /\ used' \in 0 .. W-1
      /\ result' = FALSE /\ pc' = "idle"
      /\ UNCHANGED <<kernel, meminfo, calls, old, good>>
  BY FailFields DEF SystemInv
<1>2. pc \notin {"boot", "init", "aborted", "idle"}
  OBVIOUS
<1>3. TypeOK'
  BY <1>1, <1>2 DEF SystemInv, TypeOK
<1>4. NothingStale'
  <2>1. stage # 1 => si.loadavg = calls
    BY DEF SystemInv, StagesInv
  <2>2. stage >= 3 => si.memory = calls /\ si.swap = calls
    BY DEF SystemInv, StagesInv
  <2>3. stage = 4 => good.at = calls
    BY DEF SystemInv, StagesInv
  <2>4. \A f \in Reported : si'[f] \in {0, calls}
    BY <1>1, <2>1, <2>2 DEF Reported
  <2> QED BY <1>1, <2>3, <2>4 DEF NothingStale
<1>5. UsedWithinSize'
  <2>1. CASE stage <= 2
    BY <1>1, <2>1 DEF UsedWithinSize
  <2>2. CASE stage >= 3
    BY <1>1, <2>2 DEF SystemInv, StagesInv, UsedWithinSize, Available, Size
  <2> QED BY <2>1, <2>2
<1>6. RatesInv'
  <2>1. LastRates' = LastRates
    BY <1>1 DEF LastRates
  <2>2. stage # 4 => good.at < calls
    BY DEF SystemInv, RatesInv
  <2>3. \A c \in AllRates \ Shown : rates'[c] \in {0, LastRates[c]}
    BY DEF SystemInv, RatesInv
  <2>4. good.at = calls => rates' = rates
    BY <2>2 DEF SystemInv, TypeOK
  <2> QED BY <1>1, <2>1, <2>3, <2>4 DEF SystemInv, RatesInv
<1> QED BY <1>1, <1>3, <1>4, <1>5, <1>6 DEF SystemInv, StagesInv

LEMMA ConstructorStep ==
  ASSUME SystemInv, Constructor \/ init_system_info
  PROVE  SystemInv'
<1>1. /\ UNCHANGED <<kernel, meminfo, calls, result, si, used, old, good>>
      /\ pc \in {"boot", "init"} /\ pc' \in {"init", "aborted", "idle"}
  BY DEF Constructor, init_system_info
<1>2. meminfo.total \in Nat \cup {NONE}
  BY MemAssumption DEF SystemInv, TypeOK
<1>3. /\ fixed' \in [cpu_count: Nat, memory_size: Nat]
      /\ fixed'.cpu_count = 0 => pc' \in {"boot", "aborted"}
  BY <1>2, BoundAssumption DEF Constructor, init_system_info, SystemInv, TypeOK
<1>4. rates' \in Percentages
  BY DEF Constructor, init_system_info, SystemInv, TypeOK, Percentages
<1>5. calls = 0 /\ used = 0 /\ good.at = 0
  BY <1>1 DEF SystemInv, StagesInv, RatesInv
<1>6. RatesInv'
  <2>1. LastRates' = [c \in AllRates |-> 0] /\ LastRates = [c \in AllRates |-> 0]
    BY <1>1, <1>5 DEF LastRates
  <2>2. (\A c \in AllRates \ Shown : rates'[c] = 0) /\ rates'.idle = 0
    BY <2>1, RateNames DEF Constructor, init_system_info, SystemInv, RatesInv
  <2>3. old' = good'.last /\ good'.at = 0 /\ calls' = 0
    BY <1>1, <1>5 DEF SystemInv, RatesInv
  <2> QED BY <1>1, <2>1, <2>2, <2>3, RateNames DEF RatesInv
<1> QED BY <1>1, <1>3, <1>4, <1>5, <1>6 DEF SystemInv, TypeOK, StagesInv, NothingStale, UsedWithinSize

\* How the counters move.
LEMMA RunCounters ==
  ASSUME TypeOK, Run
  PROVE  \E a \in Advances, d \in Drops :
           /\ a \in Counters /\ a.guest <= a.user /\ a.guest_nice <= a.nice /\ d \in Nat
           /\ kernel' \in Counters
           /\ kernel'.iowait = kernel.iowait + a.iowait - d
           /\ \A c \in AllRates \ {"iowait"} : kernel'[c] = kernel[c] + a[c]
<1>1. PICK a \in Advances, d \in Drops :
        /\ kernel.iowait + a.iowait >= d
        /\ kernel' = [c \in AllRates |-> kernel[c] + a[c] - (IF c = "iowait" THEN d ELSE 0)]
  BY DEF Run
<1>2. /\ a \in Counters /\ a.guest <= a.user /\ a.guest_nice <= a.nice /\ d \in Nat
  BY AdvancesAssumption
<1>3. /\ \A c \in AllRates : kernel[c] \in Nat /\ a[c] \in Nat
      /\ "iowait" \in AllRates
  BY <1>2 DEF TypeOK, Counters, AllRates
<1>4. /\ kernel'["iowait"] = kernel["iowait"] + a["iowait"] - d
      /\ \A c \in AllRates \ {"iowait"} : kernel'[c] = kernel[c] + a[c]
  BY <1>1, <1>2, <1>3
<1>5. \A c \in AllRates : kernel'[c] \in Nat
  BY <1>1, <1>2, <1>3, <1>4
<1>6. kernel' \in Counters
  BY <1>1, <1>5 DEF Counters
<1> QED BY <1>2, <1>4, <1>6

LEMMA RunStep ==
  ASSUME SystemInv, Run
  PROVE  SystemInv'
<1>1. /\ UNCHANGED <<fixed, result, si, used, rates, old, good>>
      /\ pc = "idle" /\ pc' = "load" /\ calls < MaxUpdates /\ calls' = calls + 1
      /\ meminfo' \in MemFiles
  BY DEF Run
<1>2. calls \in 0 .. MaxUpdates /\ calls' \in 0 .. MaxUpdates /\ calls' > 0
  BY <1>1, BoundAssumption DEF SystemInv, TypeOK
<1>3. kernel' \in Counters
  BY RunCounters DEF SystemInv
<1>4. TypeOK'
  BY <1>1, <1>2, <1>3 DEF SystemInv, TypeOK
<1>5. RatesInv'
  <2>1. LastRates' = LastRates
    BY <1>1 DEF LastRates
  <2>2. good.at \in 0 .. MaxUpdates /\ good.at <= calls
    BY DEF SystemInv, TypeOK, RatesInv
  <2> QED BY <1>1, <1>2, <2>1, <2>2 DEF SystemInv, RatesInv
<1> QED BY <1>1, <1>2, <1>4, <1>5 DEF SystemInv, StagesInv, NothingStale, UsedWithinSize

LEMMA LoadAverageStep ==
  ASSUME SystemInv, LoadAverage
  PROVE  SystemInv'
<1>0. pc = "load"
  BY DEF LoadAverage
<1>1. CASE Fail(1) /\ rates' = ZeroRates(Shown) /\ fixed' = fixed
  <2>1. /\ rates' \in Percentages /\ rates'.idle = rates.idle
        /\ \A c \in AllRates : rates'[c] \in {0, rates[c]}
        /\ \A c \in Shown : rates'[c] = 0
    BY <1>1, RateNames, ZeroRatesLeave DEF SystemInv
  <2>2. fixed' \in [cpu_count: Nat, memory_size: Nat] /\ fixed'.cpu_count = fixed.cpu_count
    BY <1>1 DEF SystemInv, TypeOK
  <2> QED BY <1>0, <1>1, <2>1, <2>2, FailStep
<1>2. ASSUME si' = [si EXCEPT !.loadavg = calls], pc' = "memory",
             UNCHANGED <<kernel, meminfo, fixed, calls, result, used, rates, old, good>>
      PROVE  SystemInv'
  <2>1. calls > 0
    BY <1>0 DEF SystemInv, StagesInv
  <2>2. si' \in [Reported \cup {"swapsize"} -> 0 .. MaxUpdates] /\ si'.loadavg = calls
    BY <1>2 DEF SystemInv, TypeOK, Reported
  <2>3. TypeOK'
    BY <1>0, <1>2, <2>1, <2>2 DEF SystemInv, TypeOK
  <2>4. RatesInv'
    BY <1>0, <1>2 DEF SystemInv, RatesInv, LastRates
  <2> QED BY <1>2, <2>1, <2>2, <2>3, <2>4 DEF SystemInv, StagesInv, NothingStale, UsedWithinSize
<1> QED BY <1>1, <1>2 DEF LoadAverage

\* The difference of the size of the memory and what is available.
LEMMA UsedType ==
  ASSUME TypeOK
  PROVE  /\ Size(meminfo) \in Nat /\ Used(meminfo) \in 0 .. W-1
         /\ Used(meminfo) <= Size(meminfo) \/ Available(meminfo) > Size(meminfo)
<1> DEFINE size == Size(meminfo)
           available == Available(meminfo)
<1>1. size \in Nat /\ available \in Nat /\ W \in Nat \ {0}
  BY MemAssumption, BoundAssumption DEF Available, Size, TypeOK
<1>2. Used(meminfo) = (size - available) % W
  BY DEF Used
<1> HIDE DEF size, available
<1>3. \A n \in Int : n % W \in 0 .. W-1
  BY <1>1
<1>4. ASSUME NEW n \in Nat
      PROVE  n % W <= n
  <2>1. n = W * (n \div W) + (n % W) /\ n \div W \in Nat
    BY <1>1
  <2>2. W * (n \div W) \in Nat
    BY <1>1, <2>1
  <2>3. n % W \in Nat
    BY <1>1, <1>3
  <2> QED BY <2>1, <2>2, <2>3
<1>5. available <= size => size - available \in Nat /\ size - available <= size
  BY <1>1
<1>6. available <= size => Used(meminfo) <= size
  <2>1. available <= size => (size - available) % W <= size - available
    BY <1>4, <1>5
  <2>2. (size - available) % W \in Int
    BY <1>1, <1>3
  <2> QED BY <1>1, <1>2, <1>5, <2>1, <2>2
<1>7. Used(meminfo) \in 0 .. W-1
  BY <1>1, <1>2, <1>3
<1> QED BY <1>1, <1>6, <1>7 DEF size, available

LEMMA UsedMemoryStep ==
  ASSUME SystemInv, UsedMemory
  PROVE  SystemInv'
<1> DEFINE refreshed == [fixed EXCEPT !.memory_size = Size(meminfo)]
<1>0. /\ pc = "memory" /\ Size(meminfo) \in Nat
      /\ fixed \in [cpu_count: Nat, memory_size: Nat] /\ fixed.cpu_count # 0
  BY UsedType DEF UsedMemory, SystemInv, TypeOK
<1>1. CASE fixed' \in {fixed, refreshed} /\ Fail(2) /\ rates' = ZeroRates(Shown)
  <2>1. /\ rates' \in Percentages /\ rates'.idle = rates.idle
        /\ \A c \in AllRates : rates'[c] \in {0, rates[c]}
        /\ \A c \in Shown : rates'[c] = 0
    BY <1>1, RateNames, ZeroRatesLeave DEF SystemInv
  <2>2. fixed' \in [cpu_count: Nat, memory_size: Nat] /\ fixed'.cpu_count = fixed.cpu_count
    BY <1>0, <1>1
  <2> QED BY <1>0, <1>1, <2>1, <2>2, FailStep
<1>2. ASSUME fixed' = refreshed, used' = Used(meminfo),
             si' = [si EXCEPT !.memory = calls, !.swap = calls, !.swapsize = calls], pc' = "cpu",
             UNCHANGED <<kernel, meminfo, calls, result, rates, old, good>>
      PROVE  SystemInv'
  <2>1. /\ si' \in [Reported \cup {"swapsize"} -> 0 .. MaxUpdates]
        /\ si'.loadavg = calls /\ si'.memory = calls /\ si'.swap = calls
    BY <1>0, <1>2 DEF SystemInv, TypeOK, StagesInv, Reported
  <2>2. /\ fixed' \in [cpu_count: Nat, memory_size: Nat] /\ fixed'.cpu_count # 0
        /\ fixed'.memory_size = Size(meminfo)
    BY <1>0, <1>2
  <2>3. used' \in 0 .. W-1 /\ (used' <= Size(meminfo) \/ Available(meminfo) > Size(meminfo))
    BY <1>2, UsedType DEF SystemInv
  <2>4. Size(meminfo)' = Size(meminfo) /\ Available(meminfo)' = Available(meminfo)
    BY <1>2, <2>2 DEF Size, Available
  <2>5. TypeOK'
    BY <1>2, <2>1, <2>2, <2>3 DEF SystemInv, TypeOK
  <2>6. StagesInv'
    BY <1>0, <1>2, <2>1, <2>2, <2>3, <2>4 DEF SystemInv, StagesInv
  <2>7. RatesInv'
    BY <1>0, <1>2 DEF SystemInv, RatesInv, LastRates
  <2> QED BY <1>2, <2>5, <2>6, <2>7 DEF SystemInv, NothingStale, UsedWithinSize
<1> QED BY <1>1, <1>2 DEF UsedMemory

LEMMA UsedCpuStep ==
  ASSUME SystemInv, UsedCpu
  PROVE  SystemInv'
<1>0. pc = "cpu" /\ calls \in 0 .. MaxUpdates /\ calls > 0 /\ kernel \in Counters
  BY DEF UsedCpu, SystemInv, TypeOK, StagesInv
<1>1. CASE Fail(3) /\ rates' = ZeroRates(AllRates \ {"idle"}) /\ fixed' = fixed
  <2>1. /\ rates' \in Percentages /\ rates'.idle = rates.idle
        /\ \A c \in AllRates : rates'[c] \in {0, rates[c]}
        /\ \A c \in AllRates \ {"idle"} : rates'[c] = 0
    BY <1>1, ZeroRatesLeave DEF SystemInv
  <2>2. fixed' \in [cpu_count: Nat, memory_size: Nat] /\ fixed'.cpu_count = fixed.cpu_count
    BY <1>1 DEF SystemInv, TypeOK
  <2>3. \A c \in Shown : rates'[c] = 0
    BY <2>1, RateNames
  <2>4. 3 \in 1 .. 4 /\ Fail(3) /\ pc = "cpu" /\ fixed' = fixed
    BY <1>0, <1>1
  <2> QED BY <2>1, <2>2, <2>3, <2>4, FailStep
<1>2. ASSUME rates' = Rates(old, kernel), old' = kernel,
             good' = [before |-> good.last, last |-> kernel, at |-> calls], pc' = "files",
             UNCHANGED <<kernel, meminfo, fixed, calls, result, si, used>>
      PROVE  SystemInv'
  <2>1. rates' \in Percentages
    BY <1>2, RatesType DEF SystemInv, TypeOK
  <2>2. /\ good' \in [before: Counters, last: Counters, at: 0 .. MaxUpdates]
        /\ good'.at = calls /\ good'.last = kernel /\ good'.before = old
    BY <1>0, <1>2 DEF SystemInv, TypeOK, RatesInv
  <2>3. TypeOK'
    BY <1>0, <1>2, <2>1, <2>2 DEF SystemInv, TypeOK
  <2>4. StagesInv'
    BY <1>0, <1>2, <2>2 DEF SystemInv, StagesInv, Available, Size
  <2>5. RatesInv'
    <3>1. LastRates' = rates'
      BY <1>0, <1>2, <2>2 DEF LastRates
    <3> QED BY <1>0, <1>2, <2>2, <3>1 DEF RatesInv
  <2> QED BY <1>2, <2>3, <2>4, <2>5 DEF SystemInv, NothingStale, UsedWithinSize
<1> QED BY <1>1, <1>2 DEF UsedCpu

LEMMA FileDescriptorsStep ==
  ASSUME SystemInv, FileDescriptors
  PROVE  SystemInv'
<1>0. pc = "files" /\ calls \in 0 .. MaxUpdates
  BY DEF FileDescriptors, SystemInv, TypeOK
<1>1. CASE Fail(4) /\ UNCHANGED <<fixed, rates>>
  BY <1>0, <1>1, FailStep DEF SystemInv, TypeOK
<1>2. ASSUME si' = [si EXCEPT !.files = calls], result' = TRUE, pc' = "idle",
             UNCHANGED <<kernel, meminfo, fixed, calls, used, rates, old, good>>
      PROVE  SystemInv'
  <2>1. /\ si' \in [Reported \cup {"swapsize"} -> 0 .. MaxUpdates]
        /\ \A f \in Reported : si'[f] = calls
    BY <1>0, <1>2 DEF SystemInv, TypeOK, StagesInv, Reported
  <2>2. TypeOK'
    BY <1>0, <1>2, <2>1 DEF SystemInv, TypeOK
  <2>3. NothingStale' /\ UsedWithinSize'
    BY <1>0, <1>2, <2>1 DEF SystemInv, StagesInv, NothingStale, UsedWithinSize, Available, Size
  <2>4. RatesInv'
    BY <1>0, <1>2 DEF SystemInv, RatesInv, LastRates
  <2> QED BY <1>2, <2>1, <2>2, <2>3, <2>4 DEF SystemInv, StagesInv
<1> QED BY <1>1, <1>2 DEF FileDescriptors

\* In every state the stages that are done are this update's, and the rates those of the
\* readings that succeeded.
THEOREM SystemInductive == Spec => []SystemInv
<1>1. Init => SystemInv
  BY SystemInit
<1>2. SystemInv /\ [Next]_vars => SystemInv'
  <2> SUFFICES ASSUME SystemInv, [Next]_vars PROVE SystemInv'
    OBVIOUS
  <2>1. CASE Next
    BY <2>1, ConstructorStep, RunStep, LoadAverageStep, UsedMemoryStep, UsedCpuStep,
       FileDescriptorsStep DEF Next, Update
  <2>2. CASE UNCHANGED vars
    <3>1. TypeOK' /\ StagesInv' /\ NothingStale' /\ UsedWithinSize'
      BY <2>2 DEF vars, SystemInv, TypeOK, StagesInv, NothingStale, UsedWithinSize, Available, Size
    <3>2. RatesInv'
      BY <2>2 DEF vars, SystemInv, RatesInv, LastRates
    <3> QED BY <3>1, <3>2 DEF SystemInv
  <2> QED BY <2>1, <2>2
<1> QED BY <1>1, <1>2, PTL DEF Spec

-----------------------------------------------------------------------------
\* The number of processors that getNowSingleCoreCpuTime divides by is not 0, and a rate is a
\* number that is not negative, or a mark.
THEOREM SystemTypes == Spec => []TypeOK
<1>1. SystemInv => TypeOK
  BY DEF SystemInv
<1> QED BY <1>1, SystemInductive, PTL

\* After an update that succeeds the load, the used memory and swap, the file descriptors and
\* the rates of user, system and iowait are its own; after one that fails each of these is its
\* own or zero.
THEOREM ShowsThisUpdate == Spec => []NothingStale
<1>1. SystemInv => NothingStale
  BY DEF SystemInv
<1> QED BY <1>1, SystemInductive, PTL

\* After any number of updates that failed, all ten rates are those between the last two
\* readings that succeeded, or zeroed since; idle is never zeroed.
THEOREM RatesOfLastGood == Spec => []ComparesLastGood
<1>1. SystemInv => ComparesLastGood
  <2> SUFFICES ASSUME SystemInv, pc = "idle", calls > 0
               PROVE  /\ good.at = calls => rates = LastRates
                      /\ \A c \in AllRates : rates[c] \in {0, LastRates[c]}
                      /\ rates.idle = LastRates.idle
    BY DEF ComparesLastGood
  <2>1. RatesInv /\ (good.at = calls \/ \A c \in Shown : rates[c] = 0)
    BY DEF SystemInv, NothingStale
  <2> QED BY <2>1 DEF RatesInv
<1> QED BY <1>1, SystemInductive, PTL

\* The used memory fits the memory there is, unless the file says that more is available than
\* there is, or does not say how much there is.
THEOREM MemoryFits == Spec => []UsedWithinSize
<1>1. SystemInv => UsedWithinSize
  BY DEF SystemInv
<1> QED BY <1>1, SystemInductive, PTL

-----------------------------------------------------------------------------
(* The rates, as long as the counters add up to less than 2^64. *)

CountersFit == Added(kernel) < W

\* A reading that succeeded adds up to something.
Read(r) == r.user > 0 /\ Added(r) < W

\* The counters are never all zero, and neither is a reading.
ReadInv ==
  /\ kernel.user > 0
  /\ old = NoReading \/ Read(old)
  /\ good.before = NoReading \/ Read(good.before)
  /\ good.last = NoReading \/ Read(good.last)

\* What a reading that succeeded has done, until the next update.
UnknownInv ==
  pc = "files" \/ (pc = "idle" /\ result /\ calls > 0)
    => (good.before = NoReading <=> rates.user = UNKNOWN)

LEMMA NothingAdded == Total(NoReading) = 0 /\ Added(NoReading) = 0
<1>1. Added(NoReading) = 0
  BY DEF Added, NoReading, AllRates
<1>2. 0 % W = 0
  BY BoundAssumption
<1> QED BY <1>1, <1>2 DEF Total

LEMMA ReadTotal ==
  ASSUME NEW r \in Counters, Read(r)
  PROVE  Total(r) # 0
<1>1. Total(r) = Added(r) /\ Added(r) > 0
  BY CounterTypes DEF Read, Added
<1> QED BY <1>1

\* A failure and the other stages leave the kernel's counters and the readings alone.
LEMMA OtherSteps ==
  ASSUME [Next]_vars, ~Run, ~(UsedCpu /\ pc' = "files")
  PROVE  UNCHANGED <<kernel, old, good>>
<1>1. CASE Constructor \/ init_system_info
  BY <1>1 DEF Constructor, init_system_info
<1>2. CASE Update
  BY <1>2 DEF Update, LoadAverage, UsedMemory, UsedCpu, FileDescriptors, Fail
<1> QED BY <1>1, <1>2 DEF Next, vars

\* What a reading that succeeds stores.
LEMMA ReadingStored ==
  ASSUME SystemInv, UsedCpu, pc' = "files"
  PROVE  /\ kernel' = kernel /\ old' = kernel /\ good'.last = kernel /\ good'.before = old
         /\ rates' = Rates(old, kernel)
<1>1. /\ kernel' = kernel /\ old' = kernel
      /\ good' = [before |-> good.last, last |-> kernel, at |-> calls]
      /\ rates' = Rates(old, kernel)
  BY DEF UsedCpu, Fail
<1> QED BY <1>1 DEF SystemInv, RatesInv

LEMMA ReadStep ==
  ASSUME SystemInv, ReadInv, CountersFit, [Next]_vars
  PROVE  ReadInv'
<1>1. CASE Run
  <2>1. PICK a \in Counters : kernel'.user = kernel.user + a.user
    BY <1>1, RunCounters DEF SystemInv, AllRates
  <2>2. kernel \in Counters
    BY DEF SystemInv, TypeOK
  <2>3. kernel'.user > 0
    BY <2>1, <2>2, CounterTypes DEF ReadInv
  <2>4. UNCHANGED <<old, good>>
    BY <1>1 DEF Run
  <2> QED BY <2>3, <2>4 DEF ReadInv, Read
<1>2. CASE UsedCpu /\ pc' = "files"
  BY <1>2, ReadingStored DEF ReadInv, Read, CountersFit
<1>3. CASE ~Run /\ ~(UsedCpu /\ pc' = "files")
  BY <1>3, OtherSteps DEF ReadInv, Read
<1> QED BY <1>1, <1>2, <1>3

LEMMA UnknownStep ==
  ASSUME SystemInv, ReadInv, UnknownInv, [Next]_vars
  PROVE  UnknownInv'
<1>0. TypeOK /\ StagesInv
  BY DEF SystemInv
<1>1. CASE UsedCpu /\ pc' = "files"
  <2>1. good'.before = old /\ rates' = Rates(old, kernel)
    BY <1>1, ReadingStored
  <2>2. CASE old = NoReading
    <3>1. rates' = [c \in AllRates |-> UNKNOWN]
      BY <2>1, <2>2, NothingAdded DEF Rates
    <3> QED BY <2>1, <2>2, <3>1 DEF AllRates, UnknownInv
  <2>3. CASE old # NoReading
    <3>1. rates' \in [AllRates -> (Nat \cup {UNKNOWN, NAN, INF}) \ {UNKNOWN}]
      BY <1>0, <2>1, <2>3, ReadTotal, RatesKnown DEF TypeOK, ReadInv
    <3> QED BY <2>1, <2>3, <3>1 DEF AllRates, UnknownInv
  <2> QED BY <2>2, <2>3
<1>2. CASE FileDescriptors
  BY <1>2 DEF FileDescriptors, Fail, UnknownInv
<1>3. CASE Run
  BY <1>3 DEF Run, UnknownInv
<1>4. CASE Constructor \/ init_system_info
  BY <1>0, <1>4 DEF Constructor, init_system_info, UnknownInv, StagesInv
<1>5. CASE LoadAverage \/ UsedMemory \/ (UsedCpu /\ pc' # "files")
  BY <1>5 DEF LoadAverage, UsedMemory, UsedCpu, Fail, UnknownInv
<1>6. CASE UNCHANGED vars
  BY <1>6 DEF vars, UnknownInv
<1> QED BY <1>1, <1>2, <1>3, <1>4, <1>5, <1>6 DEF Next, Update

\* A rate is unknown until a second reading, and known from then on, as long as the counters
\* add up to less than 2^64.
THEOREM UnknownFirst == Spec /\ []CountersFit => []UnknownUntilSecond
<1>1. Init => ReadInv /\ UnknownInv
  BY DEF Init, ReadInv, UnknownInv, Booted
<1>2. SystemInv /\ CountersFit /\ ReadInv /\ UnknownInv /\ [Next]_vars => ReadInv' /\ UnknownInv'
  BY ReadStep, UnknownStep
<1>3. UnknownInv => UnknownUntilSecond
  BY DEF UnknownInv, UnknownUntilSecond
<1> QED BY <1>1, <1>2, <1>3, SystemInductive, PTL DEF Spec

-----------------------------------------------------------------------------
\* A counter of the reading r, without what is part of another, is not larger in s.
NotAfter(r, s) == \A c \in AllRates : Without(r)[c] <= Without(s)[c]

\* Readings grow, unless iowait jumps back.
GrowInv == NotAfter(old, kernel) /\ NotAfter(good.before, good.last)

LEMMA GrowStep ==
  ASSUME SystemInv, GrowInv, Drops \subseteq {0}, [Next]_vars
  PROVE  GrowInv'
<1>0. kernel \in Counters /\ old \in Counters
  BY DEF SystemInv, TypeOK
<1>1. CASE Run
  <2>1. PICK a \in Advances, d \in Drops :
           /\ a \in Counters /\ a.guest <= a.user /\ a.guest_nice <= a.nice /\ d \in Nat
           /\ kernel' \in Counters
           /\ kernel'.iowait = kernel.iowait + a.iowait - d
           /\ \A c \in AllRates \ {"iowait"} : kernel'[c] = kernel[c] + a[c]
    BY <1>1, RunCounters DEF SystemInv
  <2>2. d = 0 /\ UNCHANGED <<old, good>>
    BY <1>1 DEF Run
  <2>3. \A c \in AllRates : Without(old)[c] \in Int /\ Without(kernel)[c] \in Int /\ Without(kernel')[c] \in Int
    BY <1>0, <2>1, WithoutTypes
  <2>4. \A c \in AllRates : Without(kernel)[c] <= Without(kernel')[c]
    <3>1. \A c \in AllRates : kernel[c] \in Nat /\ a[c] \in Nat
      BY <1>0, <2>1 DEF Counters
    <3>2. \A c \in AllRates : kernel'[c] = kernel[c] + a[c]
      BY <2>1, <2>2, <3>1 DEF AllRates
    <3>3. \A c \in AllRates \ {"user", "nice"} : Without(kernel)[c] <= Without(kernel')[c]
      BY <1>0, <2>1, <3>1, <3>2, WithoutTypes
    <3>4. Without(kernel)["user"] <= Without(kernel')["user"]
      BY <1>0, <2>1, <3>1, <3>2, WithoutTypes DEF AllRates
    <3>5. Without(kernel)["nice"] <= Without(kernel')["nice"]
      BY <1>0, <2>1, <3>1, <3>2, WithoutTypes DEF AllRates
    <3> QED BY <3>3, <3>4, <3>5
  <2>5. NotAfter(old, kernel)'
    BY <2>2, <2>3, <2>4 DEF GrowInv, NotAfter
  <2>6. NotAfter(good.before, good.last)'
    BY <2>2 DEF GrowInv, NotAfter
  <2> QED BY <2>5, <2>6 DEF GrowInv
<1>2. CASE UsedCpu /\ pc' = "files"
  <2>1. kernel' = kernel /\ old' = kernel /\ good'.last = kernel /\ good'.before = old
    BY <1>2, ReadingStored
  <2>2. \A c \in AllRates : Without(kernel)[c] \in Int
    BY <1>0, WithoutTypes
  <2> QED BY <2>1, <2>2 DEF GrowInv, NotAfter
<1>3. CASE ~Run /\ ~(UsedCpu /\ pc' = "files")
  BY <1>3, OtherSteps DEF GrowInv, NotAfter
<1> QED BY <1>1, <1>2, <1>3

\* A share of a whole, rounded down.
Share(part, whole) == (100 * part) \div whole

LEMMA ShareFits ==
  ASSUME NEW part \in Nat, NEW whole \in Nat \ {0}, part <= whole
  PROVE  /\ Share(part, whole) \in 0 .. 100
         /\ Share(part, whole) * whole \in Nat
         /\ Share(part, whole) * whole <= 100 * part
         /\ 100 * part < Share(part, whole) * whole + whole
<1> DEFINE q == (100 * part) \div whole
<1>1. 100 * part \in Nat /\ 100 * part <= 100 * whole
  OBVIOUS
<1>2. q \in Nat /\ q * whole <= 100 * part /\ 100 * part < q * whole + whole
  <2>1. \A n \in Nat : n \div whole \in Nat /\ (n \div whole) * whole <= n
                       /\ n < (n \div whole) * whole + whole
    OBVIOUS
  <2> QED BY <1>1, <2>1
<1> HIDE DEF q
<1>3. q * whole \in Nat
  BY <1>2
<1>4. q <= 100
  <2>1. q * whole <= 100 * whole
    BY <1>1, <1>2, <1>3
  <2> QED BY <1>2, <2>1
<1> QED BY <1>2, <1>3, <1>4 DEF q, Share

LEMMA FiveTimes ==
  ASSUME NEW a \in Nat, NEW b \in Nat, NEW c \in Nat, NEW d \in Nat, NEW e \in Nat, NEW w \in Nat
  PROVE  (a + b + c + d + e) * w = a * w + b * w + c * w + d * w + e * w
OBVIOUS

\* A number of wholes that lies within 10 of 100.
LEMMA Rounded ==
  ASSUME NEW n \in Nat, NEW w \in Nat \ {0}, n * w <= 100 * w, 100 * w < n * w + 10 * w
  PROVE  n \in 91 .. 100
<1>1. n <= 100
  OBVIOUS
<1>2. n + 10 > 100
  <2>1. (n + 10) * w = n * w + 10 * w
    OBVIOUS
  <2>2. 100 * w < (n + 10) * w
    BY <2>1
  <2>3. ASSUME n + 10 <= 100
        PROVE  FALSE
    <3>1. (n + 10) * w <= 100 * w
      BY <2>3
    <3>2. (n + 10) * w \in Nat /\ 100 * w \in Nat
      OBVIOUS
    <3> QED BY <2>2, <3>1, <3>2
  <2> QED BY <2>3
<1> QED BY <1>1, <1>2

\* Ten shares of a whole are together the whole, less what ten roundings take off.
LEMMA SharesFit ==
  ASSUME NEW d \in [1 .. 10 -> Nat], NEW whole \in Nat \ {0},
         whole = d[1] + d[2] + d[3] + d[4] + d[5] + d[6] + d[7] + d[8] + d[9] + d[10]
  PROVE  /\ \A i \in 1 .. 10 : Share(d[i], whole) \in 0 .. 100
         /\ Share(d[1], whole) + Share(d[2], whole) + Share(d[3], whole) + Share(d[4], whole)
            + Share(d[5], whole) + Share(d[6], whole) + Share(d[7], whole) + Share(d[8], whole)
            + Share(d[9], whole) + Share(d[10], whole) \in 91 .. 100
<1> DEFINE q(i) == Share(d[i], whole)
           m(i) == q(i) * whole
           fits(i) == /\ q(i) \in 0 .. 100 /\ m(i) \in Nat
                      /\ m(i) <= 100 * d[i] /\ 100 * d[i] < m(i) + whole
<1>1. \A i \in 1 .. 10 : d[i] \in Nat
  OBVIOUS
<1>2. \A i \in 1 .. 10 : d[i] <= whole
  <2> DEFINE n(i) == d[i]
  <2>1. \A i \in 1 .. 10 : n(i) \in Nat
    BY <1>1
  <2>2. whole = n(1) + n(2) + n(3) + n(4) + n(5) + n(6) + n(7) + n(8) + n(9) + n(10)
    OBVIOUS
  <2> HIDE DEF n
  <2>3. \A i \in 1 .. 10 : n(i) <= whole
    BY <2>1, <2>2
  <2> QED BY <2>3 DEF n
<1>3. \A i \in 1 .. 10 : fits(i)
  BY <1>1, <1>2, ShareFits
<1>4. /\ fits(1) /\ fits(2) /\ fits(3) /\ fits(4) /\ fits(5)
      /\ fits(6) /\ fits(7) /\ fits(8) /\ fits(9) /\ fits(10)
  <2> HIDE DEF fits
  <2> QED BY <1>3
<1>0. /\ q(1) \in Nat /\ q(2) \in Nat /\ q(3) \in Nat /\ q(4) \in Nat /\ q(5) \in Nat
      /\ q(6) \in Nat /\ q(7) \in Nat /\ q(8) \in Nat /\ q(9) \in Nat /\ q(10) \in Nat
  <2> HIDE DEF q, m
  <2> QED BY <1>4
<1> DEFINE low == q(1) + q(2) + q(3) + q(4) + q(5)
           high == q(6) + q(7) + q(8) + q(9) + q(10)
           wholes == m(1) + m(2) + m(3) + m(4) + m(5) + m(6) + m(7) + m(8) + m(9) + m(10)
<1>5. (low + high) * whole = wholes
  <2>1. low \in Nat /\ low * whole = m(1) + m(2) + m(3) + m(4) + m(5)
    <3> HIDE DEF q
    <3> QED BY <1>0, FiveTimes
  <2>2. high \in Nat /\ high * whole = m(6) + m(7) + m(8) + m(9) + m(10)
    <3> HIDE DEF q
    <3> QED BY <1>0, FiveTimes
  <2> HIDE DEF low, high
  <2>3. (low + high) * whole = low * whole + high * whole
    BY <2>1, <2>2
  <2> HIDE DEF m
  <2>4. /\ m(1) \in Nat /\ m(2) \in Nat /\ m(3) \in Nat /\ m(4) \in Nat /\ m(5) \in Nat
        /\ m(6) \in Nat /\ m(7) \in Nat /\ m(8) \in Nat /\ m(9) \in Nat /\ m(10) \in Nat
    BY <1>4
  <2> QED BY <2>1, <2>2, <2>3, <2>4
<1>6. wholes <= 100 * whole /\ 100 * whole < wholes + 10 * whole
  <2> HIDE DEF m
  <2> DEFINE n(i) == d[i]
  <2>1. /\ n(1) \in Nat /\ n(2) \in Nat /\ n(3) \in Nat /\ n(4) \in Nat /\ n(5) \in Nat
        /\ n(6) \in Nat /\ n(7) \in Nat /\ n(8) \in Nat /\ n(9) \in Nat /\ n(10) \in Nat
    BY <1>1
  <2>2. whole = n(1) + n(2) + n(3) + n(4) + n(5) + n(6) + n(7) + n(8) + n(9) + n(10)
    OBVIOUS
  <2> DEFINE between(i) == m(i) \in Nat /\ m(i) <= 100 * n(i) /\ 100 * n(i) < m(i) + whole
  <2>3. /\ between(1) /\ between(2) /\ between(3) /\ between(4) /\ between(5)
        /\ between(6) /\ between(7) /\ between(8) /\ between(9) /\ between(10)
    BY <1>4
  <2> HIDE DEF n
  <2> QED BY <2>1, <2>2, <2>3
<1>7. low + high \in Nat
  <2> HIDE DEF q
  <2> QED BY <1>0
<1> HIDE DEF low, high, wholes
<1>8. low + high \in 91 .. 100
  <2>1. (low + high) * whole <= 100 * whole /\ 100 * whole < (low + high) * whole + 10 * whole
    BY <1>5, <1>6
  <2> QED BY <1>7, <2>1, Rounded
<1>9. low + high = q(1) + q(2) + q(3) + q(4) + q(5) + q(6) + q(7) + q(8) + q(9) + q(10)
  <2> HIDE DEF q
  <2> QED BY <1>0 DEF low, high
<1>10. \A i \in 1 .. 10 : q(i) \in 0 .. 100
  <2> HIDE DEF q, m
  <2> QED BY <1>3
<1> QED BY <1>8, <1>9, <1>10

\* The counters of two readings, guest time counted once, differ by as much as their sums do.
LEMMA RatesShare ==
  ASSUME NEW p \in Counters, NEW r \in Counters, Read(p), Read(r), NotAfter(p, r)
  PROVE  IF Total(r) = Total(p) THEN \A c \in AllRates : Rates(p, r)[c] = NAN
         ELSE /\ \A c \in AllRates : Rates(p, r)[c] \in 0 .. 100
              /\ Sum(Rates(p, r)) \in 91 .. 100
<1> DEFINE o == Without(p)
           k == Without(r)
           d(c) == k[c] - o[c]
           delta == Total(r) - Total(p)
           parts == <<d("user"), d("nice"), d("system"), d("idle"), d("iowait"), d("hardirq"),
                      d("softirq"), d("steal"), d("guest"), d("guest_nice")>>
<1>1. \A c \in AllRates : o[c] \in Int /\ k[c] \in Int /\ d(c) \in Nat
  BY WithoutTypes DEF NotAfter
<1>2. Total(r) = Added(r) /\ Total(p) = Added(p) /\ Total(p) # 0
  BY CounterTypes, ReadTotal DEF Read
<1>3. delta = d("user") + d("nice") + d("system") + d("idle") + d("iowait") + d("hardirq")
              + d("softirq") + d("steal") + d("guest") + d("guest_nice")
  <2>1. /\ o["user"] = p.user - p.guest /\ k["user"] = r.user - r.guest
        /\ o["nice"] = p.nice - p.guest_nice /\ k["nice"] = r.nice - r.guest_nice
        /\ \A c \in AllRates \ {"user", "nice"} : o[c] = p[c] /\ k[c] = r[c]
    BY WithoutTypes
  <2> HIDE DEF o, k
  <2>2. /\ o["system"] = p.system /\ k["system"] = r.system /\ o["idle"] = p.idle /\ k["idle"] = r.idle
        /\ o["iowait"] = p.iowait /\ k["iowait"] = r.iowait
        /\ o["hardirq"] = p.hardirq /\ k["hardirq"] = r.hardirq
        /\ o["softirq"] = p.softirq /\ k["softirq"] = r.softirq
        /\ o["steal"] = p.steal /\ k["steal"] = r.steal
        /\ o["guest"] = p.guest /\ k["guest"] = r.guest
        /\ o["guest_nice"] = p.guest_nice /\ k["guest_nice"] = r.guest_nice
    BY <2>1 DEF AllRates
  <2>3. delta = Added(r) - Added(p)
    BY <1>2
  <2> HIDE DEF delta
  <2> QED BY <2>1, <2>2, <2>3, CounterTypes DEF Added
<1>4. delta \in Nat /\ delta < W /\ delta % W = delta
  <2>1. \A c \in AllRates : d(c) \in Nat
    BY <1>1
  <2> HIDE DEF d
  <2>2. delta \in Nat
    BY <1>3, <2>1 DEF AllRates
  <2>3. delta < W
    BY <1>2, <2>2, CounterTypes, BoundAssumption DEF Read
  <2> QED BY <2>2, <2>3, BoundAssumption
<1>5. Rates(p, r) = [c \in AllRates |-> Usage(o[c], k[c], delta)]
  BY <1>2, <1>4 DEF Rates
<1> HIDE DEF o, k
<1>6. CASE delta = 0
  <2>1. \A c \in AllRates : d(c) = 0
    <3>1. \A c \in AllRates : d(c) \in Nat
      BY <1>1
    <3> HIDE DEF d, delta
    <3>2. /\ d("user") \in Nat /\ d("nice") \in Nat /\ d("system") \in Nat /\ d("idle") \in Nat
          /\ d("iowait") \in Nat /\ d("hardirq") \in Nat /\ d("softirq") \in Nat
          /\ d("steal") \in Nat /\ d("guest") \in Nat /\ d("guest_nice") \in Nat
      BY <3>1 DEF AllRates
    <3>3. /\ d("user") = 0 /\ d("nice") = 0 /\ d("system") = 0 /\ d("idle") = 0
          /\ d("iowait") = 0 /\ d("hardirq") = 0 /\ d("softirq") = 0
          /\ d("steal") = 0 /\ d("guest") = 0 /\ d("guest_nice") = 0
      <4>1. d("user") + d("nice") + d("system") + d("idle") + d("iowait") + d("hardirq")
            + d("softirq") + d("steal") + d("guest") + d("guest_nice") = 0
        BY <1>3, <1>6
      <4> HIDE DEF parts
      <4> DEFINE low == d("user") + d("nice") + d("system") + d("idle") + d("iowait")
                 high == d("hardirq") + d("softirq") + d("steal") + d("guest") + d("guest_nice")
      <4>2. low \in Nat /\ high \in Nat
        BY <3>2
      <4>3. low + high = 0
        BY <3>2, <4>1
      <4>4. low = 0 /\ high = 0
        <5> HIDE DEF low, high
        <5> QED BY <4>2, <4>3
      <4>5. d("user") = 0 /\ d("nice") = 0 /\ d("system") = 0 /\ d("idle") = 0 /\ d("iowait") = 0
        BY <3>2, <4>4
      <4>6. /\ d("hardirq") = 0 /\ d("softirq") = 0 /\ d("steal") = 0 /\ d("guest") = 0
            /\ d("guest_nice") = 0
        <5>1. /\ d("hardirq") \in Nat /\ d("softirq") \in Nat /\ d("steal") \in Nat
              /\ d("guest") \in Nat /\ d("guest_nice") \in Nat
          BY <3>2
        <5> HIDE DEF low
        <5> QED BY <4>4, <5>1
      <4> QED BY <4>5, <4>6
    <3> QED BY <3>3 DEF AllRates
  <2>2. \A c \in AllRates : o[c] = k[c]
    BY <1>1, <2>1
  <2>3. \A c \in AllRates : Usage(o[c], k[c], delta) = NAN
    BY <1>1, <1>6, <2>2 DEF Usage
  <2>4. Total(r) = Total(p)
    BY <1>6, CounterTypes
  <2> HIDE DEF delta
  <2> QED BY <1>5, <2>3, <2>4
<1>7. CASE delta # 0
  <2>1. \A c \in AllRates : Usage(o[c], k[c], delta) = Share(d(c), delta)
    BY <1>1, <1>7 DEF Usage, Share
  <2>2. parts \in [1 .. 10 -> Nat]
    <3>1. \A c \in AllRates : d(c) \in Nat
      BY <1>1
    <3> HIDE DEF d
    <3>2. DOMAIN parts = 1 .. 10 /\ parts = [i \in 1 .. 10 |-> parts[i]]
      OBVIOUS
    <3>3. \A i \in 1 .. 10 : parts[i] \in Nat
      BY <3>1 DEF AllRates
    <3> HIDE DEF parts
    <3> QED BY <3>2, <3>3
  <2>3. Total(r) # Total(p) /\ delta \in Nat \ {0}
    BY <1>4, <1>7, CounterTypes
  <2>4. \A c \in AllRates : Rates(p, r)[c] = Share(d(c), delta)
    BY <1>5, <2>1
  <2> HIDE DEF d, delta
  <2>5. /\ \A i \in 1 .. 10 : Share(parts[i], delta) \in 0 .. 100
        /\ Share(d("user"), delta) + Share(d("nice"), delta) + Share(d("system"), delta)
           + Share(d("idle"), delta) + Share(d("iowait"), delta) + Share(d("hardirq"), delta)
           + Share(d("softirq"), delta) + Share(d("steal"), delta) + Share(d("guest"), delta)
           + Share(d("guest_nice"), delta) \in 91 .. 100
    BY <1>3, <2>2, <2>3, SharesFit
  <2>6. \A c \in AllRates : Share(d(c), delta) \in 0 .. 100
    <3>1. \A c \in AllRates : \E i \in 1 .. 10 : parts[i] = d(c)
      BY DEF AllRates
    <3> QED BY <2>5, <3>1
  <2>7. Sum(Rates(p, r)) \in 91 .. 100
    BY <2>4, <2>5 DEF Sum, AllRates
  <2> QED BY <2>3, <2>4, <2>6, <2>7
<1> QED BY <1>6, <1>7

\* While no counter jumps back and their sum is less than 2^64, the ten rates that an update
\* computes are together the whole of the time that passed, less ten roundings, none of it
\* counted twice; and none is a number when no time passed.  (With an iowait that jumps back this
\* is not so.)
THEOREM RatesWithinHundred ==
  ASSUME Drops \subseteq {0}
  PROVE  Spec /\ []CountersFit => []WithinHundred
<1>1. Init => GrowInv /\ ReadInv
  <2> SUFFICES ASSUME Init PROVE GrowInv /\ ReadInv
    OBVIOUS
  <2>1. /\ kernel = Booted /\ old = NoReading /\ good.before = NoReading /\ good.last = NoReading
    BY DEF Init
  <2>2. /\ \A c \in AllRates : Without(NoReading)[c] = 0
    BY DEF Without, NoReading, AllRates
  <2>3. \A c \in AllRates : Without(Booted)[c] >= 0
    <3>1. Booted \in Counters
      BY DEF Booted, Counters, AllRates
    <3>2. Booted.user - Booted.guest >= 0 /\ Booted.nice - Booted.guest_nice >= 0
      BY DEF Booted
    <3> QED BY <3>1, <3>2, WithoutTypes
  <2>4. GrowInv
    BY <2>1, <2>2, <2>3 DEF GrowInv, NotAfter
  <2> QED BY <2>1, <2>4 DEF ReadInv, Booted
<1>2. SystemInv /\ CountersFit /\ GrowInv /\ ReadInv /\ [Next]_vars => GrowInv' /\ ReadInv'
  BY GrowStep, ReadStep
<1>3. SystemInv /\ GrowInv /\ ReadInv => WithinHundred
  <2> SUFFICES ASSUME SystemInv, GrowInv, ReadInv,
                      calls > 0, good.at = calls, good.before # NoReading
               PROVE  IF Total(good.last) = Total(good.before)
                      THEN \A c \in AllRates : rates[c] = NAN
                      ELSE (\A c \in AllRates : rates[c] \in 0 .. 100) /\ Sum(rates) \in 91 .. 100
    BY DEF WithinHundred
  <2>1. rates = Rates(good.before, good.last)
    BY DEF SystemInv, RatesInv, LastRates
  <2>2. good.before \in Counters /\ good.last \in Counters
    BY DEF SystemInv, TypeOK
  <2>3. Read(good.before) /\ Read(good.last)
    <3>1. Read(good.before)
      BY DEF ReadInv
    <3>2. good.last # NoReading
      <4>1. ASSUME good.last = NoReading
            PROVE  FALSE
        <5>1. /\ good.before.user - good.before.guest <= 0
              /\ good.before.guest <= 0
          BY <2>2, <4>1, WithoutTypes DEF GrowInv, NotAfter, NoReading, AllRates
        <5> QED BY <2>2, <3>1, <5>1, CounterTypes DEF Read
      <4> QED BY <4>1
    <3> QED BY <3>1, <3>2 DEF ReadInv
  <2> QED BY <2>1, <2>2, <2>3, RatesShare DEF GrowInv
<1> QED BY <1>1, <1>2, <1>3, SystemInductive, PTL DEF Spec
=============================================================================
