---------------------------- MODULE MCSystemInfo ----------------------------
(* SystemInfo with a few files of /proc/meminfo and a few loads of the machine. *)
EXTENDS SystemInfo

\* Memory that grows or shrinks, an old kernel, a container that says more is available than
\* there is, and files without a MemTotal.
MCMemFiles ==
  {[total |-> 8, available |-> 3, reclaimable |-> 2],
   [total |-> 4, available |-> 4, reclaimable |-> 1],
   [total |-> 4, available |-> NONE, reclaimable |-> 1],
   [total |-> 4, available |-> 6, reclaimable |-> 1],
   [total |-> NONE, available |-> 2, reclaimable |-> 1],
   [total |-> NONE, available |-> 6, reclaimable |-> 1]}
MCOneFile == {[total |-> 8, available |-> 3, reclaimable |-> 2]}
MCCpuCounts == {-1, 0, 2}

\* Nothing has passed, the machine was idle, every counter but idle moves by an amount of its
\* own, a program computes, and a guest does.
MCAdvances ==
  {NoReading,
   [NoReading EXCEPT !.idle = 7],
   [user |-> 5, nice |-> 4, system |-> 3, idle |-> 0, iowait |-> 7, hardirq |-> 1, softirq |-> 2,
    steal |-> 1, guest |-> 2, guest_nice |-> 3],
   [NoReading EXCEPT !.user = 9, !.system = 2],
   [NoReading EXCEPT !.user = 3, !.guest = 3, !.steal = 3, !.idle = 1]}
=============================================================================
