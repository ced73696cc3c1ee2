------------------------------ MODULE Resources ------------------------------
(***************************************************************************)
(* cgroup/v2.rs: where the cgroup of a container is, which controllers its *)
(* ancestors hand down, and what linux.resources puts into its files.      *)
(*                                                                         *)
(* A value that may be left out is <<>> or a sequence of one.  The i64 and *)
(* u64 of the code are integers of TLC's range, which the conversions stay *)
(* in; "max" is Unlimited.                                                 *)
(***************************************************************************)
EXTENDS Integers, Sequences, SequencesExt

Unlimited == -1

NoResources ==
    [limit |-> <<>>, reservation |-> <<>>, swap |-> <<>>,
     quota |-> <<>>, period |-> <<>>, shares |-> <<>>, cpus |-> <<>>, mems |-> <<>>,
     pids |-> <<>>, weight |-> <<>>, unified |-> <<>>,
     throttles |-> [rbps |-> <<>>, wbps |-> <<>>, riops |-> <<>>, wiops |-> <<>>]]

\* The i64, u64 and texts, the lists of rates, and the map `unified`, which has a key once.
ResourcesTyped(r) ==
    /\ \A field \in {"limit", "reservation", "swap", "quota", "pids"} : r[field] \in Seq(Int)
    /\ \A field \in {"period", "shares", "weight"} : r[field] \in Seq(Nat)
    /\ r.cpus \in Seq(STRING) /\ r.mems \in Seq(STRING)
    /\ \A key \in {"rbps", "wbps", "riops", "wiops"} : r.throttles[key] \in Seq(Nat)
    /\ r.unified \in Seq([file : STRING, value : Int])
    /\ \A i, j \in 1..Len(r.unified) : r.unified[i].file = r.unified[j].file => i = j

-----------------------------------------------------------------------------
(***************************************************************************)
(* The conversions.                                                        *)
(***************************************************************************)
clamp(n, lo, hi) == IF n < lo THEN lo ELSE IF n > hi THEN hi ELSE n

limit_value(bytes) == IF bytes <= 0 THEN Unlimited ELSE bytes

\* Variant: memory and swap together, as config.json has it.
swap_value_combined(swap, limit) == IF swap <= 0 THEN Unlimited ELSE swap

\* linux.resources.memory.swap is memory and swap together, memory.swap.max is swap alone.
swap_value(swap, limit) ==
    CASE swap <= 0                         -> Unlimited
      [] swap > 0 /\ limit # <<>> /\ limit[1] > 0 -> IF swap > limit[1] THEN swap - limit[1] ELSE 0
      [] OTHER                             -> swap

cpu_max_value(quota, period) == <<IF quota <= 0 THEN Unlimited ELSE quota, period>>

\* 1 + (s * 9999) \div 262142 for s = shares - 2, without its large product: s is halved,
\* and 4999 is what is left of the half of 9999.
shares_to_weight(shares) ==
    LET s == clamp(shares, 2, 262144) - 2
    IN  IF shares = 0 THEN 100
                      ELSE 1 + ((s \div 2) * 9999 + (s % 2) * 4999) \div 131071

blkio_to_io_weight(weight) == 1 + ((clamp(weight, 10, 1000) - 10) * 9999) \div 990

-----------------------------------------------------------------------------
(***************************************************************************)
(* The directory.  A path is the sequence of its components, ".." and "."  *)
(* being no normal ones; it is dropped, not followed.                      *)
(***************************************************************************)
DEFAULT_PARENT == "mars"

normalise(path) == LET Normal(c) == c \notin {"..", "."} IN SelectSeq(path, Normal)

relative_path(cgroupsPath, id) ==
    IF cgroupsPath = <<>> THEN <<DEFAULT_PARENT, id>> ELSE normalise(cgroupsPath[1])

WANTED == {"memory", "pids", "cpu", "cpuset", "io"}

\* What is enabled for the children of a cgroup: what was, and what is wanted and there.
delegate(available, enabled) == enabled \cup (WANTED \cap available)

\* The controllers of the directory that Cgroup::create arrives at; the root has no limits.
Controllers(available, enabled, relative) ==
    IF relative = <<>> THEN {}
    ELSE delegate(IF Len(relative) = 1 THEN available ELSE delegate(available, enabled),
                  IF Len(relative) = 1 THEN enabled ELSE {})

-----------------------------------------------------------------------------
(***************************************************************************)
(* Cgroup::apply as the writes it makes, [file, value], in their order.    *)
(***************************************************************************)
Written(option, file, value) ==
    IF option = <<>> THEN <<>> ELSE <<[file |-> file, value |-> value]>>

NonZero(option) == IF option # <<>> /\ option[1] = 0 THEN <<>> ELSE option
NonEmpty(option) == IF option # <<>> /\ option[1] = "" THEN <<>> ELSE option

\* One line per throttled device and per list of config.json it is in.
io_max_lines(throttles) ==
    LET Lines(key) == [i \in 1..Len(throttles[key]) |->
                         [file |-> "io.max", value |-> [key |-> key, rate |-> throttles[key][i]]]]
    IN  Lines("rbps") \o Lines("wbps") \o Lines("riops") \o Lines("wiops")

writes(r) ==
    LET period == IF r.period = <<>> THEN 100000 ELSE r.period[1]
    IN  Written(r.limit, "memory.max", limit_value(r.limit[1]))
        \o Written(r.reservation, "memory.low", limit_value(r.reservation[1]))
        \o Written(r.swap, "memory.swap.max", swap_value(r.swap[1], r.limit))
        \o Written(r.quota, "cpu.max", cpu_max_value(r.quota[1], period))
        \o Written(NonZero(r.shares), "cpu.weight", shares_to_weight(r.shares[1]))
        \o Written(NonEmpty(r.cpus), "cpuset.cpus", r.cpus[1])
        \o Written(NonEmpty(r.mems), "cpuset.mems", r.mems[1])
        \o Written(r.pids, "pids.max", limit_value(r.pids[1]))
        \o Written(NonZero(r.weight), "io.weight", blkio_to_io_weight(r.weight[1]))
        \o io_max_lines(r.throttles)
        \o r.unified

\* The controller a file belongs to.
ControllerOf(file) ==
    CASE file \in {"memory.max", "memory.low", "memory.swap.max"} -> "memory"
      [] file \in {"cpu.max", "cpu.weight"}                       -> "cpu"
      [] file \in {"cpuset.cpus", "cpuset.mems"}                  -> "cpuset"
      [] file = "pids.max"                                        -> "pids"
      [] file \in {"io.weight", "io.max"}                         -> "io"
      [] OTHER                                                    -> "none"
=============================================================================
