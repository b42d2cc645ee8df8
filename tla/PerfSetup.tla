----------------------------- MODULE PerfSetup ------------------------------
(***************************************************************************)
(* Setting up and tearing down a perf buffer: __perf_buffer__new(), one    *)
(* perf event descriptor, mapping, slot of the BPF map and epoll entry per *)
(* CPU, and perf_buffer__free(), which is also the error path.  Any system *)
(* call may fail.                                                          *)
(***************************************************************************)
EXTENDS Integers, Sequences, FiniteSets, Functions

CONSTANTS
    Calls,              \* calls of perf_buffer__new() and perf_buffer__new_raw()
    Keys                \* keys of the BPF map

VARIABLES
    call,               \* the call being executed
    pc,                 \* where it is
    cpu_cnt,            \* pb->cpu_cnt
    i,                  \* loop counter
    cpu_bufs,           \* pb->cpu_bufs: the buffers opened so far
    held,               \* memory, descriptors and mappings held
    slots,              \* the BPF map: key -> CPU whose ring it leads to
    watched,            \* CPUs in the epoll set
    err

svars == <<call, pc, cpu_cnt, i, cpu_bufs, held, slots, watched, err>>

(***************************************************************************)
(* A call: page_cnt, possible and online (ranges <<first, last>> as the    *)
(* files under /sys list them), max_entries of the map, cpus and map_keys  *)
(* of the raw variant (empty otherwise), info: what                        *)
(* bpf_obj_get_info_by_fd() answers.                                       *)
(***************************************************************************)
IsPowerOfTwo(n) == n \in {2 ^ k : k \in 0 .. 30}

\* parse_cpu_mask_str(): the CPUs set in the mask; an empty one is an error.
MaskCpus(ranges) == UNION {r[1] .. r[2] : r \in Range(ranges)}

ASSUME CallsAssumption ==
    \A c \in Calls :
      /\ c.page_cnt \in Nat /\ c.max_entries \in Nat
      /\ c.info \in {"ok", "wrong_type", "EINVAL", "error"}
      /\ c.cpus \in Seq(Int) /\ c.map_keys \in Seq(Int) /\ Len(c.cpus) = Len(c.map_keys)
      /\ \A r \in Range(c.possible) \cup Range(c.online) : r[1] <= r[2]
      /\ IsFiniteSet(MaskCpus(c.possible)) /\ MaskCpus(c.online) \subseteq MaskCpus(c.possible)

\* libbpf_num_possible_cpus()
NumPossible(c) == Cardinality(MaskCpus(c.possible))

SetupInit ==
    /\ call \in Calls
    /\ pc = "new" /\ cpu_cnt = 0 /\ i = 0 /\ cpu_bufs = <<>>
    /\ held = {} /\ slots = [k \in Keys |-> -1] /\ watched = {} /\ err = FALSE

\* perf_buffer__free_cpu_buf()
OfCpu(c) == {<<"buf", c>>, <<"fd", c>>, <<"mmap", c>>}

(***************************************************************************)
(* perf_buffer__free(): the slots of the buffers opened are deleted, the   *)
(* buffers and the epoll descriptor released.                              *)
(***************************************************************************)
\* faulty variant: the slots keep leading to rings that are gone
FreeKeepingSlots ==
    /\ cpu_bufs' = <<>> /\ watched' = {}
    /\ held' = held \ ((UNION {OfCpu(b.cpu) : b \in Range(cpu_bufs)})
                       \cup {<<"pb">>, <<"epoll">>, <<"events">>, <<"cpu_bufs">>})
    /\ UNCHANGED slots

Free ==
    /\ cpu_bufs' = <<>> /\ watched' = {}
    /\ held' = held \ ((UNION {OfCpu(b.cpu) : b \in Range(cpu_bufs)})
                       \cup {<<"pb">>, <<"epoll">>, <<"events">>, <<"cpu_bufs">>})
    /\ slots' = [k \in Keys |-> IF \E b \in Range(cpu_bufs) : b.map_key = k THEN -1
                                ELSE slots[k]]

\* goto error, after free(online)
Error ==
    /\ pc' = "failed" /\ err' = TRUE /\ Free
    /\ UNCHANGED <<call, cpu_cnt, i>>

-----------------------------------------------------------------------------
(***************************************************************************)
(* The checks before anything is allocated.                                *)
(***************************************************************************)
Reject ==
    /\ pc = "new"
    /\ ~(call.page_cnt = 0 \/ IsPowerOfTwo(call.page_cnt))
       \/ call.info \in {"wrong_type", "error"}
    /\ pc' = "failed" /\ err' = TRUE
    /\ UNCHANGED <<call, cpu_cnt, i, cpu_bufs, held, slots, watched>>

\* calloc(pb), epoll_create1(); calloc() failing ends the call with nothing held.
Allocate ==
    /\ pc = "new"
    /\ call.page_cnt = 0 \/ IsPowerOfTwo(call.page_cnt)
    /\ call.info \in {"ok", "EINVAL"}
    /\ \/ held' = {<<"pb">>, <<"epoll">>} /\ pc' = "count" /\ UNCHANGED err
       \/ held' = {} /\ pc' = "failed" /\ err' = TRUE
    /\ UNCHANGED <<call, cpu_cnt, i, cpu_bufs, slots, watched>>

\* The CPUs asked for, or the possible ones, at most one per entry of the map
\* (max_entries is 0 when the kernel does not tell).
CountCpus ==
    LET possible == NumPossible(call)
        entries == IF call.info = "ok" THEN call.max_entries ELSE 0
    IN  /\ pc = "count"
        /\ cpu_cnt' = IF call.cpus # <<>> THEN Len(call.cpus)
                      ELSE IF entries # 0 /\ entries < possible THEN entries
                      ELSE possible
        /\ held' = held \cup {<<"events">>, <<"cpu_bufs">>}
        /\ pc' = "cpus"
        /\ UNCHANGED <<call, i, cpu_bufs, slots, watched, err>>

\* A file or an allocation fails.
CountFails ==
    /\ pc = "count"
    /\ Error

-----------------------------------------------------------------------------
(***************************************************************************)
(* The loop over CPUs.                                                     *)
(***************************************************************************)
Cpu == IF call.cpus # <<>> THEN call.cpus[i + 1] ELSE i
MapKey == IF call.cpus # <<>> THEN call.map_keys[i + 1] ELSE i
Skipped == call.cpus = <<>> /\ Cpu \notin MaskCpus(call.online)

SkipCpu ==
    /\ pc = "cpus" /\ i < cpu_cnt /\ Skipped
    /\ i' = i + 1
    /\ UNCHANGED <<call, pc, cpu_cnt, cpu_bufs, held, slots, watched, err>>

\* perf_event_open(), mmap() or the ioctl() fails: perf_buffer__open_cpu_buf()
\* releases what it took itself.
OpenFails ==
    /\ pc = "cpus" /\ i < cpu_cnt /\ ~Skipped
    /\ Error

\* The buffer is opened and recorded in cpu_bufs[j]; bpf_map_update_elem()
\* and epoll_ctl() come after that, and either may fail.
OpenCpuBuf ==
    /\ pc = "cpus" /\ i < cpu_cnt /\ ~Skipped
    /\ held' = held \cup OfCpu(Cpu)
    /\ cpu_bufs' = Append(cpu_bufs, [cpu |-> Cpu, map_key |-> MapKey])
    /\ \/ /\ MapKey \in Keys /\ slots' = [slots EXCEPT ![MapKey] = Cpu]
          /\ watched' = watched \cup {Cpu} /\ i' = i + 1 /\ UNCHANGED pc
       \/ /\ slots' \in {slots, [slots EXCEPT ![MapKey] = Cpu]}
          /\ pc' = "error" /\ UNCHANGED <<i, watched>>
    /\ UNCHANGED <<call, cpu_cnt, err>>

Unwind == pc = "error" /\ Error

\* faulty variant: cpu_cnt keeps counting the CPUs that were skipped
ReturnUncounted ==
    /\ pc = "cpus" /\ i = cpu_cnt
    /\ pc' = "running"
    /\ UNCHANGED <<call, cpu_cnt, i, cpu_bufs, held, slots, watched, err>>

Return ==
    /\ pc = "cpus" /\ i = cpu_cnt
    /\ cpu_cnt' = Len(cpu_bufs) /\ pc' = "running"
    /\ UNCHANGED <<call, i, cpu_bufs, held, slots, watched, err>>

PerfBufferFree ==
    /\ pc = "running" /\ Free
    /\ pc' = "freed"
    /\ UNCHANGED <<call, cpu_cnt, i, err>>

SetupNext ==
    \/ Reject \/ Allocate \/ CountCpus \/ CountFails
    \/ SkipCpu \/ OpenFails \/ OpenCpuBuf \/ Unwind \/ Return

-----------------------------------------------------------------------------
(***************************************************************************)
(* Whichever system call of __perf_buffer__new() fails, and after          *)
(* perf_buffer__free(), no memory, descriptor or mapping is held and no    *)
(* slot of the BPF map leads to a ring that is gone.                       *)
(***************************************************************************)
NothingLeft ==
    pc \in {"failed", "freed"} =>
      held = {} /\ watched = {} /\ \A k \in Keys : slots[k] = -1

(***************************************************************************)
(* A perf buffer returned to the caller is complete: each of its first     *)
(* cpu_cnt buffers exists, is watched and is reached through its slot; and *)
(* when the possible CPUs are numbered without gaps and the map has a slot *)
(* for each, every online CPU has a buffer.                                *)
(***************************************************************************)
Contiguous(c) == MaskCpus(c.possible) = 0 .. NumPossible(c) - 1

BuffersComplete ==
    pc = "running" =>
      /\ cpu_cnt = Len(cpu_bufs)
      /\ \A b \in Range(cpu_bufs) : slots[b.map_key] = b.cpu
      /\ watched = {b.cpu : b \in Range(cpu_bufs)}
      /\ (call.cpus = <<>> /\ Contiguous(call)
          /\ call.max_entries >= NumPossible(call)) =>
           watched = MaskCpus(call.online)

=============================================================================
