----------------------------- MODULE DeviceScan -----------------------------
(***************************************************************************)
(* The class scan of util/cuda/scan_cuda.cuh: the exclusive prefix sum of  *)
(* the counts, made by four kernels launched one after the other:          *)
(*   compress4  narrows the counts to ids_type;                            *)
(*   breduce    adds up the counts of each block (a warp at a time, then   *)
(*              the warps' sums);                                          *)
(*   bexscan    one block makes the running sums of the blocks' sums, in   *)
(*              chunks of as many as it has threads;                       *)
(*   gexscan    scans the counts of each warp, adds what the warps and the *)
(*              blocks before hold and writes the prefix sums.             *)
(* The threads of a warp move together (they exchange registers); warps,   *)
(* and in bexscan threads, run in any order from one __syncthreads() to    *)
(* the next.  What a unit (a warp or a thread) does between two barriers   *)
(* is one step here: a phase.  NoRace shows nothing is lost by that.       *)
(***************************************************************************)
EXTENDS Integers, Sequences, FiniteSets

CONSTANTS
  Warp,        \* threads of a warp: 32
  NWARP,       \* warps of a block: THREADS / 32
  IdsBound,    \* 2^bits of ids_type
  Strides,     \* what the counter of the loops is: 1, 2, 4, ...
  Leftover     \* what memory nobody has written holds

VARIABLES
  rt,          \* sizeof(cnt_type) / sizeof(ids_type), of the template: 1, 2, 4
  counts,      \* the counts, 0 .. raw_size - 1
  compressed, red, cl_n_scan,
  running,     \* the kernel
  at,          \* the phase of each block
  waiting,     \* the units of each block that wait at the barrier after it
  sh,          \* the shared memory of each block: shtmp or woff
  reg          \* registers of a unit that live across a barrier

scan_vars == <<rt, counts, compressed, red, cl_n_scan, running, at, waiting, sh, reg>>

THREADS == Warp * NWARP
Lanes   == 0 .. Warp - 1
Warps   == 0 .. NWARP - 1
ratio   == 4 * rt                            \* counts of a thread
Size    == Cardinality(DOMAIN counts)
Up(a, b)  == (a + b - 1) \div b
nblocks == Up(Size, THREADS * ratio)
Blocks  == IF running = "bexscan" THEN {0} ELSE 0 .. nblocks - 1

\* The loops over the lanes go on while the counter is less than a bound, or
\* start with the greatest that is; a warp has as many lanes as a counter.
ASSUME StridesAssumption ==
  /\ Strides \in Seq(Nat) /\ Strides # <<>> /\ Strides[1] = 1
  /\ \A n \in 1 .. Len(Strides) - 1 : Strides[n + 1] = 2 * Strides[n]
  /\ THREADS <= 2 * Strides[Len(Strides)]
  /\ \E n \in 1 .. Len(Strides) : Warp = 2 * Strides[n]

ASSUME UnitsAssumption ==
  NWARP \in 1 .. Warp /\ IdsBound \in Nat \ {0, 1} /\ Leftover \in Int

\* How many turns a loop with the counters less than limit has.
Turns(limit) ==
  CHOOSE k \in 0 .. Len(Strides) : \A n \in 1 .. Len(Strides) : Strides[n] < limit <=> n <= k

\* The sum of f from 0 to before n.
Total(f, n) ==
  LET sum[i \in 0 .. n] == IF i = 0 THEN 0 ELSE sum[i - 1] + f[i - 1]
  IN  sum[n]
-----------------------------------------------------------------------------
(* What the threads of a warp compute by exchanging registers *)

ShuffleDown(val, i) == [l \in Lanes |-> IF l + i < Warp THEN val[l + i] ELSE val[l]]
ShuffleUp(val, i)   == [l \in Lanes |-> IF l >= i THEN val[l - i] ELSE val[l]]

\* The lowest lane ends with the sum of all.
WarpReduce(val) ==
  LET k == Turns(Warp)
      v[n \in 0 .. k] ==
        IF n = 0 THEN val
        ELSE LET u == v[n - 1]
                 d == ShuffleDown(u, Strides[k + 1 - n])
             IN  [l \in Lanes |-> u[l] + d[l]]
  IN  v[k][0]

\* Each lane ends with the sum up to its own, or of the last lanes: those that
\* the turns of the loop reach.
WarpScan(val, turns) ==
  LET v[n \in 0 .. turns] ==
        IF n = 0 THEN val
        ELSE LET u == v[n - 1]
                 d == ShuffleUp(u, Strides[n])
             IN  [l \in Lanes |-> IF l >= Strides[n] THEN u[l] + d[l] ELSE u[l]]
  IN  v[turns]
-----------------------------------------------------------------------------
(* What a thread does with its 4 * rt counts *)

\* short int tmp holds the fourth count of a thread when two share a word.
Extended(c, m) ==
  IF rt = 2 /\ m = 3 /\ c[m] >= IdsBound \div 2 THEN c[m] - IdsBound ELSE c[m]

\* ratio_extend::scan after extend: the place of each count is the sum of those
\* before, from one group of four to the next by the groups' sums tu4.
Prefix(c, off) ==
  [m \in DOMAIN c |->
     off + Total([k \in DOMAIN c |-> IF k \div 4 < m \div 4 THEN Extended(c, k) ELSE c[k]], m)]

\* The counts of thread t of the grid; a thread past the end has zeros.
ThreadCounts(t, n) ==
  [m \in 0 .. ratio - 1 |-> IF t < n THEN compressed[t * ratio + m] ELSE 0]

Lane(b, w, l) == (b * NWARP + w) * Warp + l
-----------------------------------------------------------------------------
(* Phases *)

\* bexscan: the load, then per chunk the carry and a read and a write per stride.
Steps    == 2 * Turns(THREADS) + 1
Chunk(p) == (p - 1) \div Steps
Step(p)  == (p - 1) % Steps
Index(p, t) == Chunk(p) * THREADS + t
Stride(p) == Strides[(Step(p) + 1) \div 2]
Chunks    == Up(nblocks, THREADS)

LastPhase ==
  CASE running = "breduce" -> 1
    [] running = "bexscan" -> Chunks * Steps
    [] running = "gexscan" -> 2
    [] OTHER -> 0

\* The units with something to do in a phase.  In the last chunk of bexscan
\* the threads past the end have left the kernel: nobody waits for them.
Active(b, p) ==
  CASE running = "bexscan" /\ p > 0 -> {t \in 0 .. THREADS - 1 : Index(p, t) < nblocks}
    [] running = "bexscan" /\ p = 0 -> 0 .. THREADS - 1
    [] running # "bexscan" /\ p = 1 -> {0}
    [] OTHER -> Warps

Runs(k, b, u, p) ==
  running = k /\ b \in Blocks /\ at[b] = p /\ u \in Active(b, p) \ waiting[b]

\* A thread of bexscan that has passed the load.
InChunk(t) == running = "bexscan" /\ at[0] > 0 /\ Runs("bexscan", 0, t, at[0])

Arrive(b, u) == waiting' = [waiting EXCEPT ![b] = @ \cup {u}] /\ UNCHANGED <<rt, counts, running, at>>

\* Fault: the barrier of the last chunk waits for the threads that left.
AwaitedAll(b) == IF running = "bexscan" THEN 0 .. THREADS - 1 ELSE Active(b, at[b])

Awaited(b) == Active(b, at[b])

\* __syncthreads()
Barrier(b) ==
  /\ b \in Blocks /\ at[b] < LastPhase /\ Awaited(b) \subseteq waiting[b]
  /\ at' = [at EXCEPT ![b] = @ + 1]
  /\ waiting' = [waiting EXCEPT ![b] = {}]
  /\ UNCHANGED <<rt, counts, compressed, red, cl_n_scan, running, sh, reg>>

AllReturned == \A b \in Blocks : at[b] = LastPhase /\ Active(b, at[b]) \subseteq waiting[b]

\* The next kernel on B with its shared memory of the entries E.
LaunchKernel(k, B, E) ==
  /\ running' = k
  /\ at' = [b \in B |-> 0] /\ waiting' = [b \in B |-> {}]
  /\ sh' = [b \in B |-> [e \in E |-> Leftover]]
  /\ reg' = [b \in B |-> <<>>]
  /\ UNCHANGED <<rt, counts>>
-----------------------------------------------------------------------------
(* scan_ *)

ScanInit ==
  /\ running = "compress4"
  /\ compressed = <<>> /\ red = <<>> /\ cl_n_scan = <<>>
  /\ at = <<>> /\ waiting = <<>> /\ sh = <<>> /\ reg = <<>>

\* compress4 and the launch of breduce.  The words of the last thread of gexscan
\* go on after the counts; nobody counted what is there.
LaunchReduce ==
  /\ running = "compress4"
  /\ compressed' = [i \in 0 .. Up(Size, ratio) * ratio - 1 |->
                      IF i < Size THEN counts[i] % IdsBound ELSE Leftover]
  /\ red' = [b \in 0 .. nblocks - 1 |-> Leftover]
  /\ LaunchKernel("breduce", 0 .. nblocks - 1, Warps)
  /\ UNCHANGED cl_n_scan

\* breduce, to the barrier.  The rounded down number of threads leaves the
\* counts of an incomplete last one out.
ReduceWarp(b, w) ==
  /\ Runs("breduce", b, w, 0)
  /\ sh' = [sh EXCEPT ![b][w] =
       WarpReduce([l \in Lanes |-> Total(ThreadCounts(Lane(b, w, l), Size \div ratio), ratio)])]
  /\ Arrive(b, w)
  /\ UNCHANGED <<compressed, red, cl_n_scan, reg>>

\* breduce, after the barrier.
ReduceBlock(b) ==
  /\ Runs("breduce", b, 0, 1)
  /\ red' = [red EXCEPT ![b] =
       WarpReduce([l \in Lanes |-> IF l < NWARP THEN sh[b][l] ELSE 0])]
  /\ Arrive(b, 0)
  /\ UNCHANGED <<compressed, cl_n_scan, sh, reg>>

LaunchBlocks ==
  /\ running = "breduce" /\ AllReturned
  /\ LaunchKernel("bexscan", {0}, 0 .. nblocks - 1)
  /\ UNCHANGED <<compressed, red, cl_n_scan>>

\* bexscan: shtmp[i] = v[i] for every i of the thread.
Load(t) ==
  /\ Runs("bexscan", 0, t, 0)
  /\ sh' = [sh EXCEPT ![0] = [i \in DOMAIN @ |-> IF i % THREADS = t THEN red[i] ELSE @[i]]]
  /\ Arrive(0, t)
  /\ UNCHANGED <<compressed, red, cl_n_scan, reg>>

\* Fault: every thread adds the entry before its own.
CarriesAll(i, t) == i > 0

\* Fault: the chunks are not joined.
CarriesNever(i, t) == FALSE

Carries(i, t) == i > 0 /\ t = 0

\* The first thread of a chunk adds the last sum of the chunk before.
Carry(t) ==
  LET p == at[0]
      i == Index(p, t)
  IN /\ InChunk(t) /\ Step(p) = 0
     /\ sh' = IF Carries(i, t) THEN [sh EXCEPT ![0][i] = @ + sh[0][i - 1]] ELSE sh
     /\ reg' = [reg EXCEPT ![0] = [u \in 0 .. THREADS - 1 |-> 0]]
     /\ Arrive(0, t)
     /\ UNCHANGED <<compressed, red, cl_n_scan>>

\* a = shtmp[i] + shtmp[i-j]
AddBelow(t) ==
  LET p == at[0]
      i == Index(p, t)
  IN /\ InChunk(t) /\ Step(p) % 2 = 1
     /\ reg' = [reg EXCEPT ![0][t] =
          IF t >= Stride(p) THEN sh[0][i] + sh[0][i - Stride(p)] ELSE 0]
     /\ Arrive(0, t)
     /\ UNCHANGED <<compressed, red, cl_n_scan, sh>>

\* shtmp[i] = a, and v[i] = shtmp[i] after the last stride.
StoreSum(t) ==
  LET p == at[0]
      i == Index(p, t)
      s == IF t >= Strides[Step(p) \div 2] THEN reg[0][t] ELSE sh[0][i]
  IN /\ InChunk(t) /\ Step(p) > 0 /\ Step(p) % 2 = 0
     /\ sh' = [sh EXCEPT ![0][i] = s]
     /\ red' = IF Step(p) = Steps - 1 THEN [red EXCEPT ![i] = s] ELSE red
     /\ Arrive(0, t)
     /\ UNCHANGED <<compressed, cl_n_scan, reg>>

LaunchGexscan ==
  /\ running = "bexscan" /\ AllReturned
  /\ LaunchKernel("gexscan", 0 .. nblocks - 1, Warps)
  /\ cl_n_scan' = [i \in 0 .. Up(Size, ratio) * ratio - 1 |-> Leftover]
  /\ UNCHANGED <<compressed, red>>

\* gexscan, to the first barrier: the threads' sums scanned over the warp; its
\* last lane leaves the warp's sum to the next one, or the sum of the blocks
\* before to the first.
ScanWarp(b, w) ==
  LET own  == [l \in Lanes |->
                LET c == ThreadCounts(Lane(b, w, l), Up(Size, ratio))
                IN  Total([m \in 0 .. ratio - 1 |-> Extended(c, m)], ratio)]
      incl == WarpScan(own, Turns(Warp))
  IN /\ Runs("gexscan", b, w, 0)
     /\ sh' = IF w < NWARP - 1
              THEN [sh EXCEPT ![b][w + 1] = incl[Warp - 1]]
              ELSE [sh EXCEPT ![b][0] = IF b > 0 THEN red[b - 1] ELSE 0]
     /\ reg' = [reg EXCEPT ![b] =
          [u \in DOMAIN @ \cup {w} |-> IF u = w THEN [l \in Lanes |-> incl[l] - own[l]] ELSE @[u]]]
     /\ Arrive(b, w)
     /\ UNCHANGED <<compressed, red, cl_n_scan>>

\* gexscan, between the barriers: the first warp scans the warps' sums.
ScanOffsets(b) ==
  LET off == WarpScan([l \in Lanes |-> IF l < NWARP THEN sh[b][l] ELSE 0], Turns(NWARP))
  IN /\ Runs("gexscan", b, 0, 1)
     /\ sh' = [sh EXCEPT ![b] = [w \in Warps |-> off[w]]]
     /\ Arrive(b, 0)
     /\ UNCHANGED <<compressed, red, cl_n_scan, reg>>

\* gexscan, after the barriers.
WriteScan(b, w) ==
  LET n   == Up(Size, ratio)
      Own == {l \in Lanes : Lane(b, w, l) < n}
      Out == [l \in Own |-> Prefix(ThreadCounts(Lane(b, w, l), n), sh[b][w] + reg[b][w][l])]
  IN /\ Runs("gexscan", b, w, 2)
     /\ cl_n_scan' = [i \in DOMAIN cl_n_scan |->
          LET t == i \div ratio IN
          IF t \div Warp = b * NWARP + w THEN Out[t % Warp][i % ratio] ELSE cl_n_scan[i]]
     /\ Arrive(b, w)
     /\ UNCHANGED <<compressed, red, sh, reg>>

\* cl_n_scan.resize(raw_size)
Return ==
  /\ running = "gexscan" /\ AllReturned
  /\ running' = "returned"
  /\ cl_n_scan' = [i \in DOMAIN counts |-> cl_n_scan[i]]
  /\ UNCHANGED <<rt, counts, compressed, red, at, waiting, sh, reg>>
-----------------------------------------------------------------------------
WarpStep(b) ==
  \/ \E w \in Warps : ReduceWarp(b, w)
  \/ ReduceBlock(b)
  \/ \E w \in Warps : ScanWarp(b, w)
  \/ ScanOffsets(b)
  \/ \E w \in Warps : WriteScan(b, w)

ThreadStep(t) == Load(t) \/ Carry(t) \/ AddBelow(t) \/ StoreSum(t)

ScanHost == LaunchReduce \/ LaunchBlocks \/ LaunchGexscan \/ Return

ScanNext ==
  \/ ScanHost
  \/ \E b \in DOMAIN at : WarpStep(b) \/ Barrier(b)
  \/ \E t \in 0 .. THREADS - 1 : ThreadStep(t)

ScanSpec == ScanInit /\ [][ScanNext]_scan_vars

-----------------------------------------------------------------------------
(* What a caller passes: counts of a type rt times as wide as ids_type, each *)
(* of which ids_type holds, the short int of extend as well.                 *)

CountsFit ==
  /\ rt \in {1, 2, 4}
  /\ \E n \in Nat : counts \in [0 .. n - 1 -> Nat]
  /\ \A i \in DOMAIN counts :
       counts[i] < IdsBound /\ (rt = 2 => counts[i] < IdsBound \div 2)

-----------------------------------------------------------------------------
\* The arrays have the sizes scan_ gives them, and the result that of counts.
ScanTypeOK ==
  /\ rt \in {1, 2, 4}
  /\ running \in {"compress4", "breduce", "bexscan", "gexscan", "returned"}
  /\ \A b \in DOMAIN at : at[b] \in 0 .. LastPhase \/ running = "returned"
  /\ DOMAIN red = IF running = "compress4" THEN {} ELSE 0 .. nblocks - 1
  /\ running = "returned" => DOMAIN cl_n_scan = DOMAIN counts

\* The result of scan_ is the exclusive prefix sum of the counts, and as long as
\* they are: what CellList_gpu uses as the place where each cell starts.
Exclusive ==
  /\ ScanTypeOK
  /\ running = "returned" => \A i \in DOMAIN counts :
    cl_n_scan[i] = Total(counts, i)

\* The entries of shtmp a thread of bexscan reads or writes in a phase.
Writes(t, p) ==
  CASE p = 0 -> {i \in 0 .. nblocks - 1 : i % THREADS = t}
    [] p > 0 /\ Step(p) = 0 -> {i \in {Index(p, t)} : Carries(i, t)}
    [] p > 0 /\ Step(p) % 2 = 1 -> {}
    [] OTHER -> {i \in {Index(p, t)} : t >= Strides[Step(p) \div 2]}
Reads(t, p) ==
  CASE p = 0 -> {}
    [] p > 0 /\ Step(p) = 0 -> {Index(p, t) - c : c \in {c \in {0, 1} : Carries(Index(p, t), t)}}
    [] p > 0 /\ Step(p) % 2 = 1 -> {i \in {Index(p, t), Index(p, t) - Stride(p)} : t >= Stride(p)}
    [] OTHER -> {Index(p, t)}

\* No thread of bexscan reads or writes an entry of the shared memory another
\* one writes between the same two barriers, and none leaves the array.
NoRace ==
  running = "bexscan" =>
    LET p == at[0] IN
    \A t \in Active(0, p) :
      /\ Writes(t, p) \cup Reads(t, p) \subseteq DOMAIN sh[0]
      /\ \A u \in Active(0, p) \ {t} :
           Writes(t, p) \cap (Writes(u, p) \cup Reads(u, p)) = {}

\* scan_ returns: no block waits for a thread that does not come (the barriers
\* of bexscan's last chunk stand under "if (threadIdx.x < n)").
Finishes == <>(running = "returned")
=============================================================================
