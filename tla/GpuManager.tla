----------------------------- MODULE GpuManager -----------------------------
(***************************************************************************)
(* src/engine/gpu_manager.cpp and the part of InferenceEngine::start() and *)
(* stop() that uses it: the devices are probed one by one and a memory     *)
(* pool is taken on each, one device is selected and made current, and the *)
(* pools are given back by shutdown().  Pools hand out addresses by moving *)
(* a mark.  Both builds are modelled: without CUDA, initialize() succeeds  *)
(* and every other function is a stub.  Memory is counted in small units;  *)
(* sizes are size_t, so they wrap at Width.                                *)
(***************************************************************************)
EXTENDS Integers, FiniteSets

CONSTANTS DeviceCount,   \* what cudaGetDeviceCount() reports
          FreeMemory,    \* the amounts of memory a device may have free at first
          GpuDevices,    \* config_.gpu_device; -1 asks for a selection
          PoolSize, Align, Width,   \* 256 MB, 256, 2^64 in the code
          Requests       \* sizes asked of a pool, of any size_t

ASSUME GpuAssumption ==
  /\ DeviceCount \in Nat /\ FreeMemory \subseteq Nat /\ GpuDevices \subseteq Int
  /\ Width \in Nat /\ PoolSize \in 0..(Width - 1) /\ Align \in 1..(Width - 1)
  /\ Requests \subseteq 0..(Width - 1)

Device == 0..(DeviceCount - 1)

VARIABLES cudaBuild,     \* SOVALUNE_CUDA_ENABLED
          freeAtBoot, free,  \* device memory, at first and now
          gpuDevice,     \* config_.gpu_device
          gpc, probe,    \* where start() is, and the device being probed
          gpuReady,      \* initialized_
          infoFree,      \* devices_[d].free_memory
          pool,          \* memory_pools_[d]
          currentDevice, \* the current CUDA device of the thread
          blocks         \* handed out since the last reset(): offset and size asked for

gpuVars == <<cudaBuild, freeAtBoot, free, gpuDevice, gpc, probe, gpuReady, infoFree,
             pool, currentDevice, blocks>>
machine == <<cudaBuild, freeAtBoot>>

\* A pool and the device its memory was taken on.
Pool == [base : BOOLEAN, on : Nat, total : Nat, used : Nat]
NoPool == [base |-> FALSE, on |-> 0, total |-> 0, used |-> 0]
PoolsOn(d) == {e \in Device : pool[e].base /\ pool[e].on = d}

GpuInit ==
  /\ cudaBuild = FALSE /\ gpc = "off" /\ gpuDevice = -1 /\ probe = 0 /\ gpuReady = FALSE
  /\ freeAtBoot = [d \in Device |-> 0] /\ free = freeAtBoot /\ currentDevice = 0
  /\ infoFree = [d \in Device |-> 0] /\ pool = [d \in Device |-> NoPool] /\ blocks = {}

Boot ==
  /\ gpc = "off" /\ gpc' = "idle"
  /\ cudaBuild' \in BOOLEAN /\ gpuDevice' \in GpuDevices
  /\ freeAtBoot' \in [Device -> FreeMemory] /\ free' = freeAtBoot'
  /\ UNCHANGED <<probe, gpuReady, infoFree, pool, currentDevice, blocks>>

-----------------------------------------------------------------------------
(* start() in mode "cuda" *)

\* initialize() does nothing twice; it fails when the runtime counts no device.
InitializeGpu ==
  /\ gpc = "idle"
  /\ IF gpuReady \/ ~cudaBuild THEN gpc' = "select"
     ELSE \/ gpc' = "failed"
          \/ DeviceCount > 0 /\ gpc' = "probe"
  /\ probe' = 0
  /\ UNCHANGED <<machine, free, gpuDevice, gpuReady, infoFree, pool, currentDevice, blocks>>

\* GpuDeviceGuard: the device that is current under it, and the one that is
\* when it is gone.  No result of cudaSetDevice() is looked at, in neither
\* direction.
Guarded(d) == {g \in {d, currentDevice} \X {d, currentDevice} : g[2] \in {g[1], currentDevice}}

\* The pool of device d is allocated on a device, or stays empty.
TakePool(d, on) ==
  \/ UNCHANGED <<free, pool>>
  \/ /\ free[on] >= PoolSize
     /\ free' = [free EXCEPT ![on] = @ - PoolSize]
     /\ pool' = [pool EXCEPT ![d] = [base |-> TRUE, on |-> on, total |-> PoolSize, used |-> 0]]

\* get_device_info(), which leaves zeros when the properties cannot be read and
\* else asks for the memory of the current device, and then the pool.
ProbeDevice ==
  /\ gpc = "probe" /\ probe < DeviceCount
  /\ infoFree' \in {[infoFree EXCEPT ![probe] = m] : m \in {0, free[currentDevice]}}
  /\ \E g \in Guarded(probe) : TakePool(probe, g[1]) /\ currentDevice' = g[2]
  /\ probe' = probe + 1
  /\ UNCHANGED <<machine, gpuDevice, gpc, gpuReady, blocks>>

EndInitialize ==
  /\ gpc = "probe" /\ probe = DeviceCount
  /\ gpuReady' = TRUE /\ gpc' = "select"
  /\ UNCHANGED <<machine, free, gpuDevice, probe, infoFree, pool, currentDevice, blocks>>

\* select_best_device(): the first of the largest recorded values above zero.
BestDevice ==
  LET best == {d \in Device : /\ infoFree[d] > 0
                              /\ \A e \in Device : infoFree[e] <= infoFree[d]
                              /\ \A e \in Device : e < d => infoFree[e] < infoFree[d]}
  IN  IF ~gpuReady THEN -1
      ELSE IF best = {} THEN 0 ELSE CHOOSE d \in best : TRUE

\* cudaSetDevice() fails for a device that does not exist, and may fail for one
\* that does; the result of set_device() is dropped.
SetDevice(d) == currentDevice' \in {currentDevice} \cup (IF cudaBuild THEN Device \cap {d} ELSE {})

SelectDevice ==
  /\ gpc = "select"
  /\ gpuDevice' = IF gpuDevice < 0 THEN BestDevice ELSE gpuDevice
  /\ IF gpuDevice' < 0 THEN gpc' = "failed" /\ UNCHANGED currentDevice
                       ELSE gpc' = "load" /\ SetDevice(gpuDevice')
  /\ UNCHANGED <<machine, free, probe, gpuReady, infoFree, pool, blocks>>

\* The model is loaded or not; a start() that failed may be called again.
LoadOnDevice ==
  /\ gpc = "load" /\ gpc' \in {"using", "failed"}
  /\ UNCHANGED <<machine, free, gpuDevice, probe, gpuReady, infoFree, pool, currentDevice, blocks>>

StartAgain ==
  /\ gpc = "failed" /\ gpc' = "idle"
  /\ UNCHANGED <<machine, free, gpuDevice, probe, gpuReady, infoFree, pool, currentDevice, blocks>>

\* shutdown(), at the end of stop(): each pool is freed under a guard of its own,
\* on whatever device it was taken.
FreePools_Forgotten == UNCHANGED free
FreePools == free' = [d \in Device |-> free[d] + PoolSize * Cardinality(PoolsOn(d))]

ShutdownGpu ==
  /\ gpc = "using" /\ gpc' = "idle"
  /\ gpuReady' = FALSE /\ FreePools
  /\ currentDevice' \in {currentDevice} \cup {d \in Device : pool[d].base}
  /\ infoFree' = [d \in Device |-> 0] /\ pool' = [d \in Device |-> NoPool] /\ blocks' = {}
  /\ UNCHANGED <<machine, gpuDevice, probe>>

-----------------------------------------------------------------------------
(* The pool of the device in use, while the engine is up *)

\* Both sums are of type size_t.
AlignUp_Down(n) == (n \div Align) * Align
AlignUp(n) == (((n + Align - 1) % Width) \div Align) * Align

PoolInUse == gpc = "using" /\ cudaBuild /\ gpuDevice \in Device

\* allocate(): an address, or null and nothing changes.
Allocate(n) ==
  LET p == pool[gpuDevice]
      end == (p.used + AlignUp(n)) % Width
  IN  /\ PoolInUse /\ p.base /\ end <= p.total
      /\ pool' = [pool EXCEPT ![gpuDevice].used = end]
      /\ blocks' = blocks \cup {[from |-> p.used, size |-> n]}
      /\ UNCHANGED <<machine, free, gpuDevice, gpc, probe, gpuReady, infoFree, currentDevice>>

\* reset() frees every block: its clients must not use theirs any more.  A block
\* that was given to deallocate(), which does nothing, is as good as held.
ResetPool ==
  /\ PoolInUse
  /\ pool' = [pool EXCEPT ![gpuDevice].used = 0] /\ blocks' = {}
  /\ UNCHANGED <<machine, free, gpuDevice, gpc, probe, gpuReady, infoFree, currentDevice>>

GpuNext ==
  \/ Boot \/ InitializeGpu \/ ProbeDevice \/ EndInitialize \/ SelectDevice
  \/ LoadOnDevice \/ StartAgain \/ ShutdownGpu
  \/ \E n \in Requests : Allocate(n)
  \/ ResetPool

GpuSpec == GpuInit /\ [][GpuNext]_gpuVars

-----------------------------------------------------------------------------
(* Properties *)

GpuTypeOK ==
  /\ gpc \in {"off", "idle", "probe", "select", "load", "using", "failed"}
  /\ free \in [Device -> Nat] /\ infoFree \in [Device -> Nat] /\ pool \in [Device -> Pool]
  /\ currentDevice \in Nat /\ gpuDevice \in Int /\ probe \in 0..DeviceCount

\* No memory is lost or counted twice, over failed starts, second attempts and
\* restarts, and wherever the pools were taken: a device has what it had, less
\* the pools on it.
MemoryAccounted ==
  \A d \in Device : free[d] + PoolSize * Cardinality(PoolsOn(d)) = freeAtBoot[d]

\* "--gpu-device N          GPU device ID (default: auto)" (README.md:86) and "Get
\* best device for inference (most free memory)" (gpu_manager.hpp:76): a model is
\* loaded on the device that was asked for, and when none was and all devices
\* could be read, on one than which no other had more free memory when the probes
\* began to take it.
LoadsOnChosenDevice ==
  [][gpc = "select" /\ gpc' = "load" /\ cudaBuild =>
       /\ currentDevice' = gpuDevice'
       /\ gpuReady /\ gpuDevice < 0 /\ (\A d \in Device : infoFree[d] > 0) =>
            \A d \in Device : freeAtBoot[d] <= freeAtBoot[gpuDevice']]_gpuVars

\* A size so large that a sum of allocate() may leave size_t, as the mark stands;
\* the code has no test for it.
MayWrap(n) == n + Align - 1 + PoolSize >= Width

\* allocate() (gpu_manager.cpp:60-72): as long as no client asks for a size that
\* wraps, what was handed out since the last reset() lies in the pool, and
\* apart from what other clients were given.
BlocksApart ==
  (\A b \in blocks : ~MayWrap(b.size)) =>
    \A b \in blocks :
      /\ b.from + b.size <= PoolSize
      /\ \A c \in blocks \ {b} : b.from + b.size <= c.from \/ c.from + c.size <= b.from

=============================================================================
