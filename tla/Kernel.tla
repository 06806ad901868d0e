------------------------------- MODULE Kernel -------------------------------
(***************************************************************************)
(* The resource manager that -kerneltest starts: Kernel_Main brings the    *)
(* GPU through INIT and RESET and then services interrupts while           *)
(* kernel_gpu->running, a flag that calloc clears and nothing ever sets.   *)
(* Kernel_Fatal ends the program from any of these states.                 *)
(***************************************************************************)
EXTENDS Hal

VARIABLES
  kpc,          (* where Kernel_Main stands: "off" before it is called     *)
  kernel_gpu,   (* the instance: "null", "live" or "freed"                 *)
  pfifo,        (* PFIFO registers: as at boot, or initialised             *)
  pgraph        (* PGRAPH: as at boot, configured, or configured and reset *)

kvars == <<kpc, kernel_gpu, pfifo, pgraph>>

KernelInit ==
  kpc = "off" /\ kernel_gpu = "null" /\ pfifo = "boot" /\ pgraph = "boot"

(* Kernel_SetState(GPU_STATE_INIT) allocates the instance, if it can.      *)
Alloc ==
  /\ kpc = "off"
  /\ kpc' = "fifo"
  /\ kernel_gpu' \in {"live", "null"}
  /\ UNCHANGED <<pfifo, pgraph>>

(* Kernel_SetState(GPU_STATE_SHUTDOWN): the subsystems do nothing in that  *)
(* state, the instance is freed.  NVPlay_Shutdown follows.                 *)
Kernel_Fatal ==
  /\ kpc' = "fatal"
  /\ kernel_gpu' = IF kernel_gpu = "null" THEN "null" ELSE "freed"
  /\ UNCHANGED <<pfifo, pgraph>>

(* NV4_InitFIFO and NV4_InitGraph fill in the instance, then the registers.*)
(* Through a null instance that is a fault.                                *)
Fault ==
  /\ kpc' = "fault"
  /\ UNCHANGED <<kernel_gpu, pfifo, pgraph>>

(* PFIFO's interrupts on, its caches and its run-out queue emptied.        *)
NV4_InitFIFO ==
  /\ kernel_gpu = "live"
  /\ pfifo' = "ready" /\ kpc' = "graph"
  /\ UNCHANGED <<kernel_gpu, pgraph>>

Kernel_SetStateFifo(hal) ==
  /\ kpc = "fifo"
  /\ \/ hal \notin HasFifoInit /\ Kernel_Fatal
     \/ hal \in HasFifoInit /\ kernel_gpu = "null" /\ Fault
     \/ hal \in HasFifoInit /\ NV4_InitFIFO

Kernel_SetStateGraph_Init(hal) ==
  /\ kpc = "graph"
  /\ IF hal \notin HasGraphInit THEN Kernel_Fatal
     ELSE /\ pgraph' = "configured" /\ kpc' = "reset"
          /\ UNCHANGED <<kernel_gpu, pfifo>>

(* GPU_STATE_RESET checks twice that graph_reset exists. It never calls it.*)
Kernel_SetStateGraph_Reset(hal) ==
  /\ kpc = "reset"
  /\ IF hal \notin HasGraphReset THEN Kernel_Fatal
     ELSE kpc' = "loop" /\ UNCHANGED <<kernel_gpu, pfifo, pgraph>>

(* The while loop finds running clear.                                     *)
(* Mutant: the loop is entered as if running were set, for good.           *)
Loop_Runs == kpc = "loop" /\ UNCHANGED kvars
Loop ==
  /\ kpc = "loop"
  /\ kpc' = "done"
  /\ UNCHANGED <<kernel_gpu, pfifo, pgraph>>

KernelNext(hal) ==
  \/ Alloc
  \/ Kernel_SetStateFifo(hal)
  \/ Kernel_SetStateGraph_Init(hal)
  \/ Kernel_SetStateGraph_Reset(hal)
  \/ Loop

KernelTypeOK ==
  /\ kpc \in {"off", "fifo", "graph", "reset", "loop", "done", "fatal", "fault"}
  /\ kernel_gpu \in {"null", "live", "freed"}
  /\ pfifo \in {"boot", "ready"}
  /\ pgraph \in {"boot", "configured", "reset"}
=============================================================================
