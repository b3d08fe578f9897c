------------------------------ MODULE Backends -------------------------------
(***************************************************************************)
(* A build has one backend (LLM_BACKEND of CMakeLists.txt): one whose      *)
(* linear operations LinearOps models, or the Vulkan one, for which        *)
(* GpuForward models the whole forward pass.                               *)
(***************************************************************************)
EXTENDS LinearOps, GpuForward

VARIABLE built      \* "linear" or "gpu"

allVars == <<built, vars, gpuVars>>

OffLinear == conf = CHOOSE c \in Confs : TRUE
OffGpu ==
  /\ model = CHOOSE m \in Models : TRUE
  /\ plan = CHOOSE p \in Plans : TRUE
  /\ policy = CHOOSE p \in Policies : TRUE
  /\ push = FALSE

BuiltInit ==
  /\ built \in {"linear", "gpu"}
  /\ IF built = "gpu" THEN OffLinear ELSE OffGpu
  /\ Init /\ GpuInit

LinearStep == built = "linear" /\ Next /\ UNCHANGED <<built, gpuVars>>
GpuStep    == built = "gpu" /\ GpuNext /\ UNCHANGED <<built, vars>>

\* The build with the Vulkan backend alone.
GpuOnly == built = "gpu" /\ BuiltInit /\ [][GpuStep]_allVars

BuiltSpec == BuiltInit /\ [][LinearStep \/ GpuStep]_allVars

\* Every variable of the backend stays in its type; and of the Vulkan one,
\* table and command buffer (gpu.c, vk.c) stay within their arrays and a host
\* pointer has one entry.
BuiltTypeOK == LinearTypeOK /\ GpuTypeOK
=============================================================================
