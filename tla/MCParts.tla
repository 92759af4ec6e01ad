------------------------------- MODULE MCParts -------------------------------
(***************************************************************************)
(* Six parts that share no state, in one run: the first state says which   *)
(* of them moves, the others stay in one state of theirs.  The states of   *)
(* the run are those of the six parts one after another, not their         *)
(* product.                                                                *)
(***************************************************************************)
EXTENDS FusedPipeline, MCSpecDecode, ManagerLocks, Generation, NpuQueue, Onebitd

CONSTANTS npu, gpu, cpu

VARIABLE part

\* A daemon whose fork failed.
DaemonNotStarted ==
  /\ child = "none" /\ pidSet = FALSE /\ shutdown = FALSE
  /\ listener = "none" /\ mainAt = "ended" /\ round = 0

PartsInit ==
  /\ part \in {"fused", "spec", "locks", "generation", "queue", "daemon"}
  /\ FusedInit /\ SpecInit /\ LocksInit /\ GenerationInit /\ NpuQueueInit
  /\ IF part = "daemon" THEN DaemonInit ELSE DaemonNotStarted
  /\ part # "locks" => routed = Backends /\ order = <<npu, gpu, cpu>> /\ activeIdx = 1
  /\ part # "generation" => activeB = CHOOSE b \in Bs : TRUE

PartsNext ==
  \/ /\ part = "fused" /\ FusedNext
     /\ UNCHANGED <<part, specVars, locksVars, generationVars, queueVars, daemonVars>>
  \/ /\ part = "spec" /\ SpecNext
     /\ UNCHANGED <<part, fusedVars, locksVars, generationVars, queueVars, daemonVars>>
  \/ /\ part = "locks" /\ LocksNext
     /\ UNCHANGED <<part, fusedVars, specVars, generationVars, queueVars, daemonVars>>
  \/ /\ part = "generation" /\ GenerationNext
     /\ UNCHANGED <<part, fusedVars, specVars, locksVars, queueVars, daemonVars>>
  \/ /\ part = "queue" /\ NpuQueueNext
     /\ UNCHANGED <<part, fusedVars, specVars, locksVars, generationVars, daemonVars>>
  \/ /\ part = "daemon" /\ DaemonNext
     /\ UNCHANGED <<part, fusedVars, specVars, locksVars, generationVars, queueVars>>

partsVars == <<part, fusedVars, specVars, locksVars, generationVars, queueVars,
               daemonVars>>

\* In a part that does not move, nothing that has to happen is enabled.
PartsSpec ==
  /\ PartsInit /\ [][PartsNext]_partsVars
  /\ LocksFairness /\ NpuQueueFairness /\ DaemonFairness
===============================================================================
