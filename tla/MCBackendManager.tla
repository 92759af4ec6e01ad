--------------------------- MODULE MCBackendManager ---------------------------
(* Instances of BackendManager for TLC. *)
EXTENDS BackendManager

\* An NPU, a GPU and a CPU backend and one that cannot infer: the NPU has the highest
\* priority, the CPU backend has no score.
MCPriority == [id \in Ids |-> CASE id = "npu" -> 30 [] id = "gpu" -> 20
                                [] id = "onnx" -> 15 [] id = "cpu" -> 10]
MCStartScore == [id \in Ids |-> IF id = "cpu" THEN 0 ELSE 1]

\* One machine has two accelerators that work, the other only one that does not.
MCMachines == {{"npu", "gpu", "cpu"}, {"onnx", "cpu"}}

\* A row that names all that was found, and one that names one accelerator: the others
\* are tried after the CPU.
MCPreferredLists == {<<"onnx", "gpu", "npu", "cpu">>, <<"gpu", "cpu">>}
===============================================================================
