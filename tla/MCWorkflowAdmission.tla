------------------------ MODULE MCWorkflowAdmission ------------------------
(* A workflow run of two calls and a batch of one. *)
EXTENDS WorkflowAdmission

MCRuns == {"workflow", "batch"}
MCBatches == {"batch"}
MCCalls == {"w1", "w2", "b1"}
MCRunOf == [c \in MCCalls |-> IF c = "b1" THEN "batch" ELSE "workflow"]
MCCeiling == [r \in MCRuns |-> IF r = "batch" THEN 1 ELSE 2]
MCOwnLimit == [r \in MCRuns |-> 2]
============================================================================
