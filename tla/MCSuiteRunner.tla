--------------------------- MODULE MCSuiteRunner ---------------------------
(* SuiteRunner on small plans: three labels share one configuration, as     *)
(* the reference of several ablation groups does; a fourth has its own.     *)
EXTENDS SuiteRunner

MCPlan == <<[label |-> "pipelines/full",   key |-> "full"],
            [label |-> "hybrid/full",      key |-> "full"],
            [label |-> "graph/depth1",     key |-> "depth1"],
            [label |-> "rerank/full",      key |-> "full"]>>
=============================================================================
