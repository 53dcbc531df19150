----------------------------- MODULE MCPipeline -----------------------------
(***************************************************************************)
(* The pipeline for TLC: three pull requests of which two share a branch   *)
(* but not a target, and a commit that has a link at the allowed path.     *)
(***************************************************************************)
EXTENDS Pipeline

MCImages == <<"evaluator", "gate">>
MCSource == [h \in Heads |-> IF h = "h2" THEN "link" ELSE "plain"]
MCFirstPulls ==
  [p \in Pulls |-> [head |-> "h1", branch |-> IF p = "p3" THEN "c" ELSE "b",
                    target |-> IF p = "p1" THEN "main" ELSE "other", open |-> TRUE, base |-> 1]]
MCFirstMain == <<[stale |-> {}, dockerfile |-> 1]>>
=============================================================================
