------------------------------- MODULE MCGate -------------------------------
EXTENDS Gate
MCRequired == [r1 |-> [status |-> "passed", observation |-> "complete"],
               r2 |-> [status |-> "passed", observation |-> "not_required"]]
MCReference == MCRequired
MCFindingIds == {"r1", "r2", "effects", "surprise"}
MCConditional == {"effects"}
=============================================================================
