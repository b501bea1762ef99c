---------------------------- MODULE MCSupervisor ----------------------------
(* The supervisor for TLC: every value of every section, not every product.*)
EXTENDS Supervisor

TwoSinks == 1..2

Service(policy, budget, backoff, limited, probed) ==
    [policy |-> policy, budget |-> budget, backoff |-> backoff, limited |-> limited, probed |-> probed]

SomeConfigs ==
    {Service("always", 2, "exponential", TRUE, TRUE), Service("always", 0, "linear", FALSE, TRUE),
     Service("on-failure", 1, "constant", FALSE, TRUE), Service("on-failure", 0, "exponential", TRUE, FALSE),
     Service("never", 0, "constant", FALSE, TRUE)}

=============================================================================
