------------------------ MODULE MCDashboardCollector ------------------------
(* An instance of DashboardCollector with two names that differ in case     *)
(* only, and with and without a group in the configuration.  The difference *)
(* of the smallest priority and the default one is not an int.              *)
EXTENDS DashboardCollector, TLC

CONSTANTS a, A, u1

CaseOrder == (a :> 1) @@ (A :> 1)
Option(n, d, c, p) == [name |-> n, display |-> d, class |-> c, priority |-> p]
SmallConfigs == {<<>>,
                 <<Option(a, A, "first", 1), Option(NoName, a, "first", 0),
                   Option(a, NoName, "last", 1)>>,
                 <<Option(a, NoName, "default", -4)>>}
NoConfigs == {<<>>}
SmallPriorities == {-4, 0}

=============================================================================
