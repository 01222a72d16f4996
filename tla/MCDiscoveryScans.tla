-------------------------- MODULE MCDiscoveryScans --------------------------
(* Instances of DiscoveryScans for TLC.                                      *)
EXTENDS DiscoveryScans, TLC

CONSTANTS s1, s2, c1, w1, w2, a1

Start(scheduled, recursive, due) ==
    [scheduled |-> scheduled, recursive |-> recursive, due |-> due]
Run(supported, subnet) == [supported |-> supported, subnet |-> subnet]

\* Scans that start at once; that are due at clock 0, once or again and again;
\* and one that is scheduled without a time.
Immediate == {Start(FALSE, FALSE, Null)}
Scheduled == {Start(TRUE, FALSE, 0), Start(TRUE, TRUE, 0)}
EveryStart == Immediate \cup Scheduled \cup {Start(TRUE, FALSE, Null)}

\* Asset discovery of the subnet or of a list of addresses; and one of a type
\* that is not supported (or WINRM without credentials).
EveryRun == {Run(TRUE, TRUE), Run(TRUE, FALSE)}
AnyRun == {Run(TRUE, FALSE), Run(FALSE, TRUE)}
AllRuns == EveryRun \cup AnyRun
NoRun == {}

\* Requests and workers are interchangeable; for invariants and action properties.
Alike == Permutations({s1, s2}) \cup Permutations({w1, w2})
=============================================================================
