------------------------------ MODULE MCTrials ------------------------------
(* Workloads for model-checking TrialLedger.                               *)
EXTENDS TrialLedger, TLC

Rows == {NoRow, Never, 1}

NoRowsOfKey == {NoRow}

Keyless == [op : {"TrialStart"}, keyed : {FALSE}, module : Modules]
Starts  == [op : {"TrialStart"}, keyed : BOOLEAN, module : Modules]
Resets  == [op : {"ResetTrial"}, module : Modules]

AllRequests == Starts \cup Resets \cup [op : {"Activate"}]

Symmetric == Permutations(Procs) \cup Permutations(Modules)

=============================================================================
