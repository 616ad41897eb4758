------------------------------- MODULE MCGate -------------------------------
(* Workloads for model-checking TenantGate.                                *)
EXTENDS TenantGate, TLC

CONSTANTS t1, t2

\* Clients of a tenant, one without credential; operators of the platform and
\* of the tenant, who select by tenant or by app key.
AllRequests ==
  [op : {"Call"}, tenant : {t1, None}]
    \cup [op : {"Create"}, scope : {t1, Platform}, tenant : {t2, None}]
    \cup [op : {"Update"}, scope : {t1, Platform}, tenant : {t1, t2}, disabled : {"absent", "yes", "no"}]
    \cup [op : {"Delete"}, scope : {t1, Platform}, tenant : {t1, t2}]
    \cup [op : {"Delete"}, scope : {Platform}, tenant : Minted]
    \cup [op : {"Get"}, scope : {t1, None}, tenant : {t1, t2}]
    \cup [op : {"List"}, scope : {t1}]

Symmetric == Permutations(Procs)

=============================================================================
