------------------------------ MODULE MCGrants ------------------------------
(* Workloads for model-checking Grants.                                    *)
EXTENDS Grants

CONSTANTS m1, m2

Days(m, n)   == [module |-> m, kind |-> "subscription", days |-> n, until |-> None]
Until(m, t)  == [module |-> m, kind |-> "trial", days |-> 0, until |-> t]
Forever(m)   == [module |-> m, kind |-> "perpetual", days |-> 0, until |-> None]
Mixed(m)     == [module |-> m, kind |-> "perpetual", days |-> 1, until |-> None]

Create(gs) == [op |-> "CreateKey", grants |-> gs]
Put(g)     == [op |-> "GrantModule", grant |-> g]
Remove(m)  == [op |-> "RevokeModule", module |-> m]
Delete     == [op |-> "DeleteKey"]

AllRequests ==
  {Create(<<Days(m1, 1), Until(m2, 1)>>), Create(<<Forever(m1), Mixed(m2)>>),
   Put(Days(m1, 1)), Put(Forever(m1)), Put(Until(m2, 1)), Remove(m1), Delete}

=============================================================================
