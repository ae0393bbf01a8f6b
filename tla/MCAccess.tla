------------------------------ MODULE MCAccess ------------------------------
(* An instance of Access for TLC. *)
EXTENDS Access, TLC

CONSTANTS adm, lead, dev,  \* users
          n1, n2, n3, n4   \* three nodes and an id

Holds(u, r, org) == [user |-> u, role |-> r, org |-> org]

\* One holds the widest role everywhere, one in a department; one is at home below it and
\* manages a node of its own, which nothing keeps from being deleted.
MCTables ==
  {[active |-> Users, path |-> n1 :> <<n1>> @@ n2 :> <<n2>> @@ n3 :> <<n2, n3>> @@ n4 :> <<>>,
    home |-> adm :> None @@ lead :> n2 @@ dev :> n3,
    grants |-> {Holds(adm, "platform_admin", None), Holds(lead, "platform_admin", n2), Holds(dev, "org_admin", n1)}]}
=============================================================================
