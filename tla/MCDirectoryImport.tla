------------------------- MODULE MCDirectoryImport -------------------------
(* Instances of DirectoryImport, and with it of LiteLLMSync, for TLC. *)
EXTENDS DirectoryImport, TLC

CONSTANTS n1, n2, n3, n4, n5,  \* three nodes and two ids
          e1, e2           \* external ids

\* A root, an organization and a team below it, which holds keys.
MCTrees ==
  {[path   |-> n1 :> <<n1>> @@ n2 :> <<n1, n2>> @@ n3 :> <<n1, n2, n3>> @@ [n \in Orgs |-> <<>>],
    name   |-> [n \in Orgs |-> "x"],
    holder |-> {n3}]}

\* One department below the other, or both at the top and the first renamed.
Unit(p, nm) == [parent |-> p, name |-> nm]
MCDirectories == {e1 :> Unit(None, "x") @@ e2 :> Unit(e1, "x"), e1 :> Unit(None, "y") @@ e2 :> Unit(None, "x")}

\* Everything, or one without the other.
MCSelections == {{e1, e2}, {e2}}
=============================================================================
