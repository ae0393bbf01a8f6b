SPECIFICATION FairAccessSpec
CONSTANTS
  adm = adm
  lead = lead
  dev = dev
  n1 = n1
  n2 = n2
  n3 = n3
  n4 = n4
  Users = {adm, lead, dev}
  Orgs = {n1, n2, n3, n4}
  None = None
  Tables <- MCTables
  Granted = {"platform_admin", "org_admin", "finops"}
  Watched = {lead}
  Calls = 2
  MaxDeliverAttempts = 2
  MaxFaults = 1
INVARIANTS AccessTypeOK ReportsStayInScope
PROPERTIES ViewsAgree AuthorityComesFromAuthority NoticesAreSettled
CHECK_DEADLOCK FALSE
