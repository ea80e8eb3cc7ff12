SPECIFICATION Spec
CONSTANTS
  Node <- Nodes2
  Build <- Builds
  QueryShow <- New
  Namespaces <- Spaces
  Sindexes <- Indexes
  Datacenters <- Dcs
  Principal = "B"
  node_lookup <- Lookup
  Ip <- Addresses
  Fqdn <- Hosts
  KeysFrom <- Beginning
  Starred <- Stars
  UdfFiles <- Files
  Numbers <- Wholes
  Times <- Epochs
  CtxItems <- Ctx
  Lines <- AllLines
  Here = "here"
  Held0 <- H0
  OthersWants <- Wants
  MaxFaults <- OneOrTwo
  MaxOthers = 1
INVARIANTS TypeOK ConfirmedFirst OutcomeTold SuccessMeansDone ChangedWhereNamed ReportOfSelected CollectedOrTold
PROPERTIES RosterAddKeeps NonePassedOver
