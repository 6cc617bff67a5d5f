SPECIFICATION Spec
CONSTANTS
  Procs = {p1, p2}
  NONE = NONE
  TORN = TORN
  EMPTY = EMPTY
  Packages <- MCPackages
  Useless = {}
  Additions <- MCAdditions
  Guarded = {2}
  Refs <- MCRefs
  Web <- MCWeb
  Addresses <- MCAddresses
  Trusted = {}
  LocalNames = {"localhost"}
  Literals = {"10.0.0.1"}
  Public = {"public"}
  MaxRedirects = 2
  JsonBytes = 1
  PackageBytes = 2
  MaxMembers = 3
  MaxDepth = 1
  MaxMember = 2
  MaxExpanded = 4
  MaxRatio = 2
  Count = 3
  Limits = {1, 2}
  Nvd <- MCNvd
  Seeds <- MCSeeds
  Retries = 2
  MaxBackoff = 1
  Findings <- MCFindings
  Catalog <- MCCatalog
  PolicyFiles <- MCPolicyFiles
  Matched <- MCMatched
  Horizon = 1
  Servers = 4
  Reports <- MCReports
  Lower <- MCLower
  Similar <- MCSimilar
  Histories <- MCHistories
  Sensitive = {"command"}
  Tools <- MCTools
  Words <- MCWords
  Properties <- MCProperties
  MaxWords = 2
  MaxProperties = 1
  Window = 2
  Endpoints = {"e"}
  Looks <- MCLooks
  Names <- MCNames
  MaxTime = 3
  Targets <- MCTargets
  Resources <- MCResources
  AuthServers <- MCAuthServers
  Handshakes <- MCHandshakes
  Projects <- MCProjects
  Vulns <- MCVulns
  Scored <- MCScored
  MaxDeps = 3
  Schemas <- MCSchemas
  Answers <- MCAnswers
  MaxArgsDepth = 1
INVARIANT EveryEscalationTold
CHECK_DEADLOCK FALSE
