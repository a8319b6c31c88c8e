SPECIFICATION Spec
CONSTANTS
  search = search
  tender = tender
  software = software
  weak = weak
  strong = strong
  dull = dull
  None = None
  Failed = Failed
  General = General
  Sources = {1, 2}
  MaxChecks = 1
  Profiles = {search}
  Notices = {tender}
  Texts = {weak, strong, dull}
  Statuses = {"new", "rejected"}
  Themes <- MCThemes
  SignalThemes <- MCThemes
  Mentions <- MCMentions
  Corroborates <- MCCorroborates
  Relevant <- MCRelevant
  Publishes <- MCPublishes
  Flags <- MCFlags
INVARIANTS
  TypeOK
  NoticeOnce
  SignalsFollowEvidence
PROPERTIES
  UnchangedIsUnchanged
  NeverFetchedUnapproved
  DecisionsStand
  RequestsEnd
