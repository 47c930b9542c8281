SPECIFICATION Spec
CONSTANTS
  local = local
  remote = remote
  other = other
  one = one
  two = two
  Entry <- MCEntry
  Remote <- MCRemote
  Name <- MCName
  NameOf <- MCNameOf
  Jobs = 2
  SkillLists <- MCSkillLists
  MaxVersion = 2
INVARIANT TypeOK
INVARIANT NoCloneLeftBehind
INVARIANT JobsRunTheRecordedSkills
