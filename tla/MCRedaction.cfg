SPECIFICATION Spec
CONSTANTS
  Subjects <- MCSubjects
  Targets <- MCTargets
  Times <- MCTimes
  Answers <- MCAnswers
  TraceIdLength = 1
  SpanIdLength = 1
  Configurations <- MCConfigurations
  Users <- MCUsers
  MaxCrumbs = 3
  MaxChanges = 1
  MaxLength = 3
  MaxNames = 1
  MaxCauseDepth = 1
  HexIdDigits = 2
  UuidGroups <- MCUuidGroups
  MaxSegmentLength = 2
  MinTld = 2
  CompactMin = 2
  CompactMax = 4
  GroupSize = 2
  GroupsMin = 1
  GroupsMax = 2
  IbanMin = 6
  IbanMax = 9
  CardMin = 2
  CardMax = 4
  CardPrefixes <- MCCardPrefixes
  SensitiveKeys <- MCSensitiveKeys
  MaxTitle = 2
  ChangeKinds = {"deploy", "migration"}
INVARIANTS
  SecretsAreMasked
  InputIsReadAsWritten
  ScannersMatchTheirPatterns
  MessagesHoldNoValue
  OutgoingKeepsToPolicy
CHECK_DEADLOCK FALSE
