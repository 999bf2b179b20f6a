CONSTANTS
  Null = Null
  Missing = Missing
  Unknown = Unknown
  PackageOptions <- MCPackages
  RepositoryOptions <- MCRepositories
  UserLines <- MCUserLines
  UnitOptions <- MCUnits
  UnitFiles <- MCUnitFiles
  ServiceOptions <- MCServices
  DropInOptions <- MCDropIns
  DropInTexts <- MCContents
  MaxConfigs = 2
  MaxForeign = 0
  MaxFaults = 1
CHECK_DEADLOCK FALSE
SPECIFICATION Spec
INVARIANTS TakesEffect
