CONSTANTS
  SectorSize = 8
  LenLimit = 24
  FidHeader = 5
  FidAlign = 2
  NameRunes <- MCNameRunes
  NameBytes <- MCNameBytes
  WideNames <- MCWideNames
  LowerCase <- MCLowerCase
  BiosBoot <- MCBiosBoot
  UefiBoot <- MCUefiBoot
  Arm64Loader <- MCArm64Loader
  VirtualSector = 2
  CountLimit = 4
  Esd <- MCEsd
  SetupTree <- MCSetupTree
  Sources <- MCSources
  BootWim <- MCBootWim
  InstallWim <- MCInstallWim
  KeyPath <- MCKeyPath
  AutoKey = "auto"
  ExtraData <- MCExtraData
  AnswerData <- MCAnswerData
  BuildOptions <- MCBuildOptions
  MaxBuilds = 2
  MaxFaults = 1
  FatLimit = 18
  SliceSize = 12
  ResourceStarts <- MCResourceStarts
  Parts <- MCParts
  Loaders <- MCLoaders
  Fallback <- MCFallback
  LoaderData <- MCLoaderData
  Disks <- MCDisks
  UsbOptions <- MCUsbOptions
  Changes <- MCChanges
  Removals <- MCRemovals
  Targets <- MCTargets
  MaxChanges = 1
  MaxRewrites = 2
SPECIFICATION Spec
INVARIANTS
  ImageReadsBack
  LinksClosed
  InspectorAgrees
  BootsChosen
  BuiltFromOptions
  MediumComplete
CHECK_DEADLOCK FALSE
