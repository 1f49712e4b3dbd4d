\* Two signing runs of two builds that may overlap, a verification, one kill or
\* one call that fails unnoticed.
SPECIFICATION Spec
CONSTANTS
  s1 = s1  s2 = s2  s3 = s3
  v1 = v1  v2 = v2
  fwA = fwA  fwB = fwB
  Signers = {s1, s2}
  Verifiers = {v1}
  fw_data <- Builds
  SigLengths = {70, 71}
  FwFiles = {"signed_firmware.bin", "signed.bin"}
  MaxFaults = 1
SYMMETRY SignerSymmetry
INVARIANTS
  TypeOK
  AcceptedIsAuthentic
  UndisturbedRunReleases
  PackageNeverOutrunsKey
  CalmVerificationAccepts
  ExitReleasesAll
PROPERTY ImplementsRelease
