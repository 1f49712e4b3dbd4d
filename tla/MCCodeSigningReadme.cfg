\* One signing run, then the verification the README shows, of "signed.bin".
SPECIFICATION Spec
CONSTANTS
  s1 = s1  s2 = s2  s3 = s3
  v1 = v1  v2 = v2
  fwA = fwA  fwB = fwB
  Signers = {s1}
  Verifiers = {v1}
  fw_data <- OneBuild
  SigLengths = {70}
  FwFiles = {"signed.bin"}
  MaxFaults = 1
INVARIANT DocumentedWorkflow
