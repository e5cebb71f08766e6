SPECIFICATION Spec
CONSTANTS
  NestingLimit = 3
  Docs <- MCDocs
  Remarks <- MCRemarks
  Patches <- MCPatches
  Junk = {0, 113}
  Lengths <- MCLengths
  MaxSteps = 2
CHECK_DEADLOCK FALSE
INVARIANTS RoundTrip BuffersHold MinifyKeeps CompareAgrees PointerLeadsBack
  PatchesLead MergeLeads FailedPatchKeeps
