CONSTANTS
    RequiredLicenseDecisions = {"storage"}
    RequiredBrokerBlockers = {"identity"}
    Capabilities = {"corrections"}
    ReconciliationChecks = {"separate", "no_fallback"}
    SecurityControls = {"owner_only"}
    CompletePack <- MCPack
    Forms <- MCForms
    MaxRevisions = 2
SPECIFICATION AdmissionSpec
CHECK_DEADLOCK FALSE
INVARIANT MissingEvidenceIsNoGo
