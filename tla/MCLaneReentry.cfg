SPECIFICATION FairReentrySpec
CONSTANTS
    MaxReentries = 5
    MaxGrants = 2
    FaultSettings <- ThreeSettings
INVARIANTS AutomaticOnce RunsAreEarned
PROPERTIES ClaimIsRedeemed
CHECK_DEADLOCK FALSE
