CONSTANTS
    Bundles <- MCBundles
    MAX_OPTION_BYTES = 14
SPECIFICATION Spec
INVARIANTS TypeOK NamespacesAsAsked ProgramPrivileges HostUntouched RootfsAsAsked HardeningHolds LimitsAsAsked FailsIfRefused
CHECK_DEADLOCK FALSE
