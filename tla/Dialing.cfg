CONSTANTS
    MaxAddresses = 3
    Retries = 3
SPECIFICATION FairSpec
INVARIANTS
    AddressesAccountedFor
PROPERTIES
    ImplementsPromise
    DialingSettles
CHECK_DEADLOCK FALSE
