SPECIFICATION Spec
CONSTANTS
    OctetBits = 4
    Octets <- TwoOctets
    Sample <- Addresses8
    MaxSubnets = 2
INVARIANTS
    TypeOK
    BoundariesFit
    Partitioned
    Coarsest
    Routed
