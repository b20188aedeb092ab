SPECIFICATION FairSpec
CONSTANTS
    MaxConnections = 2
    MaxWritten = 2
    MaxSent = 2
    MaxFaults = 1
INVARIANT TlsTypeOK
INVARIANT DataKept
INVARIANT SecretsAgree
CHECK_DEADLOCK FALSE
PROPERTY HandshakeCompletes
