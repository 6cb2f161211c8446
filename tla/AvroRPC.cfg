CONSTANTS
    None = None
    blocking = blocking
    other = other
    twisted = twisted
    P = P
    Q = Q
    get = get
    put = put
    Requestors = {blocking, other, twisted}
    Blocking = {blocking, other}
    Namings <- MCNamings
    Protocols = {P, Q}
    local_protocol <- MCLocal
    Messages = {get, put}
    Served = {P}
    Tools = {None, put}
    Signature <- MCSignature
    Resolvable <- MCResolvable
    MaxCalls <- MCMaxCalls
    MaxRestarts = 1
    BUFFER_SIZE = 6
    BUFFER_HEADER_LENGTH = 2
    RequestSize <- MCRequestSize
    AnswerSize = 2
    ProtocolSize = 4
SPECIFICATION TransportSpec
INVARIANTS ReadAsWritten PerformedOnce TwoSends HandshakeAgrees FramingIntact
PROPERTIES ImplementsIPC CallsEnd
CHECK_DEADLOCK FALSE
