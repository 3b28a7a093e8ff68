\* Every level, every way to log in, a server that repeats what it is sent.
CONSTANTS
    None = None
    Users <- Contexts
    Bodies <- NewGuests
    Replies <- Answers
    ReplyHeaders <- AnswerHeaders
    FormEscapes <- InAForm
    JSONEscapes <- InJSON
    Ticket <- MintedTicket
    CSRFToken <- MintedCSRF
    SensitiveKeys <- Keys
    SensitiveHeaders <- Names
    MinSecretLen = 2
    PreviewLimit = 3
    MaxCalls = 2
SPECIFICATION Spec
INVARIANTS
    TypeOK
    CredentialsStayOut
    NeverHalfMasked
    NothingElseIsHidden
CHECK_DEADLOCK FALSE
