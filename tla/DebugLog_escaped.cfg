\* A server that repeats, in JSON, a password with a character JSON escapes.
CONSTANTS
    None = None
    Users <- Ampersand
    Bodies <- NewGuests
    Replies <- Answers
    ReplyHeaders <- AnswerHeaders
    FormEscapes <- InAForm
    JSONEscapes <- InJSON
    Ticket <- MintedTicket
    CSRFToken <- MintedCSRF
    SensitiveKeys <- Keys
    SensitiveHeaders <- Names
    MinSecretLen = 2
    PreviewLimit = 3
    MaxCalls = 1
SPECIFICATION Spec
INVARIANT CredentialsStayOut
CHECK_DEADLOCK FALSE
