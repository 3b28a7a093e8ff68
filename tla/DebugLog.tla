------------------------------ MODULE DebugLog ------------------------------
(***************************************************************************)
(* What -v prints of a session with the API: the leveled logger that       *)
(* sweeps known credentials from every line (internal/verbose), masking by *)
(* key and by header (internal/api/redact.go), the transport that logs a   *)
(* round trip (internal/api/logging.go) and the logins that teach the      *)
(* logger its credentials (newTelmateClient).  One goroutine logs.         *)
(*                                                                         *)
(* A text is a sequence of words, a credential one of several words none   *)
(* of which is used elsewhere.  A body is its leaves in the order they are *)
(* printed, each with the keys that lead to it; text has no keys.  Forms   *)
(* and JSON documents are decoded to be masked and encoded again to be     *)
(* printed: the encoder spells some words in another way.                  *)
(***************************************************************************)
EXTENDS Naturals, Sequences, SequencesExt

CONSTANTS
    Users,             \* what a context can log in with: token, username, password
    Bodies,            \* request bodies of calls that change something
    Replies,           \* what the server answers of its own accord
    ReplyHeaders,      \* lists of headers it answers with
    FormEscapes,       \* what a form's encoder makes of the words it changes
    JSONEscapes,       \* and what JSON's makes of those it changes
    Ticket, CSRFToken, \* what a login mints
    SensitiveKeys, SensitiveHeaders,
    MinSecretLen,      \* shorter credentials are not swept
    PreviewLimit,      \* words of a body shown at level 8
    MaxCalls,          \* bound: calls of one run
    None

Word == STRING
Text == Seq(Word)

\* The words pvectl itself writes.
OwnWords ==
    {"REDACTED", "...", "token", "login", "start", "request", "failed", "done"}
OwnKeys ==
    {"username", "password", "data", "message", "ticket", "CSRFPreventionToken",
     "Authorization", "Cookie"}

\* A page is one text; every other leaf is under a key.
Leaf == [path : Text, value : Text]
Structured(kind) ==
    {b \in [kind : {kind}, leaves : Seq(Leaf)] : \A i \in DOMAIN b.leaves : b.leaves[i].path # <<>>}
Pages == {b \in [kind : {"text"}, leaves : Seq(Leaf)] :
            Len(b.leaves) = 1 /\ b.leaves[1].path = <<>>}
Body == Structured("json") \cup Structured("form") \cup Pages
Call == [what : {"login", "read", "task"}, body : Body]
Headers == Seq(Word \X Text)
Reply == [ok : BOOLEAN, headers : Headers, body : Body \cup {None}]

\* Every string is a word: for the provers, which do not know what a string is.
ASSUME WordsAssumption == OwnWords \cup OwnKeys \cup {"=", "page"} \subseteq Word
ASSUME LimitsAssumption ==
    MinSecretLen \in Nat \ {0} /\ PreviewLimit \in Nat /\ MaxCalls \in Nat
ASSUME TextsAssumption ==
    /\ Users \subseteq [token : Text, username : Text, password : Text]
    /\ Ticket \in Text /\ CSRFToken \in Text
ASSUME BodiesAssumption ==
    /\ Bodies \subseteq Structured("form") /\ Replies \subseteq Structured("json") \cup Pages
    /\ ReplyHeaders \subseteq Headers
ASSUME EscapesAssumption ==
    \A e \in {FormEscapes, JSONEscapes} :
        /\ e \in [DOMAIN e -> Word]
        /\ DOMAIN e \cap (OwnWords \cup OwnKeys) = {}
ASSUME NoneAssumption == None \notin Body \cup Call \cup Reply

LevelContext == 1
LevelTask == 4
LevelParams == 5
LevelRequest == 6
LevelHeaders == 7
LevelBody == 8
LevelFullBody == 9

VARIABLES
    level,     \* -v
    user,      \* the context's credentials
    secrets,   \* literals the logger sweeps, longest first
    headers,   \* what authenticates the next request
    pc,        \* "start", "ready", "send", "log", "done" or "stopped"
    call,      \* the call being made: what it is and its body
    reply,     \* the server's answer to it
    printed,   \* record: the lines the last step wrote
    calls      \* how many calls were made

vars == <<level, user, secrets, headers, pc, call, reply, printed, calls>>

Redacted == <<"REDACTED">>
Empty == [kind |-> "form", leaves |-> <<>>]
NoHeaders == <<>>

-----------------------------------------------------------------------------
(***************************************************************************)
(* The logger.                                                             *)
(***************************************************************************)
\* Logger.Secret: new ones of sufficient length are added, then sorted.
LongEnough_Always(text) == TRUE

LongEnough(text) == Len(text) >= MinSecretLen

Before_ShortestFirst(a, b) == Len(a) <= Len(b)

Before(a, b) == Len(a) >= Len(b)

Orders(texts) == {s \in SetToSeqs(texts) : IsSorted(s, Before)}

\* Those of one length may be in any order (in the code, as they came).
Registered(known, values) == Orders(ToSet(known) \cup {v \in values \ {<<>>} : LongEnough(v)})

\* strings.ReplaceAll, from left to right.
Replaced(text, secret) ==
    LET Here(i) == SubSeq(text, i, i + Len(secret) - 1) = secret
        from[i \in 1..(Len(text) + Len(secret))] ==
            IF i > Len(text) THEN <<>>
            ELSE IF i + Len(secret) - 1 <= Len(text) /\ Here(i)
                 THEN Redacted \o from[i + Len(secret)]
                 ELSE <<text[i]>> \o from[i + 1]
    IN  from[1]

Scrub(known, text) ==
    LET swept[n \in 0..Len(known)] ==
            IF n = 0 THEN text ELSE Replaced(swept[n - 1], known[n])
    IN  swept[Len(known)]

\* The lines of one message at a level, with the secrets then known.
Logf(at, known, text) == IF at <= level THEN {Scrub(known, text)} ELSE {}

-----------------------------------------------------------------------------
(***************************************************************************)
(* Masking by key.                                                         *)
(***************************************************************************)
Sensitive(key) == key \in SensitiveKeys

MaskedLeaf_OnTop(leaf) ==
    IF leaf.path # <<>> /\ Sensitive(leaf.path[1])
    THEN [path |-> SubSeq(leaf.path, 1, 1), value |-> Redacted] ELSE leaf

\* The whole value under a sensitive key goes, whatever is inside.
MaskedLeaf(leaf) ==
    LET first == SelectInSeq(leaf.path, Sensitive)
    IN  IF first = 0 THEN leaf
        ELSE [path |-> SubSeq(leaf.path, 1, first), value |-> Redacted]

\* redactParams: the parameters before they become a form.
RedactParams(body) ==
    [body EXCEPT !.leaves = [i \in DOMAIN @ |-> MaskedLeaf(@[i])]]

\* values.Encode and json.Marshal.
Spelled(kind, w) ==
    CASE kind = "form" /\ w \in DOMAIN FormEscapes -> FormEscapes[w]
      [] kind = "json" /\ w \in DOMAIN JSONEscapes -> JSONEscapes[w]
      [] OTHER -> w

Encoded(kind, text) == [i \in DOMAIN text |-> Spelled(kind, text[i])]

EncodedLeaf(kind, leaf) ==
    [path |-> Encoded(kind, leaf.path), value |-> Encoded(kind, leaf.value)]

\* redactRequestBody and redactResponseBody.
RedactBody(body) ==
    IF body.kind = "text" THEN body
    ELSE [body EXCEPT !.leaves =
             [i \in DOMAIN @ |-> EncodedLeaf(body.kind, MaskedLeaf(@[i]))]]

Rendered(body) ==
    FlattenSeq([i \in DOMAIN body.leaves |-> body.leaves[i].path \o body.leaves[i].value])

RedactHeader_None(name, value) == <<name>> \o value

RedactHeader(name, value) ==
    IF name \in SensitiveHeaders THEN <<name>> \o Redacted ELSE <<name>> \o value

Cut(text) == IF Len(text) <= PreviewLimit THEN text ELSE SubSeq(text, 1, PreviewLimit) \o <<"...">>

Preview_CutFirst(known, text) ==
    IF level >= LevelFullBody THEN Scrub(known, text) ELSE Scrub(known, Cut(text))

\* Swept while it is whole.
Preview(known, text) ==
    IF level >= LevelFullBody THEN Scrub(known, text) ELSE Cut(Scrub(known, text))

-----------------------------------------------------------------------------
(***************************************************************************)
(* Credentials.                                                            *)
(***************************************************************************)
\* The whole token and what follows its "=".
TokenSecrets(token) ==
    LET eq == SelectInSeq(token, LAMBDA w : w = "=")
    IN  <<token, IF eq = 0 THEN <<>> ELSE SubSeq(token, eq + 1, Len(token))>>

ValuesAt(body, paths) ==
    {leaf.value : leaf \in {l \in ToSet(body.leaves) : l.path \in paths}}

TicketSecrets(body) ==
    IF body.kind # "json" THEN {}
    ELSE ValuesAt(body, {<<"data", "ticket">>, <<"data", "CSRFPreventionToken">>})

Init ==
    /\ level \in 0..LevelFullBody /\ user \in Users
    /\ secrets = <<>> /\ headers = NoHeaders
    /\ pc = "start" /\ call = None /\ reply = None
    /\ printed = {} /\ calls = 0

\* newTelmateClient.  A token without a secret is refused.
LoginBody ==
    [kind |-> "form", leaves |-> << [path |-> <<"password">>, value |-> user.password],
                                    [path |-> <<"username">>, value |-> user.username] >>]

Connect ==
    /\ pc = "start"
    /\ secrets' \in IF level = 0 THEN {<<>>}
                    ELSE Registered(<<>>, ToSet(TokenSecrets(user.token)) \cup {user.password})
    /\ CASE user.token # <<>> /\ TokenSecrets(user.token)[2] # <<>> ->
              /\ headers' = << <<"Authorization", user.token>> >>
              /\ printed' = Logf(LevelContext, secrets', <<"token">>)
              /\ pc' = "ready" /\ call' = None
         [] user.token = <<>> /\ <<user.username, user.password>> # <<<<>>, <<>>>> ->
              /\ headers' = NoHeaders
              /\ printed' = Logf(LevelContext, secrets', <<"login">> \o user.username)
              /\ pc' = "send" /\ call' = [what |-> "login", body |-> LoginBody]
         [] OTHER -> pc' = "stopped" /\ printed' = {} /\ UNCHANGED <<headers, call>>
    /\ UNCHANGED <<level, user, reply, calls>>

-----------------------------------------------------------------------------
(***************************************************************************)
(* Calls.  logTask brackets one that changes something.                    *)
(***************************************************************************)
Begin ==
    /\ pc = "ready" /\ calls < MaxCalls /\ calls' = calls + 1
    /\ \/ call' = [what |-> "read", body |-> Empty] /\ printed' = {}
       \/ \E b \in Bodies :
            /\ call' = [what |-> "task", body |-> b]
            /\ printed' = Logf(LevelParams, secrets, Rendered(RedactParams(b)))
                          \cup Logf(LevelTask, secrets, <<"start">>)
    /\ pc' = "send" /\ reply' = None
    /\ UNCHANGED <<level, user, secrets, headers>>

\* The server may repeat what it was sent, in a page with no keys or in a
\* message; the answer to a login is the ticket.
Page(text) == [kind |-> "text", leaves |-> << [path |-> <<>>, value |-> text] >>]
Message(text) == [kind |-> "json", leaves |-> << [path |-> <<"message">>, value |-> text] >>]

NamesOf(list) == {list[i][1] : i \in DOMAIN list}
ValuesOf(list) == {list[i][2] : i \in DOMAIN list}
LeafValues(body) == {body.leaves[i].value : i \in DOMAIN body.leaves}

SentTexts == ValuesOf(headers) \cup LeafValues(call.body)

Repeats == {Page(<<"page">> \o t) : t \in SentTexts} \cup {Message(t) : t \in SentTexts}

Minted ==
    [kind |-> "json", leaves |-> << [path |-> <<"data", "CSRFPreventionToken">>, value |-> CSRFToken],
                                    [path |-> <<"data", "ticket">>, value |-> Ticket] >>]

Send ==
    /\ pc = "send" /\ pc' = "log"
    /\ \/ reply' \in [ok : {FALSE}, headers : ReplyHeaders, body : Replies \cup Repeats]
       \/ reply' = [ok |-> FALSE, headers |-> NoHeaders, body |-> None]
       \/ call.what = "login" /\ reply' \in [ok : {TRUE}, headers : ReplyHeaders, body : {Minted}]
       \/ call.what # "login" /\ reply' \in [ok : {TRUE}, headers : ReplyHeaders, body : Replies]
    /\ printed' = {}
    /\ UNCHANGED <<level, user, secrets, headers, call, calls>>

\* loggingTransport.RoundTrip, there from level 6 on.  A reply that does
\* not come is one line; bodies are read from level 8 on, and the ticket
\* of a login is known before a line of its reply is written.
HeaderLines(known, list) ==
    UNION {Logf(LevelHeaders, known, RedactHeader(list[i][1], list[i][2])) : i \in DOMAIN list}

TripLines(known) ==
    Logf(LevelRequest, known, <<"request">>)
    \cup HeaderLines(known, headers) \cup HeaderLines(known, reply.headers)
    \cup (UNION {Logf(LevelBody, known, Preview(known, Rendered(RedactBody(b))))
                 : b \in {call.body, reply.body} \ {Empty}})

Log ==
    /\ pc = "log" /\ pc' = "done"
    /\ secrets' \in IF level >= LevelBody /\ reply.body # None
                    THEN Registered(secrets, TicketSecrets(reply.body)) ELSE {secrets}
    /\ printed' = CASE level < LevelRequest -> {}
                    [] level >= LevelRequest /\ reply.body = None ->
                         Logf(LevelRequest, secrets, <<"failed">>)
                    [] OTHER -> TripLines(secrets')
    /\ UNCHANGED <<level, user, headers, call, reply, calls>>

\* A failed call's error has the words of a page that was no JSON.
Outcome ==
    IF reply.ok THEN <<"done">>
    ELSE <<"failed">> \o (IF reply.body = None \/ reply.body.kind # "text" THEN <<>>
                          ELSE Rendered(reply.body))

Done ==
    /\ pc = "done"
    /\ printed' = IF call.what = "task" THEN Logf(LevelTask, secrets, Outcome) ELSE {}
    /\ headers' = IF call.what = "login" /\ reply.ok
                  THEN << <<"Cookie", Ticket>>, <<"CSRFPreventionToken", CSRFToken>> >>
                  ELSE headers
    /\ pc' = IF call.what = "login" /\ ~reply.ok THEN "stopped" ELSE "ready"
    /\ UNCHANGED <<level, user, secrets, call, reply, calls>>

Next == Connect \/ Begin \/ Send \/ Log \/ Done

Spec == Init /\ [][Next]_vars

-----------------------------------------------------------------------------
(***************************************************************************)
(* Types.  The secrets are what Registered makes of a set of them.         *)
(***************************************************************************)
Labels == {"start", "ready", "send", "log", "done", "stopped"}

TypeOK ==
    /\ level \in 0..LevelFullBody /\ user \in Users
    /\ secrets \in Seq(Text)
    /\ \A i \in DOMAIN secrets : Len(secrets[i]) >= MinSecretLen
    /\ \A i, j \in DOMAIN secrets : i < j => Len(secrets[i]) >= Len(secrets[j])
    /\ headers \in Headers
    /\ pc \in Labels
    /\ IF pc \in {"send", "log", "done"} THEN call \in Call ELSE call \in Call \cup {None}
    /\ IF pc \in {"log", "done"} THEN reply \in Reply ELSE reply \in Reply \cup {None}
    /\ printed \subseteq Text
    /\ calls \in 0..MaxCalls

(***************************************************************************)
(* A credential of the session is in no line at any level, whole or in     *)
(* part, spelled as it is or as an encoder spells it, also where the       *)
(* server repeats it, if the logger had been told of it; one it was not    *)
(* told of (too short, or minted below level 8, or an ordinary             *)
(* parameter's) shows only where it is sent or repeated under no key that  *)
(* names it.  (Logger.Secret: "a credential that reaches the logger by an  *)
(* unforeseen route is still removed".)                                    *)
(***************************************************************************)
\* No key that leads to it names a credential.
Open(leaf) == ~\E k \in ToSet(leaf.path) : Sensitive(k)

LoggedIn == \E i \in DOMAIN headers : headers[i][2] = Ticket

SecretValues(body) ==
    {body.leaves[i].value : i \in {j \in DOMAIN body.leaves : ~Open(body.leaves[j])}}

SecretHeaders(list) ==
    {list[i][2] : i \in {j \in DOMAIN list : list[j][1] \in SensitiveHeaders}}

CredentialsOf(u) ==
    {TokenSecrets(u.token)[2], u.password, Ticket, CSRFToken}
    \cup UNION {SecretValues(b) : b \in Bodies \cup Replies}
    \cup UNION {SecretHeaders(list) : list \in ReplyHeaders}

Credentials == CredentialsOf(user)

Swept(c) ==
    /\ level > 0 /\ Len(c) >= MinSecretLen
    /\ \/ c \in {TokenSecrets(user.token)[2], user.password}
       \/ c \in {Ticket, CSRFToken} /\ LoggedIn /\ level >= LevelBody

Spellings(text) == {text, Encoded("form", text), Encoded("json", text)}

HasPart(text, c) == \E s \in Spellings(c) : ToSet(text) \cap ToSet(s) # {}

\* What goes over the wire under no key, and no header, that names a credential.
OpenValues(body) ==
    {body.leaves[i].value : i \in {j \in DOMAIN body.leaves : Open(body.leaves[j])}}

OpenTexts(body) ==
    OpenValues(body) \cup {Encoded(body.kind, t) : t \in OpenValues(body)}

OpenHeaders(list) ==
    {list[i][2] : i \in {j \in DOMAIN list : list[j][1] \notin SensitiveHeaders}}

Exchanged ==
    (IF call = None THEN {} ELSE {call.body}) \cup (IF reply = None THEN {} ELSE {reply.body} \ {None})

OpenInBodies == UNION {OpenTexts(b) : b \in Exchanged}
OpenInAnswer == IF reply = None THEN {} ELSE OpenHeaders(reply.headers)
Exposed == OpenInBodies \cup OpenInAnswer

CredentialsStayOut ==
    \A line \in printed, c \in Credentials :
        HasPart(line, c) => ~Swept(c) /\ \E t \in Exposed : HasPart(t, c)

(***************************************************************************)
(* Nothing else is hidden: at the highest level every key sent and         *)
(* received is shown, and every value that no key calls sensitive and that *)
(* has no credential, long enough to be swept, whole, as it is spelled in  *)
(* a body of its kind.  (redact.go: "what was sent stays visible".)        *)
(***************************************************************************)
Visible(text) == \E line \in printed : text \in SubSeqs(line)

OrdinaryText(text) ==
    \A c \in Credentials \cup {user.token} :
        Len(c) >= MinSecretLen => c \notin SubSeqs(text)

NothingElseIsHidden ==
    pc = "done" /\ level = LevelFullBody /\ reply.body # None =>
        \A b \in Exchanged : \A i \in DOMAIN b.leaves :
            /\ Visible(Encoded(b.kind, MaskedLeaf(b.leaves[i]).path))
            /\ Open(b.leaves[i]) /\ OrdinaryText(Encoded(b.kind, b.leaves[i].value)) =>
                    Visible(Encoded(b.kind, b.leaves[i].path \o b.leaves[i].value))

(***************************************************************************)
(* A credential is masked whole: no line has the beginning of one with     *)
(* the rest masked.  (Logger.Secret sorts: "a credential that contains a   *)
(* shorter registered literal must be replaced whole".)                    *)
(***************************************************************************)
NeverHalfMasked ==
    \A line \in printed, i \in DOMAIN secrets : \A n \in 1..(Len(secrets[i]) - 1) :
        SubSeq(secrets[i], 1, n) \o Redacted \notin SubSeqs(line)

-----------------------------------------------------------------------------
(***************************************************************************)
(* Credentials the logger can tell from what else it prints: hypotheses of *)
(* the theorems, on the constants.  A credential is in a text whole, or as *)
(* part of another that is swept, and in no spelling but its own; two of   *)
(* them do not overlap in a text; no word that pvectl, or a key, has of    *)
(* its own is part of one.  The server may repeat each in JSON: so these   *)
(* leave out a credential with a character that JSON escapes.              *)
(***************************************************************************)
Occurs(text, s, i) ==
    /\ i \in 1..Len(text) /\ i + Len(s) - 1 <= Len(text)
    /\ \A k \in 1..Len(s) : text[i + k - 1] = s[k]

Covers(text, s, j, p) == Occurs(text, s, j) /\ j <= p /\ p < j + Len(s)

CoveredBy(text, K, W) ==
    \A p \in 1..Len(text) : text[p] \in W =>
        \E d \in K : \E j \in 1..Len(text) : Covers(text, d, j, p)

\* s may end in words that d begins with.
Dovetails(s, d) ==
    \E o \in 1..(Len(s) - 1) :
        o + Len(d) > Len(s) /\ \A k \in 1..(Len(s) - o) : s[o + k] = d[k]

Long(texts) == {t \in texts : Len(t) >= MinSecretLen}

LoginLiterals(u) == Long(ToSet(TokenSecrets(u.token)) \cup {u.password})
Literals(u) ==
    LoginLiterals(u) \cup Long(UNION {TicketSecrets(b) : b \in Replies \cup {Minted}})

BodyTexts == UNION {LeafValues(b) : b \in Bodies \cup Replies}
HeaderTexts == UNION {ValuesOf(list) : list \in ReplyHeaders}
TextsOf(u) ==
    {u.token, u.username, u.password, Ticket, CSRFToken} \cup BodyTexts \cup HeaderTexts

FormTexts(u) == {u.username} \cup UNION {OpenValues(b) : b \in Bodies}

\* As they are, and as they are spelled in a body.
Printable(u) ==
    TextsOf(u) \cup {Encoded("json", t) : t \in TextsOf(u)}
    \cup {Encoded("form", t) : t \in FormTexts(u)}

KeyWords(b) ==
    UNION {ToSet(b.leaves[i].path) \cup ToSet(Encoded(b.kind, b.leaves[i].path))
           : i \in DOMAIN b.leaves}

BodyWords == UNION {KeyWords(b) : b \in Bodies \cup Replies}
HeaderNames == UNION {NamesOf(list) : list \in ReplyHeaders}
Spoken == OwnWords \cup OwnKeys \cup {"page"} \cup BodyWords \cup HeaderNames

LiteralsApart == \A u \in Users : \A s, d \in Literals(u) : ~Dovetails(s, d)

LiteralsWhole ==
    \A u \in Users : \A l \in Literals(u), t \in Printable(u) :
        CoveredBy(t, LoginLiterals(u) \cup {l}, ToSet(l))

OwnWordsApart ==
    \A u \in Users : \A c \in CredentialsOf(u) \cup {u.token} : \A s \in Spellings(c) :
        ToSet(s) \cap Spoken = {}

LiteralsPlain ==
    \A u \in Users : \A l \in Literals(u), t \in Printable(u) : \A s \in Spellings(l) :
        ToSet(t) \cap ToSet(s) \subseteq ToSet(l)

KeysAreNamed ==
    /\ {"password", "ticket", "CSRFPreventionToken"} \subseteq SensitiveKeys
    /\ "username" \notin SensitiveKeys
    /\ {"Authorization", "Cookie", "CSRFPreventionToken"} \subseteq SensitiveHeaders

TicketsAreNew == \A u \in Users : u.token # Ticket

Distinctive ==
    /\ LiteralsApart /\ LiteralsWhole /\ LiteralsPlain
    /\ OwnWordsApart /\ KeysAreNamed /\ TicketsAreNew
=============================================================================
