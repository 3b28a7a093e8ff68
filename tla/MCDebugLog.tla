----------------------------- MODULE MCDebugLog -----------------------------
(***************************************************************************)
(* Instances of DebugLog: a token, a password that contains the token's    *)
(* secret, one that a form escapes, a short one that is also an ordinary   *)
(* word, no credentials; and a password with a character JSON escapes.     *)
(***************************************************************************)
EXTENDS DebugLog

Secret == <<"s1", "s2">>
Token == <<"ci@pam", "=">> \o Secret

Contexts ==
    {[token |-> Token, username |-> <<>>, password |-> <<>>],
     [token |-> Token, username |-> <<"root">>, password |-> <<"x", "s1", "s2", "y">>],
     [token |-> <<"ci@pam">>, username |-> <<>>, password |-> <<>>],
     [token |-> <<>>, username |-> <<"root">>, password |-> <<"p1", "p+">>],
     [token |-> <<>>, username |-> <<"root">>, password |-> <<"web">>],
     [token |-> <<>>, username |-> <<>>, password |-> <<>>]}

MintedTicket == <<"t1", "t2", "t3">>
MintedCSRF == <<"c1", "c2">>

Under(path, value) == [path |-> path, value |-> value]
Create ==
    [kind |-> "form", leaves |-> << Under(<<"cipassword">>, <<"k1", "k&">>),
                                    Under(<<"description">>, <<"R&D", "web">>),
                                    Under(<<"name">>, <<"web">>) >>]
NewGuests == {Create}

\* A config with a credential three keys deep, an HTML error page.
Config ==
    [kind |-> "json", leaves |-> << Under(<<"data", "0", "cipassword">>, <<"k1", "k&">>),
                                    Under(<<"data", "0", "description">>, <<"R&D", "web">>) >>]
Answers == {Config, Page(<<"502", "bad", "gateway">>)}
AnswerHeaders == {<< <<"Server", <<"pve">> >>, <<"Set-Cookie", <<"h1", "h2">> >> >>}

Keys == {"password", "cipassword", "ticket", "CSRFPreventionToken"}
Names == {"Authorization", "Cookie", "CSRFPreventionToken", "Set-Cookie"}

InAForm == "=" :> "%3D" @@ "p+" :> "p%2B" @@ "k&" :> "k%26" @@ "R&D" :> "R%26D" @@ "p&" :> "p%26"
InJSON == "k&" :> "k\\u0026" @@ "R&D" :> "R\\u0026D" @@ "p&" :> "p\\u0026"

\* A password that is not spelled alike in JSON.
Ampersand == {[token |-> <<>>, username |-> <<"root">>, password |-> <<"p&", "p2">>]}

\* What the theorems take of credentials is so of the first instance.
ASSUME InstanceAssumption == Users = Contexts => Distinctive
=============================================================================
