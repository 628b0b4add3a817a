---------------------------- MODULE MCStompFrame ----------------------------
(***************************************************************************)
(* Frames of the client and of a server, and every text that comes from    *)
(* one of them by leaving out, putting in or replacing one token, or by    *)
(* cutting it off; from a receipt, by doing so twice. One of them has a    *)
(* content-length that is no number, so that each other fault meets it.    *)
(***************************************************************************)
EXTENDS StompFrame

Line(name, value) == <<name, ":", value, "NL">>

Connected == <<"CONNECTED", "NL">> \o Line("version", "x") \o Line("session", "y")
Receipt   == <<"RECEIPT", "NL">> \o Line("receipt-id", "x")
Message   == <<"MESSAGE", "NL">> \o Line("subscription", "x") \o Line("message-id", "y")
                \o Line("destination", "x") \o Line("content-length", "2")
Error     == <<"ERROR", "NL">> \o Line("version", "x") \o Line("content-length", "2")
Subscribe == <<"SUBSCRIBE", "NL">> \o Line("id", "x") \o Line("destination", "y")
WithAck   == Subscribe \o Line("ack", "client")
Own       == <<"SUBSCRIBE", "NL">> \o Line("id", "x") \o Line("receipt", "y")
                \o Line("destination", "x") \o Line("ack", "auto")
NoLength  == WithAck \o Line("content-length", "x")
OwnStomp  == <<"STOMP", "NL">> \o Line("host", "x")

Bare == {<<"DISCONNECT", "NL">>, Connected, Receipt, Subscribe, WithAck, Own, OwnStomp}
Frames == {head \o <<"NL", "NUL", "NL">> : head \in Bare}
            \union {head \o <<"NL", "yy", "NUL">> : head \in {Message, Error, NoLength}}

Words == {"SEND", "MESSAGE", "destination", "receipt-id", "content-length", "auto", "0", "x"}
Marks == {"NL", ":", "NUL"}

Cut(text, i) == SubSeq(text, 1, i - 1)
Rest(text, i) == SubSeq(text, i, Len(text))

Changed(text) ==
    UNION { {Cut(text, i), Cut(text, i) \o Rest(text, i + 1)}
              \union {Cut(text, i) \o <<t>> \o Rest(text, i) : t \in Marks \union {"x"}}
              \union {Cut(text, i) \o <<t>> \o Rest(text, i + 1) : t \in Marks \union Words}
            : i \in DOMAIN text }

\* in no text are two numbers side by side
Digits == {"0", "2"}
OnceChanged == UNION {Changed(f) : f \in Frames}
TwiceChanged == UNION {Changed(f) : f \in Changed(Receipt \o <<"NL", "NUL">>)}
MCTexts == {text \in Frames \union OnceChanged \union TwiceChanged :
              \A i \in 2..Len(text) : ~({text[i - 1], text[i]} \subseteq Digits)}

\* a mark is one character
MCChars == [t \in Marks \union Words \union Commands \union Headers
                    \union {"y", "yy", "2", "client"} |->
              IF t \in Marks THEN 1 ELSE Len(t)]
MCNumber == [t \in Digits |-> IF t = "2" THEN 2 ELSE 0]
=============================================================================
