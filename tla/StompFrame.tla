----------------------------- MODULE StompFrame -----------------------------
(***************************************************************************)
(* Class StompFrame: the constructor parses a text and validates it. One   *)
(* step per function of the parser, one per header.                        *)
(*                                                                         *)
(* A text is a sequence of tokens: words, and the characters that matter   *)
(* to the parser. A word stands for one or more characters, none of them   *)
(* such a character; two words side by side are one longer word, which is  *)
(* no command and no name of a header.                                     *)
(***************************************************************************)
EXTENDS Integers, Sequences, FiniteSets

CONSTANTS
    Texts,      \* the arguments of the constructor
    Chars,      \* token -> its number of characters
    Number      \* the words std::stoi can read -> their values

ASSUME TextsAssumption ==
    /\ \A text \in Texts :
          /\ text \in Seq(DOMAIN Chars)
          /\ \A i \in 2..Len(text) : ~({text[i - 1], text[i]} \subseteq DOMAIN Number)
    /\ DOMAIN Number \subseteq DOMAIN Chars

NL == "NL"          \* '\n'
Colon == ":"
NUL == "NUL"        \* '\0'
AutoAck == <<"auto">>

(* strToCommand and strToHeader find these words.                          *)
Commands ==
    {"SEND", "SUBSCRIBE", "UNSUBSCRIBE", "BEGIN", "COMMIT", "ABORT", "ACK", "NACK", "ERROR",
     "DISCONNECT", "CONNECT", "STOMP", "CONNECTED", "MESSAGE", "RECEIPT", "SERVER_ERROR"}

Headers ==
    {"content-length", "content-type", "receipt", "host", "accept-version", "message",
     "message-id", "receipt-id", "destination", "ack", "subscription", "id", "version",
     "transaction", "session", "login", "passcode", "server", "heart-beat"}

VARIABLES
    frame,      \* the text
    pc,         \* the function that runs next, "done", or "thrown"
    idx,        \* the index it is given
    command_,   \* "kUndefined" until one is found
    headers_,   \* name -> value, a text
    body_,
    state_      \* "kOk", "kParsing", "kValidation"

vars == <<frame, pc, idx, command_, headers_, body_, state_>>

Init ==
    /\ frame \in Texts
    /\ pc = "ParseCommand"
    /\ idx = 1
    /\ command_ = "kUndefined"
    /\ headers_ = [h \in {} |-> <<>>]
    /\ body_ = <<>>
    /\ state_ = "kOk"

Reject(error) == pc' = "done" /\ state_' = error
Continue(with) == pc' = with /\ UNCHANGED state_

Inside(i) == i <= Len(frame)
HoldsAt(i, token) == Inside(i) /\ frame[i] = token

(* The index of the first of some tokens from i on, or one past the end.   *)
Find(tokens, i) ==
    CHOOSE j \in i..Len(frame) + 1 :
       /\ j = Len(frame) + 1 \/ frame[j] \in tokens
       /\ \A k \in i..j - 1 : frame[k] \notin tokens
-----------------------------------------------------------------------------
(* Parsing.                                                                *)

ParseCommand ==
    /\ pc = "ParseCommand"
    /\ LET end == Find({NL}, 1) IN
        /\ idx' = end + 1
        /\ IF Inside(end) /\ SubSeq(frame, 1, end - 1) \in {<<c>> : c \in Commands}
           THEN command_' = frame[1] /\ Continue("ParseHeaders")
           ELSE Reject("kParsing") /\ UNCHANGED command_
    /\ UNCHANGED <<frame, headers_, body_>>

(* Faulty variant: a header given twice has its last value.                *)
IsHeaderAgain(name, value, end) ==
    /\ name \in {<<h>> : h \in Headers}
    /\ Inside(end) /\ value # <<>>

(* A known name, a value that is not empty, and no earlier value.          *)
IsHeader(name, value, end) ==
    /\ name \in {<<h>> : h \in Headers}
    /\ Inside(end) /\ value # <<>>
    /\ name[1] \notin DOMAIN headers_

(* The value is the rest of the line, with any ":" in it.                  *)
ParseHeader ==
    /\ pc = "ParseHeaders"
    /\ Inside(idx) /\ frame[idx] # NL
    /\ LET colon == Find({Colon, NL}, idx)
           end   == Find({NL}, colon + 1)
           name  == SubSeq(frame, idx, colon - 1)
           value == SubSeq(frame, colon + 1, end - 1)
       IN  IF HoldsAt(colon, Colon) /\ IsHeader(name, value, end)
           THEN /\ headers_' = [h \in DOMAIN headers_ \union {name[1]} |->
                                    IF h = name[1] THEN value ELSE headers_[h]]
                /\ idx' = end + 1
                /\ Continue("ParseHeaders")
           ELSE Reject("kParsing") /\ UNCHANGED <<headers_, idx>>
    /\ UNCHANGED <<frame, command_, body_>>

(* A SUBSCRIBE frame without the header ack gets one.                      *)
WithDefaults ==
    [h \in DOMAIN headers_ \union (IF command_ = "SUBSCRIBE" THEN {"ack"} ELSE {}) |->
        IF h \in DOMAIN headers_ THEN headers_[h] ELSE AutoAck]

(* The empty line that ends the headers.                                   *)
ParseHeaders ==
    /\ pc = "ParseHeaders"
    /\ Inside(idx) => frame[idx] = NL
    /\ IF Inside(idx) THEN Continue("ParseBody") ELSE Reject("kParsing")
    /\ headers_' = WithDefaults
    /\ idx' = idx + 1
    /\ UNCHANGED <<frame, command_, body_>>

(* The body ends with the first NUL, whatever content-length says.         *)
ParseBody ==
    /\ pc = "ParseBody"
    /\ LET end == Find({NUL}, idx) IN
        /\ idx' = end + 1
        /\ IF Inside(end)
           THEN body_' = SubSeq(frame, idx, end - 1) /\ Continue("ParseEol")
           ELSE Reject("kParsing") /\ UNCHANGED body_
    /\ UNCHANGED <<frame, command_, headers_>>

(* Faulty variant: what follows the NUL is not looked at.                  *)
AnyTail == TRUE

OnlyNewlines == \A i \in idx..Len(frame) : frame[i] = NL

ParseEol ==
    /\ pc = "ParseEol"
    /\ IF OnlyNewlines THEN Continue("Validate") ELSE Reject("kParsing")
    /\ UNCHANGED <<frame, idx, command_, headers_, body_>>
-----------------------------------------------------------------------------
(* Validation.                                                             *)

requiredHeaders ==
    [CONNECT |-> {"accept-version", "host"}, CONNECTED |-> {"version"},
     SEND |-> {"destination"}, SUBSCRIBE |-> {"destination", "id"}, UNSUBSCRIBE |-> {"id"},
     ACK |-> {"id"}, NACK |-> {"id"},
     BEGIN |-> {"transaction"}, COMMIT |-> {"transaction"}, ABORT |-> {"transaction"},
     MESSAGE |-> {"destination", "message-id", "subscription"}, RECEIPT |-> {"receipt-id"}]

(* Of the two entries for MESSAGE in the initializer the first counts.     *)
optionalHeaders ==
    [CONNECT |-> {"login", "passcode", "heart-beat"},
     CONNECTED |-> {"session", "server", "heart-beat", "content-type"},
     SEND |-> {"transaction", "content-type"}, SUBSCRIBE |-> {"ack"},
     MESSAGE |-> {"content-type"}, ACK |-> {"transaction"}, NACK |-> {"transaction"},
     DISCONNECT |-> {"receipt"}, ERROR |-> {"version", "message", "content-type"}]

Entry(table, command) == IF command \in DOMAIN table THEN table[command] ELSE {}

(* Faulty variant: one of the required headers is enough.                  *)
SomeRequired ==
    LET required == Entry(requiredHeaders, command_) IN
    required = {} \/ required \intersect DOMAIN headers_ # {}

AllRequired == Entry(requiredHeaders, command_) \subseteq DOMAIN headers_

AllAllowed ==
    DOMAIN headers_ \subseteq {"content-length"}
        \union Entry(requiredHeaders, command_) \union Entry(optionalHeaders, command_)

AckIsValid ==
    command_ = "SUBSCRIBE" =>
        headers_["ack"] \in {AutoAck, <<"client">>, <<"client-individual">>}

(* std::stoi reads the number a text begins with, and throws without one.  *)
IsNumber(value) == value[1] \in DOMAIN Number

BodySize == LET size[i \in 0..Len(body_)] == IF i = 0 THEN 0 ELSE size[i - 1] + Chars[body_[i]]
            IN  size[Len(body_)]

(* Faulty variant: the length is read before anything is validated.        *)
LengthFirst == "content-length" \in DOMAIN headers_

(* The length is read when everything else is in order.                    *)
ReadsLength ==
    AllAllowed /\ AllRequired /\ AckIsValid /\ "content-length" \in DOMAIN headers_

Validate ==
    /\ pc = "Validate"
    /\ IF ReadsLength /\ ~IsNumber(headers_["content-length"])
       THEN pc' = "thrown" /\ UNCHANGED state_
       ELSE IF /\ AllAllowed /\ AllRequired /\ AckIsValid
               /\ ReadsLength => Number[headers_["content-length"][1]] = BodySize
       THEN Continue("done")
       ELSE Reject("kValidation")
    /\ UNCHANGED <<frame, idx, command_, headers_, body_>>
-----------------------------------------------------------------------------
Next ==
    \/ ParseCommand \/ ParseHeader \/ ParseHeaders \/ ParseBody \/ ParseEol
    \/ Validate

Spec == Init /\ [][Next]_vars
-----------------------------------------------------------------------------
(* Properties.                                                             *)

(* Reference: a text is a frame if its first line is a command, then there *)
(* is one line for each of its headers, an empty line, a body with no NUL  *)
(* in it, a NUL, and nothing but newlines.                                 *)
HeaderLines(text, blank) == {i + 1 : i \in {j \in 1..blank - 2 : text[j] = NL}}

IsFrame(text) ==
    \E blank, end \in DOMAIN text :
       /\ 1 < blank /\ blank < end
       /\ text[blank] = NL /\ text[blank - 1] = NL /\ text[end] = NUL
       /\ text[1] \in Commands /\ text[2] = NL
       /\ LET lines == HeaderLines(text, blank) IN
          /\ \A s \in lines : text[s] \in Headers /\ text[s + 1] = Colon /\ text[s + 2] # NL
          /\ \A s, t \in lines : text[s] = text[t] => s = t
       /\ \A i \in blank + 1..end - 1 : text[i] # NUL
       /\ \A i \in end + 1..Len(text) : text[i] = NL

(* The parser accepts exactly the texts that are frames.                   *)
ParsingIsExact ==
    pc \in {"Validate", "done", "thrown"} => (state_ = "kParsing" <=> ~IsFrame(frame))

(* The fields of a text that was parsed are in it, each where the one      *)
(* before it ends, and nothing of it is in no field: the headers that were *)
(* not given are ack of SUBSCRIBE only.                                    *)
FieldsAreTheText ==
    pc \in {"Validate", "done", "thrown"} /\ state_ # "kParsing" =>
       LET blank == idx - 2 - Len(body_)
           lines == HeaderLines(frame, blank)
           given == {frame[s] : s \in lines}
       IN  /\ frame[1] = command_
           /\ body_ = SubSeq(frame, blank + 1, blank + Len(body_))
           /\ \A s \in lines : \E end \in s..blank :
                 SubSeq(frame, s, end) = <<frame[s], Colon>> \o headers_[frame[s]] \o <<NL>>
           /\ given \subseteq DOMAIN headers_
           /\ DOMAIN headers_ \ given # {} => command_ = "SUBSCRIBE" /\ headers_["ack"] = AutoAck

Accepted == pc = "done" /\ state_ = "kOk"

(* The header by which StompClient tells subscriptions apart.              *)
IdOf == [RECEIPT |-> "receipt-id", MESSAGE |-> "subscription"]

(* A frame that was accepted has the id StompClient compares with its own, *)
(* and it is not empty: a client that has not subscribed, whose ids are    *)
(* empty, takes no receipt and no message for its own (MessageHandler      *)
(* compares without asking whether the header is there).                   *)
IdsAreNeverEmpty ==
    Accepted /\ command_ \in DOMAIN IdOf =>
        IdOf[command_] \in DOMAIN headers_ /\ headers_[IdOf[command_]] # <<>>

(* Reference: the headers before the first empty line are those that the   *)
(* command requires, others that it allows, and an ack that there is.      *)
FirstBlank(text, blank) ==
    /\ text[blank] = NL /\ text[blank - 1] = NL
    /\ \A s \in HeaderLines(text, blank) : text[s] # NL

HeadersFit(text, blank) ==
    LET lines == HeaderLines(text, blank)
        names == {text[s] : s \in lines}
    IN  /\ Entry(requiredHeaders, text[1]) \subseteq names
        /\ names \subseteq {"content-length"}
              \union Entry(requiredHeaders, text[1]) \union Entry(optionalHeaders, text[1])
        /\ \A s \in lines : text[s] = "ack" =>
              text[s + 2] \in {"auto", "client", "client-individual"} /\ text[s + 3] = NL

(* A frame in order but for its content-length, which is no number.        *)
OnlyLengthIsWrong(text) ==
    /\ IsFrame(text)
    /\ \E blank \in 2..Len(text) :
          /\ FirstBlank(text, blank) /\ HeadersFit(text, blank)
          /\ \E s \in HeaderLines(text, blank) :
                text[s] = "content-length" /\ text[s + 2] \notin DOMAIN Number

(* The constructor throws exactly for the frames that are in order but for *)
(* their content-length, which is no number: every other fault of a text   *)
(* is reported, and comes before this one.                                 *)
ThrowsForLength == pc \in {"done", "thrown"} => (pc = "thrown" <=> OnlyLengthIsWrong(frame))

(* The result of the construction is stored in the error code (comment of  *)
(* the constructor): it does not throw.                                    *)
ResultIsStored == pc # "thrown"
=============================================================================
