-------------------------- MODULE StompFrameProofs --------------------------
(***************************************************************************)
(* Proofs about StompFrame, for any text: what StompClient may rely on in  *)
(* a frame that was accepted, and that the parser accepts exactly the      *)
(* frames, field by field.                                                 *)
(***************************************************************************)
EXTENDS StompFrame, Induction, SequenceTheorems, TLAPS

(* No header was kept without a value.                                     *)
ValuesAreGiven == \A h \in DOMAIN headers_ : headers_[h] # <<>>

(* Only Validate accepts, and not without the headers the command needs.   *)
AcceptedIsComplete == Accepted => AllRequired

Inv == ValuesAreGiven /\ AcceptedIsComplete

LEMMA InitInv == Init => Inv
  BY DEF Init, Inv, ValuesAreGiven, AcceptedIsComplete, Accepted

(* A header is kept with the value IsHeader has looked at.                 *)
LEMMA ParseHeaderInv == Inv /\ ParseHeader => Inv'
<1> SUFFICES ASSUME Inv, ParseHeader PROVE Inv'
  OBVIOUS
<1> DEFINE colon == Find({Colon, NL}, idx)
           end   == Find({NL}, colon + 1)
           name  == SubSeq(frame, idx, colon - 1)
           value == SubSeq(frame, colon + 1, end - 1)
<1>1. CASE HoldsAt(colon, Colon) /\ IsHeader(name, value, end)
  <2>1. value # <<>>
    BY <1>1 DEF IsHeader
  <2>2. /\ headers_' = [h \in DOMAIN headers_ \union {name[1]} |->
                            IF h = name[1] THEN value ELSE headers_[h]]
        /\ pc' = "ParseHeaders"
    BY <1>1 DEF ParseHeader, Continue
  <2> HIDE DEF name, value
  <2> QED BY <2>1, <2>2 DEF Inv, ValuesAreGiven, AcceptedIsComplete, Accepted
<1>2. CASE ~(HoldsAt(colon, Colon) /\ IsHeader(name, value, end))
  <2>1. headers_' = headers_ /\ state_' = "kParsing"
    BY <1>2 DEF ParseHeader, Reject
  <2> QED BY <2>1 DEF Inv, ValuesAreGiven, AcceptedIsComplete, Accepted
<1> QED BY <1>1, <1>2

LEMMA ParseHeadersInv == Inv /\ ParseHeaders => Inv'
<1> SUFFICES ASSUME Inv, ParseHeaders PROVE Inv'
  OBVIOUS
<1>1. ValuesAreGiven'
  <2>1. AutoAck # <<>>
    <3>1. Len(<<"auto">>) = 1 /\ Len(<<>>) = 0
      OBVIOUS
    <3> QED BY <3>1 DEF AutoAck
  <2>2. headers_' = WithDefaults
    BY DEF ParseHeaders
  <2>3. \A h \in DOMAIN headers_' : headers_'[h] = AutoAck \/
             (h \in DOMAIN headers_ /\ headers_'[h] = headers_[h])
    <3> DEFINE names == DOMAIN headers_ \union (IF command_ = "SUBSCRIBE" THEN {"ack"} ELSE {})
    <3>1. headers_' = [h \in names |-> IF h \in DOMAIN headers_ THEN headers_[h] ELSE AutoAck]
      BY <2>2 DEF WithDefaults
    <3> HIDE DEF names
    <3> QED BY <3>1
  <2> QED BY <2>1, <2>3 DEF Inv, ValuesAreGiven
<1>2. pc' # "done" \/ state_' = "kParsing"
  BY DEF ParseHeaders, Continue, Reject
<1> QED BY <1>1, <1>2 DEF Inv, AcceptedIsComplete, Accepted

LEMMA NextInv == Inv /\ [Next]_vars => Inv'
<1> SUFFICES ASSUME Inv, [Next]_vars PROVE Inv'
  OBVIOUS
<1>1. CASE ParseCommand \/ ParseBody \/ ParseEol
  <2>1. UNCHANGED headers_ /\ (pc' # "done" \/ state_' = "kParsing")
    BY <1>1 DEF ParseCommand, ParseBody, ParseEol, Continue, Reject
  <2> QED BY <2>1 DEF Inv, ValuesAreGiven, AcceptedIsComplete, Accepted
<1>2. CASE Validate
  <2>1. UNCHANGED <<command_, headers_>> /\ (Accepted' => AllRequired)
    BY <1>2 DEF Validate, Continue, Reject, Accepted
  <2> QED BY <2>1 DEF Inv, ValuesAreGiven, AcceptedIsComplete, AllRequired
<1>3. CASE UNCHANGED vars
  BY <1>3 DEF vars, Inv, ValuesAreGiven, AcceptedIsComplete, Accepted, AllRequired
<1> QED BY <1>1, <1>2, <1>3, ParseHeaderInv, ParseHeadersInv DEF Next

(* A frame that was accepted has the id StompClient compares with its own, *)
(* and it is not empty.                                                    *)
THEOREM IdsAreGiven == Spec => []IdsAreNeverEmpty
<1>1. Inv => IdsAreNeverEmpty
  <2> SUFFICES ASSUME Inv, Accepted, command_ \in DOMAIN IdOf
               PROVE  IdOf[command_] \in DOMAIN headers_ /\ headers_[IdOf[command_]] # <<>>
    BY DEF IdsAreNeverEmpty
  <2>1. IdOf[command_] \in Entry(requiredHeaders, command_)
    BY DEF IdOf, Entry, requiredHeaders
  <2> QED BY <2>1 DEF Inv, ValuesAreGiven, AcceptedIsComplete, AllRequired
<1> QED BY InitInv, NextInv, <1>1, PTL DEF Spec
-----------------------------------------------------------------------------
(* Texts.                                                                  *)

IsText == frame \in Seq(DOMAIN Chars)

(* Find finds the first of the tokens.                                     *)
LEMMA FindFirst ==
    ASSUME IsText, NEW tokens, NEW i \in 1..Len(frame) + 1
    PROVE  /\ Find(tokens, i) \in i..Len(frame) + 1
           /\ Inside(Find(tokens, i)) => frame[Find(tokens, i)] \in tokens
           /\ \A k \in i..Find(tokens, i) - 1 : frame[k] \notin tokens
<1> DEFINE T == {j \in i..Len(frame) + 1 : j = Len(frame) + 1 \/ frame[j] \in tokens}
<1>1. Len(frame) \in Nat
  BY DEF IsText
<1>2. T \in SUBSET Nat /\ T # {}
  BY <1>1
<1>3. PICK j \in T : \A k \in T : j <= k
  <2> HIDE DEF T
  <2> QED BY <1>2, LeastNat
<1>4. /\ j \in i..Len(frame) + 1
      /\ j = Len(frame) + 1 \/ frame[j] \in tokens
      /\ \A k \in i..j - 1 : frame[k] \notin tokens
  BY <1>1, <1>3
<1> HIDE DEF T
<1>5. /\ Find(tokens, i) \in i..Len(frame) + 1
      /\ Find(tokens, i) = Len(frame) + 1 \/ frame[Find(tokens, i)] \in tokens
      /\ \A k \in i..Find(tokens, i) - 1 : frame[k] \notin tokens
  BY <1>4, Zenon DEF Find
<1> QED BY <1>1, <1>5 DEF Inside

(* The token there is at j, with none of them before it, is found.         *)
LEMMA FindIs ==
    ASSUME IsText, NEW tokens, NEW i \in 1..Len(frame) + 1, NEW j \in i..Len(frame),
           frame[j] \in tokens, \A k \in i..j - 1 : frame[k] \notin tokens
    PROVE  Find(tokens, i) = j
<1>1. Len(frame) \in Nat
  BY DEF IsText
<1> QED BY <1>1, FindFirst DEF Inside

(* The length and the tokens of a part of the text.                        *)
LEMMA PartOfText ==
    ASSUME IsText, NEW i \in 1..Len(frame) + 1, NEW j \in i - 1..Len(frame)
    PROVE  /\ SubSeq(frame, i, j) \in Seq(DOMAIN Chars)
           /\ Len(SubSeq(frame, i, j)) = j - i + 1
           /\ \A k \in 1..j - i + 1 : SubSeq(frame, i, j)[k] = frame[i + k - 1]
<1>1. i \in Int /\ j \in Int /\ \A k \in i..j : frame[k] \in DOMAIN Chars
  BY DEF IsText
<1>2. SubSeq(frame, i, j) \in Seq(DOMAIN Chars)
  BY <1>1, SubSeqProperties
<1>3. Len(SubSeq(frame, i, j)) = IF i <= j THEN j - i + 1 ELSE 0
  BY <1>1, SubSeqProperties
<1>4. Len(SubSeq(frame, i, j)) = j - i + 1
  BY <1>1, <1>3
<1>5. \A k \in 1..j - i + 1 : SubSeq(frame, i, j)[k] = frame[i + k - 1]
  BY <1>1, SubSeqProperties
<1> QED BY <1>2, <1>4, <1>5

(* A part of the text is one word if it is at the place of that word.      *)
LEMMA OneWord ==
    ASSUME IsText, NEW w, NEW i \in 1..Len(frame) + 1, NEW j \in i - 1..Len(frame)
    PROVE  SubSeq(frame, i, j) = <<w>> <=> j = i /\ frame[i] = w
<1> DEFINE part == SubSeq(frame, i, j)
<1>1. i \in Int /\ j \in Int
  BY DEF IsText
<1>2. /\ part \in Seq(DOMAIN Chars)
      /\ Len(part) = j - i + 1
      /\ \A k \in 1..j - i + 1 : part[k] = frame[i + k - 1]
  BY PartOfText
<1> HIDE DEF part
<1>3. Len(<<w>>) = 1 /\ <<w>>[1] = w /\ \A S : w \in S => <<w>> \in Seq(S)
  OBVIOUS
<1>4. ASSUME part = <<w>> PROVE j = i /\ frame[i] = w
  <2>1. Len(part) = 1 /\ part[1] = w
    BY <1>3, <1>4, Zenon
  <2>2. j = i
    <3>1. j - i + 1 = 1
      BY <1>2, <2>1, Zenon
    <3> QED BY <1>1, <3>1
  <2>3. 1 \in 1..j - i + 1 /\ i + 1 - 1 = i
    BY <1>1, <2>2
  <2>4. part[1] = frame[i + 1 - 1]
    BY <1>2, <2>3
  <2> QED BY <2>1, <2>2, <2>3, <2>4, Zenon
<1>5. ASSUME j = i, frame[i] = w PROVE part = <<w>>
  <2>1. Len(part) = 1 /\ part[1] = w
    BY <1>1, <1>2, <1>5
  <2>2. part[1] \in DOMAIN Chars
    BY <1>2, <2>1
  <2>3. \A k \in 1..Len(part) : part[k] = <<w>>[k]
    <3>1. \A k \in 1..Len(part) : k = 1
      BY <2>1
    <3> QED BY <1>3, <2>1, <3>1, Zenon
  <2>4. <<w>> \in Seq(DOMAIN Chars) /\ Len(part) = Len(<<w>>)
    BY <1>3, <2>1, <2>2, Zenon
  <2> QED BY <1>2, <2>3, <2>4, SeqEqual
<1> QED BY <1>4, <1>5 DEF part

(* The line starts before i, the second line on.                           *)
Starts(i) == {s \in 3..i - 1 : frame[s - 1] = NL}
Given(i) == {frame[s] : s \in Starts(i)}

(* A header that was read from the line at s, which ends before i.         *)
ReadAt(s, i) ==
    /\ frame[s] \in Headers /\ frame[s] \in DOMAIN headers_
    /\ frame[s + 1] = Colon /\ frame[s + 2] # NL
    /\ \E end \in s + 3..i - 1 :
          /\ frame[end] = NL /\ \A k \in s + 2..end - 1 : frame[k] # NL
          /\ headers_[frame[s]] = SubSeq(frame, s + 2, end - 1)

(* What comes before i are a command and headers, each of them once, and   *)
(* they were read.                                                         *)
ReadBefore(i) ==
    /\ i \in 3..Len(frame) + 1
    /\ frame[1] = command_ /\ command_ \in Commands /\ frame[2] = NL
    /\ frame[i - 1] = NL
    /\ \A s \in Starts(i) : ReadAt(s, i)
    /\ \A s, t \in Starts(i) : frame[s] = frame[t] => s = t

(* The headers end with the empty line.                                    *)
HeadReadBefore(blank) ==
    /\ ReadBefore(blank)
    /\ blank \in DOMAIN frame /\ frame[blank] = NL
    /\ DOMAIN headers_ \ Given(blank) \subseteq {"ack"}
    /\ command_ = "SUBSCRIBE" => "ack" \in DOMAIN headers_
    /\ DOMAIN headers_ \ Given(blank) # {} => command_ = "SUBSCRIBE" /\ headers_["ack"] = AutoAck

(* The body ends with the first NUL after it, before idx.                  *)
BodyReadAfter(blank) ==
    /\ HeadReadBefore(blank)
    /\ idx \in blank + 2..Len(frame) + 1
    /\ frame[idx - 1] = NUL
    /\ \A k \in blank + 1..idx - 2 : frame[k] # NUL
    /\ body_ = SubSeq(frame, blank + 1, idx - 2)

AllIsRead == \E blank \in 3..Len(frame) : BodyReadAfter(blank)

ReadInv ==
    /\ IsText /\ idx \in Nat
    /\ pc \in {"ParseCommand", "ParseHeaders", "ParseBody", "ParseEol", "Validate", "done", "thrown"}
    /\ pc \notin {"done"} => state_ = "kOk"
    /\ pc = "ParseCommand" => DOMAIN headers_ = {}
    /\ pc = "ParseHeaders" => ReadBefore(idx) /\ DOMAIN headers_ = Given(idx)
    /\ pc = "ParseBody" => HeadReadBefore(idx - 1)
    /\ pc = "ParseEol" => AllIsRead
    /\ pc \in {"Validate", "done", "thrown"} =>
          IF state_ = "kParsing" THEN ~IsFrame(frame) ELSE AllIsRead /\ OnlyNewlines
    /\ pc \in {"done", "thrown"} /\ state_ # "kParsing" =>
          (pc = "thrown" <=> ReadsLength /\ ~IsNumber(headers_["content-length"]))

(* No token is two of these.                                               *)
LEMMA TokensDiffer ==
    /\ NL # Colon /\ NL # NUL /\ Colon # NUL
    /\ NL \notin Commands /\ NL \notin Headers /\ Colon \notin Headers
    /\ NUL \notin Headers
  BY DEF NL, Colon, NUL, Commands, Headers

(* The lines of the reference are those the parser reads.                  *)
LEMMA LinesAreStarts ==
    ASSUME NEW blank \in Int, frame[1] # NL
    PROVE  HeaderLines(frame, blank) = Starts(blank)
<1>1. ASSUME NEW s \in HeaderLines(frame, blank) PROVE s \in Starts(blank)
  <2>1. PICK j \in 1..blank - 2 : frame[j] = NL /\ s = j + 1
    BY DEF HeaderLines
  <2>2. j # 1 /\ s - 1 = j
    BY <2>1
  <2> QED BY <2>1, <2>2 DEF Starts
<1>2. ASSUME NEW s \in Starts(blank) PROVE s \in HeaderLines(frame, blank)
  <2>1. s - 1 \in 1..blank - 2 /\ frame[s - 1] = NL /\ s = (s - 1) + 1
    BY DEF Starts
  <2> QED BY <2>1 DEF HeaderLines
<1> QED BY <1>1, <1>2

(* IsFrame, with its empty line and its NUL.                               *)
FrameWith(blank, end) ==
    /\ 1 < blank /\ blank < end
    /\ frame[blank] = NL /\ frame[blank - 1] = NL /\ frame[end] = NUL
    /\ frame[1] \in Commands /\ frame[2] = NL
    /\ \A s \in Starts(blank) : frame[s] \in Headers /\ frame[s + 1] = Colon /\ frame[s + 2] # NL
    /\ \A s, t \in Starts(blank) : frame[s] = frame[t] => s = t
    /\ \A i \in blank + 1..end - 1 : frame[i] # NUL
    /\ \A i \in end + 1..Len(frame) : frame[i] = NL

LEMMA FrameIsFrameWith ==
    ASSUME IsText
    PROVE  IsFrame(frame) <=> \E blank, end \in DOMAIN frame : FrameWith(blank, end)
<1>1. DOMAIN frame = 1..Len(frame) /\ Len(frame) \in Nat
  BY DEF IsText
<1>2. ASSUME NEW blank \in DOMAIN frame, frame[1] \in Commands
      PROVE  HeaderLines(frame, blank) = Starts(blank)
  BY <1>1, <1>2, LinesAreStarts, TokensDiffer
<1>3. ASSUME IsFrame(frame) PROVE \E blank, end \in DOMAIN frame : FrameWith(blank, end)
  BY <1>2, <1>3 DEF IsFrame, FrameWith
<1>4. ASSUME NEW blank \in DOMAIN frame, NEW end \in DOMAIN frame, FrameWith(blank, end)
      PROVE  IsFrame(frame)
  <2>1. HeaderLines(frame, blank) = Starts(blank)
    BY <1>2, <1>4 DEF FrameWith
  <2> QED BY <1>4, <2>1 DEF IsFrame, FrameWith
<1> QED BY <1>3, <1>4

(* The empty line of a frame is not among the lines that were read.        *)
LEMMA BlankComesLater ==
    ASSUME IsText, NEW i, ReadBefore(i), NEW blank \in DOMAIN frame, NEW end \in DOMAIN frame,
           FrameWith(blank, end)
    PROVE  i <= blank
<1>1. i \in 3..Len(frame) + 1 /\ blank \in 1..Len(frame) /\ Len(frame) \in Nat
  BY DEF IsText, ReadBefore
<1> SUFFICES ASSUME blank < i PROVE FALSE
  BY <1>1
<1>2. blank # 1 /\ blank # 2
  BY TokensDiffer DEF FrameWith
<1>3. blank \in Starts(i)
  BY <1>1, <1>2 DEF FrameWith, Starts
<1> QED BY <1>3, TokensDiffer DEF ReadBefore, ReadAt, FrameWith

(* Before the empty line of a frame the next line is a header, not yet     *)
(* given.                                                                  *)
LEMMA NextIsHeader ==
    ASSUME IsText, NEW i, ReadBefore(i), Inside(i) => frame[i] # NL,
           NEW blank \in DOMAIN frame, NEW end \in DOMAIN frame, FrameWith(blank, end)
    PROVE  /\ i + 2 < blank
           /\ frame[i] \in Headers \ Given(i) /\ frame[i + 1] = Colon /\ frame[i + 2] # NL
<1>1. i \in 3..Len(frame) + 1 /\ blank \in 1..Len(frame) /\ Len(frame) \in Nat
  BY DEF IsText, ReadBefore
<1>2. i < blank
  BY <1>1, BlankComesLater DEF FrameWith, Inside
<1>3. i \in Starts(blank)
  BY <1>1, <1>2 DEF Starts, ReadBefore
<1>4. frame[i] \in Headers /\ frame[i + 1] = Colon /\ frame[i + 2] # NL
  BY <1>3 DEF FrameWith
<1>5. i + 2 < blank
  <2>1. frame[i] # NL /\ frame[i + 1] # NL
    BY <1>4, TokensDiffer
  <2>2. blank # i + 1 /\ blank - 1 # i + 1
    BY <2>1 DEF FrameWith
  <2> QED BY <1>1, <1>2, <2>2
<1>6. frame[i] \notin Given(i)
  <2> SUFFICES ASSUME NEW s \in Starts(i), frame[s] = frame[i] PROVE FALSE
    BY DEF Given
  <2>1. s \in Starts(blank) /\ s # i
    BY <1>1, <1>2 DEF Starts
  <2> QED BY <1>3, <2>1 DEF FrameWith
<1> QED BY <1>4, <1>5, <1>6

LEMMA ParseCommandReads == ReadInv /\ ParseCommand => ReadInv'
<1> SUFFICES ASSUME ReadInv, ParseCommand PROVE ReadInv'
  OBVIOUS
<1> DEFINE end == Find({NL}, 1)
<1>1. IsText /\ IsText' /\ Len(frame) \in Nat /\ DOMAIN frame = 1..Len(frame)
  BY DEF ReadInv, ParseCommand, IsText
<1>2. /\ end \in 1..Len(frame) + 1
      /\ Inside(end) => frame[end] = NL
      /\ \A k \in 1..end - 1 : frame[k] # NL
  BY <1>1, FindFirst
<1>3. UNCHANGED <<frame, headers_>> /\ state_ = "kOk" /\ DOMAIN headers_ = {} /\ idx' = end + 1
  BY DEF ReadInv, ParseCommand
<1>0. idx' \in Nat
  <2> HIDE DEF end
  <2> QED BY <1>1, <1>2, <1>3
<1>4. CASE Inside(end) /\ SubSeq(frame, 1, end - 1) \in {<<c>> : c \in Commands}
  <2>1. pc' = "ParseHeaders" /\ state_' = state_ /\ command_' = frame[1]
    BY <1>4 DEF ParseCommand, Continue
  <2>2. PICK c \in Commands : SubSeq(frame, 1, end - 1) = <<c>>
    BY <1>4
  <2>3. end \in 1..Len(frame) /\ frame[end] = NL
    BY <1>1, <1>2, <1>4 DEF Inside
  <2>6. end = 2 /\ frame[1] = c
    <3> HIDE DEF end
    <3>1. end - 1 \in 1 - 1..Len(frame)
      BY <1>1, <2>3
    <3>2. 1 \in 1..Len(frame) + 1
      BY <1>1
    <3>3. SubSeq(frame, 1, end - 1) = <<c>> <=> end - 1 = 1 /\ frame[1] = c
      BY <1>1, <3>1, <3>2, OneWord, Zenon
    <3>4. end - 1 = 1 /\ frame[1] = c
      BY <2>2, <3>3, Zenon
    <3> QED BY <2>3, <3>4
  <2>7. idx' = 3 /\ Starts(3) = {}
    BY <1>3, <2>6 DEF Starts
  <2>8. ReadBefore(idx)' /\ Given(idx)' = {}
    <3>1. Starts(idx)' = {}
      BY <1>3, <2>7 DEF Starts
    <3> HIDE DEF end
    <3> QED BY <1>1, <1>3, <2>1, <2>3, <2>6, <2>7, <3>1 DEF ReadBefore, Given
  <2> QED BY <1>0, <1>1, <1>3, <2>1, <2>8 DEF ReadInv
<1>5. CASE ~(Inside(end) /\ SubSeq(frame, 1, end - 1) \in {<<c>> : c \in Commands})
  <2>1. pc' = "done" /\ state_' = "kParsing"
    BY <1>5 DEF ParseCommand, Reject
  <2>2. ASSUME NEW blank \in DOMAIN frame, NEW last \in DOMAIN frame, FrameWith(blank, last)
        PROVE  FALSE
    <3>1. frame[1] \in Commands /\ frame[2] = NL /\ 2 \in 1..Len(frame) /\ frame[1] # NL
      BY <1>1, <2>2, TokensDiffer DEF FrameWith
    <3>2. end = 2
      BY <1>1, <3>1, FindIs
    <3>3. SubSeq(frame, 1, 1) = <<frame[1]>>
      BY <1>1, <3>1, OneWord
    <3>4. Inside(end) /\ end - 1 = 1
      BY <1>1, <3>1, <3>2 DEF Inside
    <3> HIDE DEF end
    <3> QED BY <1>5, <3>1, <3>3, <3>4
  <2>3. ~IsFrame(frame)'
    BY <1>1, <1>3, <2>2, FrameIsFrameWith
  <2> QED BY <1>0, <1>1, <2>1, <2>3 DEF ReadInv
<1> QED BY <1>4, <1>5

(* The line at i is one the parser keeps.                                  *)
IsLine(i, colon, end) ==
    /\ frame[i] \in Headers /\ frame[i] \notin DOMAIN headers_
    /\ i + 1 \in 1..Len(frame) /\ frame[i + 1] = Colon
    /\ colon = i + 1
    /\ end \in i + 3..Len(frame) /\ frame[end] = NL
    /\ \A k \in i + 2..end - 1 : frame[k] # NL

LEMMA HeaderIsALine ==
    ASSUME IsText, NEW i \in 3..Len(frame), NEW colon, colon = Find({Colon, NL}, i),
           NEW end, end = Find({NL}, colon + 1)
    PROVE  (/\ HoldsAt(colon, Colon)
            /\ IsHeader(SubSeq(frame, i, colon - 1), SubSeq(frame, colon + 1, end - 1), end))
              <=> IsLine(i, colon, end)
<1> DEFINE name == SubSeq(frame, i, colon - 1)
           value == SubSeq(frame, colon + 1, end - 1)
<1>1. Len(frame) \in Nat /\ i \in 1..Len(frame) + 1
  BY DEF IsText
<1>2. /\ colon \in i..Len(frame) + 1
      /\ Inside(colon) => frame[colon] \in {Colon, NL}
      /\ \A k \in i..colon - 1 : frame[k] \notin {Colon, NL}
  BY <1>1, FindFirst
<1>3. ASSUME colon \in i..Len(frame)
      PROVE  /\ end \in colon + 1..Len(frame) + 1
             /\ Inside(end) => frame[end] = NL
             /\ \A k \in colon + 1..end - 1 : frame[k] # NL
             /\ Len(value) = end - colon - 1
             /\ value \in Seq(DOMAIN Chars)
  <2>1. colon + 1 \in 1..Len(frame) + 1
    BY <1>1, <1>3
  <2>2. /\ end \in colon + 1..Len(frame) + 1
        /\ Inside(end) => frame[end] \in {NL}
        /\ \A k \in colon + 1..end - 1 : frame[k] \notin {NL}
    BY <2>1, FindFirst
  <2>3. end - 1 \in (colon + 1) - 1..Len(frame)
    BY <1>1, <1>3, <2>2
  <2>4. value \in Seq(DOMAIN Chars) /\ Len(value) = (end - 1) - (colon + 1) + 1
    BY <2>1, <2>3, PartOfText
  <2>5. (end - 1) - (colon + 1) + 1 = end - colon - 1
    BY <1>1, <1>3, <2>2
  <2> QED BY <2>2, <2>4, <2>5
<1>4. ASSUME NEW w PROVE name = <<w>> <=> colon - 1 = i /\ frame[i] = w
  <2>1. colon - 1 \in i - 1..Len(frame)
    BY <1>1, <1>2
  <2> QED BY <1>1, <2>1, OneWord, Zenon
<1> HIDE DEF name, value
<1>5. ASSUME HoldsAt(colon, Colon), IsHeader(name, value, end) PROVE IsLine(i, colon, end)
  <2>1. PICK h \in Headers : name = <<h>>
    BY <1>5 DEF IsHeader
  <2>2. colon = i + 1 /\ frame[i] = h
    <3>1. colon - 1 = i /\ frame[i] = h
      BY <1>4, <2>1, Zenon
    <3> QED BY <1>1, <1>2, <3>1
  <2>3. name[1] = h
    BY <2>1
  <2>4. colon \in i..Len(frame) /\ frame[colon] = Colon
    BY <1>1, <1>2, <1>5 DEF HoldsAt, Inside
  <2>5. end <= Len(frame) /\ value # <<>> /\ h \notin DOMAIN headers_
    BY <1>5, <2>3 DEF IsHeader, Inside
  <2>6. Len(value) # 0
    BY <1>3, <2>4, <2>5, EmptySeq
  <2>7. /\ end \in i + 2..Len(frame) /\ end # i + 2 /\ frame[end] = NL
        /\ \A k \in i + 2..end - 1 : frame[k] # NL
    <3>1. /\ end \in colon + 1..Len(frame) + 1 /\ (Inside(end) => frame[end] = NL)
          /\ \A k \in colon + 1..end - 1 : frame[k] # NL
          /\ end - colon - 1 # 0
      BY <1>3, <2>4, <2>6
    <3>2. colon + 1 = i + 2
      BY <1>1, <2>2
    <3>3. frame[end] = NL /\ \A k \in i + 2..end - 1 : frame[k] # NL
      BY <2>5, <3>1, <3>2 DEF Inside
    <3>4. end \in i + 2..Len(frame) /\ end # i + 2
      BY <1>1, <2>2, <2>5, <3>1
    <3> QED BY <3>3, <3>4
  <2>8. frame[i] \in Headers /\ frame[i] \notin DOMAIN headers_
    BY <2>1, <2>2, <2>5
  <2>9. i + 1 \in 1..Len(frame) /\ frame[i + 1] = Colon
    BY <1>1, <2>2, <2>4
  <2>10. end \in i + 3..Len(frame)
    BY <1>1, <2>7
  <2> QED BY <2>2, <2>7, <2>8, <2>9, <2>10 DEF IsLine
<1>6. ASSUME frame[i] \in Headers, frame[i] \notin DOMAIN headers_,
             i + 1 \in 1..Len(frame), frame[i + 1] = Colon, colon = i + 1,
             end \in i + 3..Len(frame)
      PROVE  HoldsAt(colon, Colon) /\ IsHeader(name, value, end)
  <2>1. HoldsAt(colon, Colon) /\ Inside(end)
    BY <1>1, <1>6 DEF HoldsAt, Inside
  <2>2. name = <<frame[i]>>
    <3>1. colon - 1 = i
      BY <1>1, <1>6
    <3> QED BY <1>4, <3>1, Zenon
  <2>3. name[1] = frame[i]
    BY <2>2
  <2>4. value # <<>>
    <3>1. Len(value) # 0
      BY <1>1, <1>3, <1>6
    <3> QED BY <3>1
  <2> QED BY <1>6, <2>1, <2>2, <2>3, <2>4 DEF IsHeader
<1> QED BY <1>5, <1>6 DEF name, value, IsLine

(* A line that is kept is one more line that was read.                     *)
LEMMA ParseHeaderReads == ReadInv /\ ParseHeader => ReadInv'
<1> SUFFICES ASSUME ReadInv, ParseHeader PROVE ReadInv'
  OBVIOUS
<1>0. PICK colon, end, name, value :
         /\ colon = Find({Colon, NL}, idx) /\ end = Find({NL}, colon + 1)
         /\ name = SubSeq(frame, idx, colon - 1) /\ value = SubSeq(frame, colon + 1, end - 1)
  OBVIOUS
<1> DEFINE kept == HoldsAt(colon, Colon) /\ IsHeader(name, value, end)
<1>1. /\ IsText /\ IsText' /\ Len(frame) \in Nat /\ DOMAIN frame = 1..Len(frame)
      /\ ReadBefore(idx) /\ DOMAIN headers_ = Given(idx) /\ state_ = "kOk"
      /\ idx \in 3..Len(frame) /\ frame[idx] # NL
      /\ UNCHANGED <<frame, command_, body_>>
  BY DEF ReadInv, ParseHeader, IsText, ReadBefore, Inside
<1>2. kept <=> /\ frame[idx] \in Headers /\ frame[idx] \notin DOMAIN headers_
               /\ idx + 1 \in 1..Len(frame) /\ frame[idx + 1] = Colon
               /\ colon = idx + 1
               /\ end \in idx + 3..Len(frame) /\ frame[end] = NL
               /\ \A k \in idx + 2..end - 1 : frame[k] # NL
  <2>1. kept <=> IsLine(idx, colon, end)
    BY <1>0, <1>1, HeaderIsALine, Zenon
  <2> QED BY <2>1 DEF IsLine
<1>3. CASE kept
  <2>1. /\ headers_' = [h \in DOMAIN headers_ \union {name[1]} |->
                            IF h = name[1] THEN value ELSE headers_[h]]
        /\ idx' = end + 1 /\ pc' = "ParseHeaders" /\ state_' = state_
    BY <1>0, <1>3 DEF ParseHeader, Continue
  <2>2. name[1] = frame[idx] /\ value = SubSeq(frame, idx + 2, end - 1)
    <3>1. colon - 1 = idx /\ colon + 1 = idx + 2
      BY <1>1, <1>2, <1>3
    <3>2. idx \in 1..Len(frame) + 1 /\ idx \in idx - 1..Len(frame)
      BY <1>1
    <3>3. SubSeq(frame, idx, idx) = <<frame[idx]>>
      BY <1>1, <3>2, OneWord, Zenon
    <3>4. <<frame[idx]>>[1] = frame[idx]
      OBVIOUS
    <3> QED BY <1>0, <3>1, <3>3, <3>4, Zenon
  <2>3. /\ DOMAIN headers_' = DOMAIN headers_ \union {frame[idx]}
        /\ headers_'[frame[idx]] = SubSeq(frame, idx + 2, end - 1)
        /\ \A h \in DOMAIN headers_ : headers_'[h] = headers_[h]
    BY <1>2, <1>3, <2>1, <2>2
  <2>4. /\ frame[idx] \in Headers /\ frame[idx + 1] = Colon
        /\ end \in idx + 3..Len(frame) /\ frame[end] = NL
        /\ \A k \in idx..end - 1 : frame[k] # NL
    <3>1. \A k \in idx..end - 1 : k = idx \/ k = idx + 1 \/ k \in idx + 2..end - 1
      BY <1>1, <1>2, <1>3
    <3> QED BY <1>1, <1>2, <1>3, <3>1, TokensDiffer
  <2>5. Starts(end + 1) = Starts(idx) \union {idx}
    <3>1. ASSUME NEW s \in Starts(end + 1), s # idx PROVE s \in Starts(idx)
      <4>1. s \in 3..end /\ frame[s - 1] = NL
        BY <2>4 DEF Starts
      <4>2. s - 1 \notin idx..end - 1
        BY <2>4, <4>1
      <4> QED BY <1>1, <2>4, <3>1, <4>1, <4>2 DEF Starts
    <3>2. ASSUME NEW s \in Starts(idx) \union {idx} PROVE s \in Starts(end + 1)
      <4>1. s \in 3..idx /\ frame[s - 1] = NL
        BY <1>1, <3>2 DEF Starts, ReadBefore
      <4> QED BY <1>1, <2>4, <4>1 DEF Starts
    <3> QED BY <3>1, <3>2
  <2>6. ReadBefore(idx)'
    <3>1. ASSUME NEW s \in Starts(end + 1) PROVE ReadAt(s, end + 1)'
      <4>1. CASE s = idx
        <5>1. frame[idx + 2] # NL
          BY <1>1, <2>4
        <5>2. end \in idx + 3..(end + 1) - 1 /\ \A k \in idx + 2..end - 1 : frame[k] # NL
          BY <1>1, <2>4
        <5> QED BY <1>1, <2>3, <2>4, <4>1, <5>1, <5>2 DEF ReadAt
      <4>2. CASE s \in Starts(idx)
        <5>1. ReadAt(s, idx)
          BY <1>1, <4>2 DEF ReadBefore
        <5>2. PICK last \in s + 3..idx - 1 :
                 /\ frame[last] = NL /\ \A k \in s + 2..last - 1 : frame[k] # NL
                 /\ headers_[frame[s]] = SubSeq(frame, s + 2, last - 1)
          BY <5>1 DEF ReadAt
        <5>3. last \in s + 3..(end + 1) - 1
          BY <1>1, <2>4, <4>2 DEF Starts
        <5> QED BY <1>1, <2>3, <5>1, <5>2, <5>3 DEF ReadAt
      <4> QED BY <2>5, <4>1, <4>2
    <3>2. \A s, t \in Starts(end + 1) : frame[s] = frame[t] => s = t
      <4>1. \A s \in Starts(idx) : frame[s] # frame[idx]
        BY <1>1, <1>2, <1>3 DEF Given
      <4> QED BY <1>1, <2>5, <4>1 DEF ReadBefore
    <3>3. Starts(idx)' = Starts(end + 1)
      BY <1>1, <2>1 DEF Starts
    <3>4. /\ end + 1 \in 3..Len(frame) + 1 /\ (end + 1) - 1 = end
          /\ frame[1] = command_ /\ command_ \in Commands /\ frame[2] = NL
      BY <1>1, <2>4 DEF ReadBefore
    <3> QED BY <1>1, <2>1, <2>4, <3>1, <3>2, <3>3, <3>4 DEF ReadBefore
  <2>7. DOMAIN headers_' = Given(idx)'
    <3>1. Given(idx)' = {frame[s] : s \in Starts(end + 1)}
      BY <1>1, <2>1 DEF Given, Starts
    <3> QED BY <1>1, <2>3, <2>5, <3>1 DEF Given
  <2>8. idx' \in Nat
    BY <1>1, <2>1, <2>4
  <2> QED BY <1>1, <2>1, <2>6, <2>7, <2>8 DEF ReadInv
<1>4. CASE ~kept
  <2>0. idx' = idx /\ idx \in Nat
    BY <1>0, <1>4 DEF ParseHeader, ReadInv
  <2>1. pc' = "done" /\ state_' = "kParsing"
    BY <1>0, <1>4 DEF ParseHeader, Reject
  <2>2. ASSUME NEW blank \in DOMAIN frame, NEW last \in DOMAIN frame, FrameWith(blank, last)
        PROVE  FALSE
    <3>1. /\ idx + 2 < blank
          /\ frame[idx] \in Headers \ Given(idx) /\ frame[idx + 1] = Colon /\ frame[idx + 2] # NL
      BY <1>1, <2>2, NextIsHeader
    <3>2. colon = idx + 1
      <4>1. idx + 1 \in idx..Len(frame) /\ idx \in 1..Len(frame) + 1
        BY <1>1, <3>1
      <4>2. \A k \in idx..idx + 1 - 1 : frame[k] \notin {Colon, NL}
        BY <1>1, <3>1, TokensDiffer
      <4> QED BY <1>0, <1>1, <3>1, <4>1, <4>2, FindIs
    <3>3. /\ end \in idx + 2..Len(frame) + 1
          /\ Inside(end) => frame[end] = NL
          /\ \A k \in idx + 2..end - 1 : frame[k] # NL
      <4>1. colon + 1 = idx + 2 /\ idx + 2 \in 1..Len(frame) + 1
        BY <1>1, <3>1, <3>2
      <4>2. /\ Find({NL}, idx + 2) \in idx + 2..Len(frame) + 1
            /\ Inside(Find({NL}, idx + 2)) => frame[Find({NL}, idx + 2)] \in {NL}
            /\ \A k \in idx + 2..Find({NL}, idx + 2) - 1 : frame[k] \notin {NL}
        BY <1>1, <4>1, FindFirst
      <4> QED BY <1>0, <4>1, <4>2
    <3>4. end \in idx + 3..Len(frame) /\ frame[end] = NL
      <4>1. blank - 1 \in idx + 2..Len(frame) /\ frame[blank - 1] = NL
        BY <1>1, <2>2, <3>1 DEF FrameWith
      <4>2. end <= blank - 1
        BY <1>1, <3>3, <4>1
      <4>3. Inside(end)
        BY <1>1, <3>3, <4>1, <4>2 DEF Inside
      <4>4. frame[end] = NL /\ end # idx + 2
        BY <3>1, <3>3, <4>3
      <4> QED BY <1>1, <3>3, <4>1, <4>2, <4>4
    <3>5. idx + 1 \in 1..Len(frame)
      BY <1>1, <3>1
    <3> HIDE DEF kept
    <3> QED BY <1>1, <1>2, <1>4, <3>1, <3>2, <3>3, <3>4, <3>5
  <2>3. ~IsFrame(frame)'
    BY <1>1, <2>2, FrameIsFrameWith
  <2> QED BY <1>1, <2>0, <2>1, <2>3 DEF ReadInv
<1> QED BY <1>3, <1>4

(* The headers end here: in a frame, with the empty line.                  *)
LEMMA ParseHeadersReads == ReadInv /\ ParseHeaders => ReadInv'
<1> SUFFICES ASSUME ReadInv, ParseHeaders PROVE ReadInv'
  OBVIOUS
<1>1. /\ IsText /\ IsText' /\ Len(frame) \in Nat /\ DOMAIN frame = 1..Len(frame)
      /\ ReadBefore(idx) /\ DOMAIN headers_ = Given(idx) /\ state_ = "kOk"
      /\ idx \in 3..Len(frame) + 1 /\ (Inside(idx) => frame[idx] = NL)
      /\ UNCHANGED <<frame, command_, body_>> /\ idx' = idx + 1 /\ idx' \in Nat
  BY DEF ReadInv, ParseHeaders, IsText, ReadBefore
<1>2. CASE Inside(idx)
  <2>1. pc' = "ParseBody" /\ state_' = state_
    BY <1>2 DEF ParseHeaders, Continue
  <2>2. PICK b : b = idx /\ idx' - 1 = b
    BY <1>1
  <2>3. /\ \A h \in DOMAIN headers_ : h \in DOMAIN headers_' /\ headers_'[h] = headers_[h]
        /\ DOMAIN headers_' \ DOMAIN headers_ \subseteq {"ack"}
        /\ DOMAIN headers_' \ DOMAIN headers_ # {} =>
              command_ = "SUBSCRIBE" /\ headers_'["ack"] = AutoAck
        /\ command_ = "SUBSCRIBE" => "ack" \in DOMAIN headers_'
    <3> DEFINE names == DOMAIN headers_ \union (IF command_ = "SUBSCRIBE" THEN {"ack"} ELSE {})
    <3>1. headers_' = [h \in names |-> IF h \in DOMAIN headers_ THEN headers_[h] ELSE AutoAck]
      BY DEF ParseHeaders, WithDefaults
    <3>2. names \ DOMAIN headers_ \subseteq {"ack"}
      OBVIOUS
    <3>3. names \ DOMAIN headers_ # {} => command_ = "SUBSCRIBE" /\ "ack" \in names \ DOMAIN headers_
      OBVIOUS
    <3>4. DOMAIN headers_ \subseteq names /\ (command_ = "SUBSCRIBE" => "ack" \in names)
      OBVIOUS
    <3> HIDE DEF names
    <3> QED BY <3>1, <3>2, <3>3, <3>4
  <2>4. Starts(b)' = Starts(b) /\ Given(b)' = Given(b)
    BY <1>1 DEF Starts, Given
  <2>5. ASSUME NEW s \in Starts(b) PROVE ReadAt(s, b)'
    <3>1. ReadAt(s, b)
      BY <1>1, <2>2 DEF ReadBefore
    <3> QED BY <1>1, <2>3, <3>1 DEF ReadAt
  <2>6. ReadBefore(b)'
    BY <1>1, <2>2, <2>4, <2>5 DEF ReadBefore
  <2>7. b \in DOMAIN frame /\ frame[b] = NL
    BY <1>1, <1>2, <2>2 DEF Inside
  <2>8. HeadReadBefore(b)'
    BY <1>1, <2>2, <2>3, <2>4, <2>6, <2>7 DEF HeadReadBefore
  <2>9. HeadReadBefore(idx - 1)'
    BY <2>2, <2>8
  <2> QED BY <1>1, <2>1, <2>9 DEF ReadInv
<1>3. CASE ~Inside(idx)
  <2>1. pc' = "done" /\ state_' = "kParsing"
    BY <1>3 DEF ParseHeaders, Reject
  <2>2. ASSUME NEW blank \in DOMAIN frame, NEW last \in DOMAIN frame, FrameWith(blank, last)
        PROVE  FALSE
    BY <1>1, <1>3, <2>2, BlankComesLater DEF Inside
  <2>3. ~IsFrame(frame)'
    BY <1>1, <2>2, FrameIsFrameWith
  <2> QED BY <1>1, <2>1, <2>3 DEF ReadInv
<1> QED BY <1>2, <1>3

(* A frame has no other empty line than the one the headers end with.      *)
LEMMA OneBlank ==
    ASSUME IsText, NEW b, HeadReadBefore(b), NEW blank \in DOMAIN frame, NEW end \in DOMAIN frame,
           FrameWith(blank, end)
    PROVE  blank = b
<1>1. b \in 3..Len(frame) /\ blank \in 1..Len(frame) /\ Len(frame) \in Nat
  BY DEF IsText, HeadReadBefore, ReadBefore
<1>2. ReadBefore(b) /\ frame[b] = NL
  BY DEF HeadReadBefore
<1>3. b <= blank
  BY <1>2, BlankComesLater
<1>4. b \notin Starts(blank)
  BY <1>2, TokensDiffer DEF FrameWith
<1> QED BY <1>1, <1>2, <1>3, <1>4 DEF Starts, ReadBefore

(* What was read stays so while the fields it was read into do.            *)
LEMMA HeadStays ==
    ASSUME NEW b, HeadReadBefore(b), UNCHANGED <<frame, command_, headers_>>
    PROVE  HeadReadBefore(b)'
<1>1. Starts(b)' = Starts(b) /\ Given(b)' = Given(b)
  BY DEF Starts, Given
<1>2. ASSUME NEW s PROVE ReadAt(s, b)' = ReadAt(s, b)
  BY DEF ReadAt
<1>3. ReadBefore(b)'
  BY <1>1, <1>2 DEF HeadReadBefore, ReadBefore
<1> QED BY <1>1, <1>3 DEF HeadReadBefore

LEMMA ParseBodyReads == ReadInv /\ ParseBody => ReadInv'
<1> SUFFICES ASSUME ReadInv, ParseBody PROVE ReadInv'
  OBVIOUS
<1>0. PICK b, end : b = idx - 1 /\ end = Find({NUL}, idx)
  OBVIOUS
<1>1. /\ IsText /\ IsText' /\ Len(frame) \in Nat /\ DOMAIN frame = 1..Len(frame)
      /\ HeadReadBefore(b) /\ state_ = "kOk"
      /\ UNCHANGED <<frame, command_, headers_>> /\ idx' = end + 1
  BY <1>0 DEF ReadInv, ParseBody, IsText
<1>2. b \in 3..Len(frame)
  BY <1>1 DEF HeadReadBefore, ReadBefore
<1>3. idx = b + 1
  <2>1. idx \in Nat
    BY DEF ReadInv
  <2> QED BY <1>0, <2>1
<1>4. /\ end \in b + 1..Len(frame) + 1
      /\ Inside(end) => frame[end] = NUL
      /\ \A k \in b + 1..end - 1 : frame[k] # NUL
  <2>1. idx \in 1..Len(frame) + 1
    BY <1>1, <1>2, <1>3
  <2>2. /\ end \in idx..Len(frame) + 1
        /\ Inside(end) => frame[end] \in {NUL}
        /\ \A k \in idx..end - 1 : frame[k] \notin {NUL}
    BY <1>0, <1>1, <2>1, FindFirst
  <2> QED BY <1>3, <2>2
<1>7. idx' \in Nat
  BY <1>1, <1>2, <1>4
<1>5. CASE Inside(end)
  <2>1. pc' = "ParseEol" /\ state_' = state_ /\ body_' = SubSeq(frame, b + 1, end - 1)
    BY <1>0, <1>3, <1>5 DEF ParseBody, Continue
  <2>2. HeadReadBefore(b)'
    BY <1>1, HeadStays
  <2>3. /\ idx' - 1 = end /\ idx' - 2 = end - 1 /\ end \in b + 1..Len(frame)
        /\ idx' \in b + 2..Len(frame) + 1 /\ frame[end] = NUL
    BY <1>1, <1>2, <1>4, <1>5 DEF Inside
  <2>4. BodyReadAfter(b)'
    BY <1>1, <1>4, <2>1, <2>2, <2>3 DEF BodyReadAfter
  <2>5. AllIsRead'
    BY <1>1, <1>2, <2>4 DEF AllIsRead
  <2> QED BY <1>1, <1>7, <2>1, <2>5 DEF ReadInv
<1>6. CASE ~Inside(end)
  <2>1. pc' = "done" /\ state_' = "kParsing"
    BY <1>0, <1>6 DEF ParseBody, Reject
  <2>2. ASSUME NEW blank \in DOMAIN frame, NEW last \in DOMAIN frame, FrameWith(blank, last)
        PROVE  FALSE
    <3>1. blank = b
      BY <1>1, <2>2, OneBlank
    <3>2. last \in b + 1..end - 1 /\ frame[last] = NUL
      BY <1>1, <1>2, <1>4, <1>6, <2>2, <3>1 DEF FrameWith, Inside
    <3> QED BY <1>4, <3>2
  <2>3. ~IsFrame(frame)'
    BY <1>1, <2>2, FrameIsFrameWith
  <2> QED BY <1>1, <1>7, <2>1, <2>3 DEF ReadInv
<1> QED BY <1>5, <1>6

LEMMA AllIsReadStays ==
    ASSUME AllIsRead, UNCHANGED <<frame, idx, command_, headers_, body_>> PROVE AllIsRead'
<1>1. PICK blank \in 3..Len(frame) : BodyReadAfter(blank)
  BY DEF AllIsRead
<1>2. BodyReadAfter(blank)'
  BY <1>1, HeadStays DEF BodyReadAfter
<1> QED BY <1>2 DEF AllIsRead

(* What was read, and newlines after it, are a frame; no other text is.    *)
LEMMA ReadIsFrame ==
    ASSUME IsText, AllIsRead PROVE IsFrame(frame) <=> OnlyNewlines
<1>1. PICK b \in 3..Len(frame) : BodyReadAfter(b)
  BY DEF AllIsRead
<1>2. PICK last : last = idx - 1 /\ last \in b + 1..Len(frame) /\ idx = last + 1
  BY <1>1 DEF BodyReadAfter
<1>3. /\ Len(frame) \in Nat /\ DOMAIN frame = 1..Len(frame)
      /\ HeadReadBefore(b) /\ ReadBefore(b) /\ frame[last] = NUL
      /\ \A k \in b + 1..last - 1 : frame[k] # NUL
  <2>1. Len(frame) \in Nat /\ DOMAIN frame = 1..Len(frame)
    BY DEF IsText
  <2>2. HeadReadBefore(b) /\ ReadBefore(b) /\ frame[last] = NUL
    BY <1>1, <1>2 DEF BodyReadAfter, HeadReadBefore
  <2>3. \A k \in b + 1..last - 1 : frame[k] # NUL
    <3>1. last - 1 = idx - 2
      BY <1>1, <1>2 DEF BodyReadAfter
    <3> QED BY <1>1, <3>1, Zenon DEF BodyReadAfter
  <2> QED BY <2>1, <2>2, <2>3
<1>4. OnlyNewlines <=> \A i \in last + 1..Len(frame) : frame[i] = NL
  BY <1>2, Zenon DEF OnlyNewlines
<1>5. ASSUME NEW blank \in DOMAIN frame, NEW end \in DOMAIN frame, FrameWith(blank, end)
      PROVE  \A i \in last + 1..Len(frame) : frame[i] = NL
  <2>1. blank = b
    BY <1>3, <1>5, OneBlank
  <2>2. end \in b + 1..Len(frame) /\ frame[end] = NUL /\ (\A k \in b + 1..end - 1 : frame[k] # NUL)
    BY <1>3, <1>5, <2>1 DEF FrameWith
  <2>3. end = last
    BY <1>2, <1>3, <2>2
  <2> QED BY <1>5, <2>3 DEF FrameWith
<1>6. ASSUME \A i \in last + 1..Len(frame) : frame[i] = NL PROVE FrameWith(b, last)
  <2>1. 1 < b /\ b < last
    BY <1>2, <1>3
  <2>2. frame[b] = NL /\ frame[b - 1] = NL /\ frame[1] \in Commands /\ frame[2] = NL
    BY <1>3 DEF HeadReadBefore, ReadBefore
  <2>3. \A s \in Starts(b) : frame[s] \in Headers /\ frame[s + 1] = Colon /\ frame[s + 2] # NL
    BY <1>3 DEF ReadBefore, ReadAt
  <2>4. \A s, t \in Starts(b) : frame[s] = frame[t] => s = t
    BY <1>3 DEF ReadBefore
  <2> QED BY <1>3, <1>6, <2>1, <2>2, <2>3, <2>4 DEF FrameWith
<1>7. b \in DOMAIN frame /\ last \in DOMAIN frame
  BY <1>2, <1>3
<1> QED BY <1>4, <1>5, <1>6, <1>7, FrameIsFrameWith

LEMMA ParseEolReads == ReadInv /\ ParseEol => ReadInv'
<1> SUFFICES ASSUME ReadInv, ParseEol PROVE ReadInv'
  OBVIOUS
<1>1. /\ IsText /\ IsText' /\ AllIsRead /\ AllIsRead' /\ state_ = "kOk"
      /\ UNCHANGED <<frame, idx, command_, headers_, body_>> /\ idx \in Nat
  BY AllIsReadStays DEF ReadInv, ParseEol, IsText
<1>2. OnlyNewlines' = OnlyNewlines /\ IsFrame(frame)' = IsFrame(frame)
  BY <1>1 DEF OnlyNewlines
<1>3. IsFrame(frame) <=> OnlyNewlines
  BY <1>1, ReadIsFrame
<1>4. CASE OnlyNewlines
  <2>1. pc' = "Validate" /\ state_' = state_
    BY <1>4 DEF ParseEol, Continue
  <2> QED BY <1>1, <1>2, <1>4, <2>1 DEF ReadInv
<1>5. CASE ~OnlyNewlines
  <2>1. pc' = "done" /\ state_' = "kParsing"
    BY <1>5 DEF ParseEol, Reject
  <2> QED BY <1>1, <1>2, <1>3, <1>5, <2>1 DEF ReadInv
<1> QED BY <1>4, <1>5

LEMMA ValidateReads == ReadInv /\ Validate => ReadInv'
<1> SUFFICES ASSUME ReadInv, Validate PROVE ReadInv'
  OBVIOUS
<1>1. /\ IsText /\ IsText' /\ AllIsRead /\ AllIsRead' /\ state_ = "kOk" /\ OnlyNewlines
      /\ UNCHANGED <<frame, idx, command_, headers_, body_>> /\ idx \in Nat
  BY AllIsReadStays DEF ReadInv, Validate, IsText
<1>2. OnlyNewlines'
  BY <1>1 DEF OnlyNewlines
<1>3. /\ pc' \in {"done", "thrown"} /\ state_' \in {"kOk", "kValidation"}
      /\ pc' # "done" => state_' = "kOk"
      /\ pc' = "thrown" <=> ReadsLength /\ ~IsNumber(headers_["content-length"])
  BY <1>1 DEF Validate, Continue, Reject
<1>4. ReadsLength' = ReadsLength
      /\ IsNumber(headers_["content-length"])' = IsNumber(headers_["content-length"])
  BY <1>1 DEF ReadsLength, AllAllowed, AllRequired, AckIsValid, IsNumber
<1> QED BY <1>1, <1>2, <1>3, <1>4 DEF ReadInv

LEMMA InitReads == Init => ReadInv
  BY TextsAssumption DEF Init, ReadInv, IsText

LEMMA NextReads == ReadInv /\ [Next]_vars => ReadInv'
<1> SUFFICES ASSUME ReadInv, UNCHANGED vars PROVE ReadInv'
  BY ParseCommandReads, ParseHeaderReads, ParseHeadersReads, ParseBodyReads, ParseEolReads,
     ValidateReads DEF Next
<1>1. /\ IsText' = IsText /\ ReadBefore(idx)' = ReadBefore(idx) /\ Given(idx)' = Given(idx)
      /\ HeadReadBefore(idx - 1)' = HeadReadBefore(idx - 1)
      /\ OnlyNewlines' = OnlyNewlines /\ IsFrame(frame)' = IsFrame(frame)
      /\ ReadsLength' = ReadsLength
      /\ IsNumber(headers_["content-length"])' = IsNumber(headers_["content-length"])
  BY DEF vars, IsText, ReadBefore, Given, Starts, ReadAt, HeadReadBefore, OnlyNewlines,
     ReadsLength, AllAllowed, AllRequired, AckIsValid, IsNumber
<1>2. AllIsRead => AllIsRead'
  BY AllIsReadStays DEF vars
<1> QED BY <1>1, <1>2 DEF vars, ReadInv

LEMMA AlwaysReads == Spec => []ReadInv
  BY InitReads, NextReads, PTL DEF Spec

(* The parser accepts exactly the texts that are frames.                   *)
THEOREM ParserIsExact == Spec => []ParsingIsExact
<1>1. ReadInv => ParsingIsExact
  BY ReadIsFrame DEF ReadInv, ParsingIsExact
<1> QED BY AlwaysReads, <1>1, PTL

(* A line is its name, a colon, its value and a newline.                   *)
LEMMA LineIsItsParts ==
    ASSUME IsText, NEW s \in 1..Len(frame), NEW end \in s + 3..Len(frame)
    PROVE  SubSeq(frame, s, end)
             = <<frame[s], frame[s + 1]>> \o SubSeq(frame, s + 2, end - 1) \o <<frame[end]>>
<1>1. Len(frame) \in Nat /\ frame \in Seq(DOMAIN Chars)
  BY DEF IsText
<1>2. SubSeq(frame, end, end) = <<frame[end]>>
  <2>1. end \in 1..Len(frame) + 1 /\ end \in end - 1..Len(frame)
    BY <1>1
  <2> QED BY <2>1, OneWord, Zenon
<1>3. SubSeq(frame, s, s + 1) = <<frame[s], frame[s + 1]>>
  <2> DEFINE part == SubSeq(frame, s, s + 1)
             pair == <<frame[s], frame[s + 1]>>
  <2>1. /\ part \in Seq(DOMAIN Chars) /\ Len(part) = s + 1 - s + 1
        /\ \A k \in 1..s + 1 - s + 1 : part[k] = frame[s + k - 1]
    BY <1>1, PartOfText
  <2>2. Len(pair) = 2 /\ pair[1] = frame[s] /\ pair[2] = frame[s + 1]
    OBVIOUS
  <2>3. pair \in Seq(DOMAIN Chars)
    BY <1>1
  <2> HIDE DEF part, pair
  <2>4. s + 1 - s + 1 = 2 /\ s + 1 - 1 = s /\ s + 2 - 1 = s + 1
    BY <1>1
  <2>5. Len(part) = 2 /\ part[1] = frame[s] /\ part[2] = frame[s + 1]
    <3>1. 1 \in 1..s + 1 - s + 1 /\ 2 \in 1..s + 1 - s + 1
      BY <2>4
    <3>2. part[1] = frame[s + 1 - 1] /\ part[2] = frame[s + 2 - 1]
      BY <2>1, <3>1, Zenon
    <3> QED BY <2>1, <2>4, <3>2, Zenon
  <2>6. \A k \in 1..Len(part) : part[k] = pair[k]
    <3>1. \A k \in 1..2 : k = 1 \/ k = 2
      OBVIOUS
    <3> QED BY <2>2, <2>5, <3>1, Zenon
  <2>7. part = pair
    BY <2>1, <2>2, <2>3, <2>5, <2>6, SeqEqual
  <2> QED BY <2>7 DEF part, pair
<1>4. SubSeq(frame, s, s + 1) \o SubSeq(frame, s + 2, end - 1) = SubSeq(frame, s, end - 1)
  <2>1. /\ s \in 1..Len(frame) + 1 /\ s + 1 \in s - 1..Len(frame)
        /\ end - 1 \in s + 1..Len(frame) /\ (s + 1) + 1 = s + 2
    BY <1>1
  <2>2. SubSeq(frame, s, s + 1) \o SubSeq(frame, (s + 1) + 1, end - 1) = SubSeq(frame, s, end - 1)
    BY <1>1, <2>1, ConcatAdjacentSubSeq
  <2> QED BY <2>1, <2>2, Zenon
<1>5. SubSeq(frame, s, end - 1) \o SubSeq(frame, end, end) = SubSeq(frame, s, end)
  <2>1. /\ s \in 1..Len(frame) + 1 /\ end - 1 \in s - 1..Len(frame)
        /\ end \in end - 1..Len(frame) /\ (end - 1) + 1 = end
    BY <1>1
  <2>2. SubSeq(frame, s, end - 1) \o SubSeq(frame, (end - 1) + 1, end) = SubSeq(frame, s, end)
    BY <1>1, <2>1, ConcatAdjacentSubSeq
  <2> QED BY <2>1, <2>2, Zenon
<1> QED BY <1>2, <1>3, <1>4, <1>5, Zenon

(* What the fields say of the text, and where its empty line is.           *)
LEMMA FieldsOf ==
    ASSUME IsText, NEW b \in 3..Len(frame), BodyReadAfter(b)
    PROVE  /\ idx - 2 - Len(body_) = b /\ b + Len(body_) = idx - 2
           /\ HeaderLines(frame, b) = Starts(b)
<1>1. Len(frame) \in Nat /\ idx \in b + 2..Len(frame) + 1 /\ body_ = SubSeq(frame, b + 1, idx - 2)
  BY DEF IsText, BodyReadAfter
<1>2. Len(SubSeq(frame, b + 1, idx - 2)) = (idx - 2) - (b + 1) + 1
  <2>1. b + 1 \in 1..Len(frame) + 1 /\ idx - 2 \in (b + 1) - 1..Len(frame)
    BY <1>1
  <2> QED BY <2>1, PartOfText
<1>3. Len(body_) = idx - 2 - b
  <2>1. (idx - 2) - (b + 1) + 1 = idx - 2 - b
    BY <1>1
  <2> QED BY <1>1, <1>2, <2>1, Zenon
<1>4. frame[1] # NL
  BY TokensDiffer DEF BodyReadAfter, HeadReadBefore, ReadBefore
<1>5. b \in Int /\ idx \in Int
  BY <1>1
<1>6. HeaderLines(frame, b) = Starts(b)
  BY <1>4, <1>5, LinesAreStarts
<1> QED BY <1>3, <1>5, <1>6

(* The fields of a text that was parsed are in it, and nothing of it is in *)
(* no field.                                                               *)
THEOREM FieldsAreRead == Spec => []FieldsAreTheText
<1>1. ReadInv => FieldsAreTheText
  <2> SUFFICES ASSUME ReadInv, pc \in {"Validate", "done", "thrown"} /\ state_ # "kParsing"
               PROVE  FieldsAreTheText
    BY DEF FieldsAreTheText
  <2>1. IsText /\ AllIsRead
    BY DEF ReadInv
  <2>2. PICK b \in 3..Len(frame) : BodyReadAfter(b)
    BY <2>1 DEF AllIsRead
  <2>3. /\ idx - 2 - Len(body_) = b /\ b + Len(body_) = idx - 2
        /\ HeaderLines(frame, b) = Starts(b)
    BY <2>1, <2>2, FieldsOf
  <2>4. HeadReadBefore(b) /\ ReadBefore(b) /\ body_ = SubSeq(frame, b + 1, idx - 2)
    BY <2>2 DEF BodyReadAfter, HeadReadBefore
  <2>5. ASSUME NEW s \in Starts(b)
        PROVE  \E end \in s..b :
                 SubSeq(frame, s, end) = <<frame[s], Colon>> \o headers_[frame[s]] \o <<NL>>
    <3>1. frame[s + 1] = Colon /\ ReadAt(s, b)
      BY <2>4 DEF ReadBefore, ReadAt
    <3>2. PICK end \in s + 3..b - 1 :
             frame[end] = NL /\ headers_[frame[s]] = SubSeq(frame, s + 2, end - 1)
      BY <3>1 DEF ReadAt
    <3>3. Len(frame) \in Nat /\ s \in 1..Len(frame) /\ end \in s + 3..Len(frame) /\ end \in s..b
      BY <2>1 DEF IsText, Starts
    <3>4. SubSeq(frame, s, end)
            = <<frame[s], frame[s + 1]>> \o SubSeq(frame, s + 2, end - 1) \o <<frame[end]>>
      BY <2>1, <3>3, LineIsItsParts, Zenon
    <3> QED BY <3>1, <3>2, <3>3, <3>4, Zenon
  <2>6. {frame[s] : s \in Starts(b)} \subseteq DOMAIN headers_
    BY <2>4 DEF ReadBefore, ReadAt
  <2>7. frame[1] = command_
    BY <2>4 DEF ReadBefore
  <2>8. DOMAIN headers_ \ {frame[s] : s \in Starts(b)} # {} =>
           command_ = "SUBSCRIBE" /\ headers_["ack"] = AutoAck
    BY <2>4 DEF HeadReadBefore, Given
  <2>9. body_ = SubSeq(frame, b + 1, b + Len(body_))
    BY <2>3, <2>4, Zenon
  <2> QED BY <2>3, <2>5, <2>6, <2>7, <2>8, <2>9, Zenon DEF FieldsAreTheText
<1> QED BY AlwaysReads, <1>1, PTL

(* What was read from a line is its first word on.                         *)
LEMMA WordOfLine ==
    ASSUME IsText, NEW b \in 3..Len(frame), NEW s \in Starts(b), ReadAt(s, b)
    PROVE  /\ headers_[frame[s]][1] = frame[s + 2]
           /\ \A w : headers_[frame[s]] = <<w>> <=> frame[s + 2] = w /\ frame[s + 3] = NL
<1>1. PICK end \in s + 3..b - 1 :
         /\ frame[end] = NL /\ \A k \in s + 2..end - 1 : frame[k] # NL
         /\ headers_[frame[s]] = SubSeq(frame, s + 2, end - 1)
  BY DEF ReadAt
<1>2. Len(frame) \in Nat /\ s \in 3..b - 1
  BY DEF IsText, Starts
<1>3. s + 2 \in 1..Len(frame) + 1 /\ end - 1 \in (s + 2) - 1..Len(frame)
  BY <1>1, <1>2
<1>4. headers_[frame[s]][1] = frame[s + 2]
  <2>1. 1 \in 1..(end - 1) - (s + 2) + 1 /\ s + 2 + 1 - 1 = s + 2
    BY <1>1, <1>2
  <2>2. SubSeq(frame, s + 2, end - 1)[1] = frame[s + 2 + 1 - 1]
    BY <1>3, <2>1, PartOfText
  <2> QED BY <1>1, <2>1, <2>2, Zenon
<1>5. end - 1 = s + 2 <=> frame[s + 3] = NL
  <2>1. ASSUME end - 1 = s + 2 PROVE frame[s + 3] = NL
    <3>1. end = s + 3
      BY <1>1, <1>2, <2>1
    <3> QED BY <1>1, <3>1
  <2>2. ASSUME end - 1 # s + 2 PROVE frame[s + 3] # NL
    <3>1. s + 3 \in s + 2..end - 1
      BY <1>1, <1>2, <2>2
    <3> QED BY <1>1, <3>1
  <2> QED BY <2>1, <2>2
<1>6. ASSUME NEW w
      PROVE  headers_[frame[s]] = <<w>> <=> frame[s + 2] = w /\ frame[s + 3] = NL
  <2>1. SubSeq(frame, s + 2, end - 1) = <<w>> <=> end - 1 = s + 2 /\ frame[s + 2] = w
    BY <1>3, OneWord, Zenon
  <2> QED BY <1>1, <1>5, <2>1, Zenon
<1> QED BY <1>4, <1>6

(* The default of ack is the only header that was not given, and valid: to *)
(* validate what was read is to look at the lines.                         *)
LEMMA FitAsRead ==
    ASSUME IsText, NEW b \in 3..Len(frame), HeadReadBefore(b), HeaderLines(frame, b) = Starts(b)
    PROVE  HeadersFit(frame, b) <=> AllAllowed /\ AllRequired /\ AckIsValid
<1> DEFINE required == Entry(requiredHeaders, command_)
           optional == Entry(optionalHeaders, command_)
           acks == {"auto", "client", "client-individual"}
           AcksFit == \A s \in Starts(b) : frame[s] = "ack" => frame[s + 2] \in acks /\ frame[s + 3] = NL
<1>1. /\ frame[1] = command_ /\ Given(b) \subseteq DOMAIN headers_
      /\ \A s \in Starts(b) : ReadAt(s, b)
      /\ DOMAIN headers_ \ Given(b) \subseteq {"ack"}
      /\ DOMAIN headers_ \ Given(b) # {} => command_ = "SUBSCRIBE" /\ headers_["ack"] = AutoAck
      /\ command_ = "SUBSCRIBE" => "ack" \in DOMAIN headers_
  <2>1. ReadBefore(b) /\ \A s \in Starts(b) : ReadAt(s, b)
    BY DEF HeadReadBefore, ReadBefore
  <2>2. frame[1] = command_ /\ Given(b) \subseteq DOMAIN headers_
    BY <2>1 DEF ReadBefore, ReadAt, Given
  <2> QED BY <2>1, <2>2 DEF HeadReadBefore
<1>2. "ack" \notin required
  BY DEF Entry, requiredHeaders
<1>3. "ack" \in optional <=> command_ = "SUBSCRIBE"
  BY DEF Entry, optionalHeaders
<1>4. HeadersFit(frame, b) <=>
         /\ required \subseteq Given(b)
         /\ Given(b) \subseteq {"content-length"} \union required \union optional
         /\ AcksFit
  BY <1>1 DEF HeadersFit, Given
<1> HIDE DEF required, optional
<1>5. required \subseteq Given(b) <=> AllRequired
  BY <1>1, <1>2 DEF AllRequired, required
<1>6. Given(b) \subseteq {"content-length"} \union required \union optional <=> AllAllowed
  BY <1>1, <1>3 DEF AllAllowed, required, optional
<1>7. AckIsValid <=> (command_ = "SUBSCRIBE" => \E w \in acks : headers_["ack"] = <<w>>)
  BY DEF AckIsValid, AutoAck
<1>8. ASSUME NEW s \in Starts(b), frame[s] = "ack"
      PROVE  (frame[s + 2] \in acks /\ frame[s + 3] = NL) <=> \E w \in acks : headers_["ack"] = <<w>>
  <2>1. \A w : headers_["ack"] = <<w>> <=> frame[s + 2] = w /\ frame[s + 3] = NL
    <3>1. \A w : headers_[frame[s]] = <<w>> <=> frame[s + 2] = w /\ frame[s + 3] = NL
      BY <1>1, WordOfLine
    <3> QED BY <1>8, <3>1, Zenon
  <2> HIDE DEF acks
  <2> QED BY <2>1, Zenon
<1>9. ASSUME AllAllowed PROVE AcksFit <=> AckIsValid
  <2>1. CASE "ack" \in Given(b)
    <3>1. PICK s \in Starts(b) : frame[s] = "ack"
      BY <2>1 DEF Given
    <3>2. command_ = "SUBSCRIBE"
      BY <1>1, <1>2, <1>3, <1>9, <2>1 DEF AllAllowed, required, optional
    <3>3. \A t \in Starts(b) : frame[t] = "ack" => t = s
      BY <3>1 DEF HeadReadBefore, ReadBefore
    <3>4. AcksFit <=> \E w \in acks : headers_["ack"] = <<w>>
      <4>1. (frame[s + 2] \in acks /\ frame[s + 3] = NL) <=> \E w \in acks : headers_["ack"] = <<w>>
        BY <1>8, <3>1
      <4> HIDE DEF acks
      <4> QED BY <3>1, <3>3, <4>1, Zenon
    <3> HIDE DEF acks, AcksFit
    <3> QED BY <1>7, <3>2, <3>4, Zenon
  <2>2. CASE "ack" \notin Given(b)
    <3>1. AcksFit
      BY <2>2 DEF Given
    <3>2. command_ = "SUBSCRIBE" => headers_["ack"] = AutoAck
      BY <1>1, <2>2
    <3>3. AckIsValid
      BY <3>2 DEF AckIsValid
    <3> QED BY <3>1, <3>3
  <2> QED BY <2>1, <2>2
<1> HIDE DEF AcksFit
<1> QED BY <1>4, <1>5, <1>6, <1>9

(* The first empty line of what was read is the one its headers end with.  *)
LEMMA FirstIsTheBlank ==
    ASSUME IsText, NEW b \in 3..Len(frame), HeadReadBefore(b), NEW blank \in 2..Len(frame)
    PROVE  FirstBlank(frame, blank) <=> blank = b
<1>1. /\ frame[1] # NL /\ frame[b] = NL /\ frame[b - 1] = NL /\ Len(frame) \in Nat
      /\ \A s \in Starts(b) : frame[s] # NL
  BY TokensDiffer DEF IsText, HeadReadBefore, ReadBefore, ReadAt
<1>2. HeaderLines(frame, blank) = Starts(blank) /\ HeaderLines(frame, b) = Starts(b)
  BY <1>1, LinesAreStarts
<1>3. FirstBlank(frame, b)
  BY <1>1, <1>2 DEF FirstBlank
<1>4. ASSUME FirstBlank(frame, blank) PROVE blank = b
  <2>1. frame[blank] = NL /\ frame[blank - 1] = NL /\ \A s \in Starts(blank) : frame[s] # NL
    BY <1>2, <1>4 DEF FirstBlank
  <2>2. blank # 2
    BY <1>1, <2>1
  <2>3. ~(blank < b)
    <3> SUFFICES ASSUME blank < b PROVE FALSE
      OBVIOUS
    <3>1. blank \in Starts(b)
      BY <2>1, <2>2 DEF Starts
    <3> QED BY <1>1, <2>1, <3>1
  <2>4. ~(b < blank)
    <3> SUFFICES ASSUME b < blank PROVE FALSE
      OBVIOUS
    <3>1. b \in Starts(blank)
      BY <1>1 DEF Starts
    <3> QED BY <1>1, <2>1, <3>1
  <2> QED BY <2>3, <2>4
<1> QED BY <1>3, <1>4

(* What was read is in order but for its length if that is all Validate    *)
(* has to say of it.                                                       *)
LEMMA WrongAsRead ==
    ASSUME IsText, AllIsRead, OnlyNewlines
    PROVE  OnlyLengthIsWrong(frame) <=> ReadsLength /\ ~IsNumber(headers_["content-length"])
<1>1. PICK b \in 3..Len(frame) : BodyReadAfter(b)
  BY DEF AllIsRead
<1>2. IsFrame(frame) /\ HeadReadBefore(b) /\ HeaderLines(frame, b) = Starts(b)
  BY <1>1, FieldsOf, ReadIsFrame DEF BodyReadAfter
<1>3. b \in 2..Len(frame) /\ FirstBlank(frame, b)
  BY <1>2, FirstIsTheBlank
<1>4. OnlyLengthIsWrong(frame) <=>
         /\ HeadersFit(frame, b)
         /\ \E s \in Starts(b) : frame[s] = "content-length" /\ frame[s + 2] \notin DOMAIN Number
  BY <1>2, <1>3, FirstIsTheBlank DEF OnlyLengthIsWrong
<1>5. HeadersFit(frame, b) <=> AllAllowed /\ AllRequired /\ AckIsValid
  BY <1>2, FitAsRead
<1>6. (\E s \in Starts(b) : frame[s] = "content-length" /\ frame[s + 2] \notin DOMAIN Number)
        <=> "content-length" \in DOMAIN headers_ /\ ~IsNumber(headers_["content-length"])
  <2>1. \A s \in Starts(b) : frame[s] = "content-length" =>
           headers_["content-length"][1] = frame[s + 2] /\ "content-length" \in DOMAIN headers_
    <3>1. \A s \in Starts(b) : ReadAt(s, b)
      BY <1>2 DEF HeadReadBefore, ReadBefore
    <3> QED BY <3>1, WordOfLine DEF ReadAt
  <2>2. "content-length" \in DOMAIN headers_ =>
           \E s \in Starts(b) : frame[s] = "content-length"
    BY <1>2 DEF HeadReadBefore, Given
  <2>3. \A s, t \in Starts(b) : frame[s] = frame[t] => s = t
    BY <1>2 DEF HeadReadBefore, ReadBefore
  <2> QED BY <2>1, <2>2, <2>3 DEF IsNumber
<1> QED BY <1>4, <1>5, <1>6 DEF ReadsLength

(* The constructor throws exactly for the frames that are in order but for *)
(* their content-length, which is no number.                               *)
THEOREM ThrowsForLengths == Spec => []ThrowsForLength
<1>1. ReadInv => ThrowsForLength
  <2> SUFFICES ASSUME ReadInv, pc \in {"done", "thrown"}
               PROVE  pc = "thrown" <=> OnlyLengthIsWrong(frame)
    BY DEF ThrowsForLength
  <2>1. CASE state_ = "kParsing"
    BY <2>1 DEF ReadInv, OnlyLengthIsWrong
  <2>2. CASE state_ # "kParsing"
    BY <2>2, WrongAsRead DEF ReadInv
  <2> QED BY <2>1, <2>2
<1> QED BY AlwaysReads, <1>1, PTL
=============================================================================
