------------------------------ MODULE Payload ------------------------------
(***************************************************************************)
(* What becomes of the payloads of one call: a line of the upstream stream *)
(* is stripped of its "data:" prefixes, its thinking is copied to the      *)
(* field the host reads (reasoning.go), the payload is framed for the      *)
(* route (executor.go), and the host may send it through TranslateResponse *)
(* again (translator.go).  Execute does the same to one body, unframed.    *)
(*                                                                         *)
(* A document is the sequence of its choices; a choice has a message under *)
(* "delta", "message" or both.  A text is a sequence of tokens, of which   *)
(* Space stands for any that is white space.  Missing is a field that is   *)
(* not there or null, and details or reasoning of another type, which are  *)
(* passed over.  A reasoning_content of another type is what it shows: its *)
(* JSON, which is kept as any text that shows something is.  How a line is *)
(* cut is ChunkConverter's.                                                *)
(***************************************************************************)
EXTENDS Naturals, SequencesExt

CONSTANTS
  Words, Space,   \* visible tokens, and white space
  Missing,
  Docs,           \* the documents upstreams send
  MaxLines,       \* bounds the lines of the stream
  MaxPrefixes     \* bounds the prefixes stacked on a line

Fields == {"delta", "message"}

\* reasoning_details, reasoning and reasoning_content of a message.
Message(details, reasoning, content) ==
  [details |-> details, reasoning |-> reasoning, content |-> content]

\* Every line: a document, "[DONE]", bytes that are no JSON, or nothing.
Lines ==
  [prefixes : 0..MaxPrefixes, kind : {"doc"}, doc : Docs]
    \cup [prefixes : 0..MaxPrefixes, kind : {"done", "junk", "empty"}, doc : {<< >>}]

Text == Seq(Words \cup {Space})

AnyMessage ==
  [details   : Seq(Text) \cup {Missing},
   reasoning : Text \cup {Missing},
   content   : Text \cup {Missing}]

\* The elements of seq that are in S, in their order.
Kept(seq, S) ==
  LET kept[n \in 0..Len(seq)] ==
        IF n = 0 THEN << >>
        ELSE IF seq[n] \in S THEN Append(kept[n - 1], seq[n])
        ELSE kept[n - 1]
  IN  kept[Len(seq)]

Visible(text) == IF text = Missing THEN << >> ELSE Kept(text, Words)

IsBlank(text) == Visible(text) = << >>

Joined(details) == IF details = Missing THEN << >> ELSE FlattenSeq(details)

\* Where both carry thinking, the details mirror the string (reasoning.go:17).
Mirrored(msg) ==
  \/ IsBlank(Joined(msg.details)) \/ IsBlank(msg.reasoning)
  \/ Visible(Joined(msg.details)) = Visible(msg.reasoning)

ASSUME PayloadAssumption ==
  /\ Space \notin Words
  /\ Missing \notin Text \cup Seq(Text) \cup AnyMessage
  /\ MaxLines \in Nat /\ MaxPrefixes \in Nat \ {0}
  /\ Docs \subseteq Seq([Fields -> AnyMessage \cup {Missing}])
  /\ \A doc \in Docs : \A i \in DOMAIN doc : \A f \in Fields :
       doc[i][f] # Missing => Mirrored(doc[i][f])

VARIABLES
  path,     \* the route: "claude" is /v1/messages, "openai" any other,
            \* "execute" a call that does not stream
  sent,     \* lines the upstream has sent
  frames    \* what the host has got: [prefixes, doc]

payloadVars == <<path, sent, frames>>

PayloadInit ==
  /\ path \in {"claude", "openai", "execute"}
  /\ sent = << >>
  /\ frames = << >>

-----------------------------------------------------------------------------
(* mapReasoningBody.                                                       *)

\* The texts of the details that are not blank, joined.
Details(msg) ==
  IF msg.details = Missing THEN << >>
  ELSE FlattenSeq(Kept(msg.details, {t \in Range(msg.details) : ~IsBlank(t)}))

\* Mutant of reasoningText: the string is added to the details.
reasoningTextBoth(msg) ==
  Details(msg) \o (IF IsBlank(msg.reasoning) THEN << >> ELSE msg.reasoning)

reasoningText(msg) ==
  IF Details(msg) # << >> THEN Details(msg)
  ELSE IF IsBlank(msg.reasoning) THEN << >> ELSE msg.reasoning

\* Mutant of Backfilled: the text is added to what the field holds.
BackfilledOnTop(msg) ==
  IF msg = Missing \/ reasoningText(msg) = << >> THEN msg
  ELSE [msg EXCEPT !.content = (IF IsBlank(@) THEN << >> ELSE @) \o reasoningText(msg)]

Backfilled(msg) ==
  IF msg = Missing \/ reasoningText(msg) = << >> \/ ~IsBlank(msg.content) THEN msg
  ELSE [msg EXCEPT !.content = reasoningText(msg)]

mapReasoningBody(doc) ==
  [i \in DOMAIN doc |-> [f \in Fields |-> Backfilled(doc[i][f])]]

-----------------------------------------------------------------------------
(* The lines of a stream, the body of a call.                              *)

\* A line without a prefix is no event; stacked prefixes are all taken off.
HasPayload(line) == line.prefixes > 0 /\ line.kind = "doc"

\* streamFramingForRequest and apply.
Frame(doc) == [prefixes |-> IF path = "claude" THEN 1 ELSE 0, doc |-> doc]

StreamLine(line) ==
  /\ path # "execute" /\ Len(sent) < MaxLines
  /\ sent' = Append(sent, line)
  /\ frames' = IF HasPayload(line) THEN Append(frames, Frame(mapReasoningBody(line.doc)))
               ELSE frames
  /\ UNCHANGED path

\* Execute (a body that is no JSON is handed on as it is).
Execute(doc) ==
  /\ path = "execute" /\ sent = << >>
  /\ sent' = <<[prefixes |-> 1, kind |-> "doc", doc |-> doc]>>
  /\ frames' = <<Frame(mapReasoningBody(doc))>>
  /\ UNCHANGED path

\* The host has frame i translated; one with a prefix is no JSON and comes back
\* as it is, and so does one of a format that is refused.
TranslateResponse(i) ==
  /\ frames' = IF frames[i].prefixes > 0 THEN frames
               ELSE [frames EXCEPT ![i].doc = mapReasoningBody(@)]
  /\ UNCHANGED <<path, sent>>

Stops == UNCHANGED payloadVars

PayloadNext ==
  \/ \E line \in Lines : StreamLine(line)
  \/ \E doc \in Docs : Execute(doc)
  \/ \E i \in DOMAIN frames : TranslateResponse(i)
  \/ Stops

PayloadSpec == PayloadInit /\ [][PayloadNext]_payloadVars

-----------------------------------------------------------------------------
(* Properties.                                                             *)

\* The thinking of a message: what its standard field shows, or else what the
\* vendor's fields do.
Thought(msg) ==
  IF ~IsBlank(msg.content) THEN Visible(msg.content)
  ELSE IF ~IsBlank(msg.reasoning) THEN Visible(msg.reasoning)
  ELSE Visible(Joined(msg.details))

\* The message got is the one sent, but for the field the host reads: this holds
\* every visible token of the thinking once, in order, and is as it was where it
\* held any (reasoning.go:10-18, 22-83).
Arrived(was, got) ==
  IF was = Missing THEN got = Missing
  ELSE /\ got # Missing
       /\ got.details = was.details /\ got.reasoning = was.reasoning
       /\ Visible(got.content) = Thought(was)
       /\ ~IsBlank(was.content) \/ Thought(was) = << >> => got.content = was.content

\* The host gets the documents of the stream, each once and in their order, with
\* one prefix on /v1/messages and none elsewhere however many the upstream
\* stacked, and each message with its own thinking (executor.go:67-75, 297-322).
ThinkingArrives ==
  LET docs == Kept(sent, {line \in Lines : line.kind = "doc" /\ line.prefixes > 0})
  IN  /\ Len(frames) = Len(docs)
      /\ \A k \in 1..Len(docs) :
           /\ frames[k].prefixes = (IF path = "claude" THEN 1 ELSE 0)
           /\ DOMAIN frames[k].doc = DOMAIN docs[k].doc
           /\ \A i \in DOMAIN docs[k].doc : \A f \in Fields :
                Arrived(docs[k].doc[i][f], frames[k].doc[i][f])

\* What the executor has handed out, translated again by the host, stays as it
\* is: the thinking is not copied twice (translator.go:41-57).
TranslatedOnce == [][\A k \in DOMAIN frames : frames'[k] = frames[k]]_payloadVars
=============================================================================
