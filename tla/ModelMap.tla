------------------------------ MODULE ModelMap ------------------------------
(***************************************************************************)
(* Which models the plugin claims and by which name it asks for them       *)
(* upstream: buildIndexes and upstreamName (config.go), Router.owned       *)
(* (router.go), normalizeRequestModel (translator.go), setStreamFlag       *)
(* (executor.go), registryModels (models.go).  The tables are built entry  *)
(* by entry; then a request is routed, perhaps translated by the host's    *)
(* call, and sent.                                                         *)
(*                                                                         *)
(* A model name is a record: a directory ("deepseek/"), a stem, a tag      *)
(* ("(high)") and whether it is written in capitals.  Only the stem, in    *)
(* small letters, survives normalizeModel.                                 *)
(*                                                                         *)
(* A body is the sequence of its members: a key, and a string, a number or *)
(* boolean, or an object with a "model" of its own; << >> is the body of   *)
(* no bytes, and an object of no members is left out.  The router does not *)
(* parse it: it scans the bytes, of which the model keeps the strings and  *)
(* the marks between them.  A string that holds a quote is left out.       *)
(***************************************************************************)
EXTENDS Integers, FiniteSetsExt, SequencesExt

CONSTANTS
  Lists,    \* the models: lists an operator may configure
  Requests  \* what clients send: [asked, body]

Model(dir, stem) == [dir |-> dir, stem |-> stem, tag |-> FALSE, upper |-> FALSE]

\* What is left of a name or a part of one that is not there.
NoText == ""

Blank == Model(NoText, NoText)

Entry(alias, name) == [alias |-> alias, name |-> name]

defaultModelEntries ==
  << Entry(Model(NoText, "deepseek-flash"), Model("deepseek", "deepseek-v4.1-flash")),
     Entry(Model(NoText, "glm-5.3-flash"), Model("z-ai", "glm-5.3-flash")) >>

AnyModel == [dir : STRING, stem : STRING, tag : BOOLEAN, upper : BOOLEAN]

\* A member of a body: its key and value are names as well, for a scan of the
\* bytes knows no difference.  "usage" is an object that asks for the usage: what
\* the plugin makes of stream_options.
Member(key, kind, name) == [name |-> name, key |-> key, kind |-> kind]

ASSUME ModelAssumption ==
  /\ Lists \subseteq Seq([alias : AnyModel, name : AnyModel])
  /\ Requests \subseteq
       [asked : AnyModel,
        body  : Seq([key : AnyModel, kind : {"text", "scalar", "object"}, name : AnyModel])]

VARIABLES
  models,    \* the configured list
  next,      \* the entry buildIndexes is at
  claimed,   \* stems the plugin claims
  rewrites,  \* stem -> name sent upstream
  phase,     \* the request: "none", "routed", "refused", "sent"
  asked,     \* the name the host says the client asked for
  came,      \* the request's body as it came
  whole,     \* it was not cut off
  body,      \* the body now
  streams    \* the executor was called for a stream

vars == <<models, next, claimed, rewrites, phase, asked, came, whole, body, streams>>

effectiveModels == IF models # << >> THEN models ELSE defaultModelEntries

Built == next > Len(effectiveModels)

normalizeModel(m) == m.stem

\* The table f with the stems S sent to the name m.
Rewritten(f, S, m) == [s \in DOMAIN f \cup S |-> IF s \in S THEN m ELSE f[s]]

Init ==
  /\ models \in Lists
  /\ next = 1
  /\ claimed = {} /\ rewrites = [s \in {} |-> Blank]
  /\ phase = "none" /\ asked = Blank
  /\ came = << >> /\ whole = TRUE /\ body = << >> /\ streams = FALSE

-----------------------------------------------------------------------------
(* buildIndexes, an entry a step.                                          *)

Stems(m) == {normalizeModel(m)} \ {NoText}

RewriteEntry(e) ==
  IF e.name = Blank THEN UNCHANGED rewrites
  ELSE rewrites' = Rewritten(rewrites, Stems(e.alias) \cup Stems(e.name), e.name)

\* Mutant of ClaimEntry: only the alias is claimed.
ClaimAlias(e) == claimed' = claimed \cup Stems(e.alias)

ClaimEntry(e) == claimed' = claimed \cup Stems(e.alias) \cup Stems(e.name)

IndexEntry ==
  /\ ~Built
  /\ ClaimEntry(effectiveModels[next])
  /\ RewriteEntry(effectiveModels[next])
  /\ next' = next + 1
  /\ UNCHANGED <<models, phase, asked, came, whole, body, streams>>

-----------------------------------------------------------------------------
(* A request.                                                              *)

Word == Model(NoText, "model")

\* What the scan meets: a string between quotes, or a mark outside of them.
String(name) == [string |-> TRUE, name |-> name]
Mark(c)      == [string |-> FALSE, name |-> Model(NoText, c)]

Value(member) ==
  CASE member.kind = "text"   -> <<String(member.name)>>
    [] member.kind = "scalar" -> <<Mark("0")>>
    [] member.kind = "object" ->
         <<Mark("{"), String(Word), Mark(":"), String(member.name), Mark("}")>>

Piece(member) == <<String(member.key), Mark(":")>> \o Value(member) \o <<Mark(",")>>

Bytes(members) == FlattenSeq([i \in DOMAIN members |-> Piece(members[i])])

\* Mutant of modelFromBody: the last "model" counts.
modelFromBodyLast(raw) ==
  LET words == {i \in DOMAIN raw : raw[i] = String(Word)}
      after == {i \in DOMAIN raw : i > Max(words) /\ raw[i] # Mark(":")}
  IN  IF words = {} \/ after = {} \/ ~raw[Min(after)].string THEN Blank
      ELSE raw[Min(after)].name

\* The string after the first "model", whatever that is, and its colon.
modelFromBody(raw) ==
  LET words == {i \in DOMAIN raw : raw[i] = String(Word)}
      after == {i \in DOMAIN raw : i > Min(words) /\ raw[i] # Mark(":")}
  IN  IF words = {} \/ after = {} \/ ~raw[Min(after)].string THEN Blank
      ELSE raw[Min(after)].name

owned(requested, raw) ==
  \E m \in {requested, modelFromBody(raw)} : normalizeModel(m) \in claimed

\* The body, perhaps cut off, is routed.
Route(q) ==
  /\ Built /\ phase = "none"
  /\ asked' = q.asked /\ came' = q.body /\ body' = q.body
  /\ \E n \in 0..Len(Bytes(q.body)) :
       /\ whole' = (n = Len(Bytes(q.body)))
       /\ phase' = IF owned(q.asked, SubSeq(Bytes(q.body), 1, n)) THEN "routed" ELSE "refused"
  /\ UNCHANGED <<models, next, claimed, rewrites, streams>>

upstreamName(m) ==
  IF normalizeModel(m) \in DOMAIN rewrites THEN rewrites[normalizeModel(m)] ELSE Blank

\* The members of a key; a JSON reader takes the first.
KeyAt(members, key) == {i \in DOMAIN members : members[i].key = key}

ModelAt(members) == KeyAt(members, Word)

TopModel(members) ==
  IF ModelAt(members) = {} \/ members[Min(ModelAt(members))].kind # "text" THEN Blank
  ELSE members[Min(ModelAt(members))].name

\* sjson.SetBytes: the first member of that key, or a new one.
SetMember(members, member) ==
  IF KeyAt(members, member.key) = {} THEN Append(members, member)
  ELSE [members EXCEPT ![Min(KeyAt(members, member.key))] = member]

WithModel(members, m) == SetMember(members, Member(Word, "text", m))

\* Mutant of normalizeRequestModel: names are compared normalized.
normalizeRequestModelLoose(m, members) ==
  IF \/ members = << >> \/ upstreamName(m) = Blank
     \/ normalizeModel(upstreamName(m)) = normalizeModel(TopModel(members))
  THEN members
  ELSE WithModel(members, upstreamName(m))

normalizeRequestModel(m, members) ==
  IF members = << >> \/ upstreamName(m) = Blank THEN members
  ELSE WithModel(members, upstreamName(m))

\* The host may have the request translated first.
Translate ==
  /\ phase = "routed" /\ whole
  /\ body' = normalizeRequestModel(asked, body)
  /\ UNCHANGED <<models, next, claimed, rewrites, phase, asked, came, whole, streams>>

Stream  == Model(NoText, "stream")
Options == Model(NoText, "stream_options")
True    == Model(NoText, "true")
False   == Model(NoText, "false")

\* What is set: the flag, and the options (of which only the wish for the usage is
\* followed).
Flag(stream) == Member(Stream, "scalar", IF stream THEN True ELSE False)
Usage        == Member(Options, "usage", Blank)

\* Mutant of setStreamFlag: a flag the client has set stays.
setStreamFlagIfAbsent(members, stream) ==
  IF members = << >> \/ KeyAt(members, Stream) # {} THEN members
  ELSE IF stream THEN SetMember(SetMember(members, Flag(stream)), Usage)
  ELSE SetMember(members, Flag(stream))

setStreamFlag(members, stream) ==
  IF members = << >> THEN members
  ELSE IF stream THEN SetMember(SetMember(members, Flag(stream)), Usage)
  ELSE SetMember(members, Flag(stream))

\* buildUpstreamBody translates again and sets the flags, then the request leaves.
Send(stream) ==
  /\ phase = "routed" /\ whole
  /\ body' = setStreamFlag(normalizeRequestModel(asked, body), stream)
  /\ phase' = "sent" /\ streams' = stream
  /\ UNCHANGED <<models, next, claimed, rewrites, asked, came, whole>>

\* A body that was cut off goes no further.
Over == (phase \in {"sent", "refused"} \/ ~whole) /\ UNCHANGED vars

Next == IndexEntry \/ (\E q \in Requests : Route(q)) \/ Translate \/ (\E s \in BOOLEAN : Send(s)) \/ Over

Spec == Init /\ [][Next]_vars

-----------------------------------------------------------------------------
(* Properties.                                                             *)

Entries == {effectiveModels[k] : k \in DOMAIN effectiveModels}

Named == {e \in Entries : e.name # Blank}

\* The names the operator has declared the vendor to serve for a stem.
Served(stem) == {e.name : e \in {x \in Named : stem \in Stems(x.alias) \cup Stems(x.name)}}

\* The id registered for an entry: its name, or else its alias.
Advertised(e) == IF e.name # Blank THEN e.name ELSE e.alias

\* However often it is translated, a request for a name that some entry declares
\* a vendor name for leaves with the literal one of such an entry, directory and
\* all, and never with a bare alias (translator.go:61-71, config.go:42-45); of one
\* that no entry names see BodyAsCame.
SentIsServed ==
  phase = "sent" /\ came # << >> /\ Served(normalizeModel(asked)) # {} =>
    TopModel(body) \in Served(normalizeModel(asked))

\* What the plugin sets in the body of a request.
SetKeys ==
  {Stream} \cup (IF streams THEN {Options} ELSE {})
           \cup (IF Served(normalizeModel(asked)) = {} THEN {} ELSE {Word})

First(members, key) == members[Min(KeyAt(members, key))]

\* The body that leaves asks for a stream exactly when the call is for one, then
\* with the usage, whatever the client wrote there; beside these flags and the
\* model nothing is added, moved or changed, and a model no entry names stays as
\* the client wrote it (executor.go:83-84, 98-113, config.go:43-45).
BodyAsCame ==
  phase = "sent" /\ came # << >> =>
    /\ First(body, Stream) = Flag(streams)
    /\ streams => First(body, Options) = Usage
    /\ DOMAIN came \subseteq DOMAIN body
    /\ \A i \in DOMAIN body :
         \/ i \in DOMAIN came /\ body[i] = came[i]
         \/ /\ body[i].key \in SetKeys /\ KeyAt(body, body[i].key) \cap 1..(i - 1) = {}
            /\ i \in DOMAIN came => came[i].key = body[i].key

Claimed(m) == \E e \in Entries : normalizeModel(m) \in Stems(e.alias) \cup Stems(e.name)

\* The names under a key "model", at the top or in an object.
ModelNames(members) ==
  {x.name : x \in {y \in Range(members) :
                     y.kind = "object" \/ (y.key = Word /\ y.kind = "text")}}

\* Nothing named "model" comes before the model.
Plain(members) ==
  \A i \in ModelAt(members) : \A j \in 1..i :
    members[j].kind # "object" /\ (members[j].name = Word => members[j].kind # "text")

\* A request is taken only for a name the plugin claims, its own or one its body
\* holds under "model", cut off or not; and one whose body names its model before
\* anything else of that name is taken for that name or its own, and no other
\* (router.go:20-34, 49-52).
RoutedAsNamed ==
  /\ phase \in {"routed", "sent"} => \E m \in {asked} \cup ModelNames(came) : Claimed(m)
  /\ phase # "none" /\ whole /\ Plain(came) /\ ModelAt(came) # {} =>
       (phase = "refused" <=> ~Claimed(asked) /\ ~Claimed(TopModel(came)))

\* Of every entry that is advertised the id is routed to the plugin if it has a
\* stem, and never if it has none (a name that ends in a slash): "keeping the two
\* in step automatically" (models.go:12-13) goes that far (models.go:41-51,
\* router.go:20-34).
AdvertisedRoutedByStem ==
  Built => \A e \in Entries :
             Advertised(e) # Blank =>
               (owned(Advertised(e), << >>) <=> normalizeModel(Advertised(e)) # NoText)

\* "Both spellings resolve to the vendor's literal name, so a request arriving as
\* either the alias or the upstream name is rewritten" (config.go:168-169): asked
\* for by the name of an entry, the plugin sends that name.
BothSpellings ==
  phase = "sent" /\ (\E e \in Named : e.name = asked) => TopModel(body) = asked

\* "deepseek-flash, deepseek-vision, glm-5.3-flash by default" (README.md:23-24)
\* are routed to this plugin.
DefaultAliasesRouted ==
  Built /\ models = << >> =>
    \A stem \in {"deepseek-flash", "deepseek-vision", "glm-5.3-flash"} :
      owned(Model(NoText, stem), << >>)
=============================================================================
