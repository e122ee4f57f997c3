----------------------------- MODULE MCPayload -----------------------------
(***************************************************************************)
(* Documents for checking Payload with TLC.                                *)
(***************************************************************************)
EXTENDS Payload

\* Two words, with white space between, before or alone.
SomeTexts == {<<"a">>, <<"a", " ", "b">>, <<" ", "a">>, <<" ">>}

\* A text as one detail, or a detail for each token.
Split(text) == {<<text>>, [i \in DOMAIN text |-> <<text[i]>>], Missing, << >>}

SomeMessages ==
  UNION { { Message(d, r, c) : d \in Split(t), r \in {t, Missing},
                               c \in {Missing, << >>, <<" ">>, <<"b">>} } : t \in SomeTexts }

Choice(delta, message) == [delta |-> delta, message |-> message]

\* Few messages, for documents with more than one of them.
Few == { Message(<<<<"a">>>>, Missing, Missing), Message(Missing, <<"b">>, <<" ">>),
         Message(Missing, Missing, Missing), Missing }

MCDocs ==
  { << >> }
    \cup { <<Choice(m, Missing)>> : m \in SomeMessages }
    \cup { <<Choice(x, y), Choice(z, Missing)>> : x \in Few, y \in Few, z \in Few }
=============================================================================
