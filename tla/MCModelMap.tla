---------------------------- MODULE MCModelMap ----------------------------
(***************************************************************************)
(* Lists and requests for checking ModelMap with TLC.                      *)
(***************************************************************************)
EXTENDS ModelMap

Shouted(m) == [dir |-> m.dir, stem |-> m.stem, tag |-> TRUE, upper |-> TRUE]

\* Aliases and vendor names that meet in a stem, in several directories; a
\* vendor name that ends in a slash.
Aliases == {Blank, Model("", "a"), Shouted(Model("", "b"))}
Vendors == {Blank, Model("x", "a"), Model("y", "a"), Model("", "b"), Model("x", "")}

\* Every list of at most two entries; the empty one stands for the defaults.
MCLists ==
  LET entries == {Entry(alias, name) : alias \in Aliases, name \in Vendors}
  IN  UNION {[1..n -> entries] : n \in 0..2}

Names == {Model("", "a"), Shouted(Model("", "b")), Model("y", "a"), Model("", "c"),
          Model("", "glm-5.3-flash")}

Text(key, name) == Member(Model("", key), "text", name)
Meta(name)      == Member(Model("", "meta"), "object", name)

\* No body, one with its model alone, after the very word, after or before another
\* "model" in an object, under a number, and bodies without one; flags of a client.
MCBodies ==
  { << >>, <<Member(Word, "scalar", Blank)>>, <<Text("user", Word)>>,
    <<Member(Stream, "scalar", True), Text("model", Model("", "a"))>>,
    <<Member(Stream, "scalar", False), Member(Options, "object", Blank)>>,
    <<Text("stream_options", Blank), Text("model", Model("y", "a")), Member(Stream, "scalar", False),
      Member(Stream, "scalar", True)>> }
  \cup { <<Text("model", m)>> : m \in Names }
  \cup { <<Text("user", Word), Text("model", m)>> : m \in Names }
  \cup { <<Meta(Model("", "a")), Text("model", m)>> : m \in Names }
  \cup { <<Text("model", m), Meta(Model("", "a"))>> : m \in Names }

MCRequests == [asked : Names \cup {Model("x", "a"), Model("", "b")}, body : MCBodies]

\* Requests that name one model.
PlainRequests == {[asked |-> m, body |-> <<Text("model", m)>>] : m \in Names \cup (Vendors \ {Blank})}

Defaults == {<< >>}
=============================================================================
