------------------------------- MODULE MCTsim ------------------------------
EXTENDS Tsim

Opt(o)       == [opt |-> o]
Recipe(r)    == [opt |-> "r", name |-> r]
Plugin(i, n) == [opt |-> "p", inst |-> i, name |-> n, plus |-> FALSE]
Plus(i, n)   == [opt |-> "p", inst |-> i, name |-> n, plus |-> TRUE]
At_(o, a)    == [opt |-> o, addr |-> a]
File(lines)  == [opt |-> "@", lines |-> lines]

Words == <<[reladdr |-> 0, word |-> 1], [reladdr |-> 1, word |-> 0]>>

FileLines == <<Opt("n"), Recipe("sparse")>>

\* The options by themselves and together: no device at all, two memories at
\* one place, displays on either side of the memory, a gap in the plugins, a
\* list of plugins that is replaced, extended or too long, an options file.
MCOptions == {
  <<>>,
  <<Opt("n")>>,
  <<Recipe("prealloc")>>,
  <<Opt("n"), Recipe("serial"), Recipe("prealloc")>>,
  <<Plugin(0, "sdlvga"), Plus(0, "sdlled")>>,
  <<Plugin(0, "absent"), Plugin(0, "sdlled"), Plugin(2, "sdlvga"), Recipe("jit")>>,
  <<Plugin(0, "sdlled"), Recipe("plugin"), Recipe("prealloc")>>,
  <<File(FileLines), Recipe("jit"), At_("a", 10), At_("s", 9)>>,
  <<Plugin(0, "absent"), Plus(0, "sdlled"), Plus(0, "sdlvga")>>,
  <<At_("a", 11), Opt("v")>>,
  <<Recipe("unknown")>>, <<Opt("help")>>, <<Opt("missing options file")>>}

AllOptions == UNION {Range(o) : o \in MCOptions \cup {FileLines}}

MCCommandLines ==
  [options : MCOptions, inputs : {<<"readable">>}, image : {Words}]
  \cup [options : {<<>>}, inputs : {<<>>, <<"absent">>, <<"readable", "readable">>},
        image : {<<>>}]

=============================================================================
