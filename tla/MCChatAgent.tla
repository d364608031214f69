----------------------------- MODULE MCChatAgent ----------------------------
(* An instance of ChatAgent.  A tick of the limiter stands for about       *)
(* twenty seconds.                                                         *)
EXTENDS ChatAgent

CONSTANTS c1, c2, c3

NoDelay == << >>
Instants == 0 .. 12

BlocksOf(n) == UNION {[1..k -> Pieces] : k \in 1..n}

\* Every text of three pieces at most, and those of four that hold a tag opener.
ShortTexts == {t \in BlocksOf(4) : Len(t) = 4 => Openers(t) # {}}
SomeInputs == {{"query"}, {"query", "chain"}, {"limit"}, NotJson}
KnownKeys == {"query", "chains"}
RequiredKeys == {"query"}

=============================================================================
