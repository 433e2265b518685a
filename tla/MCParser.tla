------------------------------ MODULE MCParser -------------------------------
EXTENDS EnactParser

\* The tokens that a statement is made of: one vocabulary per family of
\* constructs, so that the bound on its length lets each of them occur.
Vocabulary(most, names, some) == [names |-> names, tokens |-> some \cup {"."}, most |-> most]

Two == {"x", "self"}

MCVocabularies ==
  {Vocabulary(6, Two, {"id", "(", ")", "comma", ":="}),
   Vocabulary(5, Two, {"id", "(", ")", "::", "comma", "text"}),
   Vocabulary(8, {"x"}, {"id", "attr", "(", ")", ":="}),
   Vocabulary(8, {"self"}, {"id", "attr", "(", ")", ":="}),
   Vocabulary(9, {"x"}, {"id", "attr", "with", ":=", "new"}),
   Vocabulary(8, {"x"}, {"id", "class", "<", "(", ")", "comma"}),
   Vocabulary(6, Two, {"id", ":", "nil", "fix"}),
   Vocabulary(6, {"x"}, {"id", ":", "nil", "fix", "(", ")"}),
   Vocabulary(10, {"x"}, {"literal", "if", "then", "else", "not"}),
   Vocabulary(7, {"x"}, {"literal", "infix", "where", ":=", "id", "semicolon"})}

=============================================================================
