---------------------------- MODULE EnactChunker -----------------------------
(***************************************************************************)
(* How a script is cut into chunks (api.c: enact_next_script_chunk), step  *)
(* by step along with the lexer (enact.l), which reads the same text by    *)
(* rules of its own.  A text is a sequence of classes of characters;       *)
(* positions count from 1.  One step reads one character, or a backslash   *)
(* in a string with the character behind it.                               *)
(***************************************************************************)
EXTENDS Integers, Sequences

CONSTANT Texts   \* the scripts

\* "return" is a carriage return, "space" a blank or a tab, "letter" any
\* start of an identifier and "other" what has no meaning of its own here.
Char == {"letter", "digit", "dot", "newline", "return", "space", "quote",
         "backslash", "percent", "open", "close", "other"}

ASSUME ChunkerAssumption == Texts \subseteq Seq(Char)

VARIABLES
  source,     \* the text of the script
  index,      \* the next character
  cutting,    \* a chunk has been begun: trivia is no longer skipped
  start,      \* where it begins
  depth,      \* paren_depth
  inString,
  inComment,  \* also of a comment in front of a chunk
  chunks,     \* the chunks so far: first and last character, needs_dot
  lexer       \* the lexer behind the characters read

vars == <<source, index, cutting, start, depth, inString, inComment, chunks, lexer>>

AtEnd == index > Len(source)
ch == source[index]

IsSpace(c) == c \in {"space", "return", "newline"}
IsIdentifierStart(c) == c = "letter"
IsIdentifierChar(c) == c \in {"letter", "digit"}

-----------------------------------------------------------------------------
(***************************************************************************)
(* The lexer: strings, comments and the balance of parentheses.  It gives  *)
(* up at a string that is not closed on its line and at a stray backslash. *)
(***************************************************************************)
InMode(lx, mode) == [lx EXCEPT !.mode = mode]

ReadText(lx, c) ==
  CASE c = "quote"     -> InMode(lx, "string")
    [] c = "percent"   -> InMode(lx, "comment")
    [] c = "backslash" -> InMode(lx, "error")
    [] c = "open"      -> [lx EXCEPT !.balance = @ + 1]
    [] c = "close"     -> [lx EXCEPT !.balance = @ - 1]
    [] OTHER           -> lx

ReadString(lx, c) ==
  CASE c = "quote"                 -> InMode(lx, "text")
    [] c = "backslash"             -> InMode(lx, "escape")
    [] c \in {"newline", "return"} -> InMode(lx, "error")
    [] OTHER                       -> lx

\* The lexer after one more character.
Read(lx, c) ==
  CASE lx.mode = "text"    -> ReadText(lx, c)
    [] lx.mode = "string"  -> ReadString(lx, c)
    [] lx.mode = "escape"  -> InMode(lx, IF c = "newline" THEN "error" ELSE "string")
    [] lx.mode = "comment" -> IF c = "newline" THEN InMode(lx, "text") ELSE lx
    [] OTHER               -> lx

\* A dot in front of an identifier is TOK_ATTR_DOT, any other is TOK_DOT.
IsAttributeDot(i) == i < Len(source) /\ IsIdentifierStart(source[i + 1])

-----------------------------------------------------------------------------
(***************************************************************************)
(* The chunker.                                                            *)
(***************************************************************************)
Init ==
  /\ source \in Texts
  /\ index = 1
  /\ cutting = FALSE /\ start = 0
  /\ depth = 0 /\ inString = FALSE /\ inComment = FALSE
  /\ chunks = <<>>
  /\ lexer = [mode |-> "text", balance |-> 0]

\* enact_dot_starts_attribute_access
DotStartsAttributeAccess ==
  /\ index > 1 /\ index < Len(source)
  /\ IsIdentifierStart(source[index + 1])
  /\ IsIdentifierChar(source[index - 1]) \/ source[index - 1] = "close"

Advance == index' = index + 1 /\ lexer' = Read(lexer, ch)

\* Goes on behind the character, in the same chunk or in front of the next.
Step ==
  /\ Advance
  /\ UNCHANGED <<source, cutting, start, chunks>>

Skipping == ~cutting /\ ~AtEnd

MutSkipTrivia ==
  /\ Skipping
  /\ inComment \/ IsSpace(ch) \/ ch = "percent"
  /\ inComment' = (inComment \/ ch = "percent")
  /\ Step /\ UNCHANGED <<depth, inString>>

\* enact_skip_script_trivia: blank space, and comments to the end of the line.
SkipTrivia ==
  /\ Skipping
  /\ inComment \/ IsSpace(ch) \/ ch = "percent"
  /\ inComment' = (ch # "newline" /\ (inComment \/ ch = "percent"))
  /\ Step /\ UNCHANGED <<depth, inString>>

Begin ==
  /\ Skipping
  /\ ~(inComment \/ IsSpace(ch) \/ ch = "percent")
  /\ cutting' = TRUE /\ start' = index
  /\ depth' = 0 /\ inString' = FALSE /\ inComment' = FALSE
  /\ UNCHANGED <<source, index, chunks, lexer>>

Scanning == cutting /\ ~AtEnd

\* The chunk ends with this character.
Cut(needsDot) ==
  /\ Advance
  /\ chunks' = Append(chunks, [first |-> start, last |-> index, needsDot |-> needsDot])
  /\ cutting' = FALSE /\ inComment' = FALSE
  /\ UNCHANGED <<source, start, depth, inString>>

ScanComment ==
  /\ Scanning /\ inComment
  /\ IF ch = "newline" /\ depth = 0
       THEN Cut(TRUE)
       ELSE inComment' = (ch # "newline") /\ Step /\ UNCHANGED <<depth, inString>>

MutScanString ==
  /\ Scanning /\ ~inComment /\ inString
  /\ inString' = (ch # "quote") /\ Step
  /\ UNCHANGED <<depth, inComment>>

ScanString ==
  /\ Scanning /\ ~inComment /\ inString
  /\ IF ch = "backslash" /\ index < Len(source)
       THEN /\ index' = index + 2
            /\ lexer' = Read(Read(lexer, ch), source[index + 1])
            /\ UNCHANGED <<source, cutting, start, chunks, inString>>
       ELSE inString' = (ch # "quote") /\ Step
  /\ UNCHANGED <<depth, inComment>>

\* A newline or a dot ends the chunk, outside parentheses.
ScanTerminator ==
  /\ Scanning /\ ~inComment /\ ~inString /\ depth = 0
  /\ \/ ch = "newline" /\ Cut(TRUE)
     \/ ch = "dot" /\ ~DotStartsAttributeAccess /\ Cut(FALSE)

ScanText ==
  /\ Scanning /\ ~inComment /\ ~inString
  /\ depth = 0 => /\ ch # "newline"
                  /\ ch = "dot" => DotStartsAttributeAccess
  /\ inComment' = (ch = "percent")
  /\ inString' = (ch = "quote")
  /\ depth' = IF ch = "open" THEN depth + 1 ELSE IF ch = "close" THEN depth - 1 ELSE depth
  /\ Step

\* The rest of the text is the last chunk.
Finish ==
  /\ cutting /\ AtEnd
  /\ chunks' = Append(chunks, [first |-> start, last |-> Len(source), needsDot |-> FALSE])
  /\ cutting' = FALSE
  /\ UNCHANGED <<source, index, start, depth, inString, inComment, lexer>>

Next ==
  \/ SkipTrivia \/ Begin
  \/ ScanComment \/ ScanString \/ ScanTerminator \/ ScanText \/ Finish

Spec == Init /\ [][Next]_vars

-----------------------------------------------------------------------------
(***************************************************************************)
(* Properties.                                                             *)
(***************************************************************************)

\* The character at index ends a statement for the lexer: a newline or a
\* TOK_DOT outside strings and parentheses.
EndsStatement ==
  /\ lexer.balance = 0
  /\ \/ ch = "newline" /\ lexer.mode \in {"text", "comment"}
     \/ ch = "dot" /\ lexer.mode = "text" /\ ~IsAttributeDot(index)

(***************************************************************************)
(* The one disagreement: a TOK_ATTR_DOT that does not touch an identifier, *)
(* a number or a parenthesis, as in "x .y", ends a statement all the same  *)
(* for the chunker.                                                        *)
(***************************************************************************)
DetachedDot ==
  /\ lexer.balance = 0 /\ lexer.mode = "text"
  /\ ch = "dot" /\ IsAttributeDot(index)
  /\ index = 1 \/ ~(IsIdentifierChar(source[index - 1]) \/ source[index - 1] = "close")

(***************************************************************************)
(* As long as the lexer accepts the text (otherwise the chunk fails, and   *)
(* the script with it), a chunk is cut off where the lexer sees the end of *)
(* a statement, detached dots aside, and nowhere else: never in a string,  *)
(* a comment or parentheses, whatever strings and comments contain.  The   *)
(* missing dot is added behind a newline only.                             *)
(***************************************************************************)
CutsWithLexer ==
  [][Scanning /\ lexer.mode # "error" =>
       /\ ~cutting' <=> EndsStatement \/ DetachedDot
       /\ ~cutting' => /\ lexer' = [mode |-> "text", balance |-> 0]
                       /\ chunks'[Len(chunks')].needsDot <=> ch = "newline"]_vars

\* The characters from a to b are blank space and comments.
IsTrivia(text, a, b) ==
  \A i \in a..b :
    IsSpace(text[i]) \/ \E j \in a..i : text[j] = "percent" /\
                                          \A k \in j..i : text[k] # "newline"

\* Where the text behind the first i chunks begins.
Behind(i) == IF i = 0 THEN 1 ELSE chunks[i].last + 1

\* Each chunk begins with a character of its own, behind trivia.
ChunksFollow ==
  \A i \in 1..Len(chunks) :
    /\ chunks[i].first <= chunks[i].last
    /\ ~IsTrivia(source, chunks[i].first, chunks[i].first)
    /\ IsTrivia(source, Behind(i - 1), chunks[i].first - 1)

(***************************************************************************)
(* Nothing of a script is lost and nothing evaluated twice: the chunks     *)
(* follow each other in the text, and what lies between them, before the   *)
(* first and behind the last is trivia.                                    *)
(***************************************************************************)
NothingLost ==
  /\ ChunksFollow
  /\ IsTrivia(source, Behind(Len(chunks)), (IF cutting THEN start ELSE index) - 1)

=============================================================================
