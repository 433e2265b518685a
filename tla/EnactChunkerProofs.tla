-------------------------- MODULE EnactChunkerProofs --------------------------
(***************************************************************************)
(* Proofs about EnactChunker, for texts of any length.                     *)
(***************************************************************************)
EXTENDS EnactChunker, SequenceTheorems, TLAPS

Mode == {"text", "string", "escape", "comment", "error"}
Lexer == [mode : Mode, balance : Int]

LexerTyped ==
  /\ source \in Seq(Char)
  /\ index \in Nat \ {0}
  /\ depth \in Int
  /\ cutting \in BOOLEAN /\ inString \in BOOLEAN /\ inComment \in BOOLEAN
  /\ lexer \in Lexer

(***************************************************************************)
(* As long as the lexer accepts the text, the chunker is in a string, in a *)
(* comment and at the depth of parentheses in which the lexer is.  In      *)
(* front of a chunk that depth is zero.                                    *)
(***************************************************************************)
InStep ==
  lexer.mode # "error" =>
    IF cutting
      THEN /\ lexer.balance = depth
           /\ inComment <=> lexer.mode = "comment"
           /\ inString <=> lexer.mode \in {"string", "escape"}
           /\ lexer.mode = "escape" => AtEnd
      ELSE ~AtEnd => /\ lexer.balance = 0
                     /\ lexer.mode = IF inComment THEN "comment" ELSE "text"

LockstepInv == LexerTyped /\ InStep

\* What the lexer does with one character, field by field.
LEMMA ReadIs ==
  ASSUME NEW lx \in Lexer, NEW c \in Char
  PROVE  /\ Read(lx, c) \in Lexer
         /\ lx.mode = "error" => Read(lx, c).mode = "error"
         /\ Read(lx, c).balance =
              IF lx.mode = "text" /\ c = "open" THEN lx.balance + 1
              ELSE IF lx.mode = "text" /\ c = "close" THEN lx.balance - 1
              ELSE lx.balance
         /\ lx.mode = "text" =>
              Read(lx, c).mode = IF c = "quote" THEN "string"
                                 ELSE IF c = "percent" THEN "comment"
                                 ELSE IF c = "backslash" THEN "error" ELSE "text"
         /\ lx.mode = "string" =>
              Read(lx, c).mode = IF c = "quote" THEN "text"
                                 ELSE IF c = "backslash" THEN "escape"
                                 ELSE IF c \in {"newline", "return"} THEN "error"
                                 ELSE "string"
         /\ lx.mode = "escape" =>
              Read(lx, c).mode = IF c = "newline" THEN "error" ELSE "string"
         /\ lx.mode = "comment" =>
              Read(lx, c).mode = IF c = "newline" THEN "text" ELSE "comment"
<1>1. lx.mode \in Mode /\ lx.balance \in Int /\ lx = [mode |-> lx.mode, balance |-> lx.balance]
  BY DEF Lexer
<1>2. CASE lx.mode = "text"
  <2>1. Read(lx, c) = ReadText(lx, c) BY <1>2 DEF Read
  <2> QED BY <1>1, <1>2, <2>1 DEF ReadText, InMode, Lexer, Mode
<1>3. CASE lx.mode = "string"
  <2>1. Read(lx, c) = ReadString(lx, c) BY <1>3 DEF Read
  <2> QED BY <1>1, <1>3, <2>1 DEF ReadString, InMode, Lexer, Mode
<1>4. CASE lx.mode = "escape"
  BY <1>1, <1>4 DEF Read, InMode, Lexer, Mode
<1>5. CASE lx.mode = "comment"
  BY <1>1, <1>5 DEF Read, InMode, Lexer, Mode
<1>6. CASE lx.mode = "error"
  BY <1>1, <1>6 DEF Read, InMode, Lexer, Mode
<1> QED BY <1>1, <1>2, <1>3, <1>4, <1>5, <1>6 DEF Mode

\* The character that is read, and the lexer behind it.
LEMMA NextCharacter ==
  ASSUME LexerTyped, ~AtEnd
  PROVE  /\ ch \in Char
         /\ index + 1 \in Nat \ {0}
         /\ Read(lexer, ch) \in Lexer
<1>1. index \in 1..Len(source) BY DEF LexerTyped, AtEnd
<1>2. ch \in Char BY <1>1 DEF LexerTyped, ch
<1>3. Read(lexer, ch) \in Lexer BY <1>2, ReadIs DEF LexerTyped
<1> QED BY <1>1, <1>2, <1>3

LEMMA LockstepInit == Init => LockstepInv
<1> SUFFICES ASSUME Init PROVE LockstepInv OBVIOUS
<1>1. source \in Seq(Char) /\ index = 1 /\ depth = 0 /\ ~cutting /\ ~inString /\ ~inComment
  BY ChunkerAssumption DEF Init
<1>2. cutting \in BOOLEAN /\ inString \in BOOLEAN /\ inComment \in BOOLEAN
  BY Zenon DEF Init
<1>3. lexer \in Lexer /\ lexer.mode = "text" /\ lexer.balance = 0
  BY DEF Init, Lexer, Mode
<1>4. LexerTyped BY <1>1, <1>2, <1>3 DEF LexerTyped
<1>5. InStep BY <1>1, <1>3 DEF InStep
<1> QED BY <1>4, <1>5 DEF LockstepInv

LEMMA SkipTriviaKeeps ==
  ASSUME LockstepInv, SkipTrivia
  PROVE  LockstepInv'
<1>1. /\ ~AtEnd /\ ~cutting /\ ~cutting'
      /\ inComment \/ IsSpace(ch) \/ ch = "percent"
      /\ inComment' = (ch # "newline" /\ (inComment \/ ch = "percent"))
      /\ index' = index + 1 /\ lexer' = Read(lexer, ch)
      /\ UNCHANGED <<source, depth, cutting, inString>>
  BY DEF SkipTrivia, Skipping, Step, Advance
<1>2. LexerTyped' BY <1>1, NextCharacter DEF LockstepInv, LexerTyped
<1>3. InStep'
  <2>1. ch \in Char /\ lexer \in Lexer BY <1>1, NextCharacter DEF LockstepInv, LexerTyped
  <2>2. CASE lexer.mode = "error"
    BY <1>1, <2>1, <2>2, ReadIs DEF InStep
  <2>3. CASE lexer.mode # "error"
    <3>1. lexer.balance = 0 /\ lexer.mode = IF inComment THEN "comment" ELSE "text"
      BY <1>1, <2>3 DEF LockstepInv, InStep
    <3>2. CASE inComment
      BY <1>1, <2>1, <3>1, <3>2, ReadIs DEF InStep, IsSpace
    <3>3. CASE ~inComment
      BY <1>1, <2>1, <3>1, <3>3, ReadIs DEF InStep, IsSpace
    <3> QED BY <3>2, <3>3
  <2> QED BY <2>2, <2>3
<1> QED BY <1>2, <1>3 DEF LockstepInv

LEMMA BeginKeeps ==
  ASSUME LockstepInv, Begin
  PROVE  LockstepInv'
<1>1. /\ ~AtEnd /\ ~cutting /\ ~inComment
      /\ cutting' /\ depth' = 0 /\ ~inString' /\ ~inComment'
      /\ UNCHANGED <<source, index, lexer>>
  BY DEF Begin, Skipping
<1>2. cutting' \in BOOLEAN /\ inString' \in BOOLEAN /\ inComment' \in BOOLEAN
  BY Zenon DEF Begin
<1>3. LexerTyped' BY <1>1, <1>2 DEF LockstepInv, LexerTyped
<1>4. InStep' BY <1>1 DEF LockstepInv, InStep
<1> QED BY <1>3, <1>4 DEF LockstepInv

\* A chunk that goes on: what its three loops over the characters share.
LEMMA ScanKeeps ==
  ASSUME LockstepInv, ScanText \/ ScanComment \/ ScanString, cutting'
  PROVE  LockstepInv'
<1>1. /\ ~AtEnd /\ cutting /\ UNCHANGED source
  BY DEF ScanText, ScanComment, ScanString, Scanning, Step, Cut
<1>2. ch \in Char /\ lexer \in Lexer /\ depth \in Int /\ index \in 1..Len(source)
  BY <1>1, NextCharacter DEF LockstepInv, LexerTyped, AtEnd
<1>3. lexer.mode # "error" =>
        /\ lexer.balance = depth
        /\ inComment <=> lexer.mode = "comment"
        /\ inString <=> lexer.mode = "string"
        /\ lexer.mode # "escape"
  BY <1>1 DEF LockstepInv, InStep
<1>4. lexer.balance \in Int /\ lexer.mode \in Mode BY <1>2 DEF Lexer
<1>5. CASE ScanText
  <2>1. /\ ~inComment /\ ~inString
        /\ inComment' = (ch = "percent") /\ inString' = (ch = "quote")
        /\ depth' = IF ch = "open" THEN depth + 1
                    ELSE IF ch = "close" THEN depth - 1 ELSE depth
        /\ index' = index + 1 /\ lexer' = Read(lexer, ch)
        /\ UNCHANGED cutting
    BY <1>5 DEF ScanText, Step, Advance
  <2>2. LexerTyped' BY <1>1, <1>2, <2>1, NextCharacter DEF LockstepInv, LexerTyped
  <2>3. lexer.mode # "error" => lexer.mode = "text" BY <1>3, <1>4, <2>1 DEF Mode
  <2>4. CASE lexer.mode = "error"
    <3>1. lexer'.mode = "error" BY <1>2, <2>1, <2>4, ReadIs
    <3> QED BY <2>2, <3>1 DEF LockstepInv, InStep
  <2>5. CASE lexer.mode # "error"
    <3>1. /\ lexer'.balance = depth'
          /\ lexer'.mode = IF ch = "quote" THEN "string"
                            ELSE IF ch = "percent" THEN "comment"
                            ELSE IF ch = "backslash" THEN "error" ELSE "text"
      BY <1>2, <1>3, <2>1, <2>3, <2>5, ReadIs
    <3>2. InStep' BY <1>1, <2>1, <3>1 DEF InStep
    <3> QED BY <2>2, <3>2 DEF LockstepInv
  <2> QED BY <2>4, <2>5
<1>6. CASE ScanComment
  <2>1. /\ inComment /\ inComment' = (ch # "newline")
        /\ index' = index + 1 /\ lexer' = Read(lexer, ch)
        /\ UNCHANGED <<cutting, depth, inString>>
    BY <1>1, <1>6 DEF ScanComment, Step, Advance, Cut
  <2>2. LexerTyped' BY <1>1, <1>2, <2>1, NextCharacter DEF LockstepInv, LexerTyped
  <2>3. InStep' BY <1>1, <1>2, <1>3, <1>4, <2>1, ReadIs DEF InStep
  <2> QED BY <2>2, <2>3 DEF LockstepInv
<1>7. CASE ScanString /\ ~(ch = "backslash" /\ index < Len(source))
  <2>1. /\ ~inComment /\ inString /\ inString' = (ch # "quote")
        /\ index' = index + 1 /\ lexer' = Read(lexer, ch)
        /\ UNCHANGED <<cutting, depth, inComment>>
    BY <1>7 DEF ScanString, Step, Advance
  <2>2. LexerTyped' BY <1>1, <1>2, <2>1, NextCharacter DEF LockstepInv, LexerTyped
  <2>3. ch = "backslash" => AtEnd'
    BY <1>1, <1>2, <1>7, <2>1 DEF AtEnd
  <2>4. CASE lexer.mode = "error"
    <3>1. lexer'.mode = "error" BY <1>2, <2>1, <2>4, ReadIs
    <3> QED BY <2>2, <3>1 DEF LockstepInv, InStep
  <2>5. CASE lexer.mode # "error"
    <3>1. /\ lexer'.balance = depth'
          /\ lexer'.mode = IF ch = "quote" THEN "text"
                            ELSE IF ch = "backslash" THEN "escape"
                            ELSE IF ch \in {"newline", "return"} THEN "error" ELSE "string"
      BY <1>2, <1>3, <2>1, <2>5, ReadIs
    <3>2. InStep' BY <1>1, <2>1, <2>3, <3>1 DEF InStep
    <3> QED BY <2>2, <3>2 DEF LockstepInv
  <2> QED BY <2>4, <2>5
<1>8. CASE ScanString /\ ch = "backslash" /\ index < Len(source)
  <2> DEFINE c == source[index + 1]
             escape == Read(lexer, ch)
  <2>1. /\ ~inComment /\ inString /\ index' = index + 2 /\ lexer' = Read(escape, c)
        /\ UNCHANGED <<cutting, depth, inComment, inString>>
    BY <1>8 DEF ScanString
  <2>2. c \in Char BY <1>2, <1>8 DEF LockstepInv, LexerTyped
  <2>3. escape \in Lexer BY <1>1, NextCharacter DEF LockstepInv
  <2>4. lexer.mode # "error" => escape.mode = "escape" /\ escape.balance = depth
    BY <1>2, <1>3, <1>8, <2>1, ReadIs
  <2>5. lexer.mode = "error" => escape.mode = "error"
    BY <1>2, ReadIs
  <2> HIDE DEF c, escape
  <2>6. Read(escape, c) \in Lexer BY <2>2, <2>3, ReadIs
  <2>7. LexerTyped' BY <1>1, <1>2, <2>1, <2>6 DEF LockstepInv, LexerTyped
  <2>8. lexer.mode = "error" => lexer'.mode = "error"
    BY <2>1, <2>2, <2>3, <2>5, ReadIs
  <2>9. lexer.mode # "error" => lexer'.mode \in {"error", "string"} /\ lexer'.balance = depth
    BY <2>1, <2>2, <2>3, <2>4, ReadIs
  <2>10. InStep' BY <1>1, <1>3, <2>1, <2>8, <2>9 DEF InStep
  <2> QED BY <2>7, <2>10 DEF LockstepInv
<1> QED BY <1>5, <1>6, <1>7, <1>8

\* Where a chunk is cut off, the lexer reads text outside parentheses.
LEMMA CutInText ==
  ASSUME LockstepInv, Scanning, depth = 0, ~inString,
         \/ inComment /\ ch = "newline"
         \/ ~inComment /\ ch \in {"newline", "dot"},
         lexer.mode # "error"
  PROVE  Read(lexer, ch) = [mode |-> "text", balance |-> 0]
<1>1. ch \in Char /\ lexer \in Lexer /\ Read(lexer, ch) \in Lexer
  BY NextCharacter DEF LockstepInv, LexerTyped, Scanning
<1>2. /\ lexer.balance = 0
      /\ lexer.mode = IF inComment THEN "comment" ELSE "text"
  BY <1>1 DEF LockstepInv, LexerTyped, InStep, Scanning, Lexer, Mode
<1>3. Read(lexer, ch).mode = "text" /\ Read(lexer, ch).balance = 0
  BY <1>1, <1>2, ReadIs
<1> QED BY <1>1, <1>3 DEF Lexer

LEMMA CutKeeps ==
  ASSUME LockstepInv, Scanning, NEW needsDot, Cut(needsDot),
         lexer.mode # "error" =>
           /\ depth = 0 /\ ~inString
           /\ \/ inComment /\ ch = "newline"
              \/ ~inComment /\ ch \in {"newline", "dot"}
  PROVE  LockstepInv'
<1>1. /\ cutting /\ ~AtEnd /\ ~cutting' /\ ~inComment'
      /\ index' = index + 1 /\ lexer' = Read(lexer, ch)
      /\ UNCHANGED <<source, depth, inString>>
  BY DEF Cut, Advance, Scanning
<1>2. cutting' \in BOOLEAN /\ inComment' \in BOOLEAN BY Zenon DEF Cut
<1>3. LexerTyped' BY <1>1, <1>2, NextCharacter DEF LockstepInv, LexerTyped
<1>4. CASE lexer.mode = "error"
  <2>1. lexer'.mode = "error"
    BY <1>1, <1>4, NextCharacter, ReadIs DEF LockstepInv, LexerTyped
  <2> QED BY <1>3, <2>1 DEF LockstepInv, InStep
<1>5. CASE lexer.mode # "error"
  <2>1. lexer'.mode = "text" /\ lexer'.balance = 0 BY <1>1, <1>5, CutInText
  <2> QED BY <1>1, <1>3, <2>1 DEF LockstepInv, InStep
<1> QED BY <1>4, <1>5

LEMMA FinishKeeps ==
  ASSUME LockstepInv, Finish
  PROVE  LockstepInv'
<1>1. AtEnd' /\ ~cutting' /\ UNCHANGED <<source, index, depth, inString, inComment, lexer>>
  BY DEF Finish, AtEnd
<1>2. cutting' \in BOOLEAN BY Zenon DEF Finish
<1>3. LexerTyped' BY <1>1, <1>2 DEF LockstepInv, LexerTyped
<1> QED BY <1>1, <1>3 DEF LockstepInv, InStep

\* A chunk ends in a comment at a newline, or in text, and outside strings.
LEMMA WhereCut ==
  ASSUME LockstepInv, ScanComment \/ ScanString \/ ScanTerminator \/ ScanText, ~cutting',
         lexer.mode # "error"
  PROVE  /\ depth = 0 /\ ~inString
         /\ \/ inComment /\ ch = "newline"
            \/ ~inComment /\ ch \in {"newline", "dot"}
         /\ Cut(ch = "newline")
<1>1. cutting /\ Scanning BY DEF ScanComment, ScanString, ScanTerminator, ScanText, Scanning
<1>2. ~ScanString /\ ~ScanText BY <1>1 DEF ScanString, ScanText, Step
<1>3. CASE ScanComment
  <2>1. inComment /\ ch = "newline" /\ depth = 0 /\ Cut(TRUE)
    BY <1>1, <1>3 DEF ScanComment, Step
  <2>2. ~inString BY <1>1, <2>1 DEF LockstepInv, InStep
  <2>3. (ch = "newline") = TRUE BY <2>1
  <2> QED BY <2>1, <2>2, <2>3
<1>4. CASE ScanTerminator
  <2>1. ~inComment /\ ~inString /\ depth = 0 /\ ch \in {"newline", "dot"}
    BY <1>4 DEF ScanTerminator
  <2>2. CASE ch = "newline"
    <3>1. Cut(TRUE) BY <1>4, <2>2 DEF ScanTerminator
    <3>2. (ch = "newline") = TRUE BY <2>2
    <3> QED BY <2>1, <3>1, <3>2
  <2>3. CASE ch = "dot"
    <3>1. Cut(FALSE) BY <1>4, <2>3 DEF ScanTerminator
    <3>2. (ch = "newline") = FALSE BY <2>3
    <3> QED BY <2>1, <3>1, <3>2
  <2> QED BY <2>1, <2>2, <2>3
<1> QED BY <1>2, <1>3, <1>4

LEMMA ScanStep ==
  ASSUME LockstepInv, ScanComment \/ ScanString \/ ScanTerminator \/ ScanText
  PROVE  LockstepInv'
<1>1. CASE cutting'
  <2>1. ~ScanTerminator BY <1>1 DEF ScanTerminator, Cut
  <2> QED BY <1>1, <2>1, ScanKeeps
<1>2. CASE ~cutting'
  <2>1. Scanning BY DEF ScanComment, ScanString, ScanTerminator, ScanText
  <2>2. ~ScanString /\ ~ScanText BY <1>2, <2>1 DEF ScanString, ScanText, Step, Scanning
  <2>3. Cut(TRUE) \/ Cut(FALSE)
    BY <1>2, <2>1, <2>2 DEF ScanComment, ScanTerminator, Step, Scanning
  <2> QED BY <1>2, <2>1, <2>3, CutKeeps, WhereCut
<1> QED BY <1>1, <1>2

LEMMA LockstepNext ==
  ASSUME LockstepInv, [Next]_vars
  PROVE  LockstepInv'
<1>1. CASE Next BY <1>1, SkipTriviaKeeps, BeginKeeps, ScanStep, FinishKeeps DEF Next
<1>2. CASE UNCHANGED vars
  BY <1>2 DEF vars, LockstepInv, LexerTyped, InStep, AtEnd
<1> QED BY <1>1, <1>2

THEOREM Lockstep == Spec => []LockstepInv
<1>1. Init => LockstepInv BY LockstepInit
<1>2. LockstepInv /\ [Next]_vars => LockstepInv' BY LockstepNext
<1> QED BY <1>1, <1>2, PTL DEF Spec

-----------------------------------------------------------------------------
(***************************************************************************)
(* The chunks in the text.                                                 *)
(***************************************************************************)
Chunk == [first : Nat, last : Nat, needsDot : BOOLEAN]

Rest == Behind(Len(chunks))

\* The character at b belongs to a comment that begins at a or later.
Commented(a, b) ==
  \E j \in a..b : source[j] = "percent" /\ \A k \in j..b : source[k] # "newline"

ChunkedInv ==
  /\ start \in Nat /\ chunks \in Seq(Chunk)
  /\ index <= Len(source) + 1
  /\ cutting => start <= index /\ start <= Len(source) /\ ~IsTrivia(source, start, start)
  /\ ~cutting => Rest <= index
  /\ ~cutting /\ inComment /\ ~AtEnd => Commented(Rest, index - 1)
  /\ NothingLost

\* One more character of trivia.
LEMMA TriviaGrows ==
  ASSUME NEW a \in Nat, NEW b \in Nat, IsTrivia(source, a, b - 1),
         IsSpace(source[b]) \/ Commented(a, b)
  PROVE  IsTrivia(source, a, b)
BY DEF IsTrivia, Commented

\* A character that begins a chunk.
LEMMA NoTrivia ==
  ASSUME NEW i \in Nat, ~IsSpace(source[i]), source[i] # "percent"
  PROVE  ~IsTrivia(source, i, i)
BY DEF IsTrivia

LEMMA BehindIsNat ==
  ASSUME chunks \in Seq(Chunk), NEW i \in 0..Len(chunks)
  PROVE  Behind(i) \in Nat
<1>1. CASE i = 0 BY <1>1 DEF Behind
<1>2. CASE i # 0
  <2>1. chunks[i] \in Chunk BY <1>2
  <2> QED BY <1>2, <2>1 DEF Behind, Chunk
<1> QED BY <1>1, <1>2

\* A step that leaves the chunks alone.
LEMMA SameChunks ==
  ASSUME ChunksFollow, UNCHANGED <<source, chunks>>
  PROVE  ChunksFollow'
BY DEF ChunksFollow, IsTrivia, Behind

\* The chunk that begins at start ends at b.
LEMMA ChunkAdded ==
  ASSUME LockstepInv, ChunkedInv, cutting, NEW b \in Nat, start <= b, NEW needsDot \in BOOLEAN,
         chunks' = Append(chunks, [first |-> start, last |-> b, needsDot |-> needsDot]),
         UNCHANGED source
  PROVE  /\ chunks' \in Seq(Chunk)
         /\ ChunksFollow'
         /\ Rest' = b + 1
<1> DEFINE c == [first |-> start, last |-> b, needsDot |-> needsDot]
<1>1. c \in Chunk /\ c.first = start /\ c.last = b BY DEF ChunkedInv, Chunk
<1>2. chunks \in Seq(Chunk) BY DEF ChunkedInv
<1> HIDE DEF c
<1>3. /\ chunks' \in Seq(Chunk) /\ Len(chunks') = Len(chunks) + 1
      /\ chunks'[Len(chunks) + 1] = c
      /\ \A i \in 1..Len(chunks) : chunks'[i] = chunks[i]
  <2>1. chunks' = Append(chunks, c) BY DEF c
  <2> QED BY <1>1, <1>2, <2>1
<1>4. Rest' = b + 1 BY <1>1, <1>2, <1>3 DEF Rest, Behind
<1>5. \A i \in 0..Len(chunks) : Behind(i)' = Behind(i)
  BY <1>2, <1>3 DEF Behind
<1>6. ChunksFollow'
  <2> SUFFICES ASSUME NEW i \in 1..Len(chunks')
      PROVE  (/\ chunks[i].first <= chunks[i].last
              /\ ~IsTrivia(source, chunks[i].first, chunks[i].first)
              /\ IsTrivia(source, Behind(i - 1), chunks[i].first - 1))'
    BY DEF ChunksFollow
  <2>1. CASE i \in 1..Len(chunks)
    <3>1. chunks'[i] = chunks[i] /\ Behind(i - 1)' = Behind(i - 1) BY <1>2, <1>3, <1>5, <2>1
    <3>2. /\ chunks[i].first <= chunks[i].last
          /\ ~IsTrivia(source, chunks[i].first, chunks[i].first)
          /\ IsTrivia(source, Behind(i - 1), chunks[i].first - 1)
      BY <2>1 DEF ChunkedInv, NothingLost, ChunksFollow
    <3> QED BY <3>1, <3>2
  <2>2. CASE i = Len(chunks) + 1
    <3>1. chunks'[i] = c BY <1>3, <2>2
    <3>2. Behind(i - 1)' = Behind(Len(chunks)) BY <1>2, <1>5, <2>2
    <3>3. ~IsTrivia(source, start, start) /\ IsTrivia(source, Behind(Len(chunks)), start - 1)
      BY DEF ChunkedInv, NothingLost
    <3> QED BY <1>1, <3>1, <3>2, <3>3
  <2> QED BY <1>2, <1>3, <2>1, <2>2
<1> QED BY <1>3, <1>4, <1>6

LEMMA ChunkedInit == Init => ChunkedInv
<1> SUFFICES ASSUME Init PROVE ChunkedInv OBVIOUS
<1>1. /\ chunks = <<>> /\ Len(chunks) = 0 /\ start = 0 /\ index = 1
      /\ ~cutting /\ ~inComment /\ source \in Seq(Char)
  BY ChunkerAssumption DEF Init
<1>2. NothingLost BY <1>1 DEF NothingLost, ChunksFollow, Behind, IsTrivia
<1>3. Rest <= index BY <1>1 DEF Rest, Behind
<1> QED BY <1>1, <1>2, <1>3 DEF ChunkedInv

LEMMA SkipTriviaFollows ==
  ASSUME LockstepInv, ChunkedInv, SkipTrivia
  PROVE  ChunkedInv'
<1>1. /\ ~AtEnd /\ ~cutting /\ ~cutting'
      /\ inComment \/ IsSpace(ch) \/ ch = "percent"
      /\ inComment' = (ch # "newline" /\ (inComment \/ ch = "percent"))
      /\ index' = index + 1
      /\ UNCHANGED <<source, start, chunks>>
  BY DEF SkipTrivia, Skipping, Step, Advance
<1>2. index \in Nat /\ index <= Len(source) /\ Len(source) \in Nat
  BY <1>1 DEF LockstepInv, LexerTyped, AtEnd
<1>3. Rest \in Nat /\ chunks \in Seq(Chunk) /\ start \in Nat
  BY BehindIsNat DEF ChunkedInv, Rest
<1>4. ChunksFollow /\ IsTrivia(source, Rest, index - 1)
  BY <1>1 DEF ChunkedInv, NothingLost, Rest
<1>5. Rest <= index BY <1>1 DEF ChunkedInv
<1>6. inComment' => Commented(Rest, index)
  <2>1. CASE inComment /\ ch # "newline"
    <3>1. Commented(Rest, index - 1) BY <1>1, <2>1 DEF ChunkedInv
    <3> QED BY <1>2, <1>3, <2>1, <3>1 DEF Commented, ch
  <2>2. CASE ch = "percent"
    BY <1>2, <1>3, <1>5, <2>2 DEF Commented, ch
  <2> QED BY <1>1, <2>1, <2>2
<1>7. IsSpace(ch) \/ Commented(Rest, index)
  BY <1>1, <1>6 DEF IsSpace
<1>8. IsTrivia(source, Rest, index)
  BY <1>2, <1>3, <1>4, <1>7, TriviaGrows DEF ch
<1>9. Rest' = Rest BY <1>1 DEF Rest, Behind
<1>10. index' - 1 = index BY <1>1, <1>2
<1>11. ChunksFollow' BY <1>1, <1>4, SameChunks
<1>12. NothingLost'
  BY <1>1, <1>8, <1>9, <1>10, <1>11 DEF NothingLost, Rest
<1>13. inComment' => Commented(Rest, index - 1)'
  BY <1>1, <1>6, <1>9, <1>10 DEF Commented
<1>14. Rest' <= index' BY <1>1, <1>2, <1>3, <1>5, <1>9
<1> QED BY <1>1, <1>2, <1>3, <1>12, <1>13, <1>14 DEF ChunkedInv

LEMMA BeginFollows ==
  ASSUME LockstepInv, ChunkedInv, Begin
  PROVE  ChunkedInv'
<1>1. /\ ~AtEnd /\ ~cutting /\ cutting' /\ start' = index
      /\ ~IsSpace(ch) /\ ch # "percent"
      /\ UNCHANGED <<source, index, chunks>>
  BY DEF Begin, Skipping
<1>2. index \in Nat /\ index <= Len(source)
  BY <1>1 DEF LockstepInv, LexerTyped, AtEnd
<1>3. ~IsTrivia(source, index, index) BY <1>1, <1>2, NoTrivia DEF ch
<1>4. ChunksFollow' BY <1>1, SameChunks DEF ChunkedInv, NothingLost
<1>5. IsTrivia(source, Rest, index - 1) BY <1>1 DEF ChunkedInv, NothingLost, Rest
<1>6. Rest' = Rest BY <1>1 DEF Rest, Behind
<1>7. NothingLost' BY <1>1, <1>4, <1>5, <1>6 DEF NothingLost, Rest
<1> QED BY <1>1, <1>2, <1>3, <1>7 DEF ChunkedInv

\* Inside a chunk the text behind the last one does not change.
LEMMA ScanFollows ==
  ASSUME LockstepInv, ChunkedInv, Scanning, cutting',
         index' \in {index + 1, index + 2}, index' <= Len(source) + 1,
         UNCHANGED <<source, start, chunks>>
  PROVE  ChunkedInv'
<1>1. cutting /\ index \in Nat BY DEF Scanning, LockstepInv, LexerTyped
<1>2. ChunksFollow' BY SameChunks DEF ChunkedInv, NothingLost
<1>3. IsTrivia(source, Rest, start - 1) BY <1>1 DEF ChunkedInv, NothingLost, Rest
<1>4. Rest' = Rest BY DEF Rest, Behind
<1>5. NothingLost' BY <1>2, <1>3, <1>4 DEF NothingLost, Rest
<1> QED BY <1>1, <1>5 DEF ChunkedInv

LEMMA CutFollows ==
  ASSUME LockstepInv, ChunkedInv, Scanning, NEW needsDot \in BOOLEAN, Cut(needsDot)
  PROVE  ChunkedInv'
<1>1. /\ cutting /\ ~cutting' /\ ~inComment' /\ index' = index + 1
      /\ chunks' = Append(chunks, [first |-> start, last |-> index, needsDot |-> needsDot])
      /\ UNCHANGED <<source, start>>
  BY DEF Scanning, Cut, Advance
<1>2. index \in Nat /\ index <= Len(source) /\ Len(source) \in Nat
  BY DEF Scanning, LockstepInv, LexerTyped, AtEnd
<1>3. start \in Nat /\ start <= index BY <1>1 DEF ChunkedInv
<1>4. chunks' \in Seq(Chunk) /\ ChunksFollow' /\ Rest' = index + 1
  BY <1>1, <1>2, <1>3, ChunkAdded
<1>5. IsTrivia(source', Rest', index' - 1) BY <1>1, <1>2, <1>4 DEF IsTrivia
<1>6. NothingLost' BY <1>1, <1>4, <1>5 DEF NothingLost, Rest
<1> QED BY <1>1, <1>2, <1>3, <1>4, <1>6 DEF ChunkedInv

LEMMA FinishFollows ==
  ASSUME LockstepInv, ChunkedInv, Finish
  PROVE  ChunkedInv'
<1>1. /\ cutting /\ AtEnd /\ AtEnd' /\ ~cutting'
      /\ chunks' = Append(chunks, [first |-> start, last |-> Len(source), needsDot |-> FALSE])
      /\ UNCHANGED <<source, start, index>>
  BY DEF Finish, AtEnd
<1>2. index \in Nat /\ Len(source) \in Nat /\ index = Len(source) + 1
  <2>1. index \in Nat /\ source \in Seq(Char) BY DEF LockstepInv, LexerTyped
  <2>2. index > Len(source) BY <1>1 DEF AtEnd
  <2>3. index <= Len(source) + 1 BY DEF ChunkedInv
  <2> QED BY <2>1, <2>2, <2>3
<1>3. start \in Nat /\ start <= Len(source) BY <1>1 DEF ChunkedInv
<1>4. chunks' \in Seq(Chunk) /\ ChunksFollow' /\ Rest' = Len(source) + 1
  BY <1>1, <1>2, <1>3, ChunkAdded
<1>5. IsTrivia(source', Rest', index' - 1) BY <1>1, <1>2, <1>4 DEF IsTrivia
<1>6. NothingLost' BY <1>1, <1>4, <1>5 DEF NothingLost, Rest
<1> QED BY <1>1, <1>2, <1>3, <1>4, <1>6 DEF ChunkedInv

LEMMA ChunkedNext ==
  ASSUME LockstepInv, ChunkedInv, [Next]_vars
  PROVE  ChunkedInv'
<1>1. CASE ScanComment \/ ScanString \/ ScanTerminator \/ ScanText
  <2>1. Scanning BY <1>1 DEF ScanComment, ScanString, ScanTerminator, ScanText
  <2>2. CASE \E needsDot \in BOOLEAN : Cut(needsDot) BY <2>1, <2>2, CutFollows
  <2>3. CASE ~\E needsDot \in BOOLEAN : Cut(needsDot)
    <3>1. ~Cut(TRUE) /\ ~Cut(FALSE) BY <2>3
    <3>2. /\ UNCHANGED <<source, cutting, start, chunks>>
          /\ \/ index' = index + 1
             \/ index' = index + 2 /\ index < Len(source)
      BY <1>1, <3>1 DEF ScanComment, ScanString, ScanTerminator, ScanText, Step, Advance
    <3>3. index' \in {index + 1, index + 2} /\ index' <= Len(source) + 1
      BY <2>1, <3>2 DEF Scanning, AtEnd, LockstepInv, LexerTyped
    <3> QED BY <2>1, <3>2, <3>3, ScanFollows DEF Scanning
  <2> QED BY <2>2, <2>3
<1>2. CASE UNCHANGED vars
  <2>1. ChunksFollow' BY <1>2, SameChunks DEF ChunkedInv, NothingLost, vars
  <2>2. Rest' = Rest BY <1>2 DEF vars, Rest, Behind
  <2>3. NothingLost' BY <1>2, <2>1, <2>2 DEF vars, ChunkedInv, NothingLost, Rest
  <2> QED BY <1>2, <2>2, <2>3 DEF vars, ChunkedInv, AtEnd, Commented
<1> QED BY <1>1, <1>2, SkipTriviaFollows, BeginFollows, FinishFollows DEF Next

(***************************************************************************)
(* Every character of a script is in one chunk or is trivia, for texts of  *)
(* any length.                                                             *)
(***************************************************************************)
THEOREM EverythingCut == Spec => []NothingLost
<1>1. Init => ChunkedInv BY ChunkedInit
<1>2. LockstepInv /\ ChunkedInv /\ [Next]_vars => ChunkedInv' BY ChunkedNext
<1>3. ChunkedInv => NothingLost BY DEF ChunkedInv
<1> QED BY <1>1, <1>2, <1>3, Lockstep, PTL DEF Spec

(***************************************************************************)
(* Scripts are cut where the lexer sees the end of a statement, and only   *)
(* there, for texts of any length and any nesting of parentheses.          *)
(***************************************************************************)
THEOREM ChunksFollowLexer == Spec => CutsWithLexer
<1>1. ASSUME LockstepInv, chunks \in Seq(Chunk), Next, Scanning, lexer.mode # "error"
      PROVE  /\ ~cutting' <=> EndsStatement \/ DetachedDot
             /\ ~cutting' => /\ lexer' = [mode |-> "text", balance |-> 0]
                             /\ chunks'[Len(chunks')].needsDot <=> ch = "newline"
  <2>1. ScanComment \/ ScanString \/ ScanTerminator \/ ScanText
    BY <1>1 DEF Next, SkipTrivia, Begin, Skipping, Scanning, Finish
  <2>2. /\ cutting /\ ~AtEnd
        /\ lexer.balance = depth
        /\ inComment <=> lexer.mode = "comment"
        /\ inString <=> lexer.mode = "string"
    BY <1>1 DEF Scanning, LockstepInv, InStep
  <2>3. index \in 1..Len(source) BY <1>1, <2>2 DEF LockstepInv, LexerTyped, AtEnd
  <2>4. lexer.mode \in Mode BY <1>1 DEF LockstepInv, LexerTyped, Lexer
  <2>5. lexer.mode # "escape" BY <1>1 DEF Scanning, LockstepInv, InStep
  <2>6. DotStartsAttributeAccess <=> /\ IsAttributeDot(index) /\ index # 1
                                     /\ \/ IsIdentifierChar(source[index - 1])
                                        \/ source[index - 1] = "close"
    BY <2>3 DEF DotStartsAttributeAccess, IsAttributeDot
  <2>7. CASE ~cutting'
    <3>1. /\ depth = 0 /\ ~inString
          /\ \/ inComment /\ ch = "newline"
             \/ ~inComment /\ ch \in {"newline", "dot"}
          /\ Cut(ch = "newline")
      BY <1>1, <2>1, <2>7, WhereCut
    <3>2. lexer' = [mode |-> "text", balance |-> 0]
      BY <1>1, <3>1, CutInText DEF Cut, Advance
    <3>3. chunks'[Len(chunks')].needsDot = (ch = "newline")
      <4> DEFINE c == [first |-> start, last |-> index, needsDot |-> ch = "newline"]
      <4>1. chunks' = Append(chunks, c) BY <3>1 DEF Cut
      <4>2. c.needsDot = (ch = "newline") BY Zenon
      <4> HIDE DEF c
      <4>3. chunks'[Len(chunks')] = c BY <1>1, <4>1
      <4> QED BY <4>2, <4>3
    <3>4. ch = "dot" => ~DotStartsAttributeAccess
      BY <2>1, <2>2, <2>7, <3>1 DEF ScanComment, ScanString, ScanTerminator, ScanText, Step
    <3>5. EndsStatement \/ DetachedDot
      <4>1. lexer.balance = 0 /\ lexer.mode = IF inComment THEN "comment" ELSE "text"
        <5>1. lexer.balance = 0 BY <2>2, <3>1
        <5>2. lexer.mode # "string" BY <2>2, <3>1
        <5>3. lexer.mode \in {"text", "comment"} BY <1>1, <2>4, <2>5, <5>2 DEF Mode
        <5> QED BY <2>2, <5>1, <5>3
      <4>2. CASE ch = "newline"
        BY <4>1, <4>2 DEF EndsStatement
      <4>3. CASE ch = "dot"
        <5>1. ~inComment BY <3>1, <4>3
        <5> QED BY <2>6, <3>4, <4>1, <4>3, <5>1 DEF EndsStatement, DetachedDot
      <4> QED BY <3>1, <4>2, <4>3
    <3> QED BY <2>7, <3>2, <3>3, <3>5
  <2>8. CASE cutting'
    <3>1. SUFFICES ASSUME EndsStatement \/ DetachedDot PROVE FALSE BY <2>8
    <3>2. /\ depth = 0 /\ lexer.mode \in {"text", "comment"}
          /\ ch = "newline" \/ (ch = "dot" /\ lexer.mode = "text")
          /\ ch = "dot" => ~DotStartsAttributeAccess
      BY <2>2, <2>6, <3>1 DEF EndsStatement, DetachedDot
    <3>3. ~inString BY <2>2, <3>2
    <3>4. ~ScanTerminator BY <2>8 DEF ScanTerminator, Cut
    <3>5. ScanComment
      BY <2>1, <3>2, <3>3, <3>4 DEF ScanString, ScanText
    <3> QED BY <2>2, <2>8, <3>2, <3>5 DEF ScanComment, Cut
  <2> QED BY <2>7, <2>8
<1>2. ChunkedInv => chunks \in Seq(Chunk) BY DEF ChunkedInv
<1>3. LockstepInv /\ ChunkedInv /\ Next =>
        (Scanning /\ lexer.mode # "error" =>
           /\ ~cutting' <=> EndsStatement \/ DetachedDot
           /\ ~cutting' => /\ lexer' = [mode |-> "text", balance |-> 0]
                           /\ chunks'[Len(chunks')].needsDot <=> ch = "newline")
  BY <1>1, <1>2
<1>4. Init => ChunkedInv BY ChunkedInit
<1>5. LockstepInv /\ ChunkedInv /\ [Next]_vars => ChunkedInv' BY ChunkedNext
<1> QED BY <1>3, <1>4, <1>5, Lockstep, PTL DEF Spec, CutsWithLexer

=============================================================================
