------------------------- MODULE EnactSessionProofs --------------------------
(***************************************************************************)
(* Theorems about the session, for all files, inputs and nestings: bye is  *)
(* final, a failure reaches the user before anything else happens, and a   *)
(* session that ends has printed what its text says.  The first two rest   *)
(* on what SessionInv says of the flags: a session that leaves has no      *)
(* failure under way, and a failure always has a script to end.  The third *)
(* rests on AsWritten: what has been printed, followed by what the chunks  *)
(* left in all scripts in progress stand for, is always what the text of   *)
(* the input stands for.                                                   *)
(***************************************************************************)
EXTENDS EnactSession, EnactListsProofs

Scripts == [chunks : Seq(Chunks), next : Nat \ {0}, allowRedundantDot : BOOLEAN]

SetupOK ==
  /\ terminal \in BOOLEAN
  /\ files \in [File -> {Missing} \cup Seq(Chunks)]
  /\ input \in Seq(Seq(Chunks))

Types ==
  /\ taken \in 0..Len(input)
  /\ scripts \in Seq(Scripts)
  /\ leaving \in BOOLEAN /\ failed \in BOOLEAN /\ ended \in BOOLEAN
  /\ status \in {0, 1}
  /\ printed \in Seq({"result", "diagnostic"})

\* Every script is within its text, and the loading ones are at a chunk.
WithinTexts ==
  /\ \A i \in 1..Len(scripts) : scripts[i].next <= Len(scripts[i].chunks) + 1
  /\ \A i \in 1..(Len(scripts) - 1) : scripts[i].next <= Len(scripts[i].chunks)

Flags ==
  /\ failed => ~leaving /\ scripts # <<>>
  /\ ended => scripts = <<>>

SessionInv == SetupOK /\ Types /\ WithinTexts /\ Flags

-----------------------------------------------------------------------------
LEMMA ChunkFields ==
  \A c \in Chunks : c.newline \in BOOLEAN
<1> TAKE c \in Chunks
<1>1. CASE c \in {Chunk(kind, newline) : kind \in {"expression", "error", "bye", "ask"}, newline \in BOOLEAN}
  BY <1>1 DEF Chunk
<1>2. CASE c = Chunk("dot", FALSE)
  BY <1>2 DEF Chunk
<1>3. CASE c \in {Load(f, newline) : f \in File, newline \in BOOLEAN}
  BY <1>3 DEF Load
<1> QED
  BY <1>1, <1>2, <1>3 DEF Chunks, Chunk, Load

LEMMA LoadsFile ==
  \A c \in Chunks : c.kind = "load" => c.file \in File
BY DEF Chunks, Chunk, Load

\* The innermost script and the chunk it is at.
LEMMA TopTypes ==
  ASSUME SessionInv, scripts # <<>>
  PROVE  /\ Len(scripts) \in Nat \ {0} /\ Len(scripts) \in 1..Len(scripts)
         /\ Top \in Scripts /\ Top.next <= Len(Top.chunks) + 1
         /\ Top.next <= Len(Top.chunks) => Chunk1 \in Chunks /\ Chunk1.newline \in BOOLEAN
<1>1. scripts \in Seq(Scripts)
  BY DEF SessionInv, Types
<1>2. Len(scripts) \in Nat \ {0} /\ Len(scripts) \in 1..Len(scripts)
  BY <1>1
<1>3. Top \in Scripts /\ Top.next <= Len(Top.chunks) + 1
  BY <1>1, <1>2 DEF Top, SessionInv, WithinTexts
<1>4. Top.next <= Len(Top.chunks) => Chunk1 \in Chunks
  BY <1>3 DEF Scripts, Chunk1
<1> QED
  BY <1>2, <1>3, <1>4, ChunkFields

\* Going on within a script.
LEMMA AdvancedTypes ==
  ASSUME NEW s \in Scripts, s.next <= Len(s.chunks), NEW flag \in BOOLEAN
  PROVE  /\ Advanced(s, flag) \in Scripts
         /\ Advanced(s, flag).next <= Len(Advanced(s, flag).chunks) + 1
<1>1. s.chunks \in Seq(Chunks) /\ s.next \in Nat \ {0} /\ Len(s.chunks) \in Nat
  BY DEF Scripts
<1> QED
  BY <1>1 DEF Scripts, Advanced

\* The innermost script may go on anywhere in its text.
LEMMA InTopKeeps ==
  ASSUME SessionInv, scripts # <<>>,
         NEW s \in Scripts, s.next <= Len(s.chunks) + 1, scripts' = InTop(s)
  PROVE  /\ scripts' \in Seq(Scripts) /\ scripts' # <<>>
         /\ WithinTexts'
<1>1. scripts \in Seq(Scripts) /\ Len(scripts) \in Nat \ {0}
  BY TopTypes DEF SessionInv, Types
<1>2. /\ scripts' \in Seq(Scripts) /\ Len(scripts') = Len(scripts)
      /\ \A i \in 1..Len(scripts) : scripts'[i] = IF i = Len(scripts) THEN s ELSE scripts[i]
  BY <1>1 DEF InTop
<1> QED
  BY <1>1, <1>2 DEF SessionInv, WithinTexts

\* A script that starts.
LEMMA StartedTypes ==
  ASSUME NEW s \in Seq(Chunks)
  PROVE  Started(s) \in Scripts /\ Started(s).next <= Len(Started(s).chunks) + 1
BY DEF Started, Scripts

LEMMA FrontTypes ==
  ASSUME SessionInv, scripts # <<>>
  PROVE  /\ Front(scripts) \in Seq(Scripts)
         /\ Len(Front(scripts)) = Len(scripts) - 1
         /\ \A i \in 1..(Len(scripts) - 1) : Front(scripts)[i] = scripts[i]
         /\ Len(scripts) = 1 => Front(scripts) = <<>>
<1>1. scripts \in Seq(Scripts) /\ Len(scripts) \in Nat \ {0}
  BY TopTypes DEF SessionInv, Types
<1> DEFINE n == Len(scripts) - 1
<1>2. n \in Nat /\ \A i \in 1..n : i \in 1..Len(scripts)
  BY <1>1
<1>3. Front(scripts) = SubSeq(scripts, 1, n)
  BY DEF Front
<1> HIDE DEF n
<1>4. /\ SubSeq(scripts, 1, n) \in Seq(Scripts)
      /\ Len(SubSeq(scripts, 1, n)) = n
      /\ \A i \in 1..n : SubSeq(scripts, 1, n)[i] = scripts[i]
  BY <1>1, <1>2
<1>5. n = 0 => SubSeq(scripts, 1, n) = <<>>
  BY <1>4
<1>6. Len(scripts) = 1 => n = 0
  BY DEF n
<1> QED
  BY <1>3, <1>4, <1>5, <1>6 DEF n
-----------------------------------------------------------------------------
LEMMA InitSession == Init => SessionInv
<1> SUFFICES ASSUME Init PROVE SessionInv
  OBVIOUS
<1>1. SetupOK
  BY SessionAssumption DEF Init, SetupOK
<1>2. Len(input) \in Nat
  BY <1>1 DEF SetupOK
<1>3. taken \in 0..Len(input)
  BY <1>2 DEF Init
<1>4. /\ scripts = <<>> /\ printed = <<>> /\ status = 0
      /\ scripts \in Seq(Scripts) /\ printed \in Seq({"result", "diagnostic"})
  BY DEF Init
<1>5. leaving \in BOOLEAN /\ failed \in BOOLEAN /\ ended \in BOOLEAN
  BY Zenon DEF Init
<1>6. Types
  BY <1>3, <1>4, <1>5 DEF Types
<1> QED
  BY <1>1, <1>6 DEF Init, SessionInv, WithinTexts, Flags

LEMMA ReadLineKeeps ==
  ASSUME SessionInv, ReadLine
  PROVE  SessionInv'
<1>1. /\ input \in Seq(Seq(Chunks)) /\ taken \in 0..Len(input) /\ taken < Len(input)
      /\ Len(input) \in Nat
  BY DEF SessionInv, SetupOK, Types, ReadLine, More
<1>2. taken + 1 \in 1..Len(input) /\ input[taken + 1] \in Seq(Chunks)
  BY <1>1
<1> DEFINE s == Started(input[taken + 1])
<1>3. s \in Scripts /\ s.next <= Len(s.chunks) + 1
  BY <1>2, StartedTypes
<1>4. scripts' = <<s>> /\ taken' = taken + 1
  BY DEF ReadLine
<1> HIDE DEF s
<1>5. scripts' \in Seq(Scripts) /\ Len(scripts') = 1 /\ scripts'[1] = s
  BY <1>3, <1>4
<1>6. WithinTexts'
  BY <1>3, <1>5 DEF WithinTexts
<1> QED
  BY <1>1, <1>2, <1>4, <1>5, <1>6
     DEF ReadLine, SessionInv, SetupOK, Types, Flags

\* The innermost script goes on; neither the input nor the flags change.
LEMMA ProgressKeeps ==
  ASSUME SessionInv, AtChunk, NEW flag \in BOOLEAN,
         scripts' = InTop(Advanced(Top, flag)),
         taken' \in 0..Len(input), printed' \in Seq({"result", "diagnostic"}),
         UNCHANGED <<terminal, files, input, leaving, failed, status, ended>>
  PROVE  SessionInv'
<1>1. scripts # <<>> /\ Top.next <= Len(Top.chunks) /\ ~failed
  BY DEF AtChunk
<1>2. Top \in Scripts
  BY <1>1, TopTypes
<1> DEFINE s == Advanced(Top, flag)
<1>3. s \in Scripts /\ s.next <= Len(s.chunks) + 1
  BY <1>1, <1>2, AdvancedTypes
<1> HIDE DEF s
<1>4. scripts' \in Seq(Scripts) /\ scripts' # <<>> /\ WithinTexts'
  BY <1>1, <1>3, InTopKeeps DEF s
<1> QED
  BY <1>1, <1>4 DEF SessionInv, SetupOK, Types, Flags

LEMMA EvalKeeps ==
  ASSUME SessionInv, SkipRedundantDot \/ EvalText \/ EvalAsk
  PROVE  SessionInv'
<1>1. AtChunk
  BY DEF SkipRedundantDot, EvalText, EvalAsk
<1>2. Chunk1.newline \in BOOLEAN
  BY <1>1, TopTypes DEF AtChunk
<1>3. /\ input \in Seq(Seq(Chunks)) /\ Len(input) \in Nat /\ taken \in 0..Len(input)
      /\ printed \in Seq({"result", "diagnostic"})
      /\ Append(printed, "result") \in Seq({"result", "diagnostic"})
  BY DEF SessionInv, SetupOK, Types
<1>4. CASE SkipRedundantDot
  BY <1>1, <1>3, <1>4, ProgressKeeps DEF SkipRedundantDot
<1>5. CASE EvalText
  BY <1>1, <1>2, <1>3, <1>5, ProgressKeeps DEF EvalText, Done
<1>6. CASE EvalAsk
  <2>1. taken' \in 0..Len(input)
    BY <1>3, <1>6 DEF EvalAsk, More
  <2> QED
    BY <1>1, <1>2, <1>3, <1>6, <2>1, ProgressKeeps DEF EvalAsk, Done
<1> QED
  BY <1>4, <1>5, <1>6

LEMMA EvalLoadKeeps ==
  ASSUME SessionInv, EvalLoad
  PROVE  SessionInv'
<1>1. /\ scripts # <<>> /\ Top.next <= Len(Top.chunks) /\ ~failed
      /\ Chunk1.kind = "load" /\ files[Chunk1.file] # Missing
  BY DEF EvalLoad, AtChunk
<1>2. Chunk1 \in Chunks /\ Chunk1.file \in File
  BY <1>1, TopTypes, LoadsFile
<1>3. files[Chunk1.file] \in Seq(Chunks)
  BY <1>1, <1>2 DEF SessionInv, SetupOK
<1> DEFINE s == Started(files[Chunk1.file])
<1>4. s \in Scripts /\ s.next <= Len(s.chunks) + 1
  BY <1>3, StartedTypes
<1>5. scripts' = Append(scripts, s)
  BY DEF EvalLoad
<1> HIDE DEF s
<1>6. scripts \in Seq(Scripts) /\ Len(scripts) \in Nat \ {0}
      /\ Top = scripts[Len(scripts)]
  BY <1>1, TopTypes DEF SessionInv, Types, Top
<1>7. /\ scripts' \in Seq(Scripts) /\ Len(scripts') = Len(scripts) + 1
      /\ \A i \in 1..Len(scripts) : scripts'[i] = scripts[i]
      /\ scripts'[Len(scripts) + 1] = s
  BY <1>4, <1>5, <1>6
<1>8. WithinTexts'
  <2>1. ASSUME NEW i \in 1..Len(scripts') PROVE scripts'[i].next <= Len(scripts'[i].chunks) + 1
    <3>1. CASE i = Len(scripts) + 1
      BY <1>4, <1>7, <3>1
    <3>2. CASE i # Len(scripts) + 1
      <4>1. i \in 1..Len(scripts)
        BY <1>6, <1>7, <3>2
      <4> QED
        BY <1>7, <4>1 DEF SessionInv, WithinTexts
    <3> QED
      BY <3>1, <3>2
  <2>2. ASSUME NEW i \in 1..(Len(scripts') - 1) PROVE scripts'[i].next <= Len(scripts'[i].chunks)
    <3>1. i \in 1..Len(scripts)
      BY <1>6, <1>7
    <3>2. CASE i = Len(scripts)
      BY <1>1, <1>6, <1>7, <3>1, <3>2
    <3>3. CASE i # Len(scripts)
      <4>1. i \in 1..(Len(scripts) - 1)
        BY <1>6, <3>1, <3>3
      <4> QED
        BY <1>7, <3>1, <4>1 DEF SessionInv, WithinTexts
    <3> QED
      BY <3>2, <3>3
  <2> QED
    BY <2>1, <2>2 DEF WithinTexts
<1>9. scripts' # <<>> /\ ~ended
  BY <1>1, <1>6, <1>7 DEF SessionInv, Flags
<1> QED
  BY <1>1, <1>7, <1>8, <1>9 DEF EvalLoad, SessionInv, SetupOK, Types, Flags
LEMMA EvalByeKeeps ==
  ASSUME SessionInv, EvalBye
  PROVE  SessionInv'
<1>1. scripts # <<>> /\ ~failed /\ leaving' = TRUE
  BY DEF EvalBye, AtChunk
<1>2. Top \in Scripts
  BY <1>1, TopTypes
<1> DEFINE s == [Top EXCEPT !.next = Len(Top.chunks) + 1]
<1>3. s \in Scripts /\ s.next <= Len(s.chunks) + 1
  BY <1>2 DEF Scripts
<1>4. scripts' = InTop(s)
  BY DEF EvalBye
<1> HIDE DEF s
<1>5. scripts' \in Seq(Scripts) /\ scripts' # <<>> /\ WithinTexts'
  BY <1>1, <1>3, <1>4, InTopKeeps
<1> QED
  BY <1>1, <1>5 DEF EvalBye, SessionInv, SetupOK, Types, Flags

LEMMA EvalFailsKeeps ==
  ASSUME SessionInv, EvalFails
  PROVE  SessionInv'
BY DEF EvalFails, AtChunk, SessionInv, SetupOK, Types, WithinTexts, Flags

LEMMA EndKeeps ==
  ASSUME SessionInv, End
  PROVE  SessionInv'
BY DEF End, SessionInv, SetupOK, Types, WithinTexts, Flags

\* The script behind the innermost one goes on behind its load command.
LEMMA ScriptEndsKeeps ==
  ASSUME SessionInv, ScriptEnds
  PROVE  SessionInv'
<1> DEFINE n == Len(scripts) - 1
           rest == Front(scripts)
<1>1. scripts # <<>> /\ ~failed
  BY DEF ScriptEnds
<1>2. /\ n \in Nat /\ Len(scripts) = n + 1
      /\ rest \in Seq(Scripts) /\ Len(rest) = n
      /\ \A i \in 1..n : rest[i] = scripts[i]
  BY <1>1, TopTypes, FrontTypes
<1>3. CASE n = 0
  <2>1. scripts' = <<>>
    BY <1>2, <1>3 DEF ScriptEnds
  <2>2. scripts' \in Seq(Scripts) /\ Len(scripts') = 0
    BY <2>1
  <2>3. WithinTexts'
    BY <2>2 DEF WithinTexts
  <2> QED
    BY <1>1, <2>1, <2>2, <2>3 DEF ScriptEnds, SessionInv, SetupOK, Types, Flags
<1>4. CASE n > 0
  <2> DEFINE loader == rest[n]
             s == Advanced(loader, loader.chunks[loader.next].newline)
  <2>1. n \in 1..n /\ loader \in Scripts /\ loader = scripts[n] /\ loader.next <= Len(loader.chunks)
    BY <1>2, <1>4 DEF SessionInv, WithinTexts
  <2>2. loader.chunks[loader.next] \in Chunks
    BY <2>1 DEF Scripts
  <2>3. s \in Scripts /\ s.next <= Len(s.chunks) + 1
    BY <2>1, <2>2, AdvancedTypes, ChunkFields
  <2>4. scripts' = [rest EXCEPT ![n] = s]
    BY <1>2, <1>4 DEF ScriptEnds, Last
  <2> HIDE DEF s, loader, rest, n
  <2>5. /\ scripts' \in Seq(Scripts) /\ Len(scripts') = n
        /\ \A i \in 1..n : scripts'[i] = IF i = n THEN s ELSE scripts[i]
    BY <1>2, <2>1, <2>3, <2>4
  <2>6. \A i \in 1..(n - 1) : scripts[i].next <= Len(scripts[i].chunks)
    <3>1. \A i \in 1..(Len(scripts) - 1) : scripts[i].next <= Len(scripts[i].chunks)
      BY DEF SessionInv, WithinTexts
    <3>2. \A i \in 1..(n - 1) : i \in 1..(Len(scripts) - 1)
      BY <1>2
    <3> QED
      BY <3>1, <3>2
  <2>7. \A i \in 1..n : scripts[i].next <= Len(scripts[i].chunks) + 1
    <3>1. \A i \in 1..Len(scripts) : scripts[i].next <= Len(scripts[i].chunks) + 1
      BY DEF SessionInv, WithinTexts
    <3>2. \A i \in 1..n : i \in 1..Len(scripts)
      BY <1>2
    <3> QED
      BY <3>1, <3>2
  <2>8. WithinTexts'
    <3>1. \A i \in 1..n : scripts'[i].next <= Len(scripts'[i].chunks) + 1
      BY <2>3, <2>5, <2>7
    <3>2. \A i \in 1..(n - 1) : scripts'[i].next <= Len(scripts'[i].chunks)
      BY <1>2, <2>5, <2>6
    <3> QED
      BY <2>5, <3>1, <3>2 DEF WithinTexts
  <2>9. ~ended
    BY <1>1 DEF SessionInv, Flags
  <2> QED
    BY <1>1, <2>5, <2>8, <2>9 DEF ScriptEnds, SessionInv, SetupOK, Types, Flags
<1> QED
  BY <1>2, <1>3, <1>4

LEMMA ScriptFailsKeeps ==
  ASSUME SessionInv, ScriptFails
  PROVE  SessionInv'
<1> DEFINE n == Len(scripts) - 1
<1>1. failed /\ scripts # <<>> /\ ~leaving /\ ~ended
  BY DEF ScriptFails, SessionInv, Flags
<1>2. /\ n \in Nat /\ Len(scripts) = n + 1
      /\ scripts' \in Seq(Scripts) /\ Len(scripts') = n
      /\ \A i \in 1..n : scripts'[i] = scripts[i]
      /\ n = 0 => scripts' = <<>>
  BY <1>1, TopTypes, FrontTypes DEF ScriptFails
<1>3. \A i \in 1..n : scripts[i].next <= Len(scripts[i].chunks)
  BY <1>2 DEF SessionInv, WithinTexts
<1>4. \A i \in 1..n : scripts[i] \in Scripts
  BY <1>2 DEF SessionInv, Types
<1> HIDE DEF n
<1>5. WithinTexts'
  <2>1. \A i \in 1..n : Len(scripts[i].chunks) \in Nat /\ scripts[i].next \in Nat
    BY <1>4 DEF Scripts
  <2> QED
    BY <1>2, <1>3, <2>1 DEF WithinTexts
<1>6. /\ UNCHANGED <<terminal, files, input, taken, leaving, ended>>
      /\ Len(scripts) = 1 => ~failed' /\ status' = 1 /\ printed' = Append(printed, "diagnostic")
      /\ Len(scripts) # 1 => UNCHANGED <<failed, status, printed>>
  BY Zenon DEF ScriptFails
<1>7. printed' \in Seq({"result", "diagnostic"}) /\ status' \in {0, 1}
  <2>1. printed \in Seq({"result", "diagnostic"}) /\ status \in {0, 1}
    BY DEF SessionInv, Types
  <2>2. CASE Len(scripts) = 1
    <3>1. status' = 1 /\ printed' = Append(printed, "diagnostic")
      BY <1>6, <2>2, Zenon
    <3> QED
      BY <2>1, <3>1
  <2>3. CASE Len(scripts) # 1
    <3>1. status' = status /\ printed' = printed
      BY <1>6, <2>3, Zenon
    <3> QED
      BY <2>1, <3>1
  <2> QED
    BY <2>2, <2>3
<1>8. failed' \in BOOLEAN
  BY Zenon DEF ScriptFails, SessionInv, Types
<1>9. failed' => scripts' # <<>>
  <2>1. CASE n = 0
    BY <1>2, <1>6, <2>1
  <2>2. CASE n # 0
    BY <1>2, <2>2
  <2> QED
    BY <2>1, <2>2
<1>10. Types'
  BY <1>2, <1>6, <1>7, <1>8 DEF SessionInv, Types
<1>11. SetupOK' /\ Flags'
  BY <1>1, <1>6, <1>9 DEF SessionInv, SetupOK, Flags
<1> QED
  BY <1>5, <1>10, <1>11 DEF SessionInv

LEMMA NextSession == SessionInv /\ [Next]_vars => SessionInv'
<1> SUFFICES ASSUME SessionInv, [Next]_vars PROVE SessionInv'
  OBVIOUS
<1>1. CASE Next
  BY <1>1, ReadLineKeeps, EvalKeeps, EvalLoadKeeps, EvalByeKeeps, EvalFailsKeeps,
     EndKeeps, ScriptEndsKeeps, ScriptFailsKeeps DEF Next
<1>2. CASE UNCHANGED vars
  BY <1>2 DEF vars, SessionInv, SetupOK, Types, WithinTexts, Flags
<1> QED
  BY <1>1, <1>2

(***************************************************************************)
(* The invariant of a session, for all files, inputs and bounds: scripts   *)
(* stay within their text, the ones that load others are each at their     *)
(* load command, no failure is under way in a session that leaves.         *)
(***************************************************************************)
THEOREM SessionInvariant == Spec => []SessionInv
BY InitSession, NextSession, PTL DEF Spec

(***************************************************************************)
(* After bye nothing is evaluated, printed, read or reported, in however   *)
(* deeply nested a script it was executed (api.c, exit_requested).         *)
(***************************************************************************)
THEOREM ByeEndsAll == Spec => ByeIsFinal
<1>1. ASSUME SessionInv, Next, leaving
      PROVE  leaving' /\ UNCHANGED <<printed, taken, status>>
  <2>1. ~failed
    BY <1>1 DEF SessionInv, Flags
  <2> QED
    BY <1>1, <2>1 DEF Next, ReadLine, End, SkipRedundantDot, EvalText, EvalFails, EvalAsk,
                      EvalLoad, EvalBye, ScriptEnds, ScriptFails, AtChunk
<1>2. SessionInv /\ [Next]_vars =>
        [leaving => leaving' /\ UNCHANGED <<printed, taken, status>>]_vars
  BY <1>1
<1> QED
  BY <1>2, SessionInvariant, PTL DEF Spec, ByeIsFinal

(***************************************************************************)
(* A failure reaches the user before anything else is read or evaluated,   *)
(* takes every script in progress with it and is in the exit status until  *)
(* the session is over.                                                    *)
(***************************************************************************)
THEOREM FailuresReported == Spec => FailureReported
<1> DEFINE Reports == /\ scripts' = <<>> /\ status' = 1
                      /\ printed' = Append(printed, "diagnostic")
           Waits == failed' /\ ~ended' /\ UNCHANGED <<printed, taken, status>>
<1>1. ASSUME SessionInv, Next, failed
      PROVE  Waits \/ Reports
  <2>1. scripts # <<>> /\ ~ended /\ ScriptFails
    BY <1>1 DEF SessionInv, Flags, Next, ReadLine, End, SkipRedundantDot, EvalText,
                EvalFails, EvalAsk, EvalLoad, EvalBye, ScriptEnds, AtChunk
  <2>2. Len(scripts) = 1 => Front(scripts) = <<>>
    BY <1>1, <2>1, FrontTypes
  <2> QED
    BY <1>1, <2>1, <2>2 DEF ScriptFails
<1>2. ASSUME Next, status = 1
      PROVE  status' = 1
  BY <1>2 DEF Next, ReadLine, End, SkipRedundantDot, EvalText, EvalFails, EvalAsk,
              EvalLoad, EvalBye, ScriptEnds, ScriptFails
<1>3. SessionInv /\ [Next]_vars =>
        [(failed => Waits \/ Reports) /\ (status = 1 => status' = 1)]_vars
  BY <1>1, <1>2
<1> QED
  BY <1>3, SessionInvariant, PTL DEF Spec, FailureReported

-----------------------------------------------------------------------------
Flattens(f, q) == f = [i \in 1..Len(q) |-> IF i = 1 THEN q[i] ELSE f[i - 1] \o q[i]]

LEMMA Associates ==
  ASSUME NEW S, NEW a \in Seq(S), NEW b \in Seq(S), NEW c \in Seq(S)
  PROVE  (a \o b) \o c = a \o (b \o c)
<1>1. Len(a \o b) = Len(a) + Len(b) /\ Len(b \o c) = Len(b) + Len(c)
  OBVIOUS
<1>2. (a \o b) \o c \in Seq(S) /\ a \o (b \o c) \in Seq(S)
  OBVIOUS
<1>3. Len((a \o b) \o c) = Len(a \o (b \o c))
  OBVIOUS
<1>4. \A i \in 1..Len((a \o b) \o c) : ((a \o b) \o c)[i] = (a \o (b \o c))[i]
  OBVIOUS
<1> QED
  BY <1>2, <1>3, <1>4, SeqEqual

LEMMA FlatteningExists ==
  ASSUME NEW q, Len(q) \in Nat
  PROVE  \E f : Flattens(f, q)
<1> DEFINE F(f, n) == f = [i \in 1..n |-> IF i = 1 THEN q[i] ELSE f[i - 1] \o q[i]]
           T == {n \in Nat : \E f : F(f, n)}
<1>1. 0 \in T
  <2> DEFINE g == [i \in 1..0 |-> q[i]]
  <2>1. F(g, 0)
    OBVIOUS
  <2> HIDE DEF F
  <2> QED
    BY <2>1
<1>2. ASSUME NEW n \in Nat, n \in T PROVE n + 1 \in T
  <2>1. PICK f : F(f, n)
    BY <1>2
  <2> DEFINE x == IF n = 0 THEN q[1] ELSE f[n] \o q[n + 1]
             g == [i \in 1..(n + 1) |-> IF i = n + 1 THEN x ELSE f[i]]
  <2>2. \A i \in 1..n : f[i] = IF i = 1 THEN q[i] ELSE f[i - 1] \o q[i]
    BY <2>1
  <2>3. ASSUME NEW i \in 1..(n + 1) PROVE g[i] = IF i = 1 THEN q[i] ELSE g[i - 1] \o q[i]
    <3>1. CASE i = n + 1
      <4>1. g[i] = x
        BY <3>1
      <4>2. n # 0 => n \in 1..(n + 1) /\ g[n] = f[n]
        OBVIOUS
      <4>3. n # 0 => i # 1 /\ i - 1 = n
        BY <3>1
      <4>4. n = 0 => i = 1
        BY <3>1
      <4> HIDE DEF g
      <4>5. CASE n = 0
        BY <4>1, <4>4, <4>5
      <4>6. CASE n # 0
        BY <3>1, <4>1, <4>2, <4>3, <4>6
      <4> QED
        BY <4>5, <4>6
    <3>2. CASE i # n + 1
      <4>1. i \in 1..n /\ g[i] = f[i] /\ (i # 1 => i - 1 \in 1..(n + 1) /\ i - 1 # n + 1)
        BY <3>2
      <4>2. i # 1 => g[i - 1] = f[i - 1]
        BY <4>1
      <4> HIDE DEF g
      <4> QED
        BY <2>2, <4>1, <4>2
    <3> QED
      BY <3>1, <3>2
  <2>4. g = [i \in 1..(n + 1) |-> g[i]]
    OBVIOUS
  <2> HIDE DEF g
  <2>5. F(g, n + 1)
    BY <2>3, <2>4
  <2> HIDE DEF F
  <2> QED
    BY <2>5
<1> HIDE DEF T
<1>3. Len(q) \in T
  BY <1>1, <1>2, SetInduction
<1> QED
  BY <1>3 DEF T, Flattens

LEMMA FlattenIs ==
  ASSUME NEW q, Len(q) \in Nat \ {0}
  PROVE  \E f : Flattens(f, q) /\ FlattenSeq(q) = f[Len(q)]
<1> DEFINE f == CHOOSE f : f = [i \in 1..Len(q) |-> IF i = 1 THEN q[i] ELSE f[i - 1] \o q[i]]
<1>1. Flattens(f, q)
  BY FlatteningExists DEF Flattens
<1>2. FlattenSeq(q) = f[Len(q)]
  BY DEF FlattenSeq
<1> HIDE DEF f
<1> QED
  BY <1>1, <1>2

\* The parts are put behind each other from the left.
LEMMA FlattenSteps ==
  ASSUME NEW f, NEW q, Flattens(f, q), Len(q) \in Nat \ {0}
  PROVE  f[1] = q[1] /\ \A i, j \in 1..Len(q) : j = i + 1 => f[j] = f[i] \o q[j]
<1>1. \A i \in 1..Len(q) : f[i] = IF i = 1 THEN q[i] ELSE f[i - 1] \o q[i]
  BY DEF Flattens
<1>2. 1 \in 1..Len(q)
  OBVIOUS
<1>3. ASSUME NEW i \in 1..Len(q), NEW j \in 1..Len(q), j = i + 1
      PROVE  f[j] = f[i] \o q[j]
  <2>1. j # 1 /\ j - 1 = i
    BY <1>3
  <2>2. f[j] = f[j - 1] \o q[j]
    BY <1>1, <2>1
  <2> QED
    BY <2>1, <2>2
<1> QED
  BY <1>1, <1>2, <1>3

LEMMA FlattenNothing == FlattenSeq(<<>>) = <<>>
BY DEF FlattenSeq

\* What comes first in the parts comes first in the whole.
LEMMA FlattenFront ==
  ASSUME NEW S, NEW q \in Seq(Seq(S)), q # <<>>
  PROVE  /\ FlattenSeq(q) \in Seq(S)
         /\ FlattenSeq(q) = q[1] \o FlattenSeq(Tail(q))
<1>1. Len(q) \in Nat \ {0} /\ \A i \in 1..Len(q) : q[i] \in Seq(S)
  OBVIOUS
<1>2. PICK f : Flattens(f, q) /\ FlattenSeq(q) = f[Len(q)]
  BY <1>1, FlattenIs
<1>3. f[1] = q[1] /\ \A i, j \in 1..Len(q) : j = i + 1 => f[j] = f[i] \o q[j]
  BY <1>1, <1>2, FlattenSteps
<1> DEFINE T == {n \in Nat : n + 1 <= Len(q) => f[n + 1] \in Seq(S)}
<1>4. \A n \in Nat : n \in T
  <2>1. 0 \in T
    BY <1>1, <1>3
  <2>2. ASSUME NEW n \in Nat, n \in T PROVE n + 1 \in T
    <3> SUFFICES ASSUME n + 1 + 1 <= Len(q) PROVE f[n + 1 + 1] \in Seq(S)
      OBVIOUS
    <3> DEFINE m == n + 1 + 1
    <3>1. m \in 1..Len(q) /\ n + 1 \in 1..Len(q) /\ m = n + 1 + 1
      BY <1>1
    <3>2. f[n + 1] \in Seq(S) /\ q[m] \in Seq(S)
      BY <1>1, <2>2, <3>1
    <3> HIDE DEF m
    <3>3. f[m] = f[n + 1] \o q[m]
      BY <1>3, <3>1
    <3>4. f[m] \in Seq(S)
      BY <3>1, <3>2, <3>3
    <3> QED
      BY <3>4 DEF m
  <2> HIDE DEF T
  <2> QED
    BY <2>1, <2>2, SetInduction
<1>5. \A i \in 1..Len(q) : f[i] \in Seq(S)
  <2> TAKE i \in 1..Len(q)
  <2>1. i - 1 \in Nat /\ i - 1 + 1 = i /\ i <= Len(q)
    BY <1>1
  <2>2. i - 1 \in T
    BY <1>4, <2>1
  <2> QED
    BY <2>1, <2>2
<1>6. CASE Len(q) = 1
  <2>1. Tail(q) \in Seq(Seq(S)) /\ Len(Tail(q)) = 0
    BY <1>1, <1>6
  <2>2. Tail(q) = <<>>
    BY <2>1, EmptySeq
  <2>3. 1 \in 1..Len(q) /\ q[1] \in Seq(S)
    BY <1>1, <1>6
  <2>4. f[1] = q[1]
    BY <1>3, <2>3
  <2> QED
    BY <1>2, <1>6, <2>2, <2>3, <2>4, FlattenNothing, ConcatEmptySeq
<1>7. CASE Len(q) # 1
  <2> DEFINE r == Tail(q)
  <2>1. /\ r \in Seq(Seq(S)) /\ Len(r) = Len(q) - 1 /\ Len(r) \in Nat \ {0}
        /\ \A i \in 1..Len(r) : r[i] = q[i + 1] /\ i + 1 \in 1..Len(q) /\ r[i] \in Seq(S)
    BY <1>1, <1>7
  <2> HIDE DEF r
  <2>2. PICK g : Flattens(g, r) /\ FlattenSeq(r) = g[Len(r)]
    BY <2>1, FlattenIs
  <2>3. g[1] = r[1] /\ \A i, j \in 1..Len(r) : j = i + 1 => g[j] = g[i] \o r[j]
    BY <2>1, <2>2, FlattenSteps
  <2> DEFINE V(i) == i <= Len(r) => g[i] \in Seq(S) /\ f[i + 1] = q[1] \o g[i]
             U == {n \in Nat : V(n + 1)}
  <2>4. 0 \in U
    <3>1. 1 \in 1..Len(r) /\ 1 \in 1..Len(q) /\ 2 \in 1..Len(q) /\ 2 = 1 + 1
      BY <1>1, <2>1
    <3>2. r[1] = q[2] /\ q[2] \in Seq(S)
      BY <1>1, <2>1, <3>1
    <3>3. f[2] = f[1] \o q[2]
      BY <1>3, <3>1
    <3>4. g[1] \in Seq(S) /\ f[2] = q[1] \o g[1]
      BY <1>3, <2>3, <3>2, <3>3
    <3>5. V(1)
      BY <3>1, <3>4
    <3>6. 0 + 1 = 1
      OBVIOUS
    <3> HIDE DEF V
    <3> QED
      BY <3>5, <3>6
  <2>5. ASSUME NEW n \in Nat, n \in U PROVE n + 1 \in U
    <3> DEFINE m == n + 1 + 1
    <3>9. V(n + 1)
      BY <2>5
    <3>10. ASSUME m <= Len(r) PROVE g[m] \in Seq(S) /\ f[m + 1] = q[1] \o g[m]
      <4>1. n + 1 <= Len(r)
        BY <2>1, <3>10
      <4>2. g[n + 1] \in Seq(S) /\ f[m] = q[1] \o g[n + 1]
        BY <3>9, <4>1
      <4>3. m \in 1..Len(r) /\ n + 1 \in 1..Len(r) /\ m = n + 1 + 1 /\ m + 1 \in 1..Len(q) /\ m \in 1..Len(q)
        BY <1>1, <2>1, <3>10
      <4> HIDE DEF m
      <4>4. g[m] = g[n + 1] \o r[m] /\ f[m + 1] = f[m] \o q[m + 1]
        BY <1>3, <2>3, <4>3
      <4>7. r[m] = q[m + 1] /\ q[m + 1] \in Seq(S) /\ q[1] \in Seq(S)
        BY <1>1, <2>1, <4>3
      <4>5. g[m] \in Seq(S)
        BY <4>2, <4>3, <4>4, <4>7
      <4>9. \A a, b, c \in Seq(S) : (a \o b) \o c = a \o (b \o c)
        BY Associates
      <4>6. (q[1] \o g[n + 1]) \o q[m + 1] = q[1] \o (g[n + 1] \o q[m + 1])
        BY <4>2, <4>7, <4>9, Zenon
      <4>8. f[m + 1] = q[1] \o g[m]
        BY <4>2, <4>3, <4>4, <4>6, <4>7
      <4> QED
        BY <4>5, <4>8
    <3>11. V(m)
      BY <3>10
    <3> HIDE DEF V
    <3> QED
      BY <3>11
  <2> HIDE DEF U
  <2>6. \A n \in Nat : n \in U
    BY <2>4, <2>5, SetInduction
  <2>7. Len(r) - 1 \in U /\ Len(r) - 1 \in Nat /\ Len(r) - 1 + 1 = Len(r) /\ Len(r) + 1 = Len(q)
    BY <2>1, <2>6
  <2>8. PICK n \in Nat : n \in U /\ n + 1 = Len(r) /\ n + 1 + 1 = Len(q)
    BY <2>7
  <2>9. f[Len(q)] = q[1] \o g[Len(r)]
    <3>2. V(n + 1)
      BY <2>8 DEF U
    <3>3. n + 1 <= Len(r)
      BY <2>1, <2>8
    <3>1. f[n + 1 + 1] = q[1] \o g[n + 1]
      BY <3>2, <3>3
    <3> QED
      BY <2>8, <3>1
  <2>10. f[Len(q)] \in Seq(S)
    BY <1>1, <1>5
  <2> QED
    BY <1>2, <2>2, <2>9, <2>10 DEF r
<1> QED
  BY <1>6, <1>7

LEMMA FlattenType ==
  ASSUME NEW S, NEW q \in Seq(Seq(S))
  PROVE  FlattenSeq(q) \in Seq(S)
<1>1. CASE q = <<>>
  <2>1. <<>> \in Seq(S)
    OBVIOUS
  <2> QED
    BY <1>1, <2>1, FlattenNothing
<1>2. CASE q # <<>>
  BY <1>2, FlattenFront
<1> QED
  BY <1>1, <1>2

\* The whole from the part j on.
From(q, j) == FlattenSeq(SubSeq(q, j, Len(q)))

LEMMA FromNext ==
  ASSUME NEW S, NEW q \in Seq(Seq(S)), NEW j \in 1..Len(q)
  PROVE  From(q, j) = q[j] \o From(q, j + 1) /\ From(q, j + 1) \in Seq(S)
<1> DEFINE s == SubSeq(q, j, Len(q))
           t == SubSeq(q, j + 1, Len(q))
<1>1. Len(q) \in Nat /\ Len(q) \in j..Len(q)
  OBVIOUS
<1>2. Head(s) = q[j] /\ Tail(s) = t
  BY <1>1, HeadTailOfSubSeq
<1>3. s \in Seq(Seq(S)) /\ Len(s) = Len(q) - j + 1
  OBVIOUS
<1>4. t \in Seq(Seq(S))
  OBVIOUS
<1> HIDE DEF s, t
<1>5. s # <<>> /\ s[1] = q[j]
  BY <1>1, <1>2, <1>3
<1>6. FlattenSeq(s) = q[j] \o FlattenSeq(t)
  BY <1>2, <1>3, <1>5, FlattenFront
<1> QED
  BY <1>4, <1>6, FlattenType DEF From, s, t

LEMMA FromEnd ==
  ASSUME NEW S, NEW q \in Seq(Seq(S))
  PROVE  From(q, Len(q) + 1) = <<>> /\ From(q, 1) = FlattenSeq(q)
<1>1. SubSeq(q, Len(q) + 1, Len(q)) = <<>>
  OBVIOUS
<1>2. SubSeq(q, 1, Len(q)) = q
  BY SubSeqFull
<1> QED
  BY <1>1, <1>2, FlattenNothing DEF From

-----------------------------------------------------------------------------
Reports == {"result", "diagnostic"}

Questions(text, i) == {j \in 1..i : text[j].kind = "ask"}

LEMMA QuestionsFinite ==
  ASSUME NEW text, NEW i \in Int
  PROVE  IsFiniteSet(Questions(text, i)) /\ Asked(text, i) \in Nat
         /\ Asked(text, i) = Cardinality(Questions(text, i))
<1>1. IsFiniteSet(1..i)
  BY FS_Interval
<1>2. IsFiniteSet(Questions(text, i))
  BY <1>1, FS_Subset DEF Questions
<1>3. Asked(text, i) = Cardinality(Questions(text, i))
  BY DEF Asked, Questions
<1> QED
  BY <1>2, <1>3, FS_CardinalityType

LEMMA AskedNothing ==
  ASSUME NEW text
  PROVE  Asked(text, 0) = 0
<1>1. {j \in 1..0 : text[j].kind = "ask"} = {}
  OBVIOUS
<1> QED
  BY <1>1, FS_EmptySet DEF Asked

\* A chunk in front of a text.
LEMMA Consed ==
  ASSUME NEW c \in Chunks, NEW e \in Seq(Chunks)
  PROVE  /\ <<c>> \o e \in Seq(Chunks) /\ Len(<<c>> \o e) = Len(e) + 1
         /\ (<<c>> \o e)[1] = c
         /\ \A i \in 1..Len(e) : (<<c>> \o e)[i + 1] = e[i]
         /\ Len(e) \in Nat
OBVIOUS

LEMMA AskedBehind ==
  ASSUME NEW c \in Chunks, NEW e \in Seq(Chunks), NEW i \in 0..Len(e)
  PROVE  Asked(<<c>> \o e, i + 1) = (IF c.kind = "ask" THEN 1 ELSE 0) + Asked(e, i)
<1> DEFINE text == <<c>> \o e
           A == Questions(e, i)
           B == Questions(text, i + 1)
           B2 == B \ {1}
           f == [j \in A |-> j + 1]
<1>1. /\ text[1] = c /\ \A j \in 1..Len(e) : text[j + 1] = e[j]
      /\ Len(e) \in Nat
  BY Consed
<1>2. i \in Nat /\ i \in Int /\ i + 1 \in Int
  BY <1>1
<1> HIDE DEF text
<1>3. IsFiniteSet(A) /\ IsFiniteSet(B)
  BY <1>2, QuestionsFinite
<1>4. \A j \in 1..i : text[j + 1] = e[j]
  BY <1>1
<1>5. ASSUME NEW j \in A PROVE j + 1 \in B2
  BY <1>2, <1>4, <1>5 DEF Questions
<1>6. ASSUME NEW j \in B2 PROVE \E h \in A : j = h + 1
  <2>1. j \in 2..(i + 1) /\ text[j].kind = "ask"
    BY <1>2, <1>6 DEF Questions
  <2>2. PICK h \in 1..i : j = h + 1
    BY <1>2, <2>1
  <2>3. text[h + 1] = e[h]
    BY <1>4
  <2>4. e[h].kind = "ask"
    BY <2>1, <2>2, <2>3
  <2> QED
    BY <2>2, <2>4 DEF Questions
<1>7. \A j, h \in A : j + 1 = h + 1 => j = h
  BY DEF Questions
<1> HIDE DEF A, B2, B
<1>8. f \in Bijection(A, B2)
  <2>1. f \in [A -> B2]
    BY <1>5
  <2>2. \A j, h \in A : f[j] = f[h] => j = h
    BY <1>7
  <2>3. \A j \in B2 : \E h \in A : f[h] = j
    BY <1>6
  <2> HIDE DEF f
  <2> QED
    BY <2>1, <2>2, <2>3 DEF Bijection, Injection, Surjection, IsInjective
<1>9. ExistsBijection(A, B2)
  BY <1>8 DEF ExistsBijection
<1>10. Cardinality(B2) = Cardinality(A)
  BY <1>3, <1>9, FS_Bijection
<1>11. Cardinality(B2) = IF 1 \in B THEN Cardinality(B) - 1 ELSE Cardinality(B)
  BY <1>3, FS_RemoveElement DEF B2
<1>12. 1 \in B <=> c.kind = "ask"
  BY <1>1, <1>2 DEF Questions, B
<1>13. Asked(e, i) = Cardinality(A) /\ Asked(text, i + 1) = Cardinality(B)
       /\ Asked(e, i) \in Nat /\ Asked(text, i + 1) \in Nat
  BY <1>2, QuestionsFinite DEF A, B
<1> HIDE DEF f
<1>14. Asked(text, i + 1) = (IF c.kind = "ask" THEN 1 ELSE 0) + Asked(e, i)
  <2> DEFINE m == Asked(text, i + 1)
             n == Asked(e, i)
  <2>1. m \in Nat /\ n \in Nat
    BY <1>13
  <2>2. n = IF 1 \in B THEN m - 1 ELSE m
    <3>1. Cardinality(B2) = n /\ Cardinality(B) = m
      BY <1>10, <1>13, Zenon
    <3> HIDE DEF m, n
    <3> QED
      BY <1>11, <3>1, Zenon
  <2> HIDE DEF m, n
  <2>3. m = (IF c.kind = "ask" THEN 1 ELSE 0) + n
    BY <1>12, <2>1, <2>2
  <2> QED
    BY <2>3 DEF m, n
<1> QED
  BY <1>14 DEF text

-----------------------------------------------------------------------------
LEMMA FirstStopIs ==
  ASSUME NEW text \in Seq(Chunks), NEW k, NEW i \in 1..(Len(text) + 1),
         i \in Stops(text, k) \/ i = Len(text) + 1,
         \A j \in Stops(text, k) : i <= j
  PROVE  FirstStop(text, k) = i
<1>1. Stops(text, k) \subseteq 1..Len(text) /\ Len(text) \in Nat
  BY DEF Stops
<1> DEFINE P(x) == /\ x \in Stops(text, k) \/ x = Len(text) + 1
                   /\ \A j \in Stops(text, k) : x <= j
           f == CHOOSE x \in 1..(Len(text) + 1) : P(x)
<1>2. f \in 1..(Len(text) + 1) /\ P(f)
  <2>1. P(i)
    OBVIOUS
  <2> HIDE DEF P
  <2> QED
    BY <2>1
<1>3. f = FirstStop(text, k)
  BY DEF FirstStop
<1> HIDE DEF f
<1>4. f = i
  BY <1>1, <1>2
<1> QED
  BY <1>3, <1>4

LEMMA FirstStopExists ==
  ASSUME NEW text \in Seq(Chunks), NEW k
  PROVE  /\ FirstStop(text, k) \in 1..(Len(text) + 1)
         /\ FirstStop(text, k) \in Stops(text, k) \/ FirstStop(text, k) = Len(text) + 1
         /\ \A j \in Stops(text, k) : FirstStop(text, k) <= j
<1>1. Stops(text, k) \subseteq 1..Len(text) /\ Len(text) \in Nat
  BY DEF Stops
<1>2. CASE Stops(text, k) = {}
  <2>1. Len(text) + 1 \in 1..(Len(text) + 1)
    BY <1>1
  <2>2. FirstStop(text, k) = Len(text) + 1
    BY <1>2, <2>1, FirstStopIs
  <2> QED
    BY <1>2, <2>1, <2>2
<1>3. CASE Stops(text, k) # {}
  <2>1. Stops(text, k) \in SUBSET Nat
    BY <1>1
  <2>2. PICK i \in Stops(text, k) : \A j \in Stops(text, k) : i <= j
    BY <1>3, <2>1, LeastElement
  <2>3. i \in 1..(Len(text) + 1)
    BY <1>1, <2>2
  <2>4. FirstStop(text, k) = i
    BY <2>2, <2>3, FirstStopIs
  <2> QED
    BY <2>2, <2>3, <2>4
<1> QED
  BY <1>2, <1>3

\* The lines that have been read when the text stops.
LEMMA LinesRead ==
  ASSUME NEW text \in Seq(Chunks), SetupOK, NEW k \in 0..Len(input)
  PROVE  k + Asked(text, FirstStop(text, k) - 1) \in 0..Len(input)
<1> DEFINE n == FirstStop(text, k) - 1
<1>1. /\ n \in 0..Len(text) /\ Len(text) \in Nat /\ n \in Nat /\ n \in Int
      /\ \A j \in Stops(text, k) : n < j
  <2>1. Len(text) \in Nat
    OBVIOUS
  <2> DEFINE f == FirstStop(text, k)
  <2>2. f \in 1..(Len(text) + 1) /\ \A j \in Stops(text, k) : f <= j
    BY FirstStopExists
  <2>3. Stops(text, k) \subseteq 1..Len(text)
    BY DEF Stops
  <2> HIDE DEF f
  <2>4. /\ f - 1 \in 0..Len(text) /\ f - 1 \in Nat /\ f - 1 \in Int
        /\ \A j \in Stops(text, k) : f - 1 < j
    BY <2>1, <2>2, <2>3
  <2> QED
    BY <2>1, <2>4 DEF f
<1> HIDE DEF n
<1>2. Len(input) \in Nat /\ k \in Nat
  BY DEF SetupOK
<1>3. CASE Questions(text, n) = {}
  <2>1. Asked(text, n) = 0
    BY <1>1, <1>3, QuestionsFinite, FS_EmptySet
  <2> QED
    BY <1>2, <2>1 DEF n
<1>4. CASE Questions(text, n) # {}
  <2>1. Questions(text, n) \in SUBSET (1..n)
    BY DEF Questions
  <2>2. PICK m \in Questions(text, n) : \A j \in Questions(text, n) : j <= m
    BY <1>1, <1>4, <2>1, GreatestElement
  <2>3. m \in 1..n /\ m \in Int /\ m \in DOMAIN text /\ text[m].kind = "ask"
    BY <1>1, <2>2 DEF Questions
  <2>4. m \notin Stops(text, k)
    BY <1>1, <2>3
  <2>5. ~(k + Asked(text, m) > Len(input))
    BY <2>3, <2>4 DEF Stops
  <2>6. Questions(text, m) = Questions(text, n)
    <3>1. \A j \in 1..n : j \in 1..m <=> j <= m
      BY <1>1, <2>3
    <3>2. \A j \in 1..m : j \in 1..n
      BY <1>1, <2>3
    <3> QED
      BY <2>2, <3>1, <3>2 DEF Questions
  <2>7. Asked(text, m) = Asked(text, n) /\ Asked(text, n) \in Nat
    BY <1>1, <2>3, <2>6, QuestionsFinite
  <2> QED
    BY <1>2, <2>5, <2>7 DEF n
<1> QED
  BY <1>3, <1>4

-----------------------------------------------------------------------------
LEMMA OutcomeType ==
  ASSUME NEW text \in Seq(Chunks), SetupOK, NEW k \in 0..Len(input),
         NEW P, \A i \in 0..Len(input) : P[i] \in Seq(Reports)
  PROVE  Outcome(text, k, P) \in Seq(Reports)
<1> DEFINE s == FirstStop(text, k)
           r == [i \in 1..(s - 1) |-> "result"]
           a == P[k + Asked(text, s - 1)]
<1>1. s \in 1..(Len(text) + 1) /\ Len(text) \in Nat
  BY FirstStopExists
<1>2. a \in Seq(Reports)
  BY LinesRead
<1>3. Outcome(text, k, P) = IF s = Len(text) + 1 THEN r \o a
                            ELSE IF text[s].kind = "bye" THEN r ELSE r \o <<"diagnostic">> \o a
  BY DEF Outcome
<1> HIDE DEF s, a
<1>4. r \in Seq(Reports)
  BY <1>1 DEF Reports
<1> HIDE DEF r
<1>5. <<"diagnostic">> \in Seq(Reports)
  BY DEF Reports
<1> QED
  BY <1>2, <1>3, <1>4, <1>5

\* At the end of a text the next line follows.
LEMMA OutcomeNothing ==
  ASSUME NEW k \in Nat, NEW P, P[k] \in Seq(Reports)
  PROVE  Outcome(<<>>, k, P) = P[k]
<1>1. <<>> \in Seq(Chunks) /\ Len(<<>>) = 0 /\ Stops(<<>>, k) = {}
  BY DEF Stops
<1>2. 1 \in 1..(Len(<<>>) + 1) /\ 1 = Len(<<>>) + 1
  BY <1>1
<1>3. FirstStop(<<>>, k) = 1
  BY <1>1, <1>2, FirstStopIs
<1>4. Asked(<<>>, 1 - 1) = 0
  BY AskedNothing
<1>5. Outcome(<<>>, k, P) = [i \in 1..(1 - 1) |-> "result"] \o P[k + 0]
  BY <1>2, <1>3, <1>4 DEF Outcome
<1>6. [i \in 1..(1 - 1) |-> "result"] = <<>> /\ k + 0 = k
  OBVIOUS
<1> QED
  BY <1>5, <1>6, ConcatEmptySeq

LEMMA OutcomeStops ==
  ASSUME NEW c \in Chunks, NEW e \in Seq(Chunks), NEW k \in Nat,
         NEW P, P[k] \in Seq(Reports),
         \/ c.kind \in {"error", "dot", "bye"}
         \/ c.kind = "ask" /\ (~terminal \/ k + 1 > Len(input))
  PROVE  Outcome(<<c>> \o e, k, P) = IF c.kind = "bye" THEN <<>> ELSE <<"diagnostic">> \o P[k]
<1> DEFINE text == <<c>> \o e
<1>1. /\ text \in Seq(Chunks) /\ Len(text) = Len(e) + 1 /\ Len(e) \in Nat /\ text[1] = c
      /\ 1 \in DOMAIN text /\ 1 \in 1..(Len(text) + 1) /\ 1 # Len(text) + 1
  BY Consed
<1>2. Asked(text, 0 + 1) = (IF c.kind = "ask" THEN 1 ELSE 0) + Asked(e, 0) /\ Asked(e, 0) = 0
  <2>1. 0 \in 0..Len(e)
    BY <1>1
  <2> QED
    BY <2>1, AskedBehind, AskedNothing
<1> HIDE DEF text
<1>3. 1 \in Stops(text, k)
  BY <1>1, <1>2 DEF Stops
<1>4. \A j \in Stops(text, k) : 1 <= j
  BY <1>1 DEF Stops
<1>5. FirstStop(text, k) = 1
  BY <1>1, <1>3, <1>4, FirstStopIs
<1>6. Asked(text, 1 - 1) = 0
  BY AskedNothing
<1>7. [i \in 1..(1 - 1) |-> "result"] = <<>> /\ k + 0 = k
  OBVIOUS
<1>8. Outcome(text, k, P) =
        IF c.kind = "bye" THEN <<>> ELSE <<>> \o <<"diagnostic">> \o P[k]
  BY <1>1, <1>5, <1>6, <1>7 DEF Outcome
<1>9. <<>> \o <<"diagnostic">> = <<"diagnostic">>
  OBVIOUS
<1> QED
  BY <1>8, <1>9 DEF text

\* A chunk that does not stop the text: its result, and then the rest.
LEMMA OutcomeGoesOn ==
  ASSUME NEW c \in Chunks, NEW e \in Seq(Chunks), SetupOK, NEW k \in 0..Len(input),
         NEW P, \A i \in 0..Len(input) : P[i] \in Seq(Reports),
         c.kind \notin {"error", "dot", "bye"},
         c.kind = "ask" => terminal /\ k < Len(input)
  PROVE  Outcome(<<c>> \o e, k, P)
           = <<"result">> \o Outcome(e, k + (IF c.kind = "ask" THEN 1 ELSE 0), P)
<1> DEFINE text == <<c>> \o e
           d == IF c.kind = "ask" THEN 1 ELSE 0
           h == k + d
           s == FirstStop(e, h)
<1>1. /\ text \in Seq(Chunks) /\ Len(text) = Len(e) + 1 /\ Len(e) \in Nat /\ text[1] = c
      /\ \A i \in 1..Len(e) : text[i + 1] = e[i]
      /\ DOMAIN text = 1..(Len(e) + 1) /\ DOMAIN e = 1..Len(e)
  BY Consed
<1>2. d \in Nat /\ h \in 0..Len(input) /\ k \in Nat /\ h \in Nat /\ Len(input) \in Nat
      /\ (c.kind = "ask" <=> d = 1) /\ h = k + d
  BY DEF SetupOK
<1>3. \A i \in 0..Len(e) : Asked(text, i + 1) = d + Asked(e, i) /\ Asked(e, i) \in Nat
  <2> TAKE i \in 0..Len(e)
  <2>1. i \in Int
    BY <1>1
  <2> QED
    BY <2>1, AskedBehind, QuestionsFinite
<1> HIDE DEF text, h, d
<1>4. 1 \notin Stops(text, k)
  <2>1. Asked(text, 0 + 1) = d + Asked(e, 0) /\ Asked(e, 0) = 0 /\ 0 + 1 = 1
    <3>1. 0 \in 0..Len(e)
      BY <1>1
    <3> QED
      BY <1>3, <3>1, AskedNothing
  <2>2. c.kind = "ask" => terminal /\ ~(k + Asked(text, 1) > Len(input))
    BY <1>2, <2>1
  <2> QED
    BY <1>1, <2>2 DEF Stops
<1>5. \A i \in 1..Len(e) : i + 1 \in Stops(text, k) <=> i \in Stops(e, h)
  <2> TAKE i \in 1..Len(e)
  <2>1. Asked(text, i + 1) = d + Asked(e, i) /\ Asked(e, i) \in Nat
    BY <1>1, <1>3
  <2>2. k + Asked(text, i + 1) = h + Asked(e, i)
    BY <1>2, <2>1
  <2>3. text[i + 1] = e[i] /\ i + 1 \in DOMAIN text /\ i \in DOMAIN e
    BY <1>1
  <2> QED
    BY <2>2, <2>3 DEF Stops
<1>6. /\ s \in 1..(Len(e) + 1)
      /\ s \in Stops(e, h) \/ s = Len(e) + 1
      /\ \A j \in Stops(e, h) : s <= j
  BY FirstStopExists
<1> HIDE DEF s
<1>7. FirstStop(text, k) = s + 1
  <2>1. s + 1 \in 1..(Len(text) + 1)
    BY <1>1, <1>6
  <2>2. s + 1 \in Stops(text, k) \/ s + 1 = Len(text) + 1
    <3>1. CASE s \in Stops(e, h)
      <4>1. s \in 1..Len(e)
        BY <1>1, <3>1 DEF Stops
      <4> QED
        BY <1>5, <3>1, <4>1
    <3>2. CASE s = Len(e) + 1
      BY <1>1, <3>2
    <3> QED
      BY <1>6, <3>1, <3>2
  <2>3. ASSUME NEW j \in Stops(text, k) PROVE s + 1 <= j
    <3>1. j \in 1..(Len(e) + 1) /\ j # 1
      BY <1>1, <1>4, <2>3 DEF Stops
    <3>2. PICK i \in 1..Len(e) : j = i + 1
      BY <1>1, <3>1
    <3>3. i \in Stops(e, h)
      BY <1>5, <2>3, <3>2
    <3> QED
      BY <1>6, <3>2, <3>3
  <2> QED
    BY <1>1, <2>1, <2>2, <2>3, FirstStopIs
<1> DEFINE r == [i \in 1..(s - 1) |-> "result"]
           R == [i \in 1..s |-> "result"]
           a == P[h + Asked(e, s - 1)]
<1>8. s + 1 - 1 = s /\ s - 1 \in 0..Len(e) /\ s - 1 + 1 = s /\ s \in Nat /\ s - 1 \in Nat
  BY <1>1, <1>6
<1>9. k + Asked(text, s) = h + Asked(e, s - 1)
  <2>1. Asked(text, s - 1 + 1) = d + Asked(e, s - 1) /\ Asked(e, s - 1) \in Nat
    BY <1>3, <1>8
  <2>2. Asked(text, s) = d + Asked(e, s - 1)
    BY <1>8, <2>1
  <2> QED
    BY <1>2, <2>1, <2>2
<1>10. a \in Seq(Reports)
  BY <1>2, LinesRead DEF s
<1>11. Outcome(e, h, P) = IF s = Len(e) + 1 THEN r \o a
                          ELSE IF e[s].kind = "bye" THEN r ELSE r \o <<"diagnostic">> \o a
  BY DEF Outcome, s
<1>12. Outcome(text, k, P) = IF s + 1 = Len(text) + 1 THEN R \o a
                             ELSE IF text[s + 1].kind = "bye" THEN R ELSE R \o <<"diagnostic">> \o a
  BY <1>7, <1>8, <1>9 DEF Outcome
<1> HIDE DEF a
<1>13. r \in Seq(Reports) /\ R \in Seq(Reports) /\ Len(r) = s - 1 /\ Len(R) = s
  BY <1>8 DEF Reports
<1>14. R = <<"result">> \o r
  <2>1. <<"result">> \o r \in Seq(Reports) /\ Len(<<"result">> \o r) = s
    BY <1>8, <1>13 DEF Reports
  <2>2. \A i \in 1..s : (<<"result">> \o r)[i] = "result"
    BY <1>8
  <2>3. \A i \in 1..s : R[i] = (<<"result">> \o r)[i]
    BY <2>2
  <2> HIDE DEF R, r
  <2> QED
    BY <1>13, <2>1, <2>3, SeqEqual
<1> HIDE DEF r, R
<1> DEFINE x == <<"result">>
           z == <<"diagnostic">>
<1>15. x \in Seq(Reports) /\ z \in Seq(Reports)
  BY DEF Reports
<1>16. \A u, v, w \in Seq(Reports) : (u \o v) \o w = u \o (v \o w)
  BY Associates
<1>17. R = x \o r
  BY <1>14
<1> HIDE DEF x, z
<1>21. r \o z \in Seq(Reports)
  BY <1>13, <1>15
<1>22. R \o a = x \o (r \o a)
  BY <1>10, <1>13, <1>15, <1>16, <1>17
<1>23. R \o z = x \o (r \o z)
  BY <1>13, <1>15, <1>16, <1>17
<1>24. (R \o z) \o a = x \o ((r \o z) \o a)
  <2>1. (x \o (r \o z)) \o a = x \o ((r \o z) \o a)
    BY <1>10, <1>15, <1>16, <1>21, Zenon
  <2> QED
    BY <1>23, <2>1, Zenon
<1>18. s + 1 = Len(text) + 1 <=> s = Len(e) + 1
  BY <1>1, <1>8
<1>19. s # Len(e) + 1 => text[s + 1] = e[s]
  BY <1>1, <1>6
<1>20. Outcome(text, k, P) = <<"result">> \o Outcome(e, h, P)
  <2>1. CASE s = Len(e) + 1
    BY <1>11, <1>12, <1>18, <1>22, <2>1 DEF x
  <2>2. CASE s # Len(e) + 1 /\ e[s].kind = "bye"
    BY <1>11, <1>12, <1>17, <1>18, <1>19, <2>2 DEF x
  <2>3. CASE s # Len(e) + 1 /\ e[s].kind # "bye"
    <3>1. Outcome(text, k, P) = R \o z \o a
      BY <1>12, <1>18, <1>19, <2>3, Zenon DEF z
    <3>2. Outcome(e, h, P) = r \o z \o a
      BY <1>11, <2>3, Zenon DEF z
    <3> QED
      BY <1>24, <3>1, <3>2, Zenon DEF x
  <2> QED
    BY <2>1, <2>2, <2>3
<1> QED
  BY <1>20 DEF text, h, d

-----------------------------------------------------------------------------
\* What files stand for, as far as the loads may be nested.
Readable(loaded) == \A f \in File : loaded[f] \in Seq(Chunks)

LEMMA PiecesType ==
  ASSUME NEW script \in Seq(Chunks), NEW loaded, Readable(loaded)
  PROVE  /\ Pieces(script, loaded) \in Seq(Seq(Chunks))
         /\ Len(Pieces(script, loaded)) = Len(script)
<1>1. DOMAIN script = 1..Len(script) /\ Len(script) \in Nat
  OBVIOUS
<1> DEFINE piece(i) == IF script[i].kind = "dot" /\ i > 1 /\ script[i - 1].newline THEN <<>>
                       ELSE IF script[i].kind = "load" THEN loaded[script[i].file]
                       ELSE <<script[i]>>
<1>2. Pieces(script, loaded) = [i \in 1..Len(script) |-> piece(i)]
  BY <1>1 DEF Pieces
<1>3. ASSUME NEW i \in 1..Len(script) PROVE piece(i) \in Seq(Chunks)
  <2>1. script[i] \in Chunks
    BY <1>1
  <2>2. script[i].kind = "load" => loaded[script[i].file] \in Seq(Chunks)
    <3>1. script[i].kind = "load" => script[i].file \in File
      BY <2>1, LoadsFile
    <3> QED
      BY <3>1, Zenon DEF Readable
  <2>3. <<>> \in Seq(Chunks) /\ <<script[i]>> \in Seq(Chunks)
    BY <2>1
  <2> QED
    BY <2>2, <2>3, Zenon
<1> HIDE DEF piece
<1>4. [i \in 1..Len(script) |-> piece(i)] \in [1..Len(script) -> Seq(Chunks)]
  BY <1>3
<1>5. [i \in 1..Len(script) |-> piece(i)] \in Seq(Seq(Chunks))
  BY <1>1, <1>4
<1> QED
  BY <1>1, <1>2, <1>5

LEMMA FlatType ==
  ASSUME NEW script \in Seq(Chunks), NEW loaded, Readable(loaded)
  PROVE  Flat(script, loaded) \in Seq(Chunks)
BY PiecesType, FlattenType DEF Flat

\* What a file stands for, from what the ones it loads stand for.
File1(f, loaded, n) ==
  IF n = 0 \/ files[f] = Missing THEN <<Chunk("error", FALSE)>> ELSE Flat(files[f], loaded[n - 1])

LEMMA LoadedExists ==
  \E g : g = [n \in 0..MaxLoads |-> [f \in File |-> File1(f, g, n)]]
<1> DEFINE F(g, m) == g = [n \in 0..m |-> [f \in File |-> File1(f, g, n)]]
           T == {m \in Nat : \E g : F(g, m)}
<1>1. 0 \in T
  <2> DEFINE x == [f \in File |-> <<Chunk("error", FALSE)>>]
             g == [n \in 0..0 |-> x]
  <2>1. F(g, 0)
    <3>1. \A n \in 0..0 : [f \in File |-> File1(f, g, n)] = x
      BY DEF File1
    <3> HIDE DEF x
    <3> QED
      BY <3>1
  <2> HIDE DEF F, g
  <2> QED
    BY <2>1
<1>2. ASSUME NEW m \in Nat, m \in T PROVE m + 1 \in T
  <2>1. PICK g : F(g, m)
    BY <1>2
  <2> DEFINE h == [n \in 0..(m + 1) |-> IF n = m + 1 THEN [f \in File |-> File1(f, g, n)] ELSE g[n]]
  <2>2. \A n \in 0..m : g[n] = [f \in File |-> File1(f, g, n)]
    BY <2>1
  <2>3. \A n \in 0..m : h[n] = g[n]
    OBVIOUS
  <2>4. h[m + 1] = [f \in File |-> File1(f, g, m + 1)]
    OBVIOUS
  <2>5. h = [n \in 0..(m + 1) |-> h[n]]
    OBVIOUS
  <2> HIDE DEF h, F
  <2>6. ASSUME NEW n \in 0..(m + 1) PROVE h[n] = [f \in File |-> File1(f, h, n)]
    <3>1. h[n] = [f \in File |-> File1(f, g, n)]
      BY <2>2, <2>3, <2>4
    <3>2. n # 0 => n - 1 \in 0..m
      OBVIOUS
    <3>3. \A f \in File : File1(f, g, n) = File1(f, h, n)
      BY <2>3, <3>2 DEF File1
    <3> QED
      BY <3>1, <3>3
  <2>7. F(h, m + 1)
    BY <2>5, <2>6 DEF F
  <2> QED
    BY <2>7
<1> HIDE DEF T
<1>3. MaxLoads \in T
  BY <1>1, <1>2, SetInduction, SessionAssumption
<1> QED
  BY <1>3 DEF T

LEMMA LoadedIs ==
  \A n \in 0..MaxLoads : Loaded[n] = [f \in File |-> File1(f, Loaded, n)]
<1> DEFINE L == CHOOSE g : g = [n \in 0..MaxLoads |-> [f \in File |-> File1(f, g, n)]]
<1>1. L = [n \in 0..MaxLoads |-> [f \in File |-> File1(f, L, n)]]
  BY LoadedExists, Zenon
<1>2. Loaded = L
  BY DEF Loaded, File1
<1> HIDE DEF L
<1> QED
  BY <1>1, <1>2

\* What stands for a file that cannot be read is a chunk, too.
LEMMA ErrorIsChunk ==
  Chunk("error", FALSE) \in Chunks /\ <<Chunk("error", FALSE)>> \in Seq(Chunks)
<1> DEFINE Kinds == {"expression", "error", "bye", "ask"}
           Plain(A) == {Chunk(kind, newline) : kind \in A, newline \in BOOLEAN}
<1>1. ASSUME NEW c \in Plain(Kinds) PROVE c \in Chunks
  BY DEF Chunks, Chunk, Load
<1>2. \A A : \A kind \in A, newline \in BOOLEAN : Chunk(kind, newline) \in Plain(A)
  BY DEF Chunk
<1>3. "error" \in Kinds /\ FALSE \in BOOLEAN
  OBVIOUS
<1> HIDE DEF Kinds, Plain
<1>4. Chunk("error", FALSE) \in Plain(Kinds)
  BY <1>2, <1>3, Zenon
<1>5. Chunk("error", FALSE) \in Chunks
  BY <1>1, <1>4, Zenon
<1> DEFINE c == Chunk("error", FALSE)
<1>6. c \in Chunks
  BY <1>5
<1> HIDE DEF c
<1>7. <<c>> \in Seq(Chunks)
  BY <1>6
<1> QED
  BY <1>6, <1>7 DEF c

LEMMA LoadedType ==
  ASSUME SetupOK
  PROVE  \A n \in 0..MaxLoads : Readable(Loaded[n])
<1> DEFINE T == {n \in Nat : n <= MaxLoads => Readable(Loaded[n])}
<1>1. ASSUME NEW n \in Nat, n # 0 => n - 1 \in T PROVE n \in T
  <2>1. ASSUME n <= MaxLoads, NEW f \in File PROVE Loaded[n][f] \in Seq(Chunks)
    <3>1. n \in 0..MaxLoads
      BY <2>1, SessionAssumption
    <3>2. Loaded[n][f] = File1(f, Loaded, n)
      BY <3>1, LoadedIs
    <3>3. <<Chunk("error", FALSE)>> \in Seq(Chunks)
      BY ErrorIsChunk
    <3>4. CASE n = 0 \/ files[f] = Missing
      BY <3>2, <3>3, <3>4 DEF File1
    <3>5. CASE n # 0 /\ files[f] # Missing
      <4>1. files[f] \in Seq(Chunks)
        BY <3>5 DEF SetupOK
      <4>2. n - 1 \in T /\ n - 1 <= MaxLoads
        BY <1>1, <2>1, <3>5, SessionAssumption
      <4>3. Readable(Loaded[n - 1])
        BY <4>2
      <4>4. Flat(files[f], Loaded[n - 1]) \in Seq(Chunks)
        BY <4>1, <4>3, FlatType
      <4> QED
        BY <3>2, <3>5, <4>4 DEF File1
    <3> QED
      BY <3>4, <3>5
  <2> QED
    BY <2>1 DEF Readable
<1> HIDE DEF T
<1>2. 0 \in T
  BY <1>1
<1>3. ASSUME NEW n \in Nat, n \in T PROVE n + 1 \in T
  <2>1. n + 1 \in Nat /\ n + 1 - 1 = n
    OBVIOUS
  <2> QED
    BY <1>1, <1>3, <2>1
<1>4. \A n \in Nat : n \in T
  BY <1>2, <1>3, SetInduction
<1> QED
  BY <1>4, SessionAssumption DEF T

LEMMA TextType ==
  ASSUME SetupOK, NEW script \in Seq(Chunks), NEW d \in 1..MaxLoads
  PROVE  Text(script, d) \in Seq(Chunks)
<1>1. MaxLoads - d \in 0..MaxLoads
  BY SessionAssumption
<1> QED
  BY <1>1, LoadedType, FlatType DEF Text

-----------------------------------------------------------------------------
\* What a text prints rests on what later lines print only.
LEMMA OutcomeAgrees ==
  ASSUME NEW text \in Seq(Chunks), SetupOK, NEW k \in 0..Len(input), NEW P, NEW Q,
         \A i \in k..Len(input) : P[i] = Q[i]
  PROVE  Outcome(text, k, P) = Outcome(text, k, Q)
<1> DEFINE i == k + Asked(text, FirstStop(text, k) - 1)
<1>1. FirstStop(text, k) - 1 \in Int
  <2>1. Len(text) \in Nat /\ FirstStop(text, k) \in 1..(Len(text) + 1)
    BY FirstStopExists
  <2> QED
    BY <2>1
<1>2. Asked(text, FirstStop(text, k) - 1) \in Nat
  BY <1>1, QuestionsFinite
<1>3. i \in 0..Len(input)
  BY LinesRead
<1>4. Len(input) \in Nat
  BY DEF SetupOK
<1>5. i \in k..Len(input)
  BY <1>2, <1>3, <1>4
<1> HIDE DEF i
<1>6. P[i] = Q[i]
  BY <1>5
<1> QED
  BY <1>6 DEF Outcome, i

Line(k, P) == Outcome(Text(input[k + 1], 1), k + 1, P)

LEMMA LineText ==
  ASSUME SetupOK, NEW k \in 0..Len(input), k # Len(input)
  PROVE  /\ k + 1 \in 0..Len(input) /\ Text(input[k + 1], 1) \in Seq(Chunks)
         /\ input[k + 1] \in Seq(Chunks)
<1>1. Len(input) \in Nat /\ input \in Seq(Seq(Chunks))
  BY DEF SetupOK
<1>2. k + 1 \in 1..Len(input)
  BY <1>1
<1>3. input[k + 1] \in Seq(Chunks)
  BY <1>1, <1>2
<1>4. 1 \in 1..MaxLoads
  BY SessionAssumption
<1> QED
  BY <1>1, <1>2, <1>3, <1>4, TextType

LEMMA PrintedExists ==
  ASSUME SetupOK
  PROVE  \E g : g = [k \in 0..Len(input) |-> IF k = Len(input) THEN <<>> ELSE Line(k, g)]
<1> DEFINE N == Len(input)
<1>1. N \in Nat
  BY DEF SetupOK
<1>10. ASSUME NEW k \in 0..N, k # N PROVE k + 1 \in 0..N /\ Text(input[k + 1], 1) \in Seq(Chunks)
  BY <1>10, LineText
<1>11. ASSUME NEW text \in Seq(Chunks), NEW k \in 0..N, NEW P, NEW Q,
              \A i \in k..N : P[i] = Q[i]
       PROVE  Outcome(text, k, P) = Outcome(text, k, Q)
  BY <1>11, OutcomeAgrees
<1> HIDE DEF N
<1> DEFINE V(P, k) == IF k = N THEN <<>> ELSE Line(k, P)
           F(P, m) == P = [k \in m..N |-> V(P, k)]
           T == {m \in Nat : m <= N => \E P : F(P, N - m)}
<1>12. ASSUME NEW k \in 0..N, NEW P, NEW Q, \A i \in (k + 1)..N : P[i] = Q[i]
       PROVE  V(P, k) = V(Q, k)
  <2>1. CASE k = N
    BY <2>1
  <2>2. CASE k # N
    <3>1. k + 1 \in 0..N /\ Text(input[k + 1], 1) \in Seq(Chunks)
      BY <1>10, <2>2
    <3>2. Line(k, P) = Line(k, Q)
      BY <1>11, <1>12, <3>1 DEF Line
    <3> QED
      BY <3>2
  <2> QED
    BY <2>1, <2>2
<1> HIDE DEF V
<1>2. 0 \in T
  <2> DEFINE P == [k \in N..N |-> <<>>]
  <2>1. \A k \in N..N : V(P, k) = <<>>
    BY <1>1 DEF V
  <2>2. F(P, N - 0)
    <3>1. N - 0 = N
      BY <1>1
    <3> QED
      BY <2>1, <3>1
  <2> HIDE DEF F, P
  <2> QED
    BY <2>2
<1>3. ASSUME NEW m \in Nat, m \in T PROVE m + 1 \in T
  <2> SUFFICES ASSUME m + 1 <= N PROVE \E P : F(P, N - (m + 1))
    OBVIOUS
  <2> DEFINE n == N - (m + 1)
  <2>1. n \in 0..N /\ n # N /\ N - m = n + 1 /\ m <= N
    BY <1>1
  <2>2. PICK P : F(P, N - m)
    BY <1>3, <2>1
  <2> HIDE DEF n
  <2> DEFINE Q == [k \in n..N |-> IF k = n THEN V(P, k) ELSE P[k]]
  <2>3. \A k \in (n + 1)..N : P[k] = V(P, k)
    BY <2>1, <2>2
  <2>4. /\ Q[n] = V(P, n)
        /\ \A k \in (n + 1)..N : Q[k] = P[k]
        /\ Q = [k \in n..N |-> Q[k]]
    BY <1>1, <2>1
  <2> HIDE DEF Q, F
  <2>5. ASSUME NEW k \in n..N PROVE Q[k] = V(Q, k)
    <3>1. k \in 0..N /\ (k = n \/ k \in (n + 1)..N)
      BY <1>1, <2>1
    <3>2. Q[k] = V(P, k)
      BY <2>3, <2>4, <3>1
    <3>3. \A i \in (k + 1)..N : P[i] = Q[i]
      <4>1. \A i \in (k + 1)..N : i \in (n + 1)..N
        BY <1>1, <2>1
      <4> QED
        BY <2>4, <4>1
    <3>4. V(P, k) = V(Q, k)
      BY <1>12, <3>1, <3>3
    <3> QED
      BY <3>2, <3>4
  <2>6. F(Q, n)
    BY <2>4, <2>5 DEF F
  <2> QED
    BY <2>6 DEF n
<1> HIDE DEF T
<1>4. N \in T
  BY <1>1, <1>2, <1>3, SetInduction
<1>5. PICK P : F(P, N - N)
  BY <1>1, <1>4 DEF T
<1>6. N - N = 0
  BY <1>1
<1>7. P = [k \in 0..N |-> V(P, k)]
  BY <1>5, <1>6
<1> QED
  BY <1>7 DEF V, N

LEMMA PrintedIs ==
  ASSUME SetupOK
  PROVE  \A k \in 0..Len(input) : Printed[k] = IF k = Len(input) THEN <<>> ELSE Line(k, Printed)
<1> DEFINE L == CHOOSE g : g = [k \in 0..Len(input) |-> IF k = Len(input) THEN <<>> ELSE Line(k, g)]
<1>1. L = [k \in 0..Len(input) |-> IF k = Len(input) THEN <<>> ELSE Line(k, L)]
  BY PrintedExists, Zenon
<1>2. Printed = L
  BY DEF Printed, Line
<1> HIDE DEF L
<1> QED
  BY <1>1, <1>2

LEMMA PrintedType ==
  ASSUME SetupOK
  PROVE  \A k \in 0..Len(input) : Printed[k] \in Seq(Reports)
<1> DEFINE N == Len(input)
           P == [k \in 0..N |-> IF Printed[k] \in Seq(Reports) THEN Printed[k] ELSE <<>>]
           T == {m \in Nat : m <= N => \A k \in (N - m)..N : Printed[k] \in Seq(Reports)}
<1>1. N \in Nat
  BY DEF SetupOK
<1>2. <<>> \in Seq(Reports)
  OBVIOUS
<1>3. \A k \in 0..N : P[k] \in Seq(Reports)
  BY <1>2
<1>4. \A k \in 0..N : Printed[k] = IF k = N THEN <<>> ELSE Line(k, Printed)
  BY PrintedIs
<1>5. 0 \in T
  <2>1. \A k \in (N - 0)..N : k = N /\ k \in 0..N
    BY <1>1
  <2> HIDE DEF N
  <2> QED
    BY <1>2, <1>4, <2>1
<1>6. ASSUME NEW m \in Nat, m \in T PROVE m + 1 \in T
  <2> DEFINE n == N - (m + 1)
  <2>1. ASSUME m + 1 <= N, NEW k \in n..N PROVE Printed[k] \in Seq(Reports)
    <3>1. k \in 0..N /\ (k = n \/ k \in (N - m)..N) /\ m <= N
      BY <1>1, <2>1
    <3>2. \A i \in (N - m)..N : Printed[i] \in Seq(Reports)
      BY <1>6, <3>1
    <3>3. CASE k = n
      <4>1. k # Len(input) /\ k \in 0..Len(input)
        BY <1>1, <2>1, <3>1, <3>3
      <4>2. k + 1 \in 0..Len(input) /\ Text(input[k + 1], 1) \in Seq(Chunks)
        BY <4>1, LineText
      <4>3. \A i \in (k + 1)..N : i \in (N - m)..N /\ i \in 0..N
        BY <1>1, <2>1, <3>1, <3>3
      <4>4. \A i \in (k + 1)..N : Printed[i] = P[i]
        BY <3>2, <4>3
      <4> HIDE DEF P
      <4>5. Outcome(Text(input[k + 1], 1), k + 1, Printed) = Outcome(Text(input[k + 1], 1), k + 1, P)
        BY <4>2, <4>4, OutcomeAgrees
      <4>6. Outcome(Text(input[k + 1], 1), k + 1, P) \in Seq(Reports)
        BY <1>3, <4>2, OutcomeType
      <4>7. Printed[k] = Line(k, Printed)
        BY <1>4, <4>1
      <4> QED
        BY <4>5, <4>6, <4>7 DEF Line
    <3> QED
      BY <3>1, <3>2, <3>3
  <2> QED
    BY <2>1
<1> HIDE DEF T
<1>7. N \in T
  BY <1>1, <1>5, <1>6, SetInduction
<1>8. \A k \in (N - N)..N : Printed[k] \in Seq(Reports)
  BY <1>1, <1>7 DEF T
<1>9. N - N = 0
  BY <1>1
<1> QED
  BY <1>8, <1>9

-----------------------------------------------------------------------------
LEMMA TailIs ==
  ASSUME NEW S, NEW q \in Seq(S), q # <<>>
  PROVE  Tail(q) = [k \in 1..(Len(q) - 1) |-> q[k + 1]]
<1>1. Tail(q) \in Seq(S) /\ Len(Tail(q)) = Len(q) - 1 /\ Len(q) - 1 \in Nat
  OBVIOUS
<1>2. \A k \in 1..(Len(q) - 1) : Tail(q)[k] = q[k + 1]
  OBVIOUS
<1>3. Tail(q) = [k \in 1..(Len(q) - 1) |-> Tail(q)[k]]
  <2>1. Tail(q) \in [1..Len(Tail(q)) -> S]
    BY <1>1, LenProperties
  <2> QED
    BY <1>1, <2>1
<1> QED
  BY <1>2, <1>3

\* From any part on, and nothing behind the last one.
LEMMA FromType ==
  ASSUME NEW S, NEW q \in Seq(Seq(S)), NEW j \in Nat \ {0}
  PROVE  From(q, j) \in Seq(S)
<1>1. SubSeq(q, j, Len(q)) \in Seq(Seq(S))
  OBVIOUS
<1> QED
  BY <1>1, FlattenType DEF From

\* The scripts in progress, and what they have left of their texts.
Nested(ss) == ss \in Seq(Scripts) /\ Len(ss) <= MaxLoads

LoadedOK(L) == \A n \in 0..MaxLoads : Readable(L[n])

PiecesOf(ss, i, L) == Pieces(ss[i].chunks, L[MaxLoads - i])

\* What a script has left behind the chunk it is at.
Rest(ss, i, L) == From(PiecesOf(ss, i, L), ss[i].next + 1)

\* What the n outermost scripts have left, each behind the load it is at.
Behind(ss, n, L) == FlattenSeq([k \in 1..n |-> Rest(ss, n + 1 - k, L)])

\* What is left to do.
Todo(ss, L) ==
  IF ss = <<>> THEN <<>>
  ELSE From(PiecesOf(ss, Len(ss), L), ss[Len(ss)].next) \o Behind(ss, Len(ss) - 1, L)

LEMMA RestType ==
  ASSUME NEW ss, Nested(ss), NEW L, LoadedOK(L), NEW i \in 1..Len(ss)
  PROVE  /\ PiecesOf(ss, i, L) \in Seq(Seq(Chunks))
         /\ Len(PiecesOf(ss, i, L)) = Len(ss[i].chunks)
         /\ Rest(ss, i, L) \in Seq(Chunks)
         /\ From(PiecesOf(ss, i, L), ss[i].next) \in Seq(Chunks)
<1>1. /\ ss[i] \in Scripts /\ Len(ss) \in Nat /\ i \in 1..MaxLoads
  BY SessionAssumption DEF Nested
<1>2. ss[i].chunks \in Seq(Chunks) /\ ss[i].next \in Nat \ {0} /\ ss[i].next + 1 \in Nat \ {0}
  BY <1>1 DEF Scripts
<1>3. MaxLoads - i \in 0..MaxLoads
  BY <1>1, SessionAssumption
<1>4. Readable(L[MaxLoads - i])
  BY <1>3 DEF LoadedOK
<1>5. /\ PiecesOf(ss, i, L) \in Seq(Seq(Chunks))
      /\ Len(PiecesOf(ss, i, L)) = Len(ss[i].chunks)
  BY <1>2, <1>4, PiecesType DEF PiecesOf
<1> QED
  BY <1>2, <1>5, FromType DEF Rest

LEMMA BehindNothing ==
  ASSUME NEW ss, NEW L
  PROVE  Behind(ss, 0, L) = <<>>
<1>1. [k \in 1..0 |-> Rest(ss, 0 + 1 - k, L)] = <<>>
  OBVIOUS
<1> QED
  BY <1>1, FlattenNothing DEF Behind

LEMMA BehindStep ==
  ASSUME NEW ss, NEW L, NEW n \in Nat \ {0}, \A i \in 1..n : Rest(ss, i, L) \in Seq(Chunks)
  PROVE  /\ Behind(ss, n, L) = Rest(ss, n, L) \o Behind(ss, n - 1, L)
         /\ Behind(ss, n, L) \in Seq(Chunks)
<1> DEFINE R(i) == Rest(ss, i, L)
           q == [k \in 1..n |-> R(n + 1 - k)]
           m == n - 1
           t == [k \in 1..m |-> R(m + 1 - k)]
<1>1. \A k \in 1..n : n + 1 - k \in 1..n
  OBVIOUS
<1>2. \A k \in 1..n : R(n + 1 - k) \in Seq(Chunks)
  BY <1>1
<1> HIDE DEF R
<1>3. q \in Seq(Seq(Chunks)) /\ Len(q) = n /\ q # <<>>
  BY <1>2
<1>4. q[1] = R(n)
  <2>1. n + 1 - 1 = n /\ 1 \in 1..n
    OBVIOUS
  <2> QED
    BY <2>1
<1>5. Tail(q) = t
  <2>1. \A k \in 1..m : k + 1 \in 1..n /\ n + 1 - (k + 1) = m + 1 - k
    OBVIOUS
  <2>2. \A k \in 1..m : q[k + 1] = R(m + 1 - k)
    BY <2>1
  <2>3. Tail(q) = [k \in 1..(Len(q) - 1) |-> q[k + 1]]
    BY <1>3, TailIs
  <2>4. Len(q) - 1 = m
    BY <1>3
  <2> HIDE DEF q, m
  <2> QED
    BY <2>2, <2>3, <2>4
<1>6. Behind(ss, n, L) = FlattenSeq(q) /\ Behind(ss, n - 1, L) = FlattenSeq(t)
  BY DEF Behind, R
<1> HIDE DEF q, t
<1>7. FlattenSeq(q) \in Seq(Chunks) /\ FlattenSeq(q) = q[1] \o FlattenSeq(Tail(q))
  BY <1>3, FlattenFront
<1> QED
  BY <1>4, <1>5, <1>6, <1>7 DEF R

LEMMA BehindSame ==
  ASSUME NEW ss, NEW tt, NEW L, NEW n \in Nat, \A i \in 1..n : ss[i] = tt[i]
  PROVE  Behind(ss, n, L) = Behind(tt, n, L)
<1>1. \A i \in 1..n : Rest(ss, i, L) = Rest(tt, i, L)
  BY DEF Rest, PiecesOf
<1>2. \A k \in 1..n : n + 1 - k \in 1..n
  OBVIOUS
<1>3. \A k \in 1..n : Rest(ss, n + 1 - k, L) = Rest(tt, n + 1 - k, L)
  BY <1>1, <1>2
<1> QED
  BY <1>3 DEF Behind

LEMMA BehindType ==
  ASSUME NEW ss, Nested(ss), NEW L, LoadedOK(L), NEW n \in 0..Len(ss)
  PROVE  Behind(ss, n, L) \in Seq(Chunks)
<1>1. Len(ss) \in Nat
  BY DEF Nested
<1>2. CASE n = 0
  <2>1. <<>> \in Seq(Chunks)
    OBVIOUS
  <2> QED
    BY <1>2, <2>1, BehindNothing
<1>3. CASE n # 0
  <2>1. n \in Nat \ {0} /\ \A i \in 1..n : i \in 1..Len(ss)
    BY <1>1, <1>3
  <2>2. \A i \in 1..n : Rest(ss, i, L) \in Seq(Chunks)
    BY <2>1, RestType
  <2> QED
    BY <2>1, <2>2, BehindStep
<1> QED
  BY <1>2, <1>3

LEMMA TodoType ==
  ASSUME NEW ss, Nested(ss), NEW L, LoadedOK(L)
  PROVE  Todo(ss, L) \in Seq(Chunks)
<1>1. CASE ss = <<>>
  <2>1. <<>> \in Seq(Chunks)
    OBVIOUS
  <2> QED
    BY <1>1, <2>1 DEF Todo
<1>2. CASE ss # <<>>
  <2>1. Len(ss) \in 1..Len(ss) /\ Len(ss) - 1 \in 0..Len(ss)
    BY <1>2 DEF Nested
  <2>2. Behind(ss, Len(ss) - 1, L) \in Seq(Chunks)
    BY <2>1, BehindType
  <2>3. From(PiecesOf(ss, Len(ss), L), ss[Len(ss)].next) \in Seq(Chunks)
    BY <2>1, RestType
  <2> QED
    BY <1>2, <2>2, <2>3 DEF Todo
<1> QED
  BY <1>1, <1>2

\* The piece that is next comes first.
LEMMA TodoFront ==
  ASSUME NEW ss, Nested(ss), ss # <<>>, NEW L, LoadedOK(L),
         ss[Len(ss)].next <= Len(ss[Len(ss)].chunks)
  PROVE  LET n == Len(ss)
             p == PiecesOf(ss, n, L)[ss[n].next]
         IN /\ p \in Seq(Chunks)
            /\ Rest(ss, n, L) \in Seq(Chunks) /\ Behind(ss, n - 1, L) \in Seq(Chunks)
            /\ Todo(ss, L) = p \o (Rest(ss, n, L) \o Behind(ss, n - 1, L))
<1> DEFINE n == Len(ss)
           q == PiecesOf(ss, n, L)
           j == ss[n].next
           p == q[j]
           r == Rest(ss, n, L)
           b == Behind(ss, n - 1, L)
<1>1. n \in 1..n /\ n - 1 \in 0..n /\ ss[n] \in Scripts
  BY DEF Nested
<1>2. q \in Seq(Seq(Chunks)) /\ Len(q) = Len(ss[n].chunks) /\ r \in Seq(Chunks)
  BY <1>1, RestType
<1>3. b \in Seq(Chunks)
  BY <1>1, BehindType
<1>4. j \in 1..Len(q)
  BY <1>1, <1>2 DEF Scripts
<1>5. r = From(q, j + 1)
  BY DEF Rest
<1>6. Todo(ss, L) = From(q, j) \o b
  BY DEF Todo
<1> HIDE DEF n, q, j, r, b
<1>7. p \in Seq(Chunks)
  BY <1>2, <1>4
<1>8. From(q, j) = p \o From(q, j + 1)
  BY <1>2, <1>4, FromNext
<1> HIDE DEF p
<1>9. (p \o r) \o b = p \o (r \o b)
  BY <1>2, <1>3, <1>7, Associates
<1>10. Todo(ss, L) = p \o (r \o b)
  BY <1>5, <1>6, <1>8, <1>9
<1> QED
  BY <1>2, <1>3, <1>7, <1>10 DEF n, q, j, p, r, b

\* The innermost script goes on behind its chunk.
LEMMA TodoAdvances ==
  ASSUME NEW ss, Nested(ss), ss # <<>>, NEW L, LoadedOK(L),
         ss[Len(ss)].next <= Len(ss[Len(ss)].chunks),
         NEW tt, Len(tt) = Len(ss), tt # <<>>, \A i \in 1..(Len(ss) - 1) : ss[i] = tt[i],
         tt[Len(ss)].chunks = ss[Len(ss)].chunks, tt[Len(ss)].next = ss[Len(ss)].next + 1
  PROVE  LET p == PiecesOf(ss, Len(ss), L)[ss[Len(ss)].next]
         IN p \in Seq(Chunks) /\ Todo(ss, L) = p \o Todo(tt, L)
<1> DEFINE n == Len(ss)
<1>1. ss \in Seq(Scripts) /\ n \in 1..n /\ n \in Nat /\ n - 1 \in Nat
  BY DEF Nested
<1>2. /\ Len(tt) = n /\ tt # <<>>
      /\ \A i \in 1..(n - 1) : ss[i] = tt[i]
      /\ tt[n].chunks = ss[n].chunks /\ tt[n].next = ss[n].next + 1
  OBVIOUS
<1> HIDE DEF n
<1>4. Behind(ss, n - 1, L) = Behind(tt, n - 1, L)
  <2> DEFINE m == n - 1
  <2>1. m \in Nat /\ \A i \in 1..m : ss[i] = tt[i]
    BY <1>1, <1>2
  <2> HIDE DEF m
  <2>2. Behind(ss, m, L) = Behind(tt, m, L)
    BY <2>1, BehindSame
  <2> QED
    BY <2>2 DEF m
<1>5. From(PiecesOf(tt, n, L), tt[n].next) = Rest(ss, n, L)
  BY <1>2 DEF Rest, PiecesOf
<1>6. Todo(tt, L) = Rest(ss, n, L) \o Behind(ss, n - 1, L)
  BY <1>2, <1>4, <1>5 DEF Todo
<1> QED
  BY <1>6, TodoFront DEF n

\* A script that starts stands for the load in the script behind it.
LEMMA TodoStarts ==
  ASSUME NEW ss, Nested(ss), NEW L, LoadedOK(L), Len(ss) < MaxLoads,
         NEW s \in Seq(Chunks), NEW tt, tt = Append(ss, Started(s))
  PROVE  /\ Nested(tt)
         /\ Todo(tt, L) = Flat(s, L[MaxLoads - (Len(ss) + 1)]) \o Behind(ss, Len(ss), L)
<1> DEFINE n == Len(ss) + 1
<1>1. ss \in Seq(Scripts) /\ Len(ss) \in Nat /\ Len(ss) + 1 \in Nat /\ MaxLoads \in Nat
  BY SessionAssumption DEF Nested
<1>2. Started(s) \in Scripts
  BY StartedTypes
<1>3. /\ tt \in Seq(Scripts) /\ Len(tt) = n /\ tt # <<>> /\ tt[n] = Started(s)
      /\ \A i \in 1..Len(ss) : ss[i] = tt[i]
  BY <1>1, <1>2
<1>4. Nested(tt)
  BY <1>1, <1>3 DEF Nested
<1>5. Behind(ss, Len(ss), L) = Behind(tt, Len(ss), L)
  <2> DEFINE m == Len(ss)
  <2>1. m \in Nat /\ \A i \in 1..m : ss[i] = tt[i]
    BY <1>1, <1>3
  <2> HIDE DEF m
  <2>2. Behind(ss, m, L) = Behind(tt, m, L)
    BY <2>1, BehindSame
  <2> QED
    BY <2>2 DEF m
<1>6. Len(tt) - 1 = Len(ss) /\ n \in 1..Len(tt)
  BY <1>1, <1>3
<1>7. tt[n].chunks = s /\ tt[n].next = 1
  BY <1>3 DEF Started
<1>8. PiecesOf(tt, n, L) = Pieces(s, L[MaxLoads - n]) /\ PiecesOf(tt, n, L) \in Seq(Seq(Chunks))
  BY <1>4, <1>6, <1>7, RestType DEF PiecesOf
<1>9. From(PiecesOf(tt, n, L), 1) = Flat(s, L[MaxLoads - n])
  BY <1>8, FromEnd DEF Flat
<1> QED
  BY <1>3, <1>4, <1>5, <1>6, <1>7, <1>9 DEF Todo

\* A script that has ended has nothing left.
LEMMA TodoEnds ==
  ASSUME NEW ss, Nested(ss), NEW L, LoadedOK(L), Len(ss) = 1 \/ Len(ss) > 1,
         ss[Len(ss)].next = Len(ss[Len(ss)].chunks) + 1
  PROVE  /\ Todo(ss, L) = Behind(ss, Len(ss) - 1, L)
         /\ Len(ss) = 1 => Todo(ss, L) = <<>>
<1> DEFINE n == Len(ss)
           q == PiecesOf(ss, n, L)
<1>1. n \in 1..n /\ n - 1 \in 0..n /\ n - 1 \in Nat /\ ss # <<>>
  BY DEF Nested
<1>2. q \in Seq(Seq(Chunks)) /\ Len(q) = Len(ss[n].chunks)
  BY <1>1, RestType
<1>3. From(q, ss[n].next) = <<>>
  <2>1. ss[n].next = Len(q) + 1
    BY <1>2
  <2> HIDE DEF q
  <2> QED
    BY <1>2, <2>1, FromEnd
<1>4. Behind(ss, n - 1, L) \in Seq(Chunks)
  BY <1>1, BehindType
<1>5. Todo(ss, L) = <<>> \o Behind(ss, n - 1, L)
  BY <1>1, <1>3 DEF Todo
<1>6. Todo(ss, L) = Behind(ss, n - 1, L)
  BY <1>4, <1>5, ConcatEmptySeq
<1>7. n = 1 => n - 1 = 0
  OBVIOUS
<1> QED
  BY <1>6, <1>7, BehindNothing

-----------------------------------------------------------------------------
LEMMA PieceIs ==
  ASSUME NEW script \in Seq(Chunks), NEW loaded, NEW i \in 1..Len(script)
  PROVE  Pieces(script, loaded)[i]
           = IF script[i].kind = "dot" /\ i > 1 /\ script[i - 1].newline THEN <<>>
             ELSE IF script[i].kind = "load" THEN loaded[script[i].file] ELSE <<script[i]>>
<1>1. i \in DOMAIN script
  OBVIOUS
<1> QED
  BY <1>1 DEF Pieces

LEMMA ChunkKinds ==
  \A c \in Chunks : /\ c.kind \in {"expression", "error", "bye", "ask", "dot", "load"}
                    /\ c.kind = "dot" => ~c.newline
BY DEF Chunks, Chunk, Load

LEMMA Successor ==
  \A x, y : y \in Nat \ {0} /\ x = y + 1 => x - 1 = y /\ x > 1
OBVIOUS

LEMMA RangeAppend ==
  ASSUME NEW S, NEW p \in Seq(S), NEW x \in S
  PROVE  Range(Append(p, x)) = Range(p) \cup {x}
<1> DEFINE q == Append(p, x)
<1>1. /\ DOMAIN p = 1..Len(p) /\ DOMAIN q = 1..(Len(p) + 1) /\ Len(p) \in Nat
      /\ \A i \in 1..Len(p) : q[i] = p[i]
      /\ q[Len(p) + 1] = x
  OBVIOUS
<1> HIDE DEF q
<1>2. \A i \in DOMAIN q : q[i] \in Range(p) \cup {x}
  BY <1>1 DEF Range
<1>3. \A i \in DOMAIN p : p[i] \in Range(q)
  BY <1>1 DEF Range
<1>4. x \in Range(q)
  BY <1>1 DEF Range
<1>5. Range(q) \subseteq Range(p) \cup {x} /\ Range(p) \subseteq Range(q)
  BY <1>2, <1>3 DEF Range
<1> QED
  BY <1>4, <1>5 DEF q

-----------------------------------------------------------------------------
\* What is still to be printed.
Remaining ==
  IF leaving THEN <<>>
  ELSE IF failed THEN <<"diagnostic">> \o Printed[taken]
  ELSE Outcome(Todo(scripts, Loaded), taken, Printed)

\* What is printed already and what is still to come is what the text says.
Promise == printed \o Remaining = Printed[0]

\* A dot is redundant just behind a newline.
DotsAllowed ==
  ~leaving => \A i \in 1..Len(scripts) :
                 scripts[i].allowRedundantDot
                   <=> scripts[i].next > 1 /\ scripts[i].chunks[scripts[i].next - 1].newline

Depth == Len(scripts) <= MaxLoads

EndsRead == ended => leaving \/ taken = Len(input)

StatusTells == status = 1 <=> "diagnostic" \in Range(printed)

AsWritten == SessionInv /\ Promise /\ DotsAllowed /\ Depth /\ EndsRead /\ StatusTells

-----------------------------------------------------------------------------
LEMMA SameWorld ==
  UNCHANGED <<terminal, files, input>> => Loaded' = Loaded /\ Printed' = Printed
<1>1. files' = files => Loaded' = Loaded
  BY SMT DEF Loaded
<1>2. UNCHANGED <<terminal, input>> /\ Loaded' = Loaded => Printed' = Printed
  BY SMT DEF Printed, Outcome, Text, FirstStop, Stops
<1> QED
  BY <1>1, <1>2

LEMMA RemainingNext ==
  ASSUME UNCHANGED <<terminal, files, input>>
  PROVE  Remaining' = IF leaving' THEN <<>>
                      ELSE IF failed' THEN <<"diagnostic">> \o Printed[taken']
                      ELSE Outcome(Todo(scripts', Loaded), taken', Printed)
<1>1. Loaded' = Loaded /\ Printed' = Printed
  BY SameWorld
<1>2. \A text, k, P : Outcome(text, k, P)' = Outcome(text, k, P)
  BY DEF Outcome, FirstStop, Stops
<1> QED
  BY <1>1 DEF Remaining, Outcome, FirstStop, Stops

LEMMA SessionTypes ==
  ASSUME SessionInv, Depth
  PROVE  /\ SetupOK /\ LoadedOK(Loaded) /\ Nested(scripts)
         /\ Len(input) \in Nat /\ taken \in 0..Len(input) /\ taken \in Nat
         /\ printed \in Seq(Reports)
         /\ \A k \in 0..Len(input) : Printed[k] \in Seq(Reports)
<1>1. SetupOK /\ Types
  BY DEF SessionInv
<1>2. Len(input) \in Nat /\ taken \in 0..Len(input) /\ taken \in Nat
  BY <1>1 DEF SetupOK, Types
<1>3. LoadedOK(Loaded)
  BY <1>1, LoadedType DEF LoadedOK
<1>4. \A k \in 0..Len(input) : Printed[k] \in Seq(Reports)
  BY <1>1, PrintedType
<1> QED
  BY <1>1, <1>2, <1>3, <1>4 DEF Nested, Depth, Types, Reports

\* The piece that the chunk at hand stands for.
Piece == PiecesOf(scripts, Len(scripts), Loaded)[Top.next]

LEMMA PieceAtChunk ==
  ASSUME AsWritten, AtChunk
  PROVE  /\ Piece = IF Redundant THEN <<>>
                    ELSE IF Chunk1.kind = "load" THEN Loaded[MaxLoads - Len(scripts)][Chunk1.file]
                    ELSE <<Chunk1>>
         /\ Chunk1 \in Chunks /\ Top \in Scripts
<1>1. scripts # <<>> /\ ~leaving /\ Top.next <= Len(Top.chunks)
  BY DEF AtChunk
<1>2. Top \in Scripts /\ Chunk1 \in Chunks /\ Len(scripts) \in 1..Len(scripts)
  BY <1>1, TopTypes DEF AsWritten
<1>3. Top.chunks \in Seq(Chunks) /\ Top.next \in 1..Len(Top.chunks)
  BY <1>1, <1>2 DEF Scripts
<1>4. Top.allowRedundantDot <=> Top.next > 1 /\ Top.chunks[Top.next - 1].newline
  BY <1>1, <1>2 DEF AsWritten, DotsAllowed, Top
<1>5. Redundant <=> Chunk1.kind = "dot" /\ Top.next > 1 /\ Top.chunks[Top.next - 1].newline
  BY <1>2, <1>4, ChunkKinds DEF Redundant
<1>6. Piece = Pieces(Top.chunks, Loaded[MaxLoads - Len(scripts)])[Top.next]
  BY DEF Piece, PiecesOf, Top
<1>7. Chunk1 = Top.chunks[Top.next]
  BY DEF Chunk1
<1> QED
  BY <1>2, <1>3, <1>5, <1>6, <1>7, PieceIs

LEMMA TodoAtChunk ==
  ASSUME SessionInv, Depth, AtChunk
  PROVE  LET r == Rest(scripts, Len(scripts), Loaded)
             b == Behind(scripts, Len(scripts) - 1, Loaded)
         IN /\ Piece \in Seq(Chunks) /\ r \in Seq(Chunks) /\ b \in Seq(Chunks)
            /\ Todo(scripts, Loaded) = Piece \o (r \o b)
<1>1. scripts # <<>> /\ Top.next <= Len(Top.chunks)
  BY DEF AtChunk
<1>2. Nested(scripts) /\ LoadedOK(Loaded) /\ Top = scripts[Len(scripts)]
  BY SessionTypes DEF Top
<1>3. scripts[Len(scripts)].next <= Len(scripts[Len(scripts)].chunks)
  BY <1>1, <1>2
<1>4. Piece = PiecesOf(scripts, Len(scripts), Loaded)[scripts[Len(scripts)].next]
  BY <1>2 DEF Piece
<1> QED
  BY <1>1, <1>2, <1>3, <1>4, TodoFront

\* The innermost script goes on: what is left loses its first piece.
LEMMA GoesOn ==
  ASSUME AsWritten, AtChunk, scripts' = InTop(Advanced(Top, Chunk1.newline)), leaving' = leaving
  PROVE  /\ Depth' /\ DotsAllowed'
         /\ Piece \in Seq(Chunks) /\ Todo(scripts', Loaded) \in Seq(Chunks)
         /\ Todo(scripts, Loaded) = Piece \o Todo(scripts', Loaded)
<1> DEFINE n == Len(scripts)
           tt == scripts'
<1>1. SessionInv /\ Depth /\ scripts # <<>> /\ ~leaving /\ Top.next <= Len(Top.chunks)
  BY DEF AsWritten, AtChunk
<1>2. /\ scripts \in Seq(Scripts) /\ n \in 1..n /\ n \in Nat /\ Top = scripts[n] /\ Top \in Scripts
      /\ Chunk1.newline \in BOOLEAN
  BY <1>1, TopTypes DEF SessionInv, Types, Top
<1>3. Nested(scripts) /\ LoadedOK(Loaded)
  BY <1>1, SessionTypes
<1>4. Advanced(Top, Chunk1.newline) \in Scripts
  BY <1>1, <1>2, AdvancedTypes
<1>5. tt = [scripts EXCEPT ![n] = Advanced(Top, Chunk1.newline)]
  BY DEF InTop
<1> HIDE DEF tt
<1>6. /\ tt \in Seq(Scripts) /\ Len(tt) = n /\ tt # <<>> /\ tt[n] = Advanced(Top, Chunk1.newline)
      /\ \A i \in 1..n : i # n => tt[i] = scripts[i]
  BY <1>2, <1>4, <1>5
<1>7. /\ tt[n].chunks = Top.chunks /\ tt[n].next = Top.next + 1
      /\ tt[n].allowRedundantDot = Chunk1.newline
  BY <1>6 DEF Advanced
<1>8. Nested(tt)
  BY <1>3, <1>6 DEF Nested
<1>9. DotsAllowed'
  <2>1. ASSUME NEW i \in 1..n
        PROVE  tt[i].allowRedundantDot <=> tt[i].next > 1 /\ tt[i].chunks[tt[i].next - 1].newline
    <3>1. CASE i = n
      <4>1. Top.next \in Nat \ {0}
        BY <1>2 DEF Scripts
      <4>2. tt[i].next > 1 /\ tt[i].chunks[tt[i].next - 1] = Chunk1
        <5>1. tt[i].next = Top.next + 1 /\ tt[i].chunks = Top.chunks
          BY <1>7, <3>1, Zenon
        <5>2. tt[i].next - 1 = Top.next /\ tt[i].next > 1
          BY <4>1, <5>1, Successor, Zenon
        <5> QED
          BY <5>1, <5>2, Zenon DEF Chunk1
      <4> QED
        BY <1>2, <1>7, <3>1, <4>2
    <3>2. CASE i # n
      BY <1>1, <1>6, <3>2 DEF AsWritten, DotsAllowed
    <3> QED
      BY <3>1, <3>2
  <2> QED
    BY <1>6, <2>1 DEF DotsAllowed, tt
<1>10. \A i \in 1..(n - 1) : scripts[i] = tt[i]
  BY <1>2, <1>6
<1>11. Piece \in Seq(Chunks) /\ Todo(scripts, Loaded) = Piece \o Todo(tt, Loaded)
  BY <1>1, <1>2, <1>3, <1>6, <1>7, <1>10, TodoAdvances DEF Piece
<1>12. Todo(tt, Loaded) \in Seq(Chunks)
  BY <1>3, <1>8, TodoType
<1> QED
  BY <1>8, <1>9, <1>11, <1>12 DEF tt, Nested, Depth

\* What is printed now was to come first.
LEMMA PrintsFirst ==
  ASSUME AsWritten, NEW x \in Reports, printed' = Append(printed, x), UNCHANGED <<terminal, files, input>>,
         Remaining' \in Seq(Reports), Remaining = <<x>> \o Remaining'
  PROVE  Promise'
<1> DEFINE r == Remaining'
           y == <<x>>
<1>1. printed \in Seq(Reports) /\ y \in Seq(Reports)
  BY SessionTypes DEF AsWritten
<1>2. printed' = printed \o y
  BY <1>1
<1>3. Printed' = Printed
  BY SameWorld
<1> HIDE DEF r, y
<1>4. (printed \o y) \o r = printed \o (y \o r)
  BY <1>1, Associates DEF r
<1>5. printed \o (y \o r) = Printed[0]
  BY DEF AsWritten, Promise, r, y
<1>6. (printed' \o r) = Printed'[0]
  BY <1>2, <1>3, <1>4, <1>5
<1> QED
  BY <1>6 DEF Promise, r

LEMMA PrintsNothing ==
  ASSUME AsWritten, printed' = printed, UNCHANGED <<terminal, files, input>>, Remaining' = Remaining
  PROVE  Promise'
BY SameWorld DEF AsWritten, Promise

-----------------------------------------------------------------------------
LEMMA SkipGoesOn ==
  ASSUME AsWritten, SkipRedundantDot
  PROVE  AsWritten'
<1>1. /\ AtChunk /\ Redundant /\ scripts' = InTop(Advanced(Top, FALSE))
      /\ UNCHANGED <<terminal, files, input, taken, leaving, failed, status, ended, printed>>
  BY DEF SkipRedundantDot
<1>2. SessionInv'
  BY EvalKeeps DEF AsWritten
<1>3. ~Chunk1.newline /\ Chunk1.newline \in BOOLEAN
  <2>1. Chunk1 \in Chunks
    BY <1>1, PieceAtChunk
  <2> QED
    BY <1>1, <2>1, ChunkFields DEF Redundant
<1>4. scripts' = InTop(Advanced(Top, Chunk1.newline))
  BY <1>1, <1>3
<1>5. /\ Depth' /\ DotsAllowed'
      /\ Todo(scripts', Loaded) \in Seq(Chunks)
      /\ Todo(scripts, Loaded) = Piece \o Todo(scripts', Loaded)
  BY <1>1, <1>4, GoesOn
<1>6. Piece = <<>>
  BY <1>1, PieceAtChunk
<1>7. Todo(scripts, Loaded) = Todo(scripts', Loaded)
  BY <1>5, <1>6, ConcatEmptySeq
<1>8. Remaining' = Remaining
  BY <1>1, <1>7, RemainingNext DEF Remaining
<1>9. Promise'
  BY <1>1, <1>8, PrintsNothing
<1> QED
  BY <1>1, <1>2, <1>5, <1>9 DEF AsWritten, EndsRead, StatusTells

\* A chunk with a result, which reads d lines.
LEMMA ResultGoesOn ==
  ASSUME AsWritten, EvalText \/ EvalAsk
  PROVE  AsWritten'
<1> DEFINE d == IF Chunk1.kind = "ask" THEN 1 ELSE 0
           t == Todo(scripts', Loaded)
<1>1. /\ AtChunk /\ scripts' = InTop(Done) /\ printed' = Append(printed, "result")
      /\ UNCHANGED <<terminal, files, input, leaving, failed, status, ended>>
      /\ Chunk1.kind \in {"expression", "ask"}
      /\ Chunk1.kind = "ask" => terminal /\ More
      /\ Chunk1.kind = "ask" => taken' = taken + 1
      /\ Chunk1.kind # "ask" => taken' = taken
  BY DEF EvalText, EvalAsk
<1>2. SessionInv'
  BY EvalKeeps DEF AsWritten
<1>3. /\ SetupOK /\ Len(input) \in Nat /\ taken \in 0..Len(input) /\ taken \in Nat
      /\ \A k \in 0..Len(input) : Printed[k] \in Seq(Reports)
      /\ printed \in Seq(Reports)
  BY SessionTypes DEF AsWritten
<1>4. Chunk1 \in Chunks /\ Piece = <<Chunk1>>
  BY <1>1, PieceAtChunk DEF Redundant
<1>5. /\ Depth' /\ DotsAllowed' /\ t \in Seq(Chunks)
      /\ Todo(scripts, Loaded) = Piece \o t
  BY <1>1, GoesOn DEF Done
<1>6. taken' = taken + d /\ taken' \in 0..Len(input)
  BY <1>1, <1>3 DEF More
<1> HIDE DEF t
<1>7. Outcome(<<Chunk1>> \o t, taken, Printed) = <<"result">> \o Outcome(t, taken + d, Printed)
  BY <1>1, <1>3, <1>4, <1>5, OutcomeGoesOn DEF More
<1> HIDE DEF d
<1>8. ~leaving /\ ~failed
  BY <1>1 DEF AtChunk
<1>9. Remaining' = Outcome(t, taken', Printed)
  BY <1>1, <1>8, RemainingNext DEF t
<1>10. Remaining' \in Seq(Reports)
  BY <1>3, <1>5, <1>6, <1>9, OutcomeType
<1>11. Remaining = <<"result">> \o Remaining'
  <2>1. Remaining = Outcome(Piece \o t, taken, Printed)
    BY <1>5, <1>8 DEF Remaining
  <2> QED
    BY <1>4, <1>6, <1>7, <1>9, <2>1
<1>12. "result" \in Reports
  BY DEF Reports
<1>13. Promise'
  BY <1>1, <1>10, <1>11, <1>12, PrintsFirst
<1>14. StatusTells'
  <2>1. Range(printed') = Range(printed) \cup {"result"}
    BY <1>1, <1>3, <1>12, RangeAppend
  <2> QED
    BY <1>1, <2>1 DEF AsWritten, StatusTells
<1>15. ~ended
  BY <1>1 DEF AsWritten, SessionInv, Flags, AtChunk
<1> QED
  BY <1>1, <1>2, <1>5, <1>13, <1>14, <1>15 DEF AsWritten, EndsRead

LEMMA FailsGoesOn ==
  ASSUME AsWritten, EvalFails
  PROVE  AsWritten'
<1>1. /\ AtChunk /\ Fails(Chunk1) /\ failed' /\ ~leaving /\ ~failed
      /\ UNCHANGED <<terminal, files, input, taken, scripts, leaving, status, ended, printed>>
      /\ scripts # <<>> /\ Top.next <= Len(Top.chunks)
  BY DEF EvalFails, AtChunk
<1>2. SessionInv'
  BY EvalFailsKeeps DEF AsWritten
<1>3. /\ SetupOK /\ Len(input) \in Nat /\ taken \in 0..Len(input) /\ taken \in Nat
      /\ LoadedOK(Loaded) /\ Nested(scripts)
      /\ Printed[taken] \in Seq(Reports)
  BY SessionTypes DEF AsWritten
<1> DEFINE e == Rest(scripts, Len(scripts), Loaded) \o Behind(scripts, Len(scripts) - 1, Loaded)
<1>4. e \in Seq(Chunks) /\ Todo(scripts, Loaded) = Piece \o e
  BY <1>1, TodoAtChunk DEF AsWritten
<1> HIDE DEF e
<1>5. PICK c \in Chunks : /\ Piece = <<c>> /\ c.kind # "bye"
                          /\ \/ c.kind \in {"error", "dot", "bye"}
                             \/ c.kind = "ask" /\ (~terminal \/ taken + 1 > Len(input))
  <2>1. CASE Chunk1.kind = "load"
    <3>1. MaxLoads - Len(scripts) \in 0..MaxLoads
      BY <1>3, SessionAssumption DEF Nested
    <3>2. Chunk1.file \in File /\ files[Chunk1.file] = Missing
      BY <1>1, <2>1, PieceAtChunk, LoadsFile DEF Fails
    <3>3. Loaded[MaxLoads - Len(scripts)][Chunk1.file] = <<Chunk("error", FALSE)>>
      BY <3>1, <3>2, LoadedIs DEF File1
    <3>4. Piece = <<Chunk("error", FALSE)>>
      BY <1>1, <2>1, <3>3, PieceAtChunk DEF Redundant
    <3>5. Chunk("error", FALSE).kind = "error"
      BY DEF Chunk
    <3> QED
      BY <3>4, <3>5, ErrorIsChunk
  <2>2. CASE Chunk1.kind # "load"
    <3>1. ~Redundant
      BY <1>1 DEF Fails, Redundant
    <3>2. Chunk1 \in Chunks /\ Piece = <<Chunk1>>
      BY <1>1, <2>2, <3>1, PieceAtChunk
    <3>3. Chunk1.kind = "ask" => ~terminal \/ taken + 1 > Len(input)
      BY <1>1, <1>3 DEF Fails, More
    <3>4. Chunk1.kind \in {"error", "dot", "ask"}
      BY <1>1, <2>2 DEF Fails
    <3> QED
      BY <3>2, <3>3, <3>4
  <2> QED
    BY <2>1, <2>2
<1>6. Outcome(<<c>> \o e, taken, Printed) = <<"diagnostic">> \o Printed[taken]
  BY <1>3, <1>4, <1>5, OutcomeStops
<1>7. Remaining = <<"diagnostic">> \o Printed[taken]
  BY <1>1, <1>4, <1>5, <1>6 DEF Remaining
<1>8. Remaining' = Remaining
  BY <1>1, <1>7, RemainingNext
<1>9. Promise'
  BY <1>1, <1>8, PrintsNothing
<1> QED
  BY <1>1, <1>2, <1>9 DEF AsWritten, DotsAllowed, Depth, EndsRead, StatusTells

LEMMA ByeGoesOn ==
  ASSUME AsWritten, EvalBye
  PROVE  AsWritten'
<1>1. /\ AtChunk /\ Chunk1.kind = "bye" /\ leaving' /\ ~leaving /\ ~failed
      /\ scripts' = InTop([Top EXCEPT !.next = Len(Top.chunks) + 1])
      /\ UNCHANGED <<terminal, files, input, taken, failed, status, ended, printed>>
      /\ scripts # <<>> /\ Top.next <= Len(Top.chunks)
  BY DEF EvalBye, AtChunk
<1>2. SessionInv'
  BY EvalByeKeeps DEF AsWritten
<1>3. /\ SetupOK /\ Len(input) \in Nat /\ taken \in 0..Len(input) /\ taken \in Nat
      /\ LoadedOK(Loaded) /\ Nested(scripts)
      /\ Printed[taken] \in Seq(Reports)
  BY SessionTypes DEF AsWritten
<1> DEFINE e == Rest(scripts, Len(scripts), Loaded) \o Behind(scripts, Len(scripts) - 1, Loaded)
<1>4. e \in Seq(Chunks) /\ Todo(scripts, Loaded) = Piece \o e
  BY <1>1, TodoAtChunk DEF AsWritten
<1> HIDE DEF e
<1>5. Chunk1 \in Chunks /\ Piece = <<Chunk1>>
  BY <1>1, PieceAtChunk DEF Redundant
<1>6. Outcome(<<Chunk1>> \o e, taken, Printed) = <<>>
  BY <1>1, <1>3, <1>4, <1>5, OutcomeStops
<1>7. Remaining = <<>>
  BY <1>1, <1>4, <1>5, <1>6 DEF Remaining
<1>8. Remaining' = Remaining
  BY <1>1, <1>7 DEF Remaining
<1>9. Promise'
  BY <1>1, <1>8, PrintsNothing
<1>10. Len(scripts') = Len(scripts)
  BY <1>1, <1>3 DEF InTop, Nested
<1> QED
  BY <1>1, <1>2, <1>9, <1>10 DEF AsWritten, DotsAllowed, Depth, EndsRead, StatusTells

LEMMA LoadGoesOn ==
  ASSUME AsWritten, EvalLoad
  PROVE  AsWritten'
<1> DEFINE s == files[Chunk1.file]
           n == Len(scripts)
           p == Rest(scripts, n, Loaded)
           b == Behind(scripts, n - 1, Loaded)
<1>1. /\ AtChunk /\ Chunk1.kind = "load" /\ s # Missing /\ n < MaxLoads /\ ~leaving /\ ~failed
      /\ scripts' = Append(scripts, Started(s))
      /\ UNCHANGED <<terminal, files, input, taken, leaving, failed, status, ended, printed>>
      /\ scripts # <<>> /\ Top.next <= Len(Top.chunks)
  BY DEF EvalLoad, AtChunk
<1>2. SessionInv'
  BY EvalLoadKeeps DEF AsWritten
<1>3. /\ SetupOK /\ LoadedOK(Loaded) /\ Nested(scripts) /\ n \in Nat /\ n \in 1..n /\ n \in Nat \ {0}
      /\ scripts \in Seq(Scripts)
  BY <1>1, SessionTypes DEF AsWritten, Nested
<1>4. Chunk1.file \in File /\ s \in Seq(Chunks)
  <2>1. Chunk1 \in Chunks
    BY <1>1, PieceAtChunk
  <2>2. Chunk1.file \in File
    BY <1>1, <2>1, LoadsFile
  <2> QED
    BY <1>1, <1>3, <2>2 DEF SetupOK
<1>5. Piece = Flat(s, Loaded[MaxLoads - (n + 1)])
  <2>1. MaxLoads - n \in 0..MaxLoads /\ MaxLoads - n # 0 /\ MaxLoads - n - 1 = MaxLoads - (n + 1)
    BY <1>1, <1>3, SessionAssumption
  <2>2. Loaded[MaxLoads - n][Chunk1.file] = File1(Chunk1.file, Loaded, MaxLoads - n)
    BY <1>4, <2>1, LoadedIs
  <2>3. Loaded[MaxLoads - n][Chunk1.file] = Flat(s, Loaded[MaxLoads - (n + 1)])
    <3> DEFINE m == MaxLoads - n
    <3>1. m # 0 /\ m - 1 = MaxLoads - (n + 1)
      BY <2>1
    <3>2. Loaded[m][Chunk1.file] = File1(Chunk1.file, Loaded, m)
      BY <2>2
    <3> HIDE DEF m, n
    <3>3. Loaded[m][Chunk1.file] = Flat(s, Loaded[m - 1])
      BY <1>1, <3>1, <3>2 DEF File1
    <3>4. Loaded[m][Chunk1.file] = Flat(s, Loaded[MaxLoads - (n + 1)])
      BY <3>1, <3>3, Zenon
    <3> QED
      BY <3>4 DEF m
  <2> QED
    BY <1>1, <2>3, PieceAtChunk DEF Redundant
<1>6. /\ Piece \in Seq(Chunks) /\ p \in Seq(Chunks) /\ b \in Seq(Chunks)
      /\ Todo(scripts, Loaded) = Piece \o (p \o b)
  BY <1>1, TodoAtChunk DEF AsWritten
<1>7. Behind(scripts, n, Loaded) = p \o b
  <2>1. \A i \in 1..n : Rest(scripts, i, Loaded) \in Seq(Chunks)
    BY <1>3, RestType
  <2> QED
    BY <1>3, <2>1, BehindStep
<1>8. Nested(scripts') /\ Todo(scripts', Loaded) = Piece \o (p \o b)
  BY <1>1, <1>3, <1>4, <1>5, <1>7, TodoStarts
<1>9. Remaining' = Remaining
  BY <1>1, <1>6, <1>8, RemainingNext DEF Remaining
<1>10. Promise'
  BY <1>1, <1>9, PrintsNothing
<1> HIDE DEF p, b
<1>11. DotsAllowed'
  <2>1. /\ Len(scripts') = n + 1 /\ scripts'[n + 1] = Started(s)
        /\ \A i \in 1..n : scripts'[i] = scripts[i]
    BY <1>1, <1>3, <1>4, StartedTypes
  <2>2. Started(s).allowRedundantDot = FALSE /\ Started(s).next = 1
    BY DEF Started
  <2>3. ASSUME NEW i \in 1..(n + 1)
        PROVE  scripts'[i].allowRedundantDot
                 <=> scripts'[i].next > 1 /\ scripts'[i].chunks[scripts'[i].next - 1].newline
    <3>1. CASE i = n + 1
      BY <2>1, <2>2, <3>1
    <3>2. CASE i # n + 1
      <4>1. i \in 1..Len(scripts) /\ scripts'[i] = scripts[i]
        BY <1>3, <2>1, <3>2
      <4> QED
        BY <1>1, <4>1 DEF AsWritten, DotsAllowed
    <3> QED
      BY <3>1, <3>2
  <2> HIDE DEF n
  <2> QED
    BY <2>1, <2>3 DEF DotsAllowed
<1> QED
  BY <1>1, <1>2, <1>8, <1>10, <1>11 DEF AsWritten, Nested, Depth, EndsRead, StatusTells
LEMMA EndGoesOn ==
  ASSUME AsWritten, End
  PROVE  AsWritten'
<1>1. /\ ended' /\ scripts = <<>> /\ (More => leaving)
      /\ UNCHANGED <<terminal, files, input, taken, scripts, leaving, failed, status, printed>>
  BY DEF End
<1>2. SessionInv'
  BY EndKeeps DEF AsWritten
<1>3. leaving \/ taken = Len(input)
  <2>1. Len(input) \in Nat /\ taken \in 0..Len(input)
    BY SessionTypes DEF AsWritten
  <2> QED
    BY <1>1, <2>1 DEF More
<1>4. Remaining' = Remaining
  BY <1>1, RemainingNext DEF Remaining
<1>5. Promise'
  BY <1>1, <1>4, PrintsNothing
<1> QED
  BY <1>1, <1>2, <1>3, <1>5 DEF AsWritten, DotsAllowed, Depth, EndsRead, StatusTells

LEMMA ReadGoesOn ==
  ASSUME AsWritten, ReadLine
  PROVE  AsWritten'
<1> DEFINE s == input[taken + 1]
<1>1. /\ ~ended /\ scripts = <<>> /\ ~leaving /\ More
      /\ scripts' = <<Started(s)>> /\ taken' = taken + 1
      /\ UNCHANGED <<terminal, files, input, leaving, failed, status, ended, printed>>
  BY DEF ReadLine
<1>2. SessionInv'
  BY ReadLineKeeps DEF AsWritten
<1>3. /\ SetupOK /\ LoadedOK(Loaded) /\ Nested(scripts) /\ Len(input) \in Nat /\ taken \in Nat
      /\ taken \in 0..Len(input) /\ \A k \in 0..Len(input) : Printed[k] \in Seq(Reports)
  BY SessionTypes DEF AsWritten
<1>4. taken # Len(input) /\ ~failed
  BY <1>1, <1>3 DEF More, AsWritten, SessionInv, Flags
<1>5. s \in Seq(Chunks) /\ Text(s, 1) \in Seq(Chunks)
  BY <1>3, <1>4, LineText
<1>6. scripts' = Append(scripts, Started(s)) /\ Len(scripts) = 0 /\ Len(scripts) < MaxLoads
  BY <1>1, SessionAssumption
<1>7. Nested(scripts') /\ Todo(scripts', Loaded) = Text(s, 1)
  <2> DEFINE t == Flat(s, Loaded[MaxLoads - (Len(scripts) + 1)])
  <2>1. Nested(scripts') /\ Todo(scripts', Loaded) = t \o Behind(scripts, Len(scripts), Loaded)
    BY <1>3, <1>5, <1>6, TodoStarts
  <2>2. Behind(scripts, Len(scripts), Loaded) = <<>>
    BY <1>6, BehindNothing
  <2>3. t = Text(s, 1)
    <3>1. Len(scripts) + 1 = 1
      BY <1>6
    <3> QED
      BY <3>1 DEF Text
  <2> HIDE DEF t
  <2>4. t \o <<>> = t
    BY <1>5, <2>3, ConcatEmptySeq
  <2> QED
    BY <2>1, <2>2, <2>3, <2>4
<1>8. Remaining = Printed[taken]
  <2>1. Todo(scripts, Loaded) = <<>>
    BY <1>1 DEF Todo
  <2>2. Outcome(<<>>, taken, Printed) = Printed[taken]
    BY <1>3, OutcomeNothing
  <2> QED
    BY <1>1, <1>4, <2>1, <2>2 DEF Remaining
<1>9. Printed[taken] = Outcome(Text(s, 1), taken + 1, Printed)
  BY <1>3, <1>4, PrintedIs DEF Line
<1>10. Remaining' = Remaining
  BY <1>1, <1>4, <1>7, <1>8, <1>9, RemainingNext
<1>11. Promise'
  BY <1>1, <1>10, PrintsNothing
<1>12. DotsAllowed'
  <2>1. Len(scripts') = 1 /\ scripts'[1] = Started(s)
    BY <1>1
  <2>2. Started(s).allowRedundantDot = FALSE /\ Started(s).next = 1
    BY DEF Started
  <2>3. ASSUME NEW i \in 1..1
        PROVE  scripts'[i].allowRedundantDot
                 <=> scripts'[i].next > 1 /\ scripts'[i].chunks[scripts'[i].next - 1].newline
    BY <2>1, <2>2
  <2> QED
    BY <2>1, <2>3 DEF DotsAllowed
<1> QED
  BY <1>1, <1>2, <1>7, <1>11, <1>12 DEF AsWritten, Nested, Depth, EndsRead, StatusTells

LEMMA EndsGoesOn ==
  ASSUME AsWritten, ScriptEnds
  PROVE  AsWritten'
<1> DEFINE n == Len(scripts) - 1
           rest == Front(scripts)
           loader == rest[n]
           flag == loader.chunks[loader.next].newline
<1>1. /\ scripts # <<>> /\ ~failed /\ (leaving \/ Top.next > Len(Top.chunks))
      /\ UNCHANGED <<terminal, files, input, taken, leaving, failed, status, ended, printed>>
  BY DEF ScriptEnds
<1>2. SessionInv' /\ SessionInv /\ Depth
  BY ScriptEndsKeeps DEF AsWritten
<1>3. /\ LoadedOK(Loaded) /\ Nested(scripts) /\ n \in Nat /\ Len(scripts) = n + 1
      /\ rest \in Seq(Scripts) /\ Len(rest) = n
      /\ \A i \in 1..n : rest[i] = scripts[i]
      /\ scripts \in Seq(Scripts)
  BY <1>1, <1>2, TopTypes, FrontTypes, SessionTypes DEF Nested
<1>4. n = 0 => scripts' = <<>>
  BY <1>3 DEF ScriptEnds
<1>5. n # 0 => /\ n \in 1..n /\ loader \in Scripts /\ loader = scripts[n] /\ loader.next <= Len(loader.chunks)
               /\ flag \in BOOLEAN
               /\ scripts' = [rest EXCEPT ![n] = Advanced(loader, flag)]
  <2> SUFFICES ASSUME n # 0
               PROVE  /\ n \in 1..n /\ loader \in Scripts /\ loader = scripts[n]
                      /\ loader.next <= Len(loader.chunks) /\ flag \in BOOLEAN
                      /\ scripts' = [rest EXCEPT ![n] = Advanced(loader, flag)]
    OBVIOUS
  <2>1. n \in 1..n /\ loader \in Scripts /\ loader = scripts[n] /\ loader.next <= Len(loader.chunks)
    BY <1>2, <1>3 DEF SessionInv, WithinTexts
  <2>2. loader.chunks[loader.next] \in Chunks
    BY <2>1 DEF Scripts
  <2>3. flag \in BOOLEAN
    BY <2>2, ChunkFields
  <2>4. scripts' = [rest EXCEPT ![n] = Advanced(loader, flag)]
    BY <1>3 DEF ScriptEnds, Last
  <2> QED
    BY <2>1, <2>3, <2>4
<1>6. n # 0 => /\ Len(scripts') = n /\ scripts' # <<>>
               /\ scripts'[n].chunks = scripts[n].chunks /\ scripts'[n].next = scripts[n].next + 1
               /\ scripts'[n].allowRedundantDot = scripts[n].chunks[scripts[n].next].newline
               /\ \A i \in 1..(n - 1) : scripts'[i] = scripts[i]
  <2> SUFFICES ASSUME n # 0
               PROVE  /\ Len(scripts') = n /\ scripts' # <<>>
                      /\ scripts'[n].chunks = scripts[n].chunks
                      /\ scripts'[n].next = scripts[n].next + 1
                      /\ scripts'[n].allowRedundantDot = scripts[n].chunks[scripts[n].next].newline
                      /\ \A i \in 1..(n - 1) : scripts'[i] = scripts[i]
    OBVIOUS
  <2> DEFINE x == Advanced(loader, flag)
  <2>1. x \in Scripts
    BY <1>5, AdvancedTypes
  <2>2. x.chunks = loader.chunks /\ x.next = loader.next + 1 /\ x.allowRedundantDot = flag
    BY DEF Advanced
  <2>3. scripts' = [rest EXCEPT ![n] = x] /\ loader = scripts[n] /\ n \in 1..n
    BY <1>5
  <2> HIDE DEF x, rest, n
  <2>4. Len(scripts') = n /\ scripts'[n] = x /\ \A i \in 1..n : i # n => scripts'[i] = rest[i]
    BY <1>3, <2>1, <2>3
  <2>5. \A i \in 1..(n - 1) : i \in 1..n /\ i # n
    BY <1>3
  <2>6. scripts' # <<>>
    BY <1>3, <2>3, <2>4
  <2> QED
    BY <1>3, <2>2, <2>3, <2>4, <2>5, <2>6
<1> HIDE DEF rest, loader, flag
<1>7. Nested(scripts')
  <2>1. scripts' \in Seq(Scripts)
    BY <1>2 DEF SessionInv, Types
  <2>2. Len(scripts') = n
    BY <1>4, <1>6
  <2> QED
    BY <1>3, <2>1, <2>2, SessionAssumption DEF Nested
<1>8. ~leaving => Todo(scripts', Loaded) = Todo(scripts, Loaded)
  <2> SUFFICES ASSUME ~leaving PROVE Todo(scripts', Loaded) = Todo(scripts, Loaded)
    OBVIOUS
  <2>1. scripts[Len(scripts)].next = Len(scripts[Len(scripts)].chunks) + 1
    <3>1. Top \in Scripts /\ Top.next <= Len(Top.chunks) + 1 /\ Top.next > Len(Top.chunks)
      BY <1>1, <1>2, TopTypes
    <3>2. Top.next \in Nat /\ Len(Top.chunks) \in Nat
      BY <3>1 DEF Scripts
    <3> QED
      BY <3>1, <3>2 DEF Top
  <2>2. Len(scripts) = 1 \/ Len(scripts) > 1
    BY <1>3
  <2>3. Todo(scripts, Loaded) = Behind(scripts, n, Loaded)
    BY <1>3, <2>1, <2>2, TodoEnds
  <2>4. CASE n = 0
    <3>1. Todo(scripts', Loaded) = <<>>
      BY <1>4, <2>4 DEF Todo
    <3> QED
      BY <2>3, <2>4, <3>1, BehindNothing
  <2>5. CASE n # 0
    <3>1. \A i \in 1..n : Rest(scripts, i, Loaded) \in Seq(Chunks)
      <4>1. \A i \in 1..n : i \in 1..Len(scripts)
        BY <1>3
      <4> QED
        BY <1>3, <4>1, RestType
    <3>2. Behind(scripts, n, Loaded) = Rest(scripts, n, Loaded) \o Behind(scripts, n - 1, Loaded)
      BY <1>3, <2>5, <3>1, BehindStep
    <3>3. Behind(scripts', n - 1, Loaded) = Behind(scripts, n - 1, Loaded)
      <4> DEFINE m == n - 1
      <4>1. m \in Nat /\ \A i \in 1..m : scripts'[i] = scripts[i]
        BY <1>3, <1>6, <2>5
      <4> HIDE DEF m
      <4>2. Behind(scripts', m, Loaded) = Behind(scripts, m, Loaded)
        BY <4>1, BehindSame
      <4> QED
        BY <4>2 DEF m
    <3>4. From(PiecesOf(scripts', n, Loaded), scripts'[n].next) = Rest(scripts, n, Loaded)
      BY <1>6, <2>5 DEF Rest, PiecesOf
    <3>5. scripts' # <<>> /\ Len(scripts') = n
      BY <1>6, <2>5
    <3> HIDE DEF n
    <3> QED
      BY <2>3, <3>2, <3>3, <3>4, <3>5 DEF Todo
  <2> QED
    BY <2>4, <2>5
<1>9. Remaining' = Remaining
  BY <1>1, <1>8, RemainingNext DEF Remaining
<1>10. Promise'
  BY <1>1, <1>9, PrintsNothing
<1>11. DotsAllowed'
  <2>1. ASSUME ~leaving, n # 0, NEW i \in 1..n
        PROVE  scripts'[i].allowRedundantDot
                 <=> scripts'[i].next > 1 /\ scripts'[i].chunks[scripts'[i].next - 1].newline
    <3>1. CASE i = n
      <4> DEFINE s == scripts[n]
      <4>6. n \in 1..Len(scripts) /\ n \in 1..(Len(scripts) - 1)
        BY <1>3, <2>1
      <4>7. s \in Scripts
        BY <1>3, <4>6
      <4>1. s.next \in Nat \ {0} /\ s.chunks \in Seq(Chunks)
        BY <4>7 DEF Scripts
      <4>2. /\ scripts'[i].chunks = s.chunks /\ scripts'[i].next = s.next + 1
            /\ scripts'[i].allowRedundantDot = s.chunks[s.next].newline
        BY <1>6, <2>1, <3>1
      <4>8. s.next <= Len(s.chunks)
        BY <1>2, <4>6 DEF SessionInv, WithinTexts
      <4>3. s.chunks[s.next] \in Chunks
        BY <4>1, <4>8
      <4>4. s.chunks[s.next].newline \in BOOLEAN
        BY <4>3, ChunkFields
      <4> HIDE DEF s
      <4>5. scripts'[i].next - 1 = s.next /\ scripts'[i].next > 1
        BY <4>1, <4>2, Successor, Zenon
      <4> QED
        BY <4>2, <4>4, <4>5, Zenon
    <3>2. CASE i # n
      <4>1. i \in 1..(n - 1) /\ i \in 1..Len(scripts)
        <5>1. i \in 1..n /\ n \in Nat /\ Len(scripts) = n + 1
          BY <1>3, <2>1
        <5> HIDE DEF n
        <5> QED
          BY <3>2, <5>1
      <4>2. scripts'[i] = scripts[i]
        BY <1>6, <2>1, <4>1
      <4> QED
        BY <2>1, <4>1, <4>2 DEF AsWritten, DotsAllowed
    <3> QED
      BY <3>1, <3>2
  <2>2. n = 0 => Len(scripts') = 0
    BY <1>4
  <2>3. n # 0 => Len(scripts') = n
    BY <1>6
  <2> HIDE DEF n
  <2>4. n = 0 => 1..Len(scripts') = {}
    BY <2>2
  <2> QED
    BY <1>1, <2>1, <2>3, <2>4 DEF DotsAllowed
<1> QED
  BY <1>1, <1>2, <1>7, <1>10, <1>11 DEF AsWritten, Nested, Depth, EndsRead, StatusTells

LEMMA FailureGoesOn ==
  ASSUME AsWritten, ScriptFails
  PROVE  AsWritten'
<1>1. /\ failed /\ scripts # <<>> /\ scripts' = Front(scripts)
      /\ UNCHANGED <<terminal, files, input, taken, leaving, ended>>
      /\ Len(scripts) = 1 => ~failed' /\ status' = 1 /\ printed' = Append(printed, "diagnostic")
      /\ Len(scripts) # 1 => UNCHANGED <<failed, status, printed>>
  BY Zenon DEF ScriptFails
<1>2. SessionInv' /\ SessionInv /\ Depth /\ ~leaving
  BY <1>1, ScriptFailsKeeps DEF AsWritten, SessionInv, Flags
<1>3. /\ Nested(scripts) /\ Len(scripts) \in Nat
      /\ Front(scripts) \in Seq(Scripts)
      /\ Len(Front(scripts)) = Len(scripts) - 1
      /\ \A i \in 1..(Len(scripts) - 1) : Front(scripts)[i] = scripts[i]
      /\ Len(scripts) = 1 => Front(scripts) = <<>>
  BY <1>1, <1>2, FrontTypes, SessionTypes DEF Nested
<1>4. /\ taken \in Nat /\ printed \in Seq(Reports) /\ Printed[taken] \in Seq(Reports)
  BY <1>2, SessionTypes
<1>5. Depth'
  BY <1>1, <1>3, SessionAssumption DEF Nested, Depth
<1>6. DotsAllowed'
  <2>1. /\ Len(scripts') = Len(scripts) - 1
        /\ \A i \in 1..(Len(scripts) - 1) : scripts'[i] = scripts[i] /\ i \in 1..Len(scripts)
    BY <1>1, <1>3
  <2> QED
    BY <1>2, <2>1 DEF AsWritten, DotsAllowed
<1>7. Remaining = <<"diagnostic">> \o Printed[taken]
  BY <1>1, <1>2 DEF Remaining
<1>8. CASE Len(scripts) = 1
  <2>1. Todo(scripts', Loaded) = <<>>
    BY <1>1, <1>3, <1>8 DEF Todo
  <2>2. Outcome(<<>>, taken, Printed) = Printed[taken]
    BY <1>4, OutcomeNothing
  <2>3. Remaining' = Printed[taken]
    BY <1>1, <1>2, <1>8, <2>1, <2>2, RemainingNext
  <2>4. "diagnostic" \in Reports
    BY DEF Reports
  <2>5. Promise'
    BY <1>1, <1>4, <1>7, <1>8, <2>3, <2>4, PrintsFirst
  <2>6. Range(printed') = Range(printed) \cup {"diagnostic"}
    <3>1. Range(Append(printed, "diagnostic")) = Range(printed) \cup {"diagnostic"}
      BY <1>4, <2>4, RangeAppend
    <3> QED
      BY <1>1, <1>8, <3>1
  <2>7. StatusTells'
    BY <1>1, <1>8, <2>6 DEF StatusTells
  <2> QED
    BY <1>1, <1>2, <1>5, <1>6, <2>5, <2>7 DEF AsWritten, EndsRead
<1>9. CASE Len(scripts) # 1
  <2>1. Remaining' = Remaining
    BY <1>1, <1>2, <1>7, <1>9, RemainingNext
  <2>2. Promise'
    BY <1>1, <1>9, <2>1, PrintsNothing
  <2> QED
    BY <1>1, <1>2, <1>5, <1>6, <1>9, <2>2 DEF AsWritten, EndsRead, StatusTells
<1> QED
  BY <1>8, <1>9

-----------------------------------------------------------------------------
LEMMA InitAsWritten == Init => AsWritten
<1> SUFFICES ASSUME Init PROVE AsWritten
  OBVIOUS
<1>1. /\ taken = 0 /\ scripts = <<>> /\ ~leaving /\ ~failed /\ status = 0 /\ ~ended /\ printed = <<>>
  BY DEF Init
<1>2. SessionInv
  BY InitSession
<1>3. Depth
  BY <1>1, SessionAssumption DEF Depth
<1>4. \A k \in 0..Len(input) : Printed[k] \in Seq(Reports)
  BY <1>2, <1>3, SessionTypes
<1>5. Printed[0] \in Seq(Reports) /\ taken \in Nat
  BY <1>1, <1>2, <1>3, SessionTypes
<1>6. Remaining = Printed[0]
  <2>1. Todo(scripts, Loaded) = <<>>
    BY <1>1 DEF Todo
  <2>2. Outcome(<<>>, 0, Printed) = Printed[0]
    BY <1>5, OutcomeNothing
  <2> QED
    BY <1>1, <2>1, <2>2 DEF Remaining
<1>7. Promise
  BY <1>1, <1>5, <1>6, ConcatEmptySeq DEF Promise
<1>8. Range(printed) = {}
  BY <1>1 DEF Range
<1> QED
  BY <1>1, <1>2, <1>3, <1>7, <1>8 DEF AsWritten, DotsAllowed, EndsRead, StatusTells

LEMMA NextAsWritten == AsWritten /\ [Next]_vars => AsWritten'
<1> SUFFICES ASSUME AsWritten, [Next]_vars PROVE AsWritten'
  OBVIOUS
<1>1. CASE Next
  BY <1>1, ReadGoesOn, EndGoesOn, SkipGoesOn, ResultGoesOn, FailsGoesOn, LoadGoesOn,
     ByeGoesOn, EndsGoesOn, FailureGoesOn DEF Next
<1>2. CASE UNCHANGED vars
  <2>1. SessionInv'
    BY NextSession, <1>2 DEF AsWritten
  <2>2. UNCHANGED <<terminal, files, input, taken, scripts, leaving, failed, status, ended, printed>>
    BY <1>2 DEF vars
  <2>3. Remaining' = Remaining
    BY <2>2, RemainingNext DEF Remaining
  <2>4. Promise'
    BY <2>2, <2>3, PrintsNothing
  <2> QED
    BY <2>1, <2>2, <2>4 DEF AsWritten, DotsAllowed, Depth, EndsRead, StatusTells
<1> QED
  BY <1>1, <1>2

(***************************************************************************)
(* In every state, what has been printed and what the texts left in the    *)
(* scripts stand for make up what the input says, loads in place, read     *)
(* from top to bottom (api.c, enact_session_eval_script; main.c).          *)
(***************************************************************************)
THEOREM PrintsAsWritten == Spec => []AsWritten
BY InitAsWritten, NextAsWritten, PTL DEF Spec

(***************************************************************************)
(* A session that has ended did what its text says, for all files, inputs  *)
(* and nestings, and its exit status tells of every diagnostic.            *)
(***************************************************************************)
THEOREM SessionsDoAsWritten == Spec => []OutcomeAsWritten
<1>1. AsWritten => OutcomeAsWritten
  <2> SUFFICES ASSUME AsWritten, ended PROVE printed = Printed[0] /\ StatusTells
    BY DEF OutcomeAsWritten, StatusTells
  <2>1. scripts = <<>> /\ ~failed /\ (leaving \/ taken = Len(input))
    BY DEF AsWritten, SessionInv, Flags, EndsRead
  <2>2. /\ SetupOK /\ taken \in 0..Len(input) /\ taken \in Nat /\ printed \in Seq(Reports)
        /\ \A k \in 0..Len(input) : Printed[k] \in Seq(Reports)
    BY SessionTypes DEF AsWritten
  <2>3. Remaining = <<>>
    <3>1. CASE leaving
      BY <3>1 DEF Remaining
    <3>2. CASE ~leaving
      <4>1. Printed[taken] = <<>>
        BY <2>1, <2>2, <3>2, PrintedIs
      <4>2. Todo(scripts, Loaded) = <<>>
        BY <2>1 DEF Todo
      <4>3. Outcome(<<>>, taken, Printed) = Printed[taken]
        BY <2>2, OutcomeNothing
      <4> QED
        BY <2>1, <3>2, <4>1, <4>2, <4>3 DEF Remaining
    <3> QED
      BY <3>1, <3>2
  <2>4. printed \o <<>> = printed
    BY <2>2, ConcatEmptySeq
  <2> QED
    BY <2>3, <2>4 DEF AsWritten, Promise
<1> QED
  BY <1>1, PrintsAsWritten, PTL

=============================================================================
