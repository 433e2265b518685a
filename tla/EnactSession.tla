---------------------------- MODULE EnactSession -----------------------------
(***************************************************************************)
(* A session (api.c, main.c): scripts are cut into chunks, which are       *)
(* evaluated one by one; load runs another script in the same session, bye *)
(* ends it, ask reads a line of the input.  Without a terminal the whole   *)
(* input is one script; on a terminal every line is a script of its own,   *)
(* and ask takes the lines behind the one that is evaluated.               *)
(* A chunk is cut off by a dot or by a newline (newline, which adds the    *)
(* missing dot); a dot alone may follow a newline, and is skipped once.    *)
(***************************************************************************)
EXTENDS Naturals, Sequences, SequencesExt, FiniteSets

CONSTANTS
  File,        \* names of files
  Missing,     \* instead of the contents of a missing file
  Setups,      \* how a session may start: [terminal, files, input]
  MaxLoads     \* bound on the nesting of scripts

\* Chunks: an expression, one that fails, a dot alone, bye, ask() and load.
Chunk(kind, newline) == [kind |-> kind, newline |-> newline]
Load(f, newline) == [kind |-> "load", newline |-> newline, file |-> f]

\* No newline is needed behind a dot.
Chunks ==
  {Chunk(kind, newline) : kind \in {"expression", "error", "bye", "ask"}, newline \in BOOLEAN}
  \cup {Chunk("dot", FALSE)}
  \cup {Load(f, newline) : f \in File, newline \in BOOLEAN}

ASSUME SessionAssumption ==
  /\ Setups \subseteq [terminal : BOOLEAN,
                      files : [File -> {Missing} \cup Seq(Chunks)],
                      input : Seq(Seq(Chunks))]
  /\ MaxLoads \in Nat \ {0}

VARIABLES
  terminal,  \* isatty of the input
  files,     \* the file system; a file without contents is missing
  input,     \* the scripts the input consists of: its lines, on a terminal
  taken,     \* how many of them have been read
  scripts,   \* the scripts in progress, innermost last
  leaving,   \* session.exit_requested
  failed,    \* a diagnostic is on its way up
  status,    \* exit_status of the process
  ended,     \* the process has ended
  printed    \* the results printed and the diagnostics reported, in order

vars == <<terminal, files, input, taken, scripts, leaving, failed, status, ended, printed>>

\* enact_session_eval_script with the text s.
Started(s) == [chunks |-> s, next |-> 1, allowRedundantDot |-> FALSE]

Top == scripts[Len(scripts)]
Chunk1 == Top.chunks[Top.next]

MutAtChunk == ~failed /\ scripts # <<>> /\ Top.next <= Len(Top.chunks)

\* A chunk is about to be cut off and evaluated.
AtChunk ==
  /\ ~failed /\ scripts # <<>>
  /\ ~leaving
  /\ Top.next <= Len(Top.chunks)

Redundant == Chunk1.kind = "dot" /\ ~Chunk1.newline /\ Top.allowRedundantDot

\* Go on behind the chunk, with the flag it leaves.
Advanced(script, flag) ==
  [chunks |-> script.chunks, next |-> script.next + 1, allowRedundantDot |-> flag]

Done == Advanced(Top, Chunk1.newline)

InTop(script) == [scripts EXCEPT ![Len(scripts)] = script]

-----------------------------------------------------------------------------
Init ==
  /\ \E s \in Setups : terminal = s.terminal /\ files = s.files /\ input = s.input
  /\ taken = 0
  /\ scripts = <<>>
  /\ leaving = FALSE /\ failed = FALSE /\ status = 0 /\ ended = FALSE
  /\ printed = <<>>

\* The input holds another script, or a line for ask.
More == taken < Len(input)

\* enact_run_lines, enact_run_script
ReadLine ==
  /\ ~ended /\ scripts = <<>> /\ ~leaving
  /\ More
  /\ scripts' = <<Started(input[taken + 1])>>
  /\ taken' = taken + 1
  /\ UNCHANGED <<terminal, files, input, leaving, failed, status, ended, printed>>

MutEnd ==
  /\ ~ended /\ scripts = <<>>
  /\ ~More
  /\ ended' = TRUE
  /\ UNCHANGED <<terminal, files, input, taken, scripts, leaving, failed, status, printed>>

\* The input is exhausted, or bye was executed.
End ==
  /\ ~ended /\ scripts = <<>>
  /\ More => leaving
  /\ ended' = TRUE
  /\ UNCHANGED <<terminal, files, input, taken, scripts, leaving, failed, status, printed>>

SkipRedundantDot ==
  /\ AtChunk /\ Redundant
  /\ scripts' = InTop(Advanced(Top, FALSE))
  /\ UNCHANGED <<terminal, files, input, taken, leaving, failed, status, ended, printed>>

EvalText ==
  /\ AtChunk /\ Chunk1.kind = "expression"
  /\ scripts' = InTop(Done)
  /\ printed' = Append(printed, "result")
  /\ UNCHANGED <<terminal, files, input, taken, leaving, failed, status, ended>>

\* The diagnostic of a chunk that cannot be parsed, loaded or evaluated.
Fails(c) ==
  \/ c.kind = "error"
  \/ c.kind = "dot" /\ ~Redundant
  \/ c.kind = "load" /\ files[c.file] = Missing
  \/ c.kind = "ask" /\ ~(terminal /\ More)

EvalFails ==
  /\ AtChunk /\ Fails(Chunk1)
  /\ failed' = TRUE
  /\ UNCHANGED <<terminal, files, input, taken, scripts, leaving, status, ended, printed>>

MutEvalAsk ==
  /\ AtChunk /\ Chunk1.kind = "ask" /\ terminal /\ More
  /\ scripts' = InTop(Done)
  /\ printed' = Append(printed, "result")
  /\ UNCHANGED <<terminal, files, input, taken, leaving, failed, status, ended>>

\* The answer to ask() is a line that is not evaluated.
EvalAsk ==
  /\ AtChunk /\ Chunk1.kind = "ask" /\ terminal /\ More
  /\ taken' = taken + 1
  /\ scripts' = InTop(Done)
  /\ printed' = Append(printed, "result")
  /\ UNCHANGED <<terminal, files, input, leaving, failed, status, ended>>

\* enact_session_eval_load_command: the script of the file starts.
EvalLoad ==
  /\ AtChunk /\ Chunk1.kind = "load" /\ files[Chunk1.file] # Missing
  /\ Len(scripts) < MaxLoads
  /\ scripts' = Append(scripts, Started(files[Chunk1.file]))
  /\ UNCHANGED <<terminal, files, input, taken, leaving, failed, status, ended, printed>>

\* enact_session_eval_bye_command: the script is left at once.
EvalBye ==
  /\ AtChunk /\ Chunk1.kind = "bye"
  /\ leaving' = TRUE
  /\ scripts' = InTop([Top EXCEPT !.next = Len(Top.chunks) + 1])
  /\ UNCHANGED <<terminal, files, input, taken, failed, status, ended, printed>>

MutScriptEnds ==
  /\ ~failed /\ scripts # <<>>
  /\ leaving \/ Top.next > Len(Top.chunks)
  /\ IF Len(scripts) = 1
       THEN scripts' = <<>> /\ status' = 0
       ELSE /\ scripts' = [Front(scripts) EXCEPT ![Len(scripts) - 1] =
                           Advanced(@, @.chunks[@.next].newline)]
            /\ UNCHANGED status
  /\ UNCHANGED <<terminal, files, input, taken, leaving, failed, ended, printed>>

\* The script ends; the one that loaded it goes on behind its load command.
ScriptEnds ==
  /\ ~failed /\ scripts # <<>>
  /\ leaving \/ Top.next > Len(Top.chunks)
  /\ LET rest == Front(scripts)
         loader == Last(rest)
     IN scripts' = IF Len(scripts) = 1 THEN <<>>
                   ELSE [rest EXCEPT ![Len(rest)] =
                           Advanced(loader, loader.chunks[loader.next].newline)]
  /\ UNCHANGED <<terminal, files, input, taken, leaving, failed, status, ended, printed>>

\* A failure ends the script and the ones that load it, and is reported.
ScriptFails ==
  /\ failed /\ scripts # <<>>
  /\ scripts' = Front(scripts)
  /\ IF Len(scripts) = 1
       THEN failed' = FALSE /\ status' = 1 /\ printed' = Append(printed, "diagnostic")
       ELSE UNCHANGED <<failed, status, printed>>
  /\ UNCHANGED <<terminal, files, input, taken, leaving, ended>>

Next ==
  \/ ReadLine \/ End \/ SkipRedundantDot \/ EvalText \/ EvalFails \/ EvalAsk
  \/ EvalLoad \/ EvalBye \/ ScriptEnds \/ ScriptFails

Spec == Init /\ [][Next]_vars

\* The interpreter runs on; what is typed at the terminal is already there.
FairSpec == Spec /\ WF_vars(Next)

-----------------------------------------------------------------------------
(***************************************************************************)
(* Properties.                                                             *)
(***************************************************************************)

(***************************************************************************)
(* bye is final: once it is executed, in however deeply loaded a script,   *)
(* nothing is evaluated, printed, read or reported any more.               *)
(***************************************************************************)
ByeIsFinal == [][leaving => leaving' /\ UNCHANGED <<printed, taken, status>>]_vars

(***************************************************************************)
(* A failure in a script, loaded or not, takes all scripts with it and is  *)
(* reported once, before anything else is evaluated or read: with the      *)
(* diagnostic the exit status becomes 1, and no later line that succeeds,  *)
(* question or load takes that back.                                       *)
(***************************************************************************)
FailureReported ==
  [][/\ failed => \/ failed' /\ ~ended' /\ UNCHANGED <<printed, taken, status>>
                  \/ /\ scripts' = <<>> /\ status' = 1
                     /\ printed' = Append(printed, "diagnostic")
     /\ status = 1 => status' = 1]_vars

(***************************************************************************)
(* A session comes to its end, unless its scripts are nested so deeply     *)
(* that one of the files loads itself: each file comes once at most in a   *)
(* nesting that is not a circle, above the script of the input.            *)
(***************************************************************************)
SessionEnds == <>(ended \/ Len(scripts) > Cardinality(File) + 1)

-----------------------------------------------------------------------------
(***************************************************************************)
(* What a session prints, from the text alone.                             *)
(***************************************************************************)

\* What the chunks of a script stand for: nothing for a redundant dot, and for a
\* load what it loads.
Pieces(script, loaded) ==
  [i \in DOMAIN script |->
     LET c == script[i]
     IN IF c.kind = "dot" /\ i > 1 /\ script[i - 1].newline THEN <<>>
        ELSE IF c.kind = "load" THEN loaded[c.file] ELSE <<c>>]

Flat(script, loaded) == FlattenSeq(Pieces(script, loaded))

\* What a load stands for, if files may be nested n deep below it.
Loaded[n \in 0..MaxLoads] ==
  [f \in File |-> IF n = 0 \/ files[f] = Missing THEN <<Chunk("error", FALSE)>>
                 ELSE Flat(files[f], Loaded[n - 1])]

\* The text of a script in progress below d - 1 others.
Text(script, d) == Flat(script, Loaded[MaxLoads - d])

\* The questions asked by the first i chunks of a text.
Asked(text, i) == Cardinality({j \in 1..i : text[j].kind = "ask"})

\* The chunks that stop a text if k lines have been read in front of it.
Stops(text, k) ==
  {i \in DOMAIN text : \/ text[i].kind \in {"error", "dot", "bye"}
                       \/ text[i].kind = "ask" /\ (~terminal \/ k + Asked(text, i) > Len(input))}

FirstStop(text, k) ==
  CHOOSE i \in 1..(Len(text) + 1) :
    /\ i \in Stops(text, k) \/ i = Len(text) + 1
    /\ \A j \in Stops(text, k) : i <= j

Outcome(text, k, goesOn) ==
  LET stop == FirstStop(text, k)
      results == [i \in 1..(stop - 1) |-> "result"]
      after == goesOn[k + Asked(text, stop - 1)]
  IN IF stop = Len(text) + 1 THEN results \o after
     ELSE IF text[stop].kind = "bye" THEN results
     ELSE results \o <<"diagnostic">> \o after

\* What is printed behind the first k lines.
Printed[k \in 0..Len(input)] ==
  IF k = Len(input) THEN <<>> ELSE Outcome(Text(input[k + 1], 1), k + 1, Printed)

(***************************************************************************)
(* A session does what its text says from top to bottom, its loads in      *)
(* place: a result for each chunk up to the first failure, with which the  *)
(* next line starts anew, or bye; redundant dots make no difference; and a *)
(* line that answers a question is not evaluated.  The exit status tells   *)
(* whether any diagnostic was reported, however many lines came after it.  *)
(***************************************************************************)
OutcomeAsWritten ==
  ended => /\ printed = Printed[0]
           /\ status = 1 <=> "diagnostic" \in Range(printed)

=============================================================================
