------------------------------ MODULE MCSession ------------------------------
(***************************************************************************)
(* Instances of EnactSession for TLC.                                      *)
(***************************************************************************)
EXTENDS EnactSession

ScriptsOf(chunks, n) == UNION {[1..k -> chunks] : k \in 0..n}

\* The file with the longer script, the only one in the terminal sessions.
MainFile == CHOOSE f \in File : TRUE

\* Two files that may load each other, dots and newlines in every order.
ScriptChunks ==
  {Chunk("expression", TRUE), Chunk("expression", FALSE), Chunk("dot", FALSE),
   Chunk("bye", FALSE)} \cup {Load(f, TRUE) : f \in File}

ScriptSetups ==
  [terminal : {FALSE},
   files : {fs \in [File -> ScriptsOf(ScriptChunks, 2) \cup {Missing}] :
              \A f \in File \ {MainFile} : fs[f] = Missing \/ Len(fs[f]) < 2},
   input : {<<s>> : s \in ScriptsOf(ScriptChunks, 3)}]

\* On a terminal a newline ends the line, and with it the script.
LineChunks ==
  {Chunk("expression", FALSE), Chunk("ask", FALSE), Chunk("dot", FALSE),
   Chunk("bye", FALSE), Load(MainFile, FALSE)}
LastChunks == {Chunk("expression", TRUE), Chunk("ask", TRUE), Chunk("error", TRUE)}

Lines == {<<c>> : c \in LineChunks \cup LastChunks}
           \cup {<<c, d>> : c \in LineChunks, d \in LineChunks \cup LastChunks}

MainFiles ==
  {fs \in [File -> ScriptsOf(LineChunks \cup LastChunks, 1) \cup {Missing}] :
     \A f \in File \ {MainFile} : fs[f] = Missing}

LineSetups ==
  [terminal : {TRUE},
   files : MainFiles,
   input : {<<l>> : l \in Lines} \cup {<<l, m>> : l, m \in Lines}]

MCSetups == ScriptSetups \cup LineSetups

=============================================================================
