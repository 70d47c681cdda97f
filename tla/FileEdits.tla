----------------------------- MODULE FileEdits -----------------------------
(***************************************************************************)
(* fs.read, fs.write and fs.edit of sub-agents that work on one file of one*)
(* directory (packages/tools/src/fs.ts).  A file is abstracted to what its *)
(* places hold; an edit looks for a token and puts another one in its      *)
(* place.  Each call reads and writes across awaits, and writeFile() cuts  *)
(* the file to nothing before it fills it, which may fail.                 *)
(***************************************************************************)
EXTENDS Naturals, FiniteSets

CONSTANTS Editor,    \* the calls
          Place,     \* the places of the file where a token can stand
          Token,     \* what can stand there
          FileOp,    \* the calls that are made: see Ops
          Pattern,   \* a token that String.replace() reads as a pattern, such as "$&"
          Expanded,  \* what it puts in the file instead
          Empty,     \* the content of a file that has been cut
          Missing    \* there is no file

Content == [Place -> Token]
Ops == {[kind |-> "read"]}
       \cup [kind : {"write"}, content : Content]
       \cup [kind : {"edit"}, find : Token, replace : Token]

ASSUME FileEditsAssumption ==
  /\ FileOp \subseteq Ops /\ {Pattern, Expanded} \subseteq Token /\ Pattern # Expanded
  /\ {Empty, Missing} \cap Content = {} /\ Empty # Missing

VARIABLES disk,     \* the content of the file
          before,   \* the content a call has read
          op,       \* what a call is to do: [kind, find, replace] or [kind, content]
          edit,     \* where a call is
          intended, \* what the calls that came one by one should leave
          disturbed,\* calls that are under way have overlapped, died, or have had a
                    \* replacement read as a pattern
          broken    \* some write has broken off: the file was cut

fileVars == <<disk, before, op, edit, intended, disturbed, broken>>

Idle == [kind |-> "none"]
InJail == {TRUE, FALSE}   \* resolveWithinCwd(): the path is inside the session's cwd or not
Under == {e \in Editor : edit[e] \in {"reading", "deciding", "cutting", "filling"}}

FileInit ==
  /\ disk = Missing /\ intended = Missing
  /\ before = [e \in Editor |-> Empty] /\ op = [e \in Editor |-> Idle]
  /\ edit = [e \in Editor |-> "idle"] /\ disturbed = FALSE /\ broken = FALSE

Sets(e, s) == edit' = [edit EXCEPT ![e] = s]

\* A call begins; a path that leaves the directory is refused before any access.
\* When it is alone, what came before is over: it starts from the file as it is.
BeginFileCall(e) ==
  /\ edit[e] = "idle"
  /\ \E o \in FileOp : op' = [op EXCEPT ![e] = o]
  /\ \E inside \in InJail : Sets(e, IF inside THEN "reading" ELSE "error")
  /\ IF \A d \in Editor : edit[d] = "idle"
     THEN disturbed' = FALSE /\ intended' = disk
     ELSE disturbed' = (disturbed \/ Under # {}) /\ UNCHANGED intended
  /\ UNCHANGED <<disk, before, broken>>

\* A mutant: fs.write does not catch that there is no file yet.
ReadFile_Uncaught == disk

\* readFile() of a file that is not there counts as "" for fs.write.
ReadFile == IF disk = Missing THEN Empty ELSE disk

\* A file that is missing or cannot be read is an error for fs.read and fs.edit.
ReadBefore(e) ==
  /\ edit[e] = "reading"
  /\ \E unreadable \in {TRUE, disk = Missing} :
       /\ before' = [before EXCEPT ![e] = IF unreadable /\ disk # Missing THEN Empty ELSE ReadFile]
       /\ Sets(e, CASE op[e].kind = "write" -> "deciding"
                    [] op[e].kind # "write" /\ unreadable -> "error"
                    [] op[e].kind = "read" /\ ~unreadable -> "ok"
                    [] OTHER -> "deciding")
  /\ UNCHANGED <<disk, op, intended, disturbed, broken>>

Occurrences(content, token) ==
  IF content \in {Empty, Missing} THEN {} ELSE {p \in Place : content[p] = token}

\* Not found, or found more than once, is an error and nothing is written.
Findable(content, token) == Cardinality(Occurrences(content, token)) = 1

\* before.replace(find, replace): patterns in the replacement are expanded.
Inserted(token) == IF token = Pattern THEN Expanded ELSE token

Replaced(content, find, replace) ==
  LET at == CHOOSE p \in Place : content[p] = find
  IN  [content EXCEPT ![at] = replace]

\* A mutant: the file is opened for writing before the text is looked for.
DecideEdit_Opens(e) ==
  /\ edit[e] = "deciding" /\ disk' = Empty
  /\ Sets(e, IF op[e].kind = "write" \/ Findable(before[e], op[e].find) THEN "cutting" ELSE "error")
  /\ UNCHANGED <<before, op, intended, disturbed, broken>>

DecideEdit(e) ==
  /\ edit[e] = "deciding"
  /\ Sets(e, IF op[e].kind = "write" \/ Findable(before[e], op[e].find) THEN "cutting" ELSE "error")
  /\ UNCHANGED <<disk, before, op, intended, disturbed, broken>>

\* mkdir() or opening the file fails: the error is caught, nothing was written.
OpenFails(e) ==
  /\ edit[e] = "cutting" /\ Sets(e, "error")
  /\ UNCHANGED <<disk, before, op, intended, disturbed, broken>>

\* writeFile() opens the file: it is empty until it is filled.
CutFile(e) ==
  /\ edit[e] = "cutting" /\ Sets(e, "filling")
  /\ disk' = Empty
  /\ UNCHANGED <<before, op, intended, disturbed, broken>>

\* What the call makes of a content, its replacement being r.
After(e, content, r) ==
  CASE op[e].kind = "write" -> op[e].content
    [] op[e].kind = "edit" /\ Findable(content, op[e].find) -> Replaced(content, op[e].find, r)
    [] OTHER -> content

\* What another call has filled in meanwhile shows where it is longer.
Written(content) ==
  IF disk = Empty THEN {content}
  ELSE {c \in Content : \A p \in Place : c[p] \in {content[p], disk[p]}}

FillEdited(e) ==
  /\ edit[e] = "filling" /\ Sets(e, "ok")
  /\ LET asked == IF op[e].kind = "edit" THEN op[e].replace ELSE Pattern
     IN  /\ disk' \in Written(After(e, before[e], Inserted(asked)))
         /\ intended' = After(e, intended, asked)
         /\ disturbed' = (disturbed \/ (op[e].kind = "edit" /\ Inserted(asked) # asked))
  /\ UNCHANGED <<before, op, broken>>

\* The write fails once the file is cut: the error is caught, and returned like
\* any other; the file stays as it is.
FillBreaks(e) ==
  /\ edit[e] = "filling" /\ Sets(e, "error")
  /\ intended' = Empty /\ broken' = TRUE
  /\ UNCHANGED <<disk, before, op, disturbed>>

\* The process dies: a file that was being written stays cut.
EditorsDie ==
  /\ Under # {} /\ disturbed' = TRUE
  /\ broken' = (broken \/ \E e \in Editor : edit[e] = "filling")
  /\ edit' = [e \in Editor |-> "idle"] /\ op' = [e \in Editor |-> Idle]
  /\ before' = [e \in Editor |-> Empty]
  /\ UNCHANGED <<disk, intended>>

EndFileCall(e) ==
  /\ edit[e] \in {"ok", "error"} /\ Sets(e, "idle")
  /\ op' = [op EXCEPT ![e] = Idle] /\ before' = [before EXCEPT ![e] = Empty]
  /\ UNCHANGED <<disk, intended, disturbed, broken>>

FileNext ==
  \/ EditorsDie
  \/ \E e \in Editor : \/ BeginFileCall(e) \/ ReadBefore(e) \/ DecideEdit(e)
                       \/ OpenFails(e) \/ CutFile(e) \/ FillEdited(e)
                       \/ FillBreaks(e) \/ EndFileCall(e)

FileSpec == FileInit /\ [][FileNext]_fileVars

-----------------------------------------------------------------------------
FileTypeOK ==
  /\ disk \in Content \cup {Empty, Missing} /\ intended \in Content \cup {Empty, Missing}
  /\ before \in [Editor -> Content \cup {Empty}] /\ op \in [Editor -> FileOp \cup {Idle}]
  /\ edit \in [Editor -> {"idle", "reading", "deciding", "cutting", "filling", "ok", "error"}]
  /\ disturbed \in BOOLEAN /\ broken \in BOOLEAN

\* Whatever happened before, as long as the calls on a file do not overlap: it
\* holds what each call that reported success makes of it; a refused or failed call
\* has changed nothing, unless its write broke off, and then the file is cut, which
\* the error does not tell; and no read returns a cut file before a write has
\* broken off.
SerialEditsAreExact ==
  ~disturbed =>
    /\ (\A e \in Editor : edit[e] # "filling") => disk = intended
    /\ \A e \in Editor :
         edit[e] = "ok" /\ op[e].kind = "read" => before[e] # Empty \/ broken

\* Overlapping ones may undo each other, but whatever overlaps, a file is cut while
\* no call writes it only if a write has broken off.
CutsAreTold ==
  disk = Empty => broken \/ \E e \in Editor : edit[e] = "filling"

\* The files agree with what the calls report.
EditsAreTold == SerialEditsAreExact /\ CutsAreTold
=============================================================================
