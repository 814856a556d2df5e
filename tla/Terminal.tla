------------------------------ MODULE Terminal ------------------------------
(***************************************************************************)
(* The client's terminal (client/index.js): the commands a user types, the *)
(* editor, the reset button and the ends of jobs that polls and sleeps     *)
(* bring in between.  A command with several arguments is that command     *)
(* once for each of them.                                                  *)
(***************************************************************************)
EXTENDS Filesystem

CONSTANTS
    Arguments,   \* the paths users type
    Slurms,      \* the names that end in .slurm
    BatchFile,   \* batch.slurm
    pp_name,     \* the parallel program
    MaxEntries,  \* bound: entries of the file system
    MaxDepth     \* bound: names in a path

ASSUME TerminalAssumption ==
    /\ \A g \in Arguments : g \in Given /\ (g.absolute \/ g.parts # <<>>)
    /\ Slurms \subseteq Names
    /\ BatchFile \in Slurms \ Outputs /\ pp_name \in Names \ (Outputs \cup Slurms)
    /\ MaxEntries \in Nat /\ MaxDepth \in Nat

VARIABLES
    shown,        \* what the page shows
    openedFile,   \* the path of the file in the editor, as typed
    waiting       \* for what the page keeps the user waiting

pageVars == <<shown, openedFile, waiting>>
vars == <<fsVars, pageVars>>

NoFile == [absolute |-> FALSE, parts |-> <<>>]

TypeOK ==
    /\ FsTypeOK
    /\ shown \in {"terminal", "editor", "nothing"}
    /\ openedFile \in Given
    /\ waiting \in {"no", "sleep", "reset"}
    /\ (shown = "editor") <=> (openedFile # NoFile)

\* The root, and what initializeTerminal creates in it.
Protected ==
    [p \in {Root, <<BatchFile>>, <<pp_name>>} |->
        [name |-> IF p = Root THEN "/" ELSE Last(p),
         type |-> IF p = Root THEN "dir" ELSE IF p = <<pp_name>> THEN "bin" ELSE "text",
         deletable |-> FALSE]]

Init ==
    /\ contents = Protected
    /\ currentDir = Root
    /\ shown = "terminal" /\ openedFile = NoFile /\ waiting = "no"

-----------------------------------------------------------------------------
(* Commands.                                                               *)

\* processInput ignores what is typed while a file is open; disableStdin keeps
\* it away during a reset and a long sleep.
Ready == shown = "terminal" /\ waiting = "no"

Command == Ready /\ UNCHANGED pageVars

Mkdir(g) == Command /\ mkdir(getAbsolutePath(g))
Touch(g) == Command /\ createFile(getAbsolutePath(g), FALSE, TRUE)
Cp(g, d) == Command /\ copyFile(getAbsolutePath(g), getAbsolutePath(d))
Rm(g)    == Command /\ \E r \in BOOLEAN : removeFile(getAbsolutePath(g), r)
Cd(g)    == Command /\ changeWorkingDir(getAbsolutePath(g))

\* edit: the editor of batch files hides the terminal before it splits the text,
\* which throws when there is none (a directory, a binary file).
Edit(g) ==
    /\ Ready
    /\ Exists(getAbsolutePath(g))
    /\ LET text  == CanSave(getAbsolutePath(g))
           slurm == g.parts # <<>> /\ Last(g.parts) \in Slurms
       IN  \/ text /\ shown' = "editor" /\ openedFile' = g
           \/ ~text /\ slurm /\ shown' = "nothing" /\ UNCHANGED openedFile
    /\ UNCHANGED <<fsVars, waiting>>

\* Mutant of CloseEditor: forgets to forget the file.
LeaveEditor ==
    /\ shown = "editor"
    /\ shown' = "terminal"
    /\ UNCHANGED <<fsVars, openedFile, waiting>>

\* saveAndExitTextEditor, if saveFile does not throw, or exitTextEditor
CloseEditor ==
    /\ shown = "editor"
    /\ shown' = "terminal" /\ openedFile' = NoFile
    /\ UNCHANGED <<fsVars, waiting>>

-----------------------------------------------------------------------------
(* What happens next to the commands.                                      *)

\* handleEvents: the end of a job creates its file in the working directory.
JobEnds ==
    /\ \E o \in Outputs :
          createFile(getAbsolutePath([absolute |-> FALSE, parts |-> <<o>>]), FALSE, TRUE)
    /\ UNCHANGED pageVars

\* A sleep of more than 5000 seconds keeps the user waiting until the server
\* answers (for ever if the request fails: nothing catches that).  A shorter one
\* does not, and is no more than the ends of jobs its answer brings.
Sleep ==
    /\ Ready
    /\ waiting' = "sleep"
    /\ UNCHANGED <<fsVars, shown, openedFile>>

FinishSleep ==
    /\ waiting = "sleep"
    /\ waiting' = "no"
    /\ UNCHANGED <<fsVars, shown, openedFile>>

\* Mutant of ResetButton: the editor does not hide the button.
ResetButtonAlways == waiting = "no"

\* The button is there unless a file is open, the page is stuck or the user
\* waits.
ResetButton == shown = "terminal" /\ waiting = "no"

ClickReset ==
    /\ ResetButton
    /\ waiting' = "reset"
    /\ UNCHANGED <<fsVars, shown, openedFile>>

\* The server is back: resetSimulation goes on after its last await.
FinishReset ==
    /\ waiting = "reset"
    /\ resetTime
    /\ waiting' = "no"
    /\ UNCHANGED <<shown, openedFile>>

\* Bounds of the model, not of the code.
Bounded ==
    /\ Cardinality(DOMAIN contents') <= MaxEntries
    /\ \A p \in DOMAIN contents' : Len(p) <= MaxDepth

Next ==
    /\ \/ \E g \in Arguments : Mkdir(g) \/ Touch(g) \/ Rm(g) \/ Cd(g) \/ Edit(g)
       \/ \E g, d \in Arguments : Cp(g, d)
       \/ CloseEditor \/ JobEnds
       \/ Sleep \/ FinishSleep \/ ClickReset \/ FinishReset
    /\ Bounded

Spec == Init /\ [][Next]_vars

-----------------------------------------------------------------------------
(* Properties.                                                             *)

\* The batch script and the program stay what they are, and nothing else is
\* protected: neither rm -r of a directory, nor cp onto a file or into a
\* directory, nor a reset takes them away (the deletable flag of filesystem.js).
ProtectedStays ==
    /\ \A p \in DOMAIN Protected : Exists(p) /\ contents[p] = Protected[p]
    /\ \A p \in DOMAIN contents \ DOMAIN Protected : contents[p].deletable

\* While the editor is open the file it shows stays a text file, so that saving
\* it does not throw: no command, no end of a job and no reset can take the file
\* away, nor make its path, relative to the working directory, name another one.
OpenFileCanBeSaved == shown = "editor" => CanSave(getAbsolutePath(openedFile))

\* Why: no reset starts or ends while a file is open.
EditorInv == OpenFileCanBeSaved /\ (waiting # "no" => shown = "terminal")

\* No command deletes the working directory, although rm looks only one level
\* up (filesystem.js:232): what rm -r deletes is at most one level down.  (A cp
\* into its parent may turn it into a file, which may then be removed.)
RemoveKeepsWorkingDir ==
    [][waiting # "reset" /\ IsDir(currentDir) => currentDir \in DOMAIN contents']_vars
=============================================================================
