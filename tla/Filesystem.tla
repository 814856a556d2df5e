----------------------------- MODULE Filesystem -----------------------------
(***************************************************************************)
(* The file system the client fakes (client/filesystem.js): a map from     *)
(* absolute paths to entries, and the working directory.  A path is the    *)
(* sequence of its names: normalizePath is modelled by what it does to     *)
(* "..", and texts are left out.                                           *)
(*                                                                         *)
(* Names are atoms: no name but itself is a part of a name, which the      *)
(* string search of getDirPath could tell apart.                           *)
(***************************************************************************)
EXTENDS Naturals, Sequences, SequencesExt

CONSTANTS
    Names,      \* what users call files
    Outputs,    \* those that end in .out or .err
    Up          \* ".."

ASSUME NameAssumption == Outputs \subseteq Names /\ Up \notin Names

VARIABLES
    contents,    \* the entry of each path that exists
    currentDir   \* the working directory

fsVars == <<contents, currentDir>>

Part == Names \cup {Up}
Root == <<>>
Entry == [name : Part, type : {"dir", "text", "bin"}, deletable : BOOLEAN]

FsTypeOK ==
    /\ DOMAIN contents \subseteq Seq(Part)
    /\ \A p \in DOMAIN contents \ {Root} : contents[p] \in Entry
    /\ currentDir \in Seq(Part)

-----------------------------------------------------------------------------
(* Paths.                                                                  *)

\* One more part of a path: ".." takes the last one away, if there is one.
Walk(path, part) ==
    IF part = Up /\ path # Root /\ Last(path) # Up THEN Front(path) ELSE Append(path, part)

\* A path as a user writes it.
Given == [absolute : BOOLEAN, parts : Seq(Part)]

\* normalizePath, from the directory a relative path starts at
Normalize(dir, g) ==
    LET path[i \in 0..Len(g.parts)] ==
          IF i = 0 THEN IF g.absolute THEN Root ELSE dir
                   ELSE Walk(path[i - 1], g.parts[i])
    IN  path[Len(g.parts)]

getAbsolutePath(g) == Normalize(currentDir, g)

\* getDirPath cuts the file name out where it finds it first, from the left.
getDirPath(path) ==
    IF path = Root THEN Root ELSE RemoveFirst(path, Last(path))

\* Directly, not further down; the root is in the root.
isInDirectory(path, dir) ==
    \/ path = Root /\ dir = Root
    \/ path # Root /\ Front(path) = dir

Exists(path) == path \in DOMAIN contents
IsDir(path)  == Exists(path) /\ contents[path].type = "dir"

-----------------------------------------------------------------------------
(* Changes of the map.                                                     *)

Put(path, name, type, deletable) ==
    contents' = [p \in DOMAIN contents \cup {path} |->
                   IF p = path
                   THEN [name |-> name, type |-> type, deletable |-> deletable]
                   ELSE contents[p]]

Delete(paths) == contents' = [p \in DOMAIN contents \ paths |-> contents[p]]

NoChange == UNCHANGED contents

-----------------------------------------------------------------------------
(* The operations.  One that returns an error changes nothing.             *)

changeWorkingDir(path) ==
    /\ currentDir' = IF IsDir(path) THEN path ELSE currentDir
    /\ UNCHANGED contents

mkdir(path) ==
    /\ IF ~Exists(path) /\ Exists(getDirPath(path))
       THEN Put(path, Last(path), "dir", TRUE)
       ELSE NoChange
    /\ UNCHANGED currentDir

\* Mutant of InUse: looks at the directory itself only.
IsWorkingDir(path) == currentDir = path

\* The working directory, or one that the working directory is in, is kept.
InUse(path) == isInDirectory(currentDir, path) \/ currentDir = path

\* A directory goes with the entries directly in it, whatever is below those.
removeFile(path, recursive) ==
    /\ IF ~Exists(path) \/ ~contents[path].deletable THEN NoChange
       ELSE IF contents[path].type # "dir" THEN Delete({path})
       ELSE IF recursive /\ ~InUse(path)
            THEN Delete({p \in DOMAIN contents : p = path \/ isInDirectory(p, path)})
            ELSE NoChange
    /\ UNCHANGED currentDir

\* Mutant of copyFile: replaces what must not be deleted.
copyOverFile(src, dst) ==
    /\ IF Exists(src) /\ src # dst /\ ~IsDir(src)
       THEN Put(dst, Last(src), contents[src].type, TRUE)
       ELSE NoChange
    /\ UNCHANGED currentDir

\* Where a copy goes into a directory: under the last name of the absolute path
\* that the name of the source stands for, none if that is the root.
Into(dir, name) ==
    LET path == getAbsolutePath([absolute |-> FALSE, parts |-> <<name>>])
    IN  IF path = Root THEN dir ELSE Walk(dir, Last(path))

\* A copy replaces a file, goes into a directory (where it replaces even a
\* directory) or is new.  A copy that replaces a file has the name of its source.
copyFile(src, dst) ==
    /\ LET to   == IF IsDir(dst) THEN Into(dst, contents[src].name) ELSE dst
           name == IF Exists(dst) THEN Last(src) ELSE Last(dst)
       IN  IF /\ Exists(src) /\ src # dst /\ ~IsDir(src)
              /\ Exists(to) => contents[to].deletable
              /\ ~Exists(dst) => Exists(getDirPath(dst))
           THEN Put(to, name, contents[src].type, TRUE)
           ELSE NoChange
    /\ UNCHANGED currentDir

\* A new file needs no directory to be in.
createFile(path, binary, deletable) ==
    /\ IF Exists(path) THEN NoChange
       ELSE Put(path, Last(path), IF binary THEN "bin" ELSE "text", deletable)
    /\ UNCHANGED currentDir

\* saveFile keeps a text, which this module leaves out, in a text file; it
\* throws if there is no such file.
CanSave(path) == Exists(path) /\ contents[path].type = "text"

\* The entries named like the output of a job go, directories too.
resetTime ==
    /\ Delete({p \in DOMAIN contents :
                  contents[p].name \in Outputs /\ contents[p].deletable})
    /\ UNCHANGED currentDir
=============================================================================
