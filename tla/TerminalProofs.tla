--------------------------- MODULE TerminalProofs ---------------------------
(***************************************************************************)
(* Proofs about Terminal, for any names, any paths typed and any number of *)
(* entries.                                                                *)
(***************************************************************************)
EXTENDS Terminal, WellFoundedInduction, TLAPS

-----------------------------------------------------------------------------
(* What the changes of the file system do to the protected entries.        *)

\* The flag that protects them.
LEMMA ProtectedFlag ==
    ASSUME ProtectedStays
    PROVE  \A p \in DOMAIN Protected : p \in DOMAIN contents /\ ~contents[p].deletable
<1>1. \A p \in DOMAIN Protected : Protected[p].deletable = FALSE
  BY DEF Protected
<1>2. \A p \in DOMAIN Protected : p \in DOMAIN contents /\ contents[p] = Protected[p]
  BY DEF ProtectedStays, Exists
<1> QED
  BY <1>1, <1>2

\* A new or deletable path may be written.
LEMMA PutKeeps ==
    ASSUME ProtectedStays,
           NEW path, NEW name, NEW type, Put(path, name, type, TRUE),
           Exists(path) => contents[path].deletable
    PROVE  ProtectedStays'
<1>1. path \notin DOMAIN Protected
  BY ProtectedFlag DEF Exists
<1>2. DOMAIN contents' = DOMAIN contents \cup {path}
  BY DEF Put
<1>3. contents'[path].deletable
  BY DEF Put
<1>4. \A p \in DOMAIN contents \ {path} : contents'[p] = contents[p]
  BY DEF Put
<1> QED
  BY <1>1, <1>2, <1>3, <1>4 DEF ProtectedStays, Exists

\* Deletable paths may be deleted.
LEMMA DeleteKeeps ==
    ASSUME ProtectedStays, NEW paths, Delete(paths),
           paths \cap DOMAIN Protected = {}
    PROVE  ProtectedStays'
BY DEF ProtectedStays, Delete, Exists

\* What is in a deletable directory is not protected: what is protected is in
\* the root, which is protected too.
LEMMA NothingProtectedBelow ==
    ASSUME ProtectedStays, NEW path \in DOMAIN contents, contents[path].deletable,
           NEW p \in DOMAIN Protected
    PROVE  p # path /\ ~isInDirectory(p, path)
<1>1. path \notin DOMAIN Protected
  BY ProtectedFlag
<1>2. path # Root
  BY <1>1 DEF Protected
<1>3. \A n : Front(<<n>>) = Root
  BY DEF Front, Root
<1>4. p # Root => Front(p) = Root
  BY <1>3 DEF Protected
<1> QED
  BY <1>1, <1>2, <1>4 DEF isInDirectory

LEMMA RemoveKeeps ==
    ASSUME ProtectedStays, NEW path, NEW r, removeFile(path, r)
    PROVE  ProtectedStays'
<1>1. CASE NoChange
  BY <1>1 DEF NoChange, ProtectedStays, Exists
<1>2. CASE path \in DOMAIN contents /\ contents[path].deletable
  <2>1. CASE Delete({path})
    BY <1>2, <2>1, DeleteKeeps, NothingProtectedBelow
  <2>2. CASE Delete({p \in DOMAIN contents : p = path \/ isInDirectory(p, path)})
    BY <1>2, <2>2, DeleteKeeps, NothingProtectedBelow
  <2> QED
    BY <1>1, <2>1, <2>2 DEF removeFile
<1> QED
  BY <1>1, <1>2 DEF removeFile, Exists

LEMMA CreateKeeps ==
    ASSUME ProtectedStays, NEW path, NEW b, createFile(path, b, TRUE)
    PROVE  ProtectedStays'
BY PutKeeps DEF createFile, NoChange, ProtectedStays, Exists

LEMMA CopyKeeps ==
    ASSUME ProtectedStays, NEW src, NEW dst, copyFile(src, dst)
    PROVE  ProtectedStays'
<1>1. CASE NoChange
  BY <1>1 DEF NoChange, ProtectedStays, Exists
<1> DEFINE to   == IF IsDir(dst) THEN Into(dst, contents[src].name) ELSE dst
           name == IF Exists(dst) THEN Last(src) ELSE Last(dst)
<1>2. CASE /\ Exists(to) => contents[to].deletable
           /\ Put(to, name, contents[src].type, TRUE)
  <2> HIDE DEF to, name
  <2> QED
    BY <1>2, PutKeeps
<1> QED
  BY <1>1, <1>2 DEF copyFile

\* The batch script, the program and the root stay what they are, and nothing
\* else is protected.
THEOREM ProtectedAlways == Spec => []ProtectedStays
<1>1. Init => ProtectedStays
  BY DEF Init, ProtectedStays, Exists
<1>2. ProtectedStays /\ [Next]_vars => ProtectedStays'
  <2> SUFFICES ASSUME ProtectedStays, [Next]_vars
               PROVE  ProtectedStays'
    OBVIOUS
  <2>1. CASE UNCHANGED contents
    BY <2>1 DEF ProtectedStays, Exists
  <2>2. ASSUME NEW g \in Arguments, Mkdir(g)
        PROVE  ProtectedStays'
    BY <2>1, <2>2, PutKeeps DEF Mkdir, mkdir, NoChange
  <2>3. ASSUME NEW g \in Arguments, Touch(g)
        PROVE  ProtectedStays'
    BY <2>3, CreateKeeps DEF Touch
  <2>4. ASSUME NEW g \in Arguments, Rm(g)
        PROVE  ProtectedStays'
    BY <2>4, RemoveKeeps DEF Rm
  <2>5. ASSUME NEW g \in Arguments, Cd(g) \/ Edit(g)
        PROVE  ProtectedStays'
    BY <2>1, <2>5 DEF Cd, changeWorkingDir, Edit, fsVars
  <2>6. ASSUME NEW g \in Arguments, NEW d \in Arguments, Cp(g, d)
        PROVE  ProtectedStays'
    BY <2>6, CopyKeeps DEF Cp
  <2>7. CASE JobEnds
    BY <2>7, CreateKeeps DEF JobEnds
  <2>8. CASE CloseEditor \/ Sleep \/ FinishSleep \/ ClickReset
    BY <2>1, <2>8 DEF CloseEditor, Sleep, FinishSleep, ClickReset, fsVars
  <2>9. CASE FinishReset
    <3>1. {p \in DOMAIN contents : contents[p].name \in Outputs /\ contents[p].deletable}
             \cap DOMAIN Protected = {}
      BY ProtectedFlag
    <3> QED
      BY <2>9, <3>1, DeleteKeeps DEF FinishReset, resetTime
  <2> QED
    BY <2>1, <2>2, <2>3, <2>4, <2>5, <2>6, <2>7, <2>8, <2>9 DEF Next, vars, fsVars
<1> QED
  BY <1>1, <1>2, PTL DEF Spec

-----------------------------------------------------------------------------
(* The working directory.                                                  *)

\* What is put is added to what there is.
LEMMA PutGrows ==
    ASSUME NEW path, NEW name, NEW type, NEW d, Put(path, name, type, d)
    PROVE  DOMAIN contents \subseteq DOMAIN contents'
BY DEF Put

\* rm takes a directory away only if the working directory is neither that
\* directory nor directly in it, and what it takes with it is directly in it.
LEMMA RemoveKeepsCurrentDir ==
    ASSUME IsDir(currentDir), NEW path, NEW r, removeFile(path, r)
    PROVE  currentDir \in DOMAIN contents'
<1>1. CASE NoChange
  BY <1>1 DEF NoChange, IsDir, Exists
<1>2. CASE contents[path].type # "dir" /\ Delete({path})
  BY <1>2 DEF Delete, IsDir, Exists
<1>3. CASE /\ ~InUse(path)
           /\ Delete({p \in DOMAIN contents : p = path \/ isInDirectory(p, path)})
  <2>1. currentDir \notin {p \in DOMAIN contents : p = path \/ isInDirectory(p, path)}
    BY <1>3 DEF InUse
  <2> QED
    BY <1>3, <2>1 DEF Delete, IsDir, Exists
<1> QED
  BY <1>1, <1>2, <1>3 DEF removeFile

\* No command deletes the working directory, however deep the directories are:
\* looking one level up is enough, because rm -r deletes one level down.
THEOREM WorkingDirKept == Spec => RemoveKeepsWorkingDir
<1>1. [Next]_vars => [waiting # "reset" /\ IsDir(currentDir)
                        => currentDir \in DOMAIN contents']_vars
  <2> SUFFICES ASSUME Next, waiting # "reset", IsDir(currentDir)
               PROVE  currentDir \in DOMAIN contents'
    BY DEF vars
  <2>1. CASE UNCHANGED contents \/ DOMAIN contents \subseteq DOMAIN contents'
    BY <2>1 DEF IsDir, Exists
  <2>2. ASSUME NEW g \in Arguments, Mkdir(g) \/ Touch(g)
        PROVE  currentDir \in DOMAIN contents'
    BY <2>1, <2>2, PutGrows DEF Mkdir, mkdir, Touch, createFile, NoChange
  <2>3. ASSUME NEW g \in Arguments, Rm(g)
        PROVE  currentDir \in DOMAIN contents'
    BY <2>3, RemoveKeepsCurrentDir DEF Rm
  <2>4. ASSUME NEW g \in Arguments, Cd(g) \/ Edit(g)
        PROVE  currentDir \in DOMAIN contents'
    BY <2>1, <2>4 DEF Cd, changeWorkingDir, Edit, fsVars
  <2>5. ASSUME NEW g \in Arguments, NEW d \in Arguments, Cp(g, d)
        PROVE  currentDir \in DOMAIN contents'
    <3>1. ASSUME NEW src, NEW dst, copyFile(src, dst)
          PROVE  UNCHANGED contents \/ DOMAIN contents \subseteq DOMAIN contents'
      BY <3>1, PutGrows DEF copyFile, NoChange
    <3> QED
      BY <2>1, <2>5, <3>1 DEF Cp
  <2>6. CASE JobEnds
    BY <2>1, <2>6, PutGrows DEF JobEnds, createFile, NoChange
  <2>7. CASE CloseEditor \/ Sleep \/ FinishSleep \/ ClickReset
    BY <2>1, <2>7 DEF CloseEditor, Sleep, FinishSleep, ClickReset, fsVars
  <2>8. CASE FinishReset
    BY <2>8 DEF FinishReset
  <2> QED
    BY <2>2, <2>3, <2>4, <2>5, <2>6, <2>7, <2>8 DEF Next
<1> QED
  BY <1>1, PTL DEF Spec, RemoveKeepsWorkingDir

-----------------------------------------------------------------------------
(* The file in the editor.                                                 *)

\* The end of a job takes no text file away.
LEMMA JobEndsKeepsTexts ==
    ASSUME JobEnds, NEW p, CanSave(p)
    PROVE  CanSave(p)'
<1>1. PICK o \in Outputs :
        createFile(getAbsolutePath([absolute |-> FALSE, parts |-> <<o>>]), FALSE, TRUE)
  BY DEF JobEnds
<1> DEFINE path == getAbsolutePath([absolute |-> FALSE, parts |-> <<o>>])
<1>2. createFile(path, FALSE, TRUE)
  BY <1>1
<1> HIDE DEF path
<1> QED
  BY <1>2 DEF createFile, NoChange, Put, CanSave, Exists

\* Saving the file in the editor never throws.
THEOREM OpenFileStays == Spec => []OpenFileCanBeSaved
<1>1. Init => EditorInv
  BY DEF Init, EditorInv, OpenFileCanBeSaved
<1>2. EditorInv /\ [Next]_vars => EditorInv'
  <2> SUFFICES ASSUME EditorInv, [Next]_vars
               PROVE  EditorInv'
    OBVIOUS
  <2> USE DEF EditorInv, OpenFileCanBeSaved, getAbsolutePath
  <2>1. CASE UNCHANGED vars
    BY <2>1 DEF vars, fsVars, pageVars, CanSave, Exists
  <2>2. ASSUME Command
        PROVE  EditorInv'
    BY <2>2 DEF Command, Ready, pageVars
  <2>3. ASSUME NEW g \in Arguments, Edit(g)
        PROVE  EditorInv'
    BY <2>3 DEF Edit, Ready, CanSave, Exists, fsVars
  <2>4. CASE CloseEditor
    BY <2>4 DEF CloseEditor
  <2>5. CASE JobEnds
    <3>1. UNCHANGED <<pageVars, currentDir>>
      BY <2>5 DEF JobEnds, createFile
    <3> QED
      BY <2>5, <3>1, JobEndsKeepsTexts DEF pageVars
  <2>6. CASE Sleep \/ FinishSleep
    BY <2>6 DEF Sleep, FinishSleep, Ready, CanSave, Exists, fsVars
  <2>7. CASE ClickReset \/ FinishReset
    BY <2>7 DEF ClickReset, ResetButton, FinishReset
  <2> QED
    BY <2>1, <2>2, <2>3, <2>4, <2>5, <2>6, <2>7 DEF Next, Mkdir, Touch, Rm, Cd, Cp
<1>3. EditorInv => OpenFileCanBeSaved
  BY DEF EditorInv
<1> QED
  BY <1>1, <1>2, <1>3, PTL DEF Spec
-----------------------------------------------------------------------------
(* Paths.  Normalize is recursive: that it is defined, and what it gives,  *)
(* is proved by the least number for which it is not.                      *)

\* The numbers are well-founded, as a statement about sets.
LEMMA Least ==
    ASSUME NEW S \in SUBSET Nat, S # {}
    PROVE  \E n \in S : \A m \in S : n <= m
<1> DEFINE R == OpToRel(<, Nat)
<1>1. IsWellFoundedOn(R, Nat)
  BY NatLessThanWellFounded
<1>2. \A x, y \in Nat : y < x => <<y, x>> \in R
  BY DEF OpToRel
<1> HIDE DEF R
<1>3. PICK x \in S : \A y \in S : ~ (<<y, x>> \in R)
  BY <1>1, WFMin
<1>4. ASSUME NEW y \in S
      PROVE  ~ (y < x)
  <2>1. x \in Nat /\ y \in Nat
    OBVIOUS
  <2> QED
    BY <2>1, <1>2, <1>3
<1> QED
  BY <1>4

\* One name more or less leaves a path a path.
LEMMA WalkType ==
    ASSUME NEW path \in Seq(Part), NEW part \in Part
    PROVE  Walk(path, part) \in Seq(Part)
<1>1. path # Root => Front(path) \in Seq(Part)
  BY DEF Front, Root
<1> QED
  BY <1>1 DEF Walk

\* f is the path after each of the first n parts.
Step(start, parts, n, f) ==
  f = [i \in 0..n |-> IF i = 0 THEN start ELSE Walk(f[i - 1], parts[i])]

\* There is such a function, for any n: the recursion of Normalize defines one.
LEMMA StepExists ==
    ASSUME NEW start, NEW parts, NEW n \in Nat
    PROVE  \E f : Step(start, parts, n, f)
<1> DEFINE Bad == {m \in Nat : ~ \E f : Step(start, parts, m, f)}
<1>1. SUFFICES ASSUME Bad # {}
               PROVE  FALSE
  OBVIOUS
<1>2. PICK m \in Bad : \A k \in Bad : m <= k
  <2>1. Bad \in SUBSET Nat
    OBVIOUS
  <2> HIDE DEF Bad
  <2> QED
    BY <1>1, <2>1, Least
<1>3. m \in Nat /\ ~ \E f : Step(start, parts, m, f)
  OBVIOUS
<1>4. m # 0
  <2>1. Step(start, parts, 0, [i \in 0..0 |-> start])
    BY DEF Step
  <2> QED
    BY <2>1, <1>3
<1>5. PICK f : Step(start, parts, m - 1, f)
  <2>1. m - 1 \in Nat /\ ~ m <= m - 1
    BY <1>3, <1>4
  <2>2. m - 1 \notin Bad
    BY <1>2, <2>1
  <2> QED
    BY <2>1, <2>2
<1>6. Step(start, parts, m, [i \in 0..m |-> IF i = m THEN Walk(f[m - 1], parts[m]) ELSE f[i]])
  BY <1>3, <1>4, <1>5 DEF Step
<1> QED
  BY <1>3, <1>6

\* The absolute path of any path a user types is a path.
LEMMA NormalizeType ==
    ASSUME NEW dir \in Seq(Part), NEW g \in Given
    PROVE  Normalize(dir, g) \in Seq(Part)
<1> DEFINE start == IF g.absolute THEN Root ELSE dir
           parts == g.parts
           path == CHOOSE f : Step(start, parts, Len(parts), f)
<1>1. start \in Seq(Part) /\ parts \in Seq(Part) /\ Len(parts) \in Nat
  BY DEF Given, Root
<1>2. Normalize(dir, g) = path[Len(parts)]
  BY DEF Normalize, Step
<1> HIDE DEF start, parts
<1>3. path = [i \in 0..Len(parts) |-> IF i = 0 THEN start ELSE Walk(path[i - 1], parts[i])]
  <2>1. Step(start, parts, Len(parts), path)
    BY <1>1, StepExists
  <2> QED
    BY <2>1 DEF Step
<1> HIDE DEF path
<1> DEFINE Bad == {m \in 0..Len(parts) : path[m] \notin Seq(Part)}
<1>4. SUFFICES ASSUME Bad # {}
               PROVE  FALSE
  BY <1>1, <1>2
<1>5. PICK m \in Bad : \A k \in Bad : m <= k
  <2>1. Bad \in SUBSET Nat
    BY <1>1
  <2> HIDE DEF Bad
  <2> QED
    BY <1>4, <2>1, Least
<1>6. m \in 1..Len(parts)
  BY <1>1, <1>3
<1>7. path[m - 1] \in Seq(Part)
  <2>1. m - 1 \in 0..Len(parts) /\ ~ m <= m - 1
    BY <1>1, <1>6
  <2>2. m - 1 \notin Bad
    BY <1>5, <2>1
  <2> QED
    BY <2>1, <2>2
<1>8. path[m] = Walk(path[m - 1], parts[m]) /\ parts[m] \in Part
  BY <1>1, <1>3, <1>6
<1> QED
  BY <1>7, <1>8, WalkType

-----------------------------------------------------------------------------
(* Types.                                                                  *)

\* Every path but the root has a last name.
LEMMA LastType ==
    ASSUME NEW path \in Seq(Part), path # Root
    PROVE  Last(path) \in Part
BY DEF Last, Root

\* An entry that is put where the root is not.
LEMMA PutType ==
    ASSUME FsTypeOK, NEW path \in Seq(Part), NEW name, NEW type \in {"dir", "text", "bin"},
           NEW d \in BOOLEAN, Put(path, name, type, d), path # Root => name \in Part
    PROVE  /\ DOMAIN contents' \subseteq Seq(Part)
           /\ \A p \in DOMAIN contents' \ {Root} : contents'[p] \in Entry
<1>1. DOMAIN contents' = DOMAIN contents \cup {path}
  BY DEF Put
<1>2. contents'[path] = [name |-> name, type |-> type, deletable |-> d]
  BY DEF Put
<1>3. \A p \in DOMAIN contents \ {path} : contents'[p] = contents[p]
  BY DEF Put
<1> QED
  BY <1>1, <1>2, <1>3 DEF FsTypeOK, Entry

\* What is left of the entries keeps its type.
LEMMA DeleteType ==
    ASSUME FsTypeOK, NEW paths, Delete(paths)
    PROVE  /\ DOMAIN contents' \subseteq Seq(Part)
           /\ \A p \in DOMAIN contents' \ {Root} : contents'[p] \in Entry
BY DEF FsTypeOK, Delete

LEMMA CreateType ==
    ASSUME FsTypeOK, ProtectedStays, NEW path \in Seq(Part), NEW b \in BOOLEAN,
           createFile(path, b, TRUE)
    PROVE  FsTypeOK'
<1>1. path # Root \/ UNCHANGED contents
  BY ProtectedFlag DEF Protected, createFile, Exists, NoChange
<1>2. CASE UNCHANGED contents
  BY <1>2 DEF createFile, FsTypeOK
<1>3. CASE path # Root /\ Put(path, Last(path), IF b THEN "bin" ELSE "text", TRUE)
  BY <1>3, PutType, LastType DEF createFile, FsTypeOK
<1> QED
  BY <1>1, <1>2, <1>3 DEF createFile, NoChange

LEMMA MkdirType ==
    ASSUME FsTypeOK, ProtectedStays, NEW path \in Seq(Part), mkdir(path)
    PROVE  FsTypeOK'
<1>1. path # Root \/ UNCHANGED contents
  BY ProtectedFlag DEF Protected, mkdir, Exists, NoChange
<1>2. CASE UNCHANGED contents
  BY <1>2 DEF mkdir, FsTypeOK
<1>3. CASE path # Root /\ Put(path, Last(path), "dir", TRUE)
  BY <1>3, PutType, LastType DEF mkdir, FsTypeOK
<1> QED
  BY <1>1, <1>2, <1>3 DEF mkdir, NoChange

LEMMA RemoveType ==
    ASSUME FsTypeOK, NEW path, NEW r, removeFile(path, r)
    PROVE  FsTypeOK'
<1>1. UNCHANGED currentDir
  BY DEF removeFile
<1>2. UNCHANGED contents \/ \E paths : Delete(paths)
  BY DEF removeFile, NoChange
<1> QED
  BY <1>1, <1>2, DeleteType DEF FsTypeOK

\* A copy gets the name of a file or that of its own path, never that of the root.
LEMMA CopyType ==
    ASSUME FsTypeOK, ProtectedStays, NEW src \in Seq(Part), NEW dst \in Seq(Part),
           copyFile(src, dst)
    PROVE  FsTypeOK'
<1> DEFINE to   == IF IsDir(dst) THEN Into(dst, contents[src].name) ELSE dst
           name == IF Exists(dst) THEN Last(src) ELSE Last(dst)
<1>1. UNCHANGED currentDir
  BY DEF copyFile
<1>2. CASE UNCHANGED contents
  BY <1>1, <1>2 DEF FsTypeOK
<1>3. CASE /\ Exists(src) /\ ~IsDir(src)
           /\ Put(to, name, contents[src].type, TRUE)
  <2>1. IsDir(Root)
    <3>1. Root \in DOMAIN Protected /\ Protected[Root].type = "dir"
      BY DEF Protected
    <3>2. Exists(Root) /\ contents[Root] = Protected[Root]
      BY <3>1 DEF ProtectedStays
    <3> QED
      BY <3>1, <3>2 DEF IsDir
  <2>2. src # Root /\ contents[src] \in Entry
    BY <1>3, <2>1 DEF FsTypeOK, Exists
  <2>3. name \in Part
    <3>1. CASE Exists(dst)
      BY <2>2, <3>1, LastType
    <3>2. CASE ~Exists(dst)
      BY <2>1, <3>2, LastType DEF IsDir
    <3> QED
      BY <3>1, <3>2
  <2>4. to \in Seq(Part)
    <3> DEFINE g == [absolute |-> FALSE, parts |-> <<contents[src].name>>]
    <3>1. contents[src].name \in Part
      BY <2>2 DEF Entry
    <3>2. g \in Given
      BY <3>1 DEF Given
    <3>3. getAbsolutePath(g) \in Seq(Part)
      BY <3>2, NormalizeType DEF getAbsolutePath, FsTypeOK
    <3>4. Into(dst, contents[src].name) \in Seq(Part)
      BY <3>3, LastType, WalkType DEF Into
    <3> QED
      BY <3>4
  <2>5. contents[src].type \in {"dir", "text", "bin"}
    BY <2>2 DEF Entry
  <2> HIDE DEF to, name
  <2> QED
    BY <1>1, <1>3, <2>3, <2>4, <2>5, PutType DEF FsTypeOK
<1> QED
  BY <1>2, <1>3 DEF copyFile, NoChange

LEMMA ArgumentType ==
    ASSUME FsTypeOK, NEW g \in Arguments
    PROVE  g \in Given /\ g # NoFile /\ getAbsolutePath(g) \in Seq(Part)
<1>1. g \in Given /\ (g.absolute \/ g.parts # <<>>)
  BY TerminalAssumption
<1> QED
  BY <1>1, NormalizeType DEF getAbsolutePath, FsTypeOK, NoFile

\* Every path of the file system, the working directory and the path in the
\* editor are paths, and every entry has a name that is one, whatever is typed:
\* the type invariant holds together with ProtectedStays, because no command
\* may create, replace or copy the root, the only path without a last name.
THEOREM TerminalTypeCorrect == Spec => []TypeOK
<1>1. Init => TypeOK
  <2> SUFFICES ASSUME Init
               PROVE  TypeOK
    OBVIOUS
  <2>1. BatchFile \in Part /\ pp_name \in Part
    BY TerminalAssumption, NameAssumption DEF Part
  <2>2. <<BatchFile>> \in Seq(Part) /\ <<pp_name>> \in Seq(Part) /\ Root \in Seq(Part)
    BY <2>1 DEF Root
  <2>3. Last(<<BatchFile>>) = BatchFile /\ Last(<<pp_name>>) = pp_name
    BY DEF Last
  <2>4. FsTypeOK
    BY <2>1, <2>2, <2>3 DEF Init, FsTypeOK, Protected, Entry
  <2>5. NoFile \in Given
    BY DEF NoFile, Given
  <2> QED
    BY <2>4, <2>5 DEF Init, TypeOK
<1>2. TypeOK /\ ProtectedStays /\ [Next]_vars => TypeOK'
  <2> SUFFICES ASSUME TypeOK, ProtectedStays, [Next]_vars
               PROVE  TypeOK'
    OBVIOUS
  <2>0. FsTypeOK
    BY DEF TypeOK
  <2>1. CASE UNCHANGED vars
    BY <2>1 DEF vars, fsVars, pageVars, TypeOK, FsTypeOK
  <2>2. ASSUME FsTypeOK', UNCHANGED pageVars
        PROVE  TypeOK'
    BY <2>2 DEF pageVars, TypeOK
  <2>3. ASSUME NEW g \in Arguments, Mkdir(g) \/ Touch(g) \/ Rm(g) \/ Cd(g)
        PROVE  TypeOK'
    <3>1. getAbsolutePath(g) \in Seq(Part)
      BY <2>0, ArgumentType
    <3>2. CASE Mkdir(g)
      BY <2>0, <2>2, <3>1, <3>2, MkdirType DEF Mkdir, Command
    <3>3. CASE Touch(g)
      BY <2>0, <2>2, <3>1, <3>3, CreateType DEF Touch, Command
    <3>4. CASE Rm(g)
      BY <2>0, <2>2, <3>4, RemoveType DEF Rm, Command
    <3>5. CASE Cd(g)
      BY <2>0, <2>2, <3>1, <3>5 DEF Cd, Command, changeWorkingDir, FsTypeOK
    <3> QED
      BY <2>3, <3>2, <3>3, <3>4, <3>5
  <2>4. ASSUME NEW g \in Arguments, Edit(g)
        PROVE  TypeOK'
    <3>1. g \in Given /\ g # NoFile
      BY <2>0, ArgumentType
    <3>2. UNCHANGED <<fsVars, waiting>>
      BY <2>4 DEF Edit
    <3>3. \/ shown' = "editor" /\ openedFile' = g
          \/ shown = "terminal" /\ shown' = "nothing" /\ UNCHANGED openedFile
      BY <2>4 DEF Edit, Ready
    <3> QED
      BY <3>1, <3>2, <3>3 DEF TypeOK, FsTypeOK, fsVars
  <2>5. ASSUME NEW g \in Arguments, NEW d \in Arguments, Cp(g, d)
        PROVE  TypeOK'
    BY <2>0, <2>2, <2>5, ArgumentType, CopyType DEF Cp, Command
  <2>6. CASE JobEnds
    <3>1. PICK o \in Outputs :
            createFile(getAbsolutePath([absolute |-> FALSE, parts |-> <<o>>]), FALSE, TRUE)
      BY <2>6 DEF JobEnds
    <3>2. [absolute |-> FALSE, parts |-> <<o>>] \in Given
      BY NameAssumption DEF Given, Part
    <3>3. getAbsolutePath([absolute |-> FALSE, parts |-> <<o>>]) \in Seq(Part)
      BY <2>0, <3>2, NormalizeType DEF getAbsolutePath, FsTypeOK
    <3> QED
      BY <2>0, <2>2, <2>6, <3>1, <3>3, CreateType DEF JobEnds
  <2>7. CASE CloseEditor
    <3>1. NoFile \in Given
      BY DEF NoFile, Given
    <3> QED
      BY <2>7, <3>1 DEF CloseEditor, TypeOK, FsTypeOK, fsVars
  <2>8. CASE Sleep \/ FinishSleep \/ ClickReset
    BY <2>8 DEF Sleep, FinishSleep, ClickReset, TypeOK, FsTypeOK, fsVars
  <2>9. CASE FinishReset
    <3>1. FsTypeOK'
      BY <2>0, <2>9, DeleteType DEF FinishReset, resetTime, FsTypeOK
    <3> QED
      BY <2>9, <3>1 DEF FinishReset, TypeOK
  <2> QED
    BY <2>1, <2>3, <2>4, <2>5, <2>6, <2>7, <2>8, <2>9 DEF Next
<1> QED
  BY <1>1, <1>2, ProtectedAlways, PTL DEF Spec
=============================================================================
