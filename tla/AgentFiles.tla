------------------------------ MODULE AgentFiles ------------------------------
(***************************************************************************)
(* What an agent sees of its files: the tools of FilesystemMiddleware over *)
(* a CompositeBackend, which sends paths below a route to a directory of   *)
(* the disk and all others to the state of the conversation, and the       *)
(* skills that SkillsMiddleware finds in them.  Paths are sequences of     *)
(* names, and a file is a sequence of lines, each a sequence of pieces of  *)
(* at most MAX_LINE_LENGTH characters.                                     *)
(***************************************************************************)
EXTENDS Integers, Sequences, FiniteSets, SequencesExt

CONSTANTS
  PathParts,      \* the names that paths are made of
  FileNames,      \* the paths that the tools are called with
  Longer,         \* the <<n, r, x>> in which the name n is r and the character x
  Disk,           \* the files below a route, at first: [skills |-> .., docs |-> ..]
  Texts,          \* what write_file writes
  Words,          \* what edit_file and grep look for: single pieces
  Outputs,        \* results of tools that are too large
  PageSize,       \* 80,000 characters of a page, in pieces
  SkillNames,     \* names of skills, as pieces
  MaxChanges      \* bound: writes and edits

VARIABLES
  graph,    \* which agent it is
  files,    \* state["files"]
  disk,     \* the files below each route
  skills,   \* {skills_metadata}, the path of each name, or {} before they are loaded
  wrote      \* what the agent was told that its files have, path by path

fileVars == <<graph, files, disk, skills, wrote>>

Skills == <<"skills">>
Docs == <<"app", "docs">>
Large(c) == <<"large_tool_results", c>>

\* _create_fs_backend, _subagent_skills_backend and the planning agent's _fs_backend.
Routes == IF graph = "master" THEN {Skills, Docs} ELSE {Skills}
ReadOnly == IF graph = "planning" THEN {Skills} ELSE {}
Source == IF graph = "subagent" THEN Append(Skills, "pre_purchase") ELSE Skills

\* The directories of the disk have files, none below another.  No name of a route
\* is another one that goes on.
FilesAssumption ==
  /\ {"skills", "app", "docs", "pre_purchase", "SKILL.md", "large_tool_results"} \cup DOMAIN Outputs \subseteq PathParts
  /\ FileNames \subseteq Seq(PathParts) \ {<<>>}
  /\ DOMAIN Disk = {Skills, Docs}
  /\ \A r \in DOMAIN Disk :
       /\ DOMAIN Disk[r] \subseteq Seq(PathParts) \ {<<>>} /\ DOMAIN Disk[r] # {}
       /\ \A p, q \in DOMAIN Disk[r] : Len(p) > Len(q) => SubSeq(p, 1, Len(q)) # q
  /\ \A x \in Longer : x[1] \notin {"skills", "app", "docs"}
  /\ \A c \in DOMAIN Outputs :
       Outputs[c] \in Seq(Seq(STRING))
  /\ PageSize \in Nat
ASSUME FilesAssumption

Below(p, d) == Len(p) > Len(d) /\ SubSeq(p, 1, Len(d)) = d
Rest(p, d) == SubSeq(p, Len(d) + 1, Len(p))
Put(fs, p, text) == [q \in DOMAIN fs \cup {p} |-> IF q = p THEN text ELSE fs[q]]
Has(text, w) == \E l \in DOMAIN text : \E i \in DOMAIN text[l] : text[l][i] = w
\* Where the pieces of a text are, and how many it has.
Places(text) == UNION {{l} \X DOMAIN text[l] : l \in DOMAIN text}
Size(text) == Cardinality(Places(text))

FilesInit ==
  /\ graph \in {"master", "subagent", "planning"} /\ files = <<>> /\ disk = Disk
  /\ skills = {} /\ wrote = <<>>

-----------------------------------------------------------------------------
(* The backends: what they say of the files fs that they have *)

\* Directories are those that files lie in.
IsDir(fs, d) == \E p \in DOMAIN fs : Below(p, d)
Ls(fs, d) ==
  [files |-> {p \in DOMAIN fs : Below(p, d) /\ Len(p) = Len(d) + 1},
   dirs |-> {SubSeq(p, 1, Len(d) + 1) : p \in {q \in DOMAIN fs : Below(q, d) /\ Len(q) > Len(d) + 1}}]

\* The state takes "*" for one level and a file for itself, the disk looks for
\* every pattern in all levels and takes no file.
StateGlob(fs, d, pattern) ==
  IF d \in DOMAIN fs THEN {d}
  ELSE {p \in DOMAIN fs : Below(p, d) /\ (pattern = "*" => Len(p) = Len(d) + 1)}
DiskGlob(fs, d) == {p \in DOMAIN fs : Below(p, d)}

\* A search without ripgrep looks at all that lies beside a file.
StateGrep(fs, d, w) ==
  {p \in IF d \in DOMAIN fs THEN {d} ELSE {q \in DOMAIN fs : Below(q, d)} : Has(fs[p], w)}
DiskGrep(fs, d, w, ripgrep) ==
  {p \in CASE d \notin DOMAIN fs -> {q \in DOMAIN fs : Below(q, d)}
           [] d \in DOMAIN fs /\ ripgrep -> {d}
           [] OTHER -> {q \in DOMAIN fs : Below(q, Front(d))} : Has(fs[p], w)}

\* Both refuse a path that is taken; on the disk that is also a directory, and
\* nothing can be below a file.
StateTakes(fs, p) == p \notin DOMAIN fs
DiskTakes(fs, p) ==
  /\ p \notin DOMAIN fs /\ ~IsDir(fs, p)
  /\ \A q \in DOMAIN fs : ~Below(p, q)

\* Every occurrence is replaced if all are to be, else the only one.
Count(text, w) == Cardinality({x \in Places(text) : text[x[1]][x[2]] = w})
CanReplace(text, w, all) == Count(text, w) = 1 \/ (Count(text, w) > 1 /\ all)
Replaced(text, w, v) == [l \in DOMAIN text |-> [i \in DOMAIN text[l] |-> IF text[l][i] = w THEN v ELSE text[l][i]]]

-----------------------------------------------------------------------------
(* CompositeBackend *)

\* A mutant: names are not restored.
Restored_Bare(r, ps) == ps

Restored(r, ps) == {r \o p : p \in ps}

\* read, write and edit: the route that the path is below, or none.
_get_backend_and_key(p) == {r \in Routes : Below(p, r)}

\* ls, glob and grep: the route whose name the path begins with. What comes after
\* it is cut one character further for ls.
Matches(d) ==
  {r \in Routes : /\ Len(d) >= Len(r) /\ SubSeq(d, 1, Len(r) - 1) = Front(r)
                  /\ d[Len(r)] = Last(r) \/ \E x \in Longer : x[1] = d[Len(r)] /\ x[2] = Last(r)}
SearchPath(d, r) ==
  IF d[Len(r)] = Last(r) THEN Rest(d, r)
  ELSE <<(CHOOSE x \in Longer : x[1] = d[Len(r)])[3]>> \o Rest(d, r)

ls_info(d) ==
  IF Matches(d) # {} THEN
    LET r == CHOOSE r \in Matches(d) : TRUE IN
    [f \in {"files", "dirs"} |-> Restored(r, Ls(disk[r], Rest(d, r))[f])]
  ELSE [Ls(files, d) EXCEPT !.dirs = IF d = <<>> THEN @ \cup Routes ELSE @]

glob_info(pattern, d) ==
  IF Matches(d) # {} THEN
    LET r == CHOOSE r \in Matches(d) : TRUE IN Restored(r, DiskGlob(disk[r], SearchPath(d, r)))
  ELSE StateGlob(files, d, pattern) \cup UNION {Restored(r, DiskGlob(disk[r], <<>>)) : r \in Routes}

grep_raw(w, d, ripgrep) ==
  IF Matches(d) # {} THEN
    LET r == CHOOSE r \in Matches(d) : TRUE IN Restored(r, DiskGrep(disk[r], SearchPath(d, r), w, ripgrep))
  ELSE StateGrep(files, d, w) \cup
       IF d # <<>> THEN {} ELSE UNION {Restored(r, DiskGrep(disk[r], <<>>, w, ripgrep)) : r \in Routes}

\* The text of a file, or none: read and download_files.
read(p) ==
  IF _get_backend_and_key(p) = {} THEN IF p \in DOMAIN files THEN {files[p]} ELSE {}
  ELSE LET r == CHOOSE r \in _get_backend_and_key(p) : TRUE IN
       IF Rest(p, r) \in DOMAIN disk[r] THEN {disk[r][Rest(p, r)]} ELSE {}

\* What an agent gets to see of a file for an offset and a limit: the numbers of
\* pieces. Lines of several pieces count as several, and a page that is too
\* long is cut, so that the message that says so fits.
read_file(text, offset, limit) ==
  LET before == Size(SubSeq(text, 1, offset))
      lines == SubSeq(text, offset + 1, IF offset + limit < Len(text) THEN offset + limit ELSE Len(text))
      n == Size(lines)
      shown == IF n > limit THEN limit ELSE n IN
  before + 1 .. before + (IF shown >= PageSize THEN PageSize - 1 ELSE shown)

\* A mutant: the prefix of the route stays in the key.
Stored_Whole(p, text) ==
  IF _get_backend_and_key(p) = {} THEN files' = Put(files, p, text) /\ UNCHANGED disk
  ELSE LET r == CHOOSE r \in _get_backend_and_key(p) : TRUE IN
       disk' = [disk EXCEPT ![r] = Put(@, p, text)] /\ UNCHANGED files

Stored(p, text) ==
  IF _get_backend_and_key(p) = {} THEN files' = Put(files, p, text) /\ UNCHANGED disk
  ELSE LET r == CHOOSE r \in _get_backend_and_key(p) : TRUE IN
       disk' = [disk EXCEPT ![r] = Put(@, Rest(p, r), text)] /\ UNCHANGED files
HasRoom(p) ==
  LET rs == _get_backend_and_key(p) IN
  IF rs = {} THEN StateTakes(files, p)
  ELSE \A r \in rs : r \notin ReadOnly /\ DiskTakes(disk[r], Rest(p, r))

-----------------------------------------------------------------------------
(* The tools that change something *)

write_file(p, text) ==
  /\ HasRoom(p) /\ Stored(p, text) /\ wrote' = Put(wrote, p, text)
  /\ UNCHANGED <<graph, skills>>

edit_file(p, w, v, all) ==
  /\ \A r \in _get_backend_and_key(p) : r \notin ReadOnly
  /\ \E text \in read(p) :
       /\ CanReplace(text, w, all) /\ Stored(p, Replaced(text, w, v))
       /\ wrote' = Put(wrote, p, Replaced(IF p \in DOMAIN wrote THEN wrote[p] ELSE text, w, v))
  /\ UNCHANGED <<graph, skills>>

\* A result that is too large goes to a file, unless that exists.
_process_large_message(c, text) ==
  /\ Size(text) > PageSize /\ HasRoom(Large(c)) /\ Stored(Large(c), text)
  /\ wrote' = Put(wrote, Large(c), text) /\ UNCHANGED <<graph, skills>>

-----------------------------------------------------------------------------
(* SkillsMiddleware *)

\* A skill is a directory whose SKILL.md begins with a name; of two with the same
\* name the one that is listed last stays.
SkillFile(d) == Append(d, "SKILL.md")
_parse_skill_metadata(text) == {text[1][1]} \cap SkillNames
_list_skills(n) == {SkillFile(d) : d \in
  {d \in ls_info(Source).dirs : \E text \in read(SkillFile(d)) : n \in _parse_skill_metadata(text)}}

before_agent ==
  /\ skills = {}
  /\ \E path \in [{n \in SkillNames : _list_skills(n) # {}} -> UNION {_list_skills(n) : n \in SkillNames}] :
       /\ \A n \in DOMAIN path : path[n] \in _list_skills(n)
       /\ skills' = {path}
  /\ UNCHANGED <<graph, files, disk, wrote>>

FilesNext ==
  \/ before_agent
  \/ /\ skills # {} /\ Cardinality(DOMAIN wrote) < MaxChanges
     /\ \/ \E p \in FileNames, text \in Texts : write_file(p, text)
        \/ \E p \in FileNames, w, v \in Words, all \in BOOLEAN : w # v /\ edit_file(p, w, v, all)
        \/ \E c \in DOMAIN Outputs : _process_large_message(c, Outputs[c])

-----------------------------------------------------------------------------
Dirs == UNION {{SubSeq(p, 1, n) : n \in 0..Len(p)} : p \in FileNames}

\* What a tool or the list of skills names can be read under that name, in all
\* directories that the agent may ask for, with or without ripgrep, and what is
\* listed as a directory has something in it. Names come from three backends
\* that do not know where they are mounted.
FoundIsReadable ==
  skills # {} =>
    /\ \A d \in Dirs :
         /\ \A p \in ls_info(d).files \cup glob_info("*", d) \cup glob_info("**/*", d) : read(p) # {}
         /\ \A s \in ls_info(d).dirs : ls_info(s) # [files |-> {}, dirs |-> {}]
         /\ \A w \in Words, rg \in BOOLEAN : \A p \in grep_raw(w, d, rg) :
              \E text \in read(p) : Has(text, w)
    /\ \A path \in skills : \A n \in DOMAIN path : read(path[n]) # {}

\* What the agent was told that it wrote can be read as it was written, and is
\* found from the root and from where it lies, whatever backend has it. Not
\* claimed of the tools that search: they take a name that goes on after that of
\* a route for the route, and look there; and where the state has a file of the
\* name of the directory, glob and grep look at that file only.
WrittenIsFound ==
  \A p \in DOMAIN wrote :
    /\ read(p) = {wrote[p]}
    /\ p \in glob_info("**/*", <<>>)
    /\ \A w \in Words : Has(wrote[p], w) => p \in grep_raw(w, <<>>, TRUE)
    /\ Matches(Front(p)) = {r \in Routes : r = Front(p) \/ Below(Front(p), r)} =>
         /\ p \in ls_info(Front(p)).files
         /\ Front(p) \notin DOMAIN files =>
              /\ p \in glob_info("*", Front(p))
              /\ \A w \in Words, rg \in BOOLEAN : Has(wrote[p], w) => p \in grep_raw(w, Front(p), rg)

\* A result that was too large can be read piece by piece, as its message says,
\* if each of its lines is shorter than what read_file returns at a time: of one
\* that fills a page the last piece is cut off, wherever the page begins.
OffloadedCanBeRead ==
  \A c \in DOMAIN Outputs :
    Large(c) \in DOMAIN wrote /\ (\A n \in DOMAIN Outputs[c] : Len(Outputs[c][n]) < PageSize) =>
    \A i \in 1..Size(Outputs[c]) :
      \E offset \in 0..Len(Outputs[c]), limit \in 0..Size(Outputs[c]) : i \in read_file(Outputs[c], offset, limit)

\* All three, of all files that the agent may name.
FilesAreFound == FoundIsReadable /\ WrittenIsFound /\ OffloadedCanBeRead
=============================================================================
