------------------------------ MODULE FsTools ------------------------------
(***************************************************************************)
(* The raw filesystem tools (tools/fs): one directory, or several named    *)
(* ones shown as one tree whose first segment selects the root.  Each tool *)
(* is an operator from the roots' files to its answer; fs_write also gives *)
(* the files it leaves.  Sorted orders are one fixed order.                *)
(*                                                                         *)
(* The sibling nothing uses (DisplayBare) is a form a plausible bug would  *)
(* give a definition, for checking the properties.                         *)
(***************************************************************************)
EXTENDS ArtifactStore

CONSTANTS
  FsRoots,        \* the absolute path of each root; the name is "" when
                  \* there is only one
  OutsideLinks,   \* the places of the files that are symbolic links to
                  \* one outside their root
  IgnoredDirs, FsExtensions,
  MaxReadChars, MaxGrepMatches, MaxLsEntries, MaxGlobResults

ASSUME FsAssumption == DOMAIN FsRoots # {} /\ ("" \in DOMAIN FsRoots => DOMAIN FsRoots = {""})

MultiRoot == "" \notin DOMAIN FsRoots
FsText(path) == Suffix(path) \in FsExtensions

(* The root a path selects and the file below it; Bad.  Path.resolve       *)
(* follows a symbolic link before the check that its target is below the   *)
(* root, so one that leads out of it is refused, which the walks of ls,    *)
(* glob and grep show as any other file, with the target's text.  A link   *)
(* to another file of its root is that file by a second name; those, and   *)
(* links to directories, are left out.                                     *)
Place(root, path) == [root |-> root, path |-> path]
NoPlace == Place("", Bad)
FsResolve(rel) ==
  LET root == IF MultiRoot THEN Head(rel) ELSE ""
      tail == IF ~MultiRoot THEN rel ELSE IF Tail(rel) = <<>> THEN <<".">> ELSE Tail(rel)
      named == Place(root, WithinRoot(FsRoots[root], tail))
  IN IF rel = <<>> \/ Head(rel) = "" \/ root \notin DOMAIN FsRoots \/ named \in OutsideLinks
     THEN NoPlace ELSE named

DisplayBare(root, path) == path
Display(root, path) ==
  IF MultiRoot THEN <<root>> \o path ELSE IF path = <<>> THEN <<".">> ELSE path

IsIgnored(path, hidden) ==
  \E i \in DOMAIN path : path[i] \in IgnoredDirs \/ (~hidden /\ path[i] \in Dotted)

(* A tool looks under the place it is given, or under every root.          *)
Bases(scope) ==
  IF scope = <<>> THEN {Place(r, <<>>) : r \in DOMAIN FsRoots} ELSE {FsResolve(scope)}
At(work, base) == work[base.root]

-----------------------------------------------------------------------------
FsLs(work, path, hidden) ==
  LET top == MultiRoot /\ path \in {<<>>, <<".">>}
      place == FsResolve(IF path = <<>> THEN <<".">> ELSE path)
      names == {n \in Kids(At(work, place), place.path) :
                  n \notin IgnoredDirs /\ (hidden \/ n \notin Dotted)}
      listed == Capped(Listed(names), MaxLsEntries)
  IN IF top THEN Answer(<<>>, {<<r>> : r \in DOMAIN FsRoots}, {}, <<>>, FALSE)
     ELSE IF place.path = Bad \/ ~IsDir(At(work, place), place.path) THEN Raised
     ELSE Answer(<<>>, {<<n>> : n \in ToSet(listed.found)}, {}, <<>>, listed.cut)

(* A pattern is "*.py" or "**/*.py"; it matches directories, too.          *)
Globbed(work, base, pattern, hidden) ==
  {Display(base.root, p) : p \in
     {p \in PathsUnder(At(work, base), base.path) :
        /\ pattern.deep \/ Len(p) = Len(base.path) + 1
        /\ pattern.suffix \in {"*", Suffix(p)}
        /\ ~IsIgnored(p, hidden)}}
FsGlob(work, pattern, scope, hidden) ==
  LET bases == Bases(scope)
      paths == Capped(Listed(UNION {Globbed(work, b, pattern, hidden) : b \in bases}), MaxGlobResults)
  IN IF \E b \in bases : b.path = Bad \/ ~IsDir(At(work, b), b.path) THEN Raised
     ELSE Answer(<<>>, ToSet(paths.found), {}, <<>>, paths.cut)

(* A file named as the place is searched whether or not it is ignored.     *)
Searched(work, base, hidden) ==
  IF IsFile(At(work, base), base.path) THEN {base.path}
  ELSE {f \in FilesUnder(At(work, base), base.path) : ~IsIgnored(f, hidden)}
FsMatches(work, base, query, suffixes, hidden) ==
  LET files == {f \in Searched(work, base, hidden) : Suffix(f) \in suffixes}
      found == MatchesIn(At(work, base), query, Listed(files))
  IN [i \in DOMAIN found |-> Display(base.root, found[i])]
FsGrep(work, query, scope, suffixes, hidden) ==
  LET bases == Bases(scope)
      all == FoldLeft(LAMBDA found, b : found \o FsMatches(work, b, query, suffixes, hidden),
                      <<>>, Listed(bases))
      matches == Capped(all, MaxGrepMatches)
  IN IF \E b \in bases : b.path = Bad \/ ~Exists(At(work, b), b.path) THEN Raised
     ELSE Answer(<<>>, ToSet(matches.found), {}, <<>>, matches.cut)

FsRead(work, path, offset, limit) ==
  LET place == FsResolve(path)
      file == At(work, place)[place.path]
      chunk == Slice(file.text, offset, Min({limit, MaxReadChars}))
  IN IF \/ offset < 0 \/ limit <= 0 \/ place.path = Bad
        \/ ~IsFile(At(work, place), place.path) \/ ~FsText(place.path)
     THEN Raised ELSE Answer(<<>>, {}, {}, chunk.found, chunk.cut)

(* A write over a directory, or below a file, raises.                      *)
Writable(work, place) ==
  /\ place.path # Bad /\ FsText(place.path)
  /\ ~IsDir(At(work, place), place.path)
  /\ \A f \in DOMAIN At(work, place) : ~StrictlyUnder(place.path, f)
FsWrite(work, path, text) ==
  LET place == FsResolve(path)
  IN IF ~Writable(work, place) THEN Raised
     ELSE Answer(Display(place.root, place.path), {}, {}, <<>>, FALSE)
Written(work, path, text) ==
  LET place == FsResolve(path)
  IN IF ~Writable(work, place) THEN work
     ELSE [work EXCEPT ![place.root] = (place.path :> Prose(text)) @@ @]
=============================================================================
