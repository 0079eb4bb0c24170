------------------------------ MODULE FileTree ------------------------------
(***************************************************************************)
(* What the read tools see of a directory: pathlib's paths and the files   *)
(* below a root.                                                           *)
(*                                                                         *)
(* A path is the sequence of its segments, so that splitting a string at   *)
(* "/" is the identity: "/a" is <<"", "a">>, the empty string is <<>>.  A  *)
(* tree is a function from the paths of its files to their contents;       *)
(* directories are the files' ancestors, empty ones are left out.          *)
(***************************************************************************)
EXTENDS Sequences, SequencesExt, FiniteSetsExt, Functions, Integers, TLC

CONSTANTS
  SuffixOf,   \* the names with a suffix, and their suffix in lower case
  Dotted      \* the names that start with a dot

Bad == <<"an error">>

(* Path.suffix.                                                            *)
Suffix(path) ==
  IF path = <<>> \/ Last(path) \notin DOMAIN SuffixOf THEN "" ELSE SuffixOf[Last(path)]

Under(path, base) == IsPrefix(base, path)
StrictlyUnder(path, base) == Under(path, base) /\ path # base
Relative(path, base) == SubSeq(path, Len(base) + 1, Len(path))

(* Path.resolve: "." goes, ".." takes the segment before it along.         *)
Normal(path) ==
  FoldLeft(LAMBDA at, s : IF s \in {".", ""} THEN at
                          ELSE IF s # ".." THEN Append(at, s)
                          ELSE IF at = <<>> THEN at ELSE Front(at),
           <<>>, path)

(* Where a path the model gave ends up below a root: it must be relative   *)
(* and may not leave the root.                                             *)
WithinRoot(root, path) ==
  LET target == Normal(root \o path)
  IN IF path = <<>> \/ Head(path) = "" \/ ~Under(target, root) THEN Bad ELSE Relative(target, root)

IsFile(tree, path) == path \in DOMAIN tree
IsDir(tree, path) == path = <<>> \/ \E f \in DOMAIN tree : StrictlyUnder(f, path)
Exists(tree, path) == IsFile(tree, path) \/ IsDir(tree, path)
FilesUnder(tree, base) == {f \in DOMAIN tree : StrictlyUnder(f, base)}
Kids(tree, base) == {f[Len(base) + 1] : f \in FilesUnder(tree, base)}
PathsUnder(tree, base) ==
  UNION {{SubSeq(f, 1, n) : n \in Len(base) + 1 .. Len(f)} : f \in FilesUnder(tree, base)}

WithoutFiles(tree, files) == [f \in DOMAIN tree \ files |-> tree[f]]

(* The elements of a set in one order.                                     *)
Listed(set) == FoldSet(LAMBDA x, s : Append(s, x), <<>>, set)

(* Files can be laid out together unless one is another's directory.       *)
Layable(names) == \A m, n \in names : ~StrictlyUnder(m, n)

-----------------------------------------------------------------------------
(* The first matches of a walk, cut when the cap is reached: an answer     *)
(* that holds exactly as many as the cap says it was cut, too.             *)
Capped(s, cap) == [found |-> SubSeq(s, 1, Min({cap, Len(s)})), cut |-> Len(s) >= cap]

(* text[offset : offset + limit] and has_more.                             *)
Slice(text, offset, limit) ==
  [found |-> SubSeq(text, offset + 1, Min({offset + limit, Len(text)})), cut |-> offset + limit < Len(text)]
=============================================================================
