------------------------------ MODULE Manifests ------------------------------
(***************************************************************************)
(* What the miners of scripts/mining read of a repository's manifest.      *)
(*                                                                         *)
(* A go.mod is the sequence of its lines, [kind, dep, note]: an opening of *)
(* a require block or of another one (exclude, replace, retract), a        *)
(* single-line require, an entry of the block it stands in, a close or any *)
(* other line; note is what its comment says.  A Cargo.toml is what TOML   *)
(* makes of it: whether it parses, its [dependencies], whether it has a    *)
(* [workspace], and that table's dependencies and members.                 *)
(***************************************************************************)
EXTENDS Lists

\* A go.mod entry has a number; one of a Cargo.toml may have an operator before it,
\* no number or "*".  The names of sources are not versions.
GoVersions == [op : {""}, num : STRING \ {"", "*", "git", "path"}]
GoDeps == [name : STRING, version : GoVersions]
GoModLines ==
  [kind : {"open", "open other", "single", "entry", "close", "other"}, dep : GoDeps,
   note : {"none", "indirect", "mentions indirect", "other"}]

CrateVersions == [op : STRING, num : STRING \ {"git", "path"}]
CargoEntries ==
  [crate : STRING, table : BOOLEAN, version : CrateVersions, source : {"", "git", "path"}]
CargoTomls ==
  [parses : BOOLEAN, deps : Seq(CargoEntries), workspace : BOOLEAN, wsDeps : Seq(CargoEntries),
   members : Seq([path : {"exact", "suffix", "other", "glob"}, doc : STRING])]

-----------------------------------------------------------------------------
(* Counter.most_common: the values of a sequence, in order of first        *)
(* appearance as a dictionary keeps them, sorted by how often they occur.  *)

Count(s, x) == Cardinality({i \in DOMAIN s : s[i] = x})
Firsts(s) == Picked(s, {i \in DOMAIN s : \A j \in 1..(i - 1) : s[j] # s[i]})

MostCommon(s) == Sorted(Firsts(s), LAMBDA x, y : Count(s, x) > Count(s, y))

Project(s, field) == [i \in DOMAIN s |-> s[i][field]]

\* The entries of a list that are the first of their name.
FirstOfName(deps) ==
  Picked(deps, {i \in DOMAIN deps : \A j \in 1..(i - 1) : deps[j].name # deps[i].name})

-----------------------------------------------------------------------------
(* go.mod                                                                  *)

\* Any comment with the word in it, whatever else it says.
MarkedIndirect(line) == line.note \in {"indirect", "mentions indirect"}

\* The opening is matched against the whole line: one with a comment is none.
OpensRequire(line) == line.kind = "open" /\ line.note = "none"

ReadGoLine_NeverCloses(at, line) ==
  [inBlock |-> at.inBlock \/ OpensRequire(line),
   deps |-> IF line.kind = (IF at.inBlock THEN "entry" ELSE "single") /\ ~MarkedIndirect(line)
            THEN Append(at.deps, line.dep) ELSE at.deps]

ReadGoLine(at, line) ==
  [inBlock |-> IF at.inBlock THEN line.kind # "close" ELSE OpensRequire(line),
   deps |-> IF line.kind = (IF at.inBlock THEN "entry" ELSE "single") /\ ~MarkedIndirect(line)
            THEN Append(at.deps, line.dep) ELSE at.deps]

ParseGoMod(text) == FoldLeft(ReadGoLine, [inBlock |-> FALSE, deps |-> <<>>], text).deps

\* What Go itself takes for the direct requirements of a file.
InRequireBlock(text, i) ==
  LET opening == SelectLastInSubSeq(text, 1, i, LAMBDA l : l.kind \in {"open", "open other"})
  IN opening # 0 /\ text[opening].kind = "open"

DirectRequires(text) ==
  {text[i].dep : i \in {j \in DOMAIN text :
     /\ text[j].kind = "single" \/ (text[j].kind = "entry" /\ InRequireBlock(text, j))
     /\ text[j].note # "indirect"}}

\* Entries and ends of blocks are inside blocks, and nothing else but blank lines is.
InBlock(text, i) ==
  LET last == SelectLastInSubSeq(text, 1, i - 1, LAMBDA l : l.kind \in {"open", "open other", "close"})
  IN last # 0 /\ text[last].kind # "close"
WellFormed(text) ==
  \A i \in DOMAIN text :
    text[i].kind = "other" \/ (InBlock(text, i) <=> text[i].kind \in {"entry", "close"})

\* No comment that the reader takes for something else.
Plain(text) ==
  \A i \in DOMAIN text :
    (text[i].kind = "open" => text[i].note = "none") /\ text[i].note # "mentions indirect"

-----------------------------------------------------------------------------
(* Cargo.toml.  A version requirement is [op, num]; an entry of a table is *)
(* a string, or a table with a version or none and a source or none (the   *)
(* entries "workspace = true" have neither).                               *)

NoVersion == [op |-> "", num |-> ""]
Sourced(source) == [op |-> "<", num |-> source]   \* "<git>", "<path>"

ExtractDeps(table) ==
  LET named == Kept(table, LAMBDA e : ~e.table \/ e.version # NoVersion \/ e.source # "")
      Version(e) == IF e.table /\ e.version = NoVersion THEN Sourced(e.source) ELSE e.version
  IN [i \in DOMAIN named |-> [crate |-> named[i].crate, version |-> Version(named[i])]]

\* The workspace's table is read only when the root has none of its own.
ParseCargo(doc) ==
  LET table == IF doc.deps # <<>> THEN doc.deps ELSE doc.wsDeps
  IN [deps |-> IF doc.parses THEN ExtractDeps(table) ELSE <<>>,
      needsSubcrate |-> doc.parses /\ doc.workspace /\ table = <<>>]

\* A member's path is the repository's name, an ending of it, another, or a glob.
WorkspaceMembers(doc) == Kept(doc.members, LAMBDA m : m.path # "glob")

GuessPrimary(members) ==
  LET Likeness(i) == CHOOSE k \in 1..3 : <<"exact", "suffix", "other">>[k] = members[i].path
  IN members[CHOOSE i \in DOMAIN members : \A j \in DOMAIN members :
       Likeness(i) < Likeness(j) \/ (Likeness(i) = Likeness(j) /\ i <= j)]

\* generate_cargo_toml.py: operators are stripped; what then is no number is "*".
Star == [op |-> "", num |-> "*"]

\* (An unanchored search for a number.)
NormaliseVersion_Unanchored(v) ==
  IF v.num \in {"", "*", "git", "path"} THEN Star
  ELSE [v EXCEPT !.op = IF @ \in {"", "~", "^", "="} THEN "" ELSE @]

NormaliseVersion(v) ==
  IF v.op \in {"", "~", "^", "="} /\ v.num \notin {"", "*"} THEN [op |-> "", num |-> v.num]
  ELSE Star
=============================================================================
