------------------------------- MODULE MCMining -------------------------------
(* Small instances of the mining for TLC. *)
EXTENDS MiningProperties, TLC

V(num) == [op |-> "", num |-> num]
Dep(name, num) == [name |-> name, version |-> V(num)]
Line(kind, dep, note) == [kind |-> kind, dep |-> dep, note |-> note]
NoDep == Dep("none", "0")
Mark(kind) == Line(kind, NoDep, "none")

Tidy == <<Mark("other"), Mark("open"), Line("entry", Dep("log", "1"), "none"),
          Line("entry", Dep("net", "2"), "none"), Line("entry", Dep("sys", "1"), "indirect"),
          Mark("close")>>
Twice == <<Line("single", Dep("log", "2"), "none"), Line("single", Dep("log", "1"), "none"),
           Mark("open other"), Line("entry", Dep("net", "9"), "none"), Mark("close")>>
Small == <<Line("single", Dep("net", "2"), "none")>>

Crate(name, version) == [crate |-> name, table |-> FALSE, version |-> version, source |-> ""]
Table(name, version, source) == [Crate(name, version) EXCEPT !.table = TRUE, !.source = source]
Toml(deps) == [parses |-> TRUE, deps |-> deps, workspace |-> FALSE, wsDeps |-> <<>>, members |-> <<>>]
Root(deps, ws, members) ==
  [parses |-> TRUE, deps |-> deps, workspace |-> TRUE, wsDeps |-> ws, members |-> members]
Member(path, doc) == [path |-> path, doc |-> doc]

Serde == Toml(<<Crate("serde", [op |-> "~", num |-> "2"]), Table("local", NoVersion, "path")>>)
Virtual == Root(<<>>, <<>>, <<Member("glob", "none"), Member("other", "cli"), Member("suffix", "core")>>)
Inherits == Root(<<Table("serde", NoVersion, "")>>, <<Crate("serde", V("1"))>>, <<>>)
Shared == Root(<<>>, <<Table("serde", V("1"), "git"), Crate("rand", [op |-> ">=", num |-> "0"])>>, <<>>)
Broken == [Serde EXCEPT !.parses = FALSE]
Members == [cli |-> Toml(<<Table("local", NoVersion, "git")>>), core |-> Serde]

SomeRepos == {"a", "b", "c", "d"}
SomeRankings == {<<"a", "b", "c", "d">>, <<"a", "c", "d", "b">>}
SomePublished ==
  [go |-> [r \in SomeRepos |-> CASE r = "a" -> {Twice} [] r = "b" -> {Tidy} [] OTHER -> {Small}],
   rust |-> [r \in SomeRepos |-> CASE r = "a" -> {Virtual} [] r = "b" -> {Shared, Broken}
                                   [] r = "c" -> {Inherits} [] OTHER -> {Serde}]]
Fetched(r, text) == [repo |-> r, text |-> text]
SomeShipped == <<Fetched("a", Tidy), Fetched("b", Twice), Fetched("c", Small)>>
SomeCorpora == {3}
RustOnly == {"a", "b", "c"}

\* Every go.mod of up to four lines whose blocks are opened, closed and hold entries.
Lines == {Mark("close"), Mark("other"), Mark("open"), Mark("open other"),
          Line("open", NoDep, "other"), Line("single", Dep("log", "1"), "none"),
          Line("single", Dep("net", "1"), "mentions indirect"),
          Line("entry", Dep("log", "2"), "none"), Line("entry", Dep("net", "2"), "indirect")}
GoMods == {text \in UNION {[1..n -> Lines] : n \in 0..4} : WellFormed(text)}
=============================================================================
