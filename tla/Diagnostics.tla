----------------------------- MODULE Diagnostics -----------------------------
(***************************************************************************)
(* internal/verifier: which lines of a compiler's output become structured *)
(* diagnostics (verifier.go).  Of a diagnostic this keeps the level, the   *)
(* suggestions and the children; code, text and spans are copied as they   *)
(* are.                                                                    *)
(***************************************************************************)
EXTENDS Lists

CONSTANTS
  Messages,  \* the rustc messages considered: their level, the replacement
             \* suggested by each span, their children
  NoFix,     \* the replacement of a span that suggests none (a nil pointer)
  NoMessage  \* the message of a cargo record that has none

Levels == {"error", "warning", "failure-note", "note", "help"}

\* The last part says that messages are trees: however many are picked, one of
\* them has no child among them.
ASSUME MessagesAssumption ==
  /\ \A m \in Messages :
       /\ m.level \in Levels /\ m # NoMessage
       /\ m.children \in Seq(Messages) /\ m.fixes \in Seq(ToSet(m.fixes))
  /\ \A S \in SUBSET Messages :
       S # {} => \E m \in S : ToSet(m.children) \cap S = {}

\* A line of cargo's output.  "text" does not start with a brace (blank lines
\* included), "broken" is no JSON object, such as the last line of a cut output.
RustLines ==
  [form : {"text", "broken"}, reason : {""}, message : {NoMessage}]
    \cup [form : {"json"}, reason : {"compiler-message", "build-finished"},
          message : Messages \cup {NoMessage}]

\* A line of `go build`: a located error, a located continuation of the one
\* before it ("other declaration of x"), or anything without a location.
GoLines == {"located", "continuation", "text"}

-----------------------------------------------------------------------------
CollectSuggestions_TopOnly(m) == Kept(m.fixes, LAMBDA f : f \notin {NoFix, ""})

\* The message and its descendants, parents first.
Family(m) ==
  LET family[x \in Messages] ==
        <<x>> \o FlattenSeq([i \in DOMAIN x.children |-> family[x.children[i]]])
  IN family[m]

\* Every replacement of the message and its descendants, in that order.
CollectSuggestions(m) ==
  Kept(FlattenSeq([i \in DOMAIN Family(m) |-> Family(m)[i].fixes]),
            LAMBDA f : f \notin {NoFix, ""})

ConvertRust(m) ==
  LET convert[x \in Messages] ==
        [level |-> x.level, suggestions |-> CollectSuggestions(x),
         children |-> [i \in DOMAIN x.children |-> convert[x.children[i]]]]
  IN convert[m]

Reported(line) ==
  /\ line.form = "json" /\ line.reason = "compiler-message"
  /\ line.message # NoMessage /\ line.message.level \in {"error", "warning"}

ParseRust_Strict(output) ==
  IF \E i \in DOMAIN output : output[i].form = "broken" THEN <<>>
  ELSE LET kept == Kept(output, Reported)
       IN [i \in DOMAIN kept |-> ConvertRust(kept[i].message)]

\* A line that is skipped does not stop the parser.
ParseRust(output) ==
  LET kept == Kept(output, Reported)
  IN [i \in DOMAIN kept |-> ConvertRust(kept[i].message)]

\* The pattern is a location: continuations match it like errors do.
ParseGo(output) ==
  LET kept == Kept(output, LAMBDA line : line # "text")
  IN [i \in DOMAIN kept |-> [level |-> "error", suggestions |-> <<>>, children |-> <<>>]]

\* diagnosticsFor: which output is parsed, by language (env.go).
DiagnosticsFor(lang, output) == IF lang = "Go" THEN ParseGo(output) ELSE ParseRust(output)
=============================================================================
