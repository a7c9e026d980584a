------------------------------ MODULE MCGrading ------------------------------
(* Small instances of the grading for TLC. *)
EXTENDS Grading

Help == [level |-> "help", fixes |-> <<NoFix, "clone">>, children |-> <<>>]
Note == [level |-> "note", fixes |-> <<"">>, children |-> <<Help>>]
Moved == [level |-> "error", fixes |-> <<NoFix, "ref">>, children |-> <<Note, Help>>]
Plain == [level |-> "error", fixes |-> <<>>, children |-> <<>>]
Unused == [level |-> "warning", fixes |-> <<"_x">>, children |-> <<>>]
Explain == [level |-> "failure-note", fixes |-> <<>>, children |-> <<>>]
SomeMessages == {Help, Note, Moved, Plain, Unused, Explain}

Record(m) == [form |-> "json", reason |-> "compiler-message", message |-> m]
Noise ==
  {[form |-> "text", reason |-> "", message |-> NoMessage],
   [form |-> "broken", reason |-> "", message |-> NoMessage],
   [form |-> "json", reason |-> "build-finished", message |-> NoMessage],
   Record(NoMessage), Record(Explain), Record(Unused)}

\* n copies of an error with one other line before, among or after them.
Around(err, other, n) ==
  {InsertAt([i \in 1..n |-> err], k, other) : k \in 1..(n + 1)}
Errors(err, counts) == {[i \in 1..n |-> err] : n \in counts}

SomeRustOutputs ==
  Errors(Record(Plain), 0..6) \cup Errors(Record(Moved), {1, 2})
    \cup UNION {Around(Record(Moved), other, n) : other \in Noise, n \in 0..2}
SomeGoOutputs ==
  Errors("located", 0..2) \cup Around("located", "text", 2)
    \cup {<<"located", "continuation">>, <<"text">>}
=============================================================================
