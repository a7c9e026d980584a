------------------------------ MODULE MCWorkload ------------------------------
(* Small instances of the task suite and the bench workload for TLC. *)
EXTENDS Workload

Solved == {"canonical", "buggy"}
Hex(u, f, d, s) == [uid |-> u, fn |-> f, doc |-> d, solutions |-> s, crates |-> {"std", "regex"}]
Mbpp(u, f) == [uid |-> u, fn |-> f]

\* Problems 0 and 1 share a docstring, 2 is known to be buggy, and the function
\* name "search" is used by both families.
First == [mbpp |-> <<Mbpp(5, "prime"), Mbpp(3, "search")>>, he |-> <<[uid |-> 1]>>,
          hex |-> <<Hex(0, "search", "x", Solved), Hex(1, "close", "x", {"canonical"}),
                    Hex(2, "area", "y", Solved)>>]
Reordered == [First EXCEPT !.mbpp = Reverse(@), !.hex = Reverse(@)]
\* Another MBPP problem has a name used on both sides; three share a docstring.
Clashing == [First EXCEPT !.mbpp[1] = Mbpp(4, "close")]
Copied == [First EXCEPT !.hex[3].doc = "x"]
SomeReleases == {First, Reordered, Clashing, Copied}
Pairs == {{0, 1}}
AnyText == STRING

ByHand(lang, content, ttl) ==
  [id |-> <<0, "hand">>, lang |-> lang, files |-> content, crates |-> {}, ttl |-> ttl, expected |-> ""]
SomeSpecs ==
  {<<ByHand("", {"main"}, 0), ByHand("golang", {"main"}, 5), ByHand("cobol", {"main"}, 5),
     ByHand("rs", {}, 0), ByHand("go", {"main"}, -1)>>,
   <<ByHand("rust", {"main"}, 5), Torn>>}
=============================================================================
