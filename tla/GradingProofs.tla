---------------------------- MODULE GradingProofs ----------------------------
(***************************************************************************)
(* Proofs about the grading of a submission: the timeout, the outcome and  *)
(* the reward for any limit, exit code and duration, and the diagnostics   *)
(* for any tree of compiler messages and any output.                       *)
(***************************************************************************)
EXTENDS Grading, SequenceLemmas

-----------------------------------------------------------------------------
(* Recursion over a message and its children: convertRust and              *)
(* collectSuggestions end, and do what their definitions say.              *)

Below(x) == ToSet(x.children)

\* The children are messages too.
LEMMA ChildFacts ==
  ASSUME NEW m \in Messages
  PROVE  /\ m.children \in Seq(Messages) /\ Below(m) \subseteq Messages
         /\ \A i \in DOMAIN m.children : m.children[i] \in Messages
<1>1. m.children \in Seq(Messages) BY MessagesAssumption
<1>2. \A i \in DOMAIN m.children : m.children[i] \in Messages BY <1>1
<1> QED BY <1>1, <1>2 DEF Below, ToSet

\* One call of each, given what the calls on the children return.
CallOf(x, g) ==
  [family |-> <<x>> \o FlattenSeq([i \in DOMAIN x.children |-> g[x.children[i]].family]),
   diagnostic |-> [level |-> x.level, suggestions |-> CollectSuggestions(x),
                   children |-> [i \in DOMAIN x.children |-> g[x.children[i]].diagnostic]]]

\* A call looks at nothing but the calls on the children.
LEMMA CallIsLocal ==
  ASSUME NEW x, NEW g, NEW h, \A c \in Below(x) : g[c] = h[c]
  PROVE  CallOf(x, g) = CallOf(x, h)
<1>1. \A i \in DOMAIN x.children : g[x.children[i]] = h[x.children[i]] BY DEF Below, ToSet
<1>2. [i \in DOMAIN x.children |-> g[x.children[i]].family] =
        [i \in DOMAIN x.children |-> h[x.children[i]].family]
  BY <1>1
<1>3. [i \in DOMAIN x.children |-> g[x.children[i]].diagnostic] =
        [i \in DOMAIN x.children |-> h[x.children[i]].diagnostic]
  BY <1>1
<1> QED BY <1>2, <1>3 DEF CallOf

\* g has the results of the calls on the messages of A, whose children are in A too.
Solves(g, A) ==
  /\ A \in SUBSET Messages /\ \A x \in A : Below(x) \subseteq A
  /\ \A x \in A : g[x] = CallOf(x, g)

LEMMA SolutionsAgree ==
  ASSUME NEW A, NEW B, NEW g, NEW h, Solves(g, A), Solves(h, B), NEW x \in A \cap B
  PROVE  g[x] = h[x]
<1> DEFINE D == {y \in A \cap B : g[y] # h[y]}
<1> SUFFICES ASSUME D # {} PROVE FALSE OBVIOUS
<1>1. D \in SUBSET Messages BY DEF Solves
<1>2. PICK m \in D : Below(m) \cap D = {} BY <1>1, MessagesAssumption DEF Below
<1>3. Below(m) \subseteq A \cap B BY DEF Solves
<1>4. \A c \in Below(m) : g[c] = h[c] BY <1>2, <1>3
<1>5. CallOf(m, g) = CallOf(m, h) BY <1>4, CallIsLocal
<1> QED BY <1>5 DEF Solves

\* There are results for all messages: trees are finite.
LEMMA SolutionExists == \E g : Solves(g, Messages)
<1> DEFINE G == {x \in Messages : \E g, A : Solves(g, A) /\ x \in A}
           at(x) == CHOOSE g : \E A : Solves(g, A) /\ x \in A
           f == [x \in G |-> at(x)[x]]
<1>1. \A x \in G : \E A : Solves(at(x), A) /\ x \in A
  <2> HIDE DEF Solves
  <2> QED OBVIOUS
<1> HIDE DEF at
<1>2. ASSUME NEW x \in G PROVE Below(x) \subseteq G /\ f[x] = CallOf(x, f)
  <2>1. PICK A : Solves(at(x), A) /\ x \in A BY <1>1
  <2>2. Below(x) \subseteq A /\ A \subseteq Messages BY <2>1 DEF Solves
  <2>3. Below(x) \subseteq G BY <2>1, <2>2
  <2>4. ASSUME NEW c \in Below(x) PROVE f[c] = at(x)[c]
    <3>1. PICK B : Solves(at(c), B) /\ c \in B BY <1>1, <2>3
    <3>2. c \in A \cap B BY <2>2, <3>1
    <3>3. at(c)[c] = at(x)[c] BY <2>1, <3>1, <3>2, SolutionsAgree
    <3> QED BY <2>3, <3>3
  <2>5. at(x)[x] = CallOf(x, at(x)) BY <2>1 DEF Solves
  <2> HIDE DEF G
  <2>6. f[x] = at(x)[x] OBVIOUS
  <2> HIDE DEF f
  <2>7. CallOf(x, f) = CallOf(x, at(x)) BY <2>4, CallIsLocal
  <2> QED BY <2>3, <2>5, <2>6, <2>7
<1>3. G \in SUBSET Messages OBVIOUS
<1>4. \A x \in Messages : (\E g, A : Solves(g, A) /\ x \in A) => x \in G OBVIOUS
<1> HIDE DEF G, f
<1>5. Solves(f, G) BY <1>2, <1>3 DEF Solves
<1>6. ASSUME Messages \ G # {} PROVE FALSE
  <2>1. PICK m \in Messages \ G : Below(m) \cap (Messages \ G) = {}
    BY <1>6, MessagesAssumption DEF Below
  <2>2. Below(m) \subseteq Messages BY ChildFacts
  <2>3. Below(m) \subseteq G BY <2>1, <2>2
  <2> DEFINE A == G \cup {m}
             h == [x \in A |-> IF x \in G THEN f[x] ELSE CallOf(m, f)]
  <2>4. h[m] = CallOf(m, f) /\ \A x \in G : h[x] = f[x] BY <2>1
  <2>5. A \in SUBSET Messages /\ \A x \in A : Below(x) \subseteq A BY <1>2, <1>3, <2>3
  <2> HIDE DEF h
  <2>6. ASSUME NEW x \in A PROVE h[x] = CallOf(x, h)
    <3>1. Below(x) \subseteq G BY <1>2, <2>3
    <3>2. \A c \in Below(x) : h[c] = f[c] BY <2>4, <3>1
    <3>3. CallOf(x, h) = CallOf(x, f) BY <3>2, CallIsLocal
    <3> QED BY <1>2, <2>4, <3>3
  <2>7. Solves(h, A) BY <2>5, <2>6 DEF Solves
  <2> QED BY <1>4, <2>1, <2>7
<1>7. G = Messages BY <1>3, <1>6
<1> QED BY <1>5, <1>7

\* The message itself, then the families of its children in their order.
LEMMA FamilyCall ==
  ASSUME NEW m \in Messages
  PROVE  Family(m) = <<m>> \o FlattenSeq([i \in DOMAIN m.children |-> Family(m.children[i])])
<1> DEFINE IsFamily(g) ==
             g = [x \in Messages |-> <<x>> \o FlattenSeq([i \in DOMAIN x.children |-> g[x.children[i]]])]
           family == CHOOSE g : IsFamily(g)
<1>1. \A x : Family(x) = family[x] BY DEF Family
<1>2. IsFamily(family)
  <2>1. PICK g : Solves(g, Messages) BY SolutionExists
  <2> DEFINE k == [x \in Messages |-> g[x].family]
  <2>2. ASSUME NEW x \in Messages
        PROVE  k[x] = <<x>> \o FlattenSeq([i \in DOMAIN x.children |-> k[x.children[i]]])
    <3>1. g[x] = CallOf(x, g) BY <2>1 DEF Solves
    <3>2. \A i \in DOMAIN x.children : x.children[i] \in Messages BY ChildFacts
    <3>3. [i \in DOMAIN x.children |-> k[x.children[i]]] =
            [i \in DOMAIN x.children |-> g[x.children[i]].family]
      BY <3>2
    <3>4. k[x] = CallOf(x, g).family BY <3>1
    <3> HIDE DEF k
    <3> QED BY <3>3, <3>4 DEF CallOf
  <2>3. k = [x \in Messages |-> k[x]] OBVIOUS
  <2> HIDE DEF k
  <2>4. IsFamily(k) BY <2>2, <2>3
  <2> HIDE DEF IsFamily
  <2> QED BY <2>4
<1> HIDE DEF family
<1>3. family[m] = <<m>> \o FlattenSeq([i \in DOMAIN m.children |-> family[m.children[i]]])
  BY <1>2
<1> HIDE DEF IsFamily
<1> QED BY <1>1, <1>3

\* The diagnostic of a message has the diagnostics of its children.
LEMMA ConvertCall ==
  ASSUME NEW m \in Messages
  PROVE  ConvertRust(m) = [level |-> m.level, suggestions |-> CollectSuggestions(m),
                           children |-> [i \in DOMAIN m.children |-> ConvertRust(m.children[i])]]
<1> DEFINE Made(x, g) == [level |-> x.level, suggestions |-> CollectSuggestions(x),
                          children |-> [i \in DOMAIN x.children |-> g[x.children[i]]]]
           IsConvert(g) == g = [x \in Messages |-> Made(x, g)]
           convert == CHOOSE g : IsConvert(g)
<1>1. \A x : ConvertRust(x) = convert[x] BY DEF ConvertRust
<1>2. IsConvert(convert)
  <2>1. PICK g : Solves(g, Messages) BY SolutionExists
  <2> DEFINE k == [x \in Messages |-> g[x].diagnostic]
  <2>2. ASSUME NEW x \in Messages PROVE k[x] = Made(x, k)
    <3>1. g[x] = CallOf(x, g) BY <2>1 DEF Solves
    <3>2. \A i \in DOMAIN x.children : x.children[i] \in Messages BY ChildFacts
    <3>3. [i \in DOMAIN x.children |-> k[x.children[i]]] =
            [i \in DOMAIN x.children |-> g[x.children[i]].diagnostic]
      BY <3>2
    <3>4. k[x] = CallOf(x, g).diagnostic BY <3>1
    <3> HIDE DEF k
    <3> QED BY <3>3, <3>4 DEF CallOf
  <2>3. k = [x \in Messages |-> k[x]] OBVIOUS
  <2> HIDE DEF k, Made
  <2>4. IsConvert(k) BY <2>2, <2>3
  <2> HIDE DEF IsConvert
  <2> QED BY <2>4
<1> HIDE DEF convert
<1>3. convert[m] = Made(m, convert)
  <2> HIDE DEF Made
  <2> QED BY <1>2
<1> HIDE DEF IsConvert
<1> QED BY <1>1, <1>3

\* The family of a message: itself and the families of its children, all messages.
LEMMA FamilyFacts ==
  ASSUME NEW m \in Messages
  PROVE  /\ Family(m) \in Seq(Messages)
         /\ \A c \in Below(m) : ToSet(Family(c)) \subseteq ToSet(Family(m))
<1>1. ASSUME NEW x \in Messages, \A c \in Below(x) : Family(c) \in Seq(Messages)
      PROVE  /\ Family(x) \in Seq(Messages)
             /\ \A c \in Below(x) : ToSet(Family(c)) \subseteq ToSet(Family(x))
  <2> DEFINE parts == [i \in DOMAIN x.children |-> Family(x.children[i])]
  <2>1. DOMAIN x.children = 1..Len(x.children) /\ Len(x.children) \in Nat BY ChildFacts
  <2>2. \A i \in DOMAIN x.children : x.children[i] \in Below(x) BY DEF Below, ToSet
  <2>3. DOMAIN parts = DOMAIN x.children /\ \A i \in DOMAIN x.children : parts[i] = Family(x.children[i])
    OBVIOUS
  <2>4. Family(x) = <<x>> \o FlattenSeq(parts) BY FamilyCall
  <2>5. parts = [i \in 1..Len(x.children) |-> parts[i]] BY <2>1
  <2> HIDE DEF parts
  <2>6. parts \in Seq(Seq(Messages))
    <3>1. \A i \in DOMAIN x.children : parts[i] \in Seq(Messages) BY <1>1, <2>2, <2>3
    <3>2. \A i \in 1..Len(x.children) : parts[i] \in Seq(Messages) BY <2>1, <3>1
    <3> DEFINE n == Len(x.children)
               F == Seq(Messages)
    <3>3. n \in Nat /\ parts = [i \in 1..n |-> parts[i]] /\ \A i \in 1..n : parts[i] \in F
      BY <2>1, <2>5, <3>2
    <3> HIDE DEF n, F
    <3>4. parts \in Seq(F) BY <3>3
    <3> QED BY <3>4 DEF F
  <2>7. /\ FlattenSeq(parts) \in Seq(Messages)
        /\ ToSet(FlattenSeq(parts)) = UNION {ToSet(parts[i]) : i \in DOMAIN parts}
    BY <2>6, FlattenFacts
  <2>8. <<x>> \in Seq(Messages) OBVIOUS
  <2> DEFINE a == <<x>>
             b == FlattenSeq(parts)
  <2>9. a \in Seq(Messages) /\ b \in Seq(Messages) BY <2>7, <2>8
  <2> HIDE DEF a, b
  <2>10. a \o b \in Seq(Messages) /\ ToSet(b) \subseteq ToSet(a \o b) BY <2>9, ConcatFacts
  <2>11. ASSUME NEW c \in Below(x) PROVE ToSet(Family(c)) \subseteq ToSet(b)
    <3>1. PICK i \in DOMAIN x.children : x.children[i] = c BY DEF Below, ToSet
    <3>2. ToSet(parts[i]) \subseteq ToSet(b) BY <2>3, <2>7 DEF b
    <3> QED BY <2>3, <3>1, <3>2
  <2> QED BY <2>4, <2>10, <2>11 DEF a, b
<1> DEFINE D == {x \in Messages : Family(x) \notin Seq(Messages)}
<1>2. ASSUME D # {} PROVE FALSE
  <2>1. D \in SUBSET Messages OBVIOUS
  <2>2. PICK x \in D : Below(x) \cap D = {}
    <3> HIDE DEF D
    <3> QED BY <1>2, <2>1, MessagesAssumption DEF Below
  <2>3. \A c \in Below(x) : Family(c) \in Seq(Messages) BY <2>2, ChildFacts
  <2> QED BY <1>1, <2>3
<1>3. \A c \in Below(m) : Family(c) \in Seq(Messages) BY <1>2, ChildFacts
<1> QED BY <1>1, <1>3

\* What the members of the family suggest, and nothing else.
LEMMA SuggestionFacts ==
  ASSUME NEW m \in Messages
  PROVE  ToSet(CollectSuggestions(m)) =
           {f \in UNION {ToSet(x.fixes) : x \in ToSet(Family(m))} : f \notin {NoFix, ""}}
<1> DEFINE family == Family(m)
           parts == [i \in DOMAIN family |-> family[i].fixes]
           S == UNION {ToSet(x.fixes) : x \in Messages}
           all == FlattenSeq(parts)
           I == {i \in DOMAIN all : all[i] \notin {NoFix, ""}}
<1>1. family \in Seq(Messages) BY FamilyFacts
<1>2. CollectSuggestions(m) = Picked(all, I) BY DEF CollectSuggestions, Kept
<1> HIDE DEF family
<1>3. /\ DOMAIN family = 1..Len(family) /\ Len(family) \in Nat
      /\ \A i \in DOMAIN family : family[i] \in Messages
  BY <1>1
<1>4. parts \in Seq(Seq(S))
  <2>1. \A x \in Messages : x.fixes \in Seq(S)
    <3> TAKE x \in Messages
    <3>1. x.fixes \in Seq(ToSet(x.fixes)) /\ ToSet(x.fixes) \subseteq S BY MessagesAssumption
    <3> HIDE DEF S
    <3> QED BY <3>1, OwnElements
  <2> HIDE DEF S
  <2> QED BY <1>3, <2>1
<1>5. {ToSet(parts[i]) : i \in DOMAIN parts} = {ToSet(x.fixes) : x \in ToSet(family)}
  <2>1. {ToSet(parts[i]) : i \in DOMAIN parts} = {ToSet(family[i].fixes) : i \in DOMAIN family}
    OBVIOUS
  <2>2. \A x \in ToSet(family) : \E i \in DOMAIN family : x = family[i] BY DEF ToSet
  <2>3. \A i \in DOMAIN family : family[i] \in ToSet(family) BY DEF ToSet
  <2> HIDE DEF parts
  <2> QED BY <2>1, <2>2, <2>3
<1> HIDE DEF parts, S
<1>6. all \in Seq(S) /\ ToSet(all) = UNION {ToSet(parts[i]) : i \in DOMAIN parts}
  BY <1>4, FlattenFacts
<1> HIDE DEF all
<1>7. I \in SUBSET DOMAIN all OBVIOUS
<1>8. {all[i] : i \in I} = {f \in ToSet(all) : f \notin {NoFix, ""}} BY DEF ToSet
<1> HIDE DEF I
<1>9. ToSet(Picked(all, I)) = {all[i] : i \in I} BY <1>6, <1>7, PickedFacts DEF Selection
<1> QED BY <1>2, <1>5, <1>6, <1>8, <1>9 DEF family

\* A message suggests whatever its children suggest.
LEMMA ChildSuggestions ==
  ASSUME NEW m \in Messages, NEW c \in Below(m)
  PROVE  ToSet(CollectSuggestions(c)) \subseteq ToSet(CollectSuggestions(m))
<1>1. c \in Messages BY ChildFacts
<1>2. ToSet(Family(c)) \subseteq ToSet(Family(m)) BY FamilyFacts
<1> QED BY <1>1, <1>2, SuggestionFacts

-----------------------------------------------------------------------------
(* The invariant of a grading: what the Result says of the last exec, and  *)
(* what an exit with 0 says of the submission.                             *)

GradingTypes ==
  /\ ttl \in TTLs /\ lang \in {"Rust", "Go"} /\ broken \in SUBSET {"main", "tests"}
  /\ output \in Seq(IF lang = "Go" THEN GoLines ELSE RustLines)
  /\ stage \in {"start", "compile", "execute"}

\* Nothing has run yet, or the last exec was one under the job's limit.
LastRun ==
  IF stage = "start" THEN last = [exit |-> 0, killed |-> FALSE, dur |-> 0]
  ELSE last \in Runs(LimitSecs(ttl))

ResultOfLast ==
  /\ stage = "start" =>
       res = [compiled |-> FALSE, passed |-> FALSE, exit |-> 0,
              timedOut |-> FALSE, crashed |-> FALSE]
  /\ stage = "compile" =>
       res = [compiled |-> ~Judged(last) /\ last.exit = 0, passed |-> FALSE, exit |-> 0,
              timedOut |-> Judged(last), crashed |-> FALSE]
  /\ stage = "execute" =>
       res = [compiled |-> TRUE, passed |-> Passes(last), exit |-> last.exit,
              timedOut |-> Judged(last), crashed |-> IsCrash(last.exit)]

\* Exiting with 0 needs something that compiles, and Rust's compile stage builds it all.
ExitZeroCompiles ==
  /\ stage = "compile" /\ last.exit = 0 => broken \cap CompileCommand(lang) = {}
  /\ stage = "execute" /\ (lang = "Rust" \/ last.exit = 0) => broken = {}

GradingInv == GradingTypes /\ LastRun /\ ResultOfLast /\ ExitZeroCompiles

\* The limit in whole seconds is not shorter than the TTL, and 0 only without one.
LEMMA LimitFacts ==
  ASSUME NEW t \in TTLs
  PROVE  LimitSecs(t) \in Nat /\ 2 * LimitSecs(t) >= t /\ (LimitSecs(t) > 0 <=> t > 0)
<1>1. t \in Nat BY GradingAssumption
<1> QED BY <1>1 DEF LimitSecs

\* How an exec ends: by itself, or killed after the whole limit.
LEMMA RunFacts ==
  ASSUME NEW secs \in Nat, NEW r \in Runs(secs)
  PROVE  /\ r.exit \in ExitCodes /\ r.exit \in Int /\ r.dur \in Nat /\ r.killed \in BOOLEAN
         /\ r.killed => secs > 0 /\ r.exit = SIGKILL /\ r.dur >= 2 * secs
<1> DEFINE own == [exit : ExitCodes, killed : {FALSE},
                   dur : 0..(IF secs > 0 THEN 2 * secs - 1 ELSE MaxDur)]
           late == [exit : {SIGKILL}, killed : {TRUE}, dur : (2 * secs)..(2 * secs + 1)]
<1>1. \A e \in ExitCodes : e \in Int BY GradingAssumption
<1>2. 137 \in ExitCodes /\ MaxDur \in Nat BY GradingAssumption
<1>3. r \in own \/ (secs > 0 /\ r \in late) BY DEF Runs
<1>4. ASSUME r \in own
      PROVE  r.exit \in ExitCodes /\ r.dur \in Nat /\ r.killed = FALSE
  <2> DEFINE D == 0..(IF secs > 0 THEN 2 * secs - 1 ELSE MaxDur)
  <2>1. r.exit \in ExitCodes /\ r.killed = FALSE /\ r.dur \in D BY <1>4, Zenon
  <2>2. D \subseteq Nat BY <1>2
  <2> HIDE DEF D
  <2> QED BY <2>1, <2>2
<1>5. ASSUME r \in late
      PROVE  r.exit = 137 /\ r.dur \in Nat /\ r.dur >= 2 * secs /\ r.killed = TRUE
  <2> DEFINE D == (2 * secs)..(2 * secs + 1)
  <2>1. r.exit = 137 /\ r.killed = TRUE /\ r.dur \in D BY <1>5, Zenon DEF SIGKILL
  <2>2. \A d \in D : d \in Nat /\ d >= 2 * secs OBVIOUS
  <2> HIDE DEF D
  <2> QED BY <2>1, <2>2
<1> HIDE DEF own, late
<1>6. CASE r \in own BY <1>1, <1>4, <1>6
<1>7. CASE secs > 0 /\ r \in late BY <1>1, <1>2, <1>5, <1>7 DEF SIGKILL
<1> QED BY <1>3, <1>6, <1>7

\* The outputs considered are of the language's lines.
LEMMA OutputFacts ==
  ASSUME NEW c, c \in Compilations(LimitSecs(ttl)), GradingTypes
  PROVE  /\ c[1] \in Runs(LimitSecs(ttl))
         /\ c[2] \in Seq(IF lang = "Go" THEN GoLines ELSE RustLines)
         /\ c[1].exit = 0 => broken \cap CompileCommand(lang) = {}
<1>1. c \in Runs(LimitSecs(ttl)) \X (IF lang = "Go" THEN GoOutputs ELSE RustOutputs)
  BY DEF Compilations
<1>2. c[1].exit = 0 => broken \cap CompileCommand(lang) = {} BY DEF Compilations
<1> QED BY <1>1, <1>2, GradingAssumption

LEMMA GradingInvInit == Init => GradingInv
<1> SUFFICES ASSUME Init PROVE GradingInv OBVIOUS
<1>1. GradingTypes
  <2>1. output = <<>> BY DEF Init
  <2>2. <<>> \in Seq(GoLines) /\ <<>> \in Seq(RustLines) OBVIOUS
  <2> QED BY <2>1, <2>2 DEF Init, GradingTypes
<1>2. LastRun /\ ResultOfLast /\ ExitZeroCompiles
  BY DEF Init, LastRun, ResultOfLast, ExitZeroCompiles
<1> QED BY <1>1, <1>2 DEF GradingInv

LEMMA GradingInvStep == GradingInv /\ [Next]_vars => GradingInv'
<1> SUFFICES ASSUME GradingInv, [Next]_vars PROVE GradingInv' OBVIOUS
<1>1. GradingTypes BY DEF GradingInv
<1>2. CASE Compile
  <2>1. /\ stage = "start" /\ stage' = "compile"
        /\ ttl' = ttl /\ lang' = lang /\ broken' = broken
    BY <1>2 DEF Compile, jobVars
  <2>2. PICK c \in Compilations(LimitSecs(ttl)) :
          /\ last' = c[1] /\ output' = c[2]
          /\ res' = [res EXCEPT !.timedOut = Judged(c[1]),
                                !.compiled = ~Judged(c[1]) /\ c[1].exit = 0]
    BY <1>2 DEF Compile
  <2>3. /\ c[1] \in Runs(LimitSecs(ttl))
        /\ c[2] \in Seq(IF lang = "Go" THEN GoLines ELSE RustLines)
        /\ c[1].exit = 0 => broken \cap CompileCommand(lang) = {}
    BY <1>1, OutputFacts
  <2>4. res = [compiled |-> FALSE, passed |-> FALSE, exit |-> 0,
               timedOut |-> FALSE, crashed |-> FALSE]
    BY <2>1 DEF GradingInv, ResultOfLast
  <2>5. Judged(last)' = Judged(c[1]) BY <2>1, <2>2 DEF Judged
  <2>6. GradingTypes' BY <1>1, <2>1, <2>2, <2>3 DEF GradingTypes
  <2>7. LastRun' BY <2>1, <2>2, <2>3 DEF LastRun
  <2>8. ResultOfLast'
    <3> DEFINE j == Judged(c[1])
    <3>1. res' = [res EXCEPT !.timedOut = j, !.compiled = ~j /\ c[1].exit = 0] BY <2>2
    <3>2. Judged(last)' = j BY <2>5
    <3> HIDE DEF j
    <3>3. res' = [compiled |-> ~j /\ c[1].exit = 0, passed |-> FALSE, exit |-> 0,
                  timedOut |-> j, crashed |-> FALSE]
      BY <2>4, <3>1
    <3> QED BY <2>1, <2>2, <3>2, <3>3 DEF ResultOfLast
  <2>9. ExitZeroCompiles' BY <2>1, <2>2, <2>3 DEF ExitZeroCompiles
  <2> QED BY <2>6, <2>7, <2>8, <2>9 DEF GradingInv
<1>3. CASE Execute
  <2>1. /\ stage = "compile" /\ stage' = "execute" /\ res.compiled
        /\ ttl' = ttl /\ lang' = lang /\ broken' = broken /\ output' = output
    BY <1>3 DEF Execute, jobVars
  <2>2. PICK r \in Runs(LimitSecs(ttl)) :
          /\ r.exit = 0 => broken = {}
          /\ last' = r
          /\ res' = [compiled |-> TRUE, passed |-> Passes(r), exit |-> r.exit,
                     timedOut |-> Judged(r), crashed |-> IsCrash(r.exit)]
    BY <1>3 DEF Execute
  <2>3. lang = "Rust" => broken = {}
    <3>1. last.exit = 0
      <4>1. res = [compiled |-> ~Judged(last) /\ last.exit = 0, passed |-> FALSE, exit |-> 0,
                   timedOut |-> Judged(last), crashed |-> FALSE]
        BY <2>1 DEF GradingInv, ResultOfLast
      <4>2. res.compiled = (~Judged(last) /\ last.exit = 0) BY <4>1
      <4> QED BY <2>1, <4>2
    <3>2. broken \cap CompileCommand(lang) = {}
      BY <2>1, <3>1 DEF GradingInv, ExitZeroCompiles
    <3> QED BY <1>1, <3>2 DEF CompileCommand, GradingTypes
  <2>4. Judged(last)' = Judged(r) /\ Passes(last)' = Passes(r)
    BY <2>1, <2>2 DEF Judged, Passes
  <2>5. GradingTypes' BY <1>1, <2>1 DEF GradingTypes
  <2>6. LastRun' BY <2>1, <2>2 DEF LastRun
  <2>7. ResultOfLast' BY <2>1, <2>2, <2>4 DEF ResultOfLast
  <2>8. ExitZeroCompiles' BY <2>1, <2>2, <2>3 DEF ExitZeroCompiles
  <2> QED BY <2>5, <2>6, <2>7, <2>8 DEF GradingInv
<1>4. CASE UNCHANGED vars
  BY <1>4 DEF vars, jobVars, GradingInv, GradingTypes, LastRun, ResultOfLast,
     ExitZeroCompiles, Judged, Passes
<1> QED BY <1>2, <1>3, <1>4 DEF Next

LEMMA GradingInvariant == Spec => []GradingInv
<1> QED BY GradingInvInit, GradingInvStep, PTL DEF Spec

\* What the Result's flags say of the last exec.
LEMMA FlagFacts ==
  ASSUME GradingInv
  PROVE  /\ stage = "start" => ~res.compiled /\ ~res.passed /\ ~res.timedOut /\ ~res.crashed
                               /\ ~last.killed /\ res.exit = 0
         /\ stage = "compile" =>
              /\ res.compiled <=> ~Judged(last) /\ last.exit = 0
              /\ res.timedOut <=> Judged(last)
              /\ ~res.passed /\ ~res.crashed /\ res.exit = 0
         /\ stage = "execute" =>
              /\ res.compiled /\ (res.passed <=> Passes(last)) /\ (res.timedOut <=> Judged(last))
              /\ (res.crashed <=> IsCrash(last.exit)) /\ res.exit = last.exit
         /\ stage # "start" =>
              /\ last.exit \in ExitCodes /\ last.exit \in Int /\ last.dur \in Nat
              /\ last.killed \in BOOLEAN
              /\ last.killed => /\ LimitSecs(ttl) > 0 /\ last.exit = SIGKILL
                                /\ last.dur >= 2 * LimitSecs(ttl)
<1> DEFINE j == Judged(last)
           p == Passes(last)
           k == IsCrash(last.exit)
           e == last.exit
<1>1. stage = "start" =>
        /\ res = [compiled |-> FALSE, passed |-> FALSE, exit |-> 0,
                  timedOut |-> FALSE, crashed |-> FALSE]
        /\ last = [exit |-> 0, killed |-> FALSE, dur |-> 0]
  BY DEF GradingInv, ResultOfLast, LastRun
<1>2. stage = "compile" =>
        res = [compiled |-> ~j /\ e = 0, passed |-> FALSE, exit |-> 0,
               timedOut |-> j, crashed |-> FALSE]
  BY DEF GradingInv, ResultOfLast
<1>3. stage = "execute" =>
        res = [compiled |-> TRUE, passed |-> p, exit |-> e, timedOut |-> j, crashed |-> k]
  BY DEF GradingInv, ResultOfLast
<1>4. j \in BOOLEAN /\ p \in BOOLEAN /\ k \in BOOLEAN
  BY DEF Judged, Passes, IsCrash, TimedOut
<1>5. stage # "start" => last \in Runs(LimitSecs(ttl)) BY DEF GradingInv, LastRun
<1>6. LimitSecs(ttl) \in Nat BY LimitFacts DEF GradingInv, GradingTypes
<1> HIDE DEF j, p, k, e
<1>7. stage = "compile" => /\ res.compiled = (~j /\ e = 0) /\ res.timedOut = j
                           /\ res.passed = FALSE /\ res.crashed = FALSE /\ res.exit = 0
  BY <1>2
<1>8. stage = "execute" => /\ res.compiled = TRUE /\ res.passed = p /\ res.timedOut = j
                           /\ res.crashed = k /\ res.exit = e
  BY <1>3
<1>9. stage # "start" =>
        /\ last.exit \in ExitCodes /\ last.exit \in Int /\ last.dur \in Nat
        /\ last.killed \in BOOLEAN
        /\ last.killed => /\ LimitSecs(ttl) > 0 /\ last.exit = SIGKILL
                          /\ last.dur >= 2 * LimitSecs(ttl)
  BY <1>5, <1>6, RunFacts
<1>10. stage = "start" => ~res.compiled /\ ~res.passed /\ ~res.timedOut /\ ~res.crashed
                          /\ ~last.killed /\ res.exit = 0
  BY <1>1
<1> QED BY <1>4, <1>7, <1>8, <1>9, <1>10 DEF j, p, k, e

-----------------------------------------------------------------------------
(* What the verdict and the reward promise.                                *)

\* The Result always has the fields of its stage, whatever runs and prints.
THEOREM GradingTypeSafe == Spec => []TypeOK
<1>1. ASSUME GradingInv PROVE TypeOK
  <2>1. GradingTypes BY <1>1 DEF GradingInv
  <2>2. stage # "execute" => res.exit = 0 /\ ~res.passed /\ ~res.crashed
    BY <1>1, <2>1, FlagFacts DEF GradingTypes
  <2>3. res \in [compiled : BOOLEAN, passed : BOOLEAN, exit : ExitCodes \cup {SIGKILL},
                 timedOut : BOOLEAN, crashed : BOOLEAN]
    <3> DEFINE j == Judged(last)
               p == Passes(last)
               k == IsCrash(last.exit)
               e == last.exit
    <3>1. j \in BOOLEAN /\ p \in BOOLEAN /\ k \in BOOLEAN
      BY DEF Judged, Passes, IsCrash, TimedOut
    <3>2. 0 \in ExitCodes BY GradingAssumption
    <3>3. stage = "start" =>
            res = [compiled |-> FALSE, passed |-> FALSE, exit |-> 0,
                   timedOut |-> FALSE, crashed |-> FALSE]
      BY <1>1 DEF GradingInv, ResultOfLast
    <3>4. stage = "compile" =>
            res = [compiled |-> ~j /\ e = 0, passed |-> FALSE, exit |-> 0,
                   timedOut |-> j, crashed |-> FALSE]
      BY <1>1 DEF GradingInv, ResultOfLast
    <3>5. stage = "execute" =>
            res = [compiled |-> TRUE, passed |-> p, exit |-> e, timedOut |-> j, crashed |-> k]
      BY <1>1 DEF GradingInv, ResultOfLast
    <3>6. stage # "start" => e \in ExitCodes BY <1>1, FlagFacts
    <3> DEFINE X == ExitCodes \cup {SIGKILL}
               c == ~j /\ e = 0
    <3>7. 0 \in X /\ (stage # "start" => e \in X) BY <3>2, <3>6
    <3>8. c \in BOOLEAN OBVIOUS
    <3>9. FALSE \in BOOLEAN /\ TRUE \in BOOLEAN OBVIOUS
    <3> HIDE DEF j, p, k, e, X, c
    <3>10. CASE stage = "start"
      <4>1. res \in [compiled : BOOLEAN, passed : BOOLEAN, exit : X,
                     timedOut : BOOLEAN, crashed : BOOLEAN]
        <5>1. res = [compiled |-> FALSE, passed |-> FALSE, exit |-> 0,
                     timedOut |-> FALSE, crashed |-> FALSE]
          BY <3>3, <3>10
        <5> QED BY <3>7, <5>1, SMT
      <4> QED BY <4>1 DEF X
    <3>11. CASE stage = "compile"
      <4>1. res = [compiled |-> c, passed |-> FALSE, exit |-> 0, timedOut |-> j, crashed |-> FALSE]
        BY <3>4, <3>11 DEF c
      <4>2. res \in [compiled : BOOLEAN, passed : BOOLEAN, exit : X,
                     timedOut : BOOLEAN, crashed : BOOLEAN]
        BY <3>1, <3>7, <3>8, <3>9, <4>1, Zenon
      <4> QED BY <4>2 DEF X
    <3>12. CASE stage = "execute"
      <4>1. res \in [compiled : BOOLEAN, passed : BOOLEAN, exit : X,
                     timedOut : BOOLEAN, crashed : BOOLEAN]
        <5>1. e \in X BY <3>12, <3>7
        <5>2. res = [compiled |-> TRUE, passed |-> p, exit |-> e, timedOut |-> j, crashed |-> k]
          BY <3>5, <3>12
        <5> QED BY <3>1, <3>9, <5>1, <5>2, Zenon
      <4> QED BY <4>1 DEF X
    <3> QED BY <2>1, <3>10, <3>11, <3>12 DEF GradingTypes
  <2> QED BY <2>1, <2>2, <2>3 DEF GradingTypes, TypeOK
<1> QED BY <1>1, GradingInvariant, PTL

\* For any TTL, rounding and delay: every exec the wrapper kills is a timeout, and no
\* death more than half a second before the TTL is.
THEOREM TimeoutExact == Spec => []TimeoutIsTheLimit
<1>1. ASSUME GradingInv PROVE TimeoutIsTheLimit
  <2>1. ttl \in Nat /\ LimitSecs(ttl) \in Nat /\ 2 * LimitSecs(ttl) >= ttl
    BY <1>1, LimitFacts, GradingAssumption DEF GradingInv, GradingTypes
  <2>2. stage # "start" => (res.timedOut <=> Judged(last))
    BY <1>1, FlagFacts DEF GradingInv, GradingTypes
  <2>3. ASSUME last.killed PROVE res.timedOut
    <3>1. stage # "start" BY <1>1, <2>3, FlagFacts
    <3>2. last.exit = SIGKILL /\ LimitSecs(ttl) > 0 /\ last.dur >= 2 * LimitSecs(ttl) /\ last.dur \in Nat
      BY <1>1, <2>3, <3>1, FlagFacts
    <3>3. Judged(last) BY <2>1, <3>2 DEF Judged, TimedOut
    <3> QED BY <2>2, <3>1, <3>3
  <2>4. ASSUME res.timedOut PROVE LimitSecs(ttl) > 0 /\ last.dur >= ttl - 1
    <3>1. stage # "start" BY <1>1, <2>4, FlagFacts
    <3>2. Judged(last) /\ last.dur \in Nat BY <1>1, <2>2, <2>4, <3>1, FlagFacts
    <3> QED BY <2>1, <3>2 DEF Judged, TimedOut
  <2> QED BY <2>3, <2>4 DEF TimeoutIsTheLimit
<1> QED BY <1>1, GradingInvariant, PTL

\* Classify names the stage that decided, and nothing that does not compile passes.
THEOREM OutcomeExact == Spec => []OutcomeNamesStage
<1>1. ASSUME GradingInv PROVE OutcomeNamesStage
  <2> DEFINE c == res.compiled
             p == res.passed
             t == res.timedOut
             k == res.crashed
             outcome == CASE ~c -> "CompileError"
                          [] c /\ p -> "Passed"
                          [] c /\ ~p /\ (t \/ k) -> "RuntimeError"
                          [] OTHER -> "TestFailed"
  <2>1. Classify(res) = outcome BY DEF Classify
  <2>2. Judged(last) => last.exit # 0
    BY DEF Judged, TimedOut, SIGKILL, SIGTERM
  <2>3. ASSUME stage = "compile", ~c PROVE outcome = "CompileError" /\ last.exit # 0
    <3>1. last.exit # 0 BY <1>1, <2>2, <2>3, FlagFacts
    <3> QED BY <2>3, <3>1
  <2>4. ASSUME stage = "execute"
        PROVE  /\ outcome # "CompileError"
               /\ outcome = "Passed" <=> last.exit = 0
               /\ last.killed => outcome = "RuntimeError"
    <3>1. c /\ (p <=> Passes(last)) /\ (t <=> Judged(last)) /\ (k <=> IsCrash(last.exit))
      BY <1>1, <2>4, FlagFacts
    <3>2. Passes(last) <=> last.exit = 0 BY <2>2 DEF Passes
    <3>3. last.killed => last.exit = 137 BY <1>1, <2>4, FlagFacts DEF SIGKILL
    <3>4. last.killed => k /\ ~p BY <3>1, <3>2, <3>3 DEF IsCrash
    <3> HIDE DEF c, p, t, k
    <3> QED BY <3>1, <3>2, <3>4
  <2>5. ASSUME stage = "execute", lang = "Rust" \/ outcome = "Passed" PROVE broken = {}
    <3>1. lang = "Rust" \/ last.exit = 0 BY <2>4, <2>5
    <3> QED BY <1>1, <2>5, <3>1 DEF GradingInv, ExitZeroCompiles
  <2> HIDE DEF outcome
  <2> QED BY <2>1, <2>3, <2>4, <2>5 DEF OutcomeNamesStage
<1> QED BY <1>1, GradingInvariant, PTL

\* The diagnostics of an output are a list: of it, each is made from one line.
Parsed(diags, out, lines, made) ==
  \E at : /\ at \in [DOMAIN diags -> lines] /\ lines \subseteq DOMAIN out
          /\ IsFiniteSet(DOMAIN diags)
          /\ \A i \in lines : \E k \in DOMAIN diags : at[k] = i
          /\ \A j, k \in DOMAIN diags : at[j] = at[k] => j = k
          /\ \A k \in DOMAIN diags : diags[k] = made[at[k]]

LEMMA ParseGoFacts ==
  ASSUME NEW out \in Seq(GoLines)
  PROVE  Parsed(ParseGo(out), out, {i \in DOMAIN out : out[i] # "text"},
                [i \in DOMAIN out |-> [level |-> "error", suggestions |-> <<>>, children |-> <<>>]])
<1> DEFINE I == {i \in DOMAIN out : out[i] # "text"}
           kept == Picked(out, I)
           d == [level |-> "error", suggestions |-> <<>>, children |-> <<>>]
           diags == [i \in DOMAIN kept |-> d]
           before == [i \in I |-> {j \in I : j < i}]
<1>1. ParseGo(out) = diags BY DEF ParseGo, Kept
<1>2. I \in SUBSET DOMAIN out OBVIOUS
<1>3. Selection(kept, out, I, before, GoLines) BY <1>2, PickedFacts
<1> HIDE DEF kept, I, d
<1>4. /\ DOMAIN kept = 1..Cardinality(I) /\ Cardinality(I) \in Nat
      /\ \E at : Draws(at, kept, out, I)
  BY <1>3 DEF Selection
<1>5. PICK at : Draws(at, kept, out, I) BY <1>4
<1>6. IsFiniteSet(DOMAIN kept) BY <1>4, IntervalSize
<1>7. DOMAIN diags = DOMAIN kept /\ \A k \in DOMAIN kept : diags[k] = d OBVIOUS
<1> HIDE DEF diags
<1>8. \A k \in DOMAIN diags : diags[k] = [i \in DOMAIN out |-> d][at[k]]
  BY <1>2, <1>5, <1>7 DEF Draws
<1>9. Parsed(diags, out, I, [i \in DOMAIN out |-> d])
  BY <1>2, <1>5, <1>6, <1>7, <1>8 DEF Parsed, Draws
<1> QED BY <1>1, <1>9 DEF d, I

LEMMA ParseRustFacts ==
  ASSUME NEW out \in Seq(RustLines)
  PROVE  Parsed(ParseRust(out), out, {i \in DOMAIN out : Reported(out[i])},
                [i \in DOMAIN out |-> ConvertRust(out[i].message)])
<1> DEFINE I == {i \in DOMAIN out : Reported(out[i])}
           kept == Picked(out, I)
           diags == [i \in DOMAIN kept |-> ConvertRust(kept[i].message)]
           made == [i \in DOMAIN out |-> ConvertRust(out[i].message)]
           before == [i \in I |-> {j \in I : j < i}]
<1>1. ParseRust(out) = diags BY DEF ParseRust, Kept
<1>2. I \in SUBSET DOMAIN out OBVIOUS
<1>3. Selection(kept, out, I, before, RustLines) BY <1>2, PickedFacts
<1> HIDE DEF kept, I
<1>4. /\ DOMAIN kept = 1..Cardinality(I) /\ Cardinality(I) \in Nat
      /\ \E at : Draws(at, kept, out, I)
  BY <1>3 DEF Selection
<1>5. PICK at : Draws(at, kept, out, I) BY <1>4
<1>6. IsFiniteSet(DOMAIN kept) BY <1>4, IntervalSize
<1>7. DOMAIN diags = DOMAIN kept
      /\ \A k \in DOMAIN kept : diags[k] = ConvertRust(kept[k].message)
  OBVIOUS
<1>8. \A i \in DOMAIN out : made[i] = ConvertRust(out[i].message) OBVIOUS
<1> HIDE DEF diags, made
<1>9. \A k \in DOMAIN diags : diags[k] = made[at[k]]
  BY <1>2, <1>5, <1>7, <1>8 DEF Draws
<1>10. Parsed(diags, out, I, made)
  BY <1>2, <1>5, <1>6, <1>7, <1>9 DEF Parsed, Draws
<1> QED BY <1>1, <1>10 DEF I, made

\* A reported line has a message.
LEMMA ReportedFacts ==
  ASSUME NEW line \in RustLines
  PROVE  /\ Reported(line) => line.message \in Messages
         /\ Reported(line) /\ line.message.level = "error" <=>
              /\ line.form = "json" /\ line.reason = "compiler-message"
              /\ line.message # NoMessage /\ line.message.level = "error"
<1>1. line.form = "json" => line.message \in Messages \cup {NoMessage}
  <2> DEFINE A == [form : {"text", "broken"}, reason : {""}, message : {NoMessage}]
             B == [form : {"json"}, reason : {"compiler-message", "build-finished"},
                   message : Messages \cup {NoMessage}]
  <2>1. line \in A => line.form # "json" OBVIOUS
  <2>2. line \in B => line.message \in Messages \cup {NoMessage} OBVIOUS
  <2>3. line \in A \/ line \in B BY DEF RustLines
  <2> HIDE DEF A, B
  <2> QED BY <2>1, <2>2, <2>3
<1> QED BY <1>1 DEF Reported

\* There are finitely many errors.
LEMMA ErrorCountFacts ==
  ASSUME NEW diags, NEW out, NEW lines, NEW made, Parsed(diags, out, lines, made)
  PROVE  ErrorCount(diags) \in Nat
<1>1. IsFiniteSet(DOMAIN diags) BY DEF Parsed
<1> DEFINE E == {i \in DOMAIN diags : diags[i].level = "error"}
<1>2. IsFiniteSet(E) BY <1>1, FS_Subset
<1>3. Cardinality(E) \in Nat
  <2> HIDE DEF E
  <2> QED BY <1>2, FS_CardinalityType
<1> QED BY <1>3 DEF ErrorCount

LEMMA DiagsFacts ==
  ASSUME GradingTypes
  PROVE  /\ ErrorCount(Diags) \in Nat
         /\ lang = "Rust" => /\ output \in Seq(RustLines)
                             /\ Parsed(Diags, output, {i \in DOMAIN output : Reported(output[i])},
                                       [i \in DOMAIN output |-> ConvertRust(output[i].message)])
         /\ lang = "Go" => \A k \in DOMAIN Diags :
              Diags[k] = [level |-> "error", suggestions |-> <<>>, children |-> <<>>]
<1>1. CASE lang = "Go"
  <2> DEFINE lines == {i \in DOMAIN output : output[i] # "text"}
             d == [level |-> "error", suggestions |-> <<>>, children |-> <<>>]
             made == [i \in DOMAIN output |-> d]
  <2>1. output \in Seq(GoLines) BY <1>1 DEF GradingTypes
  <2>2. Diags = ParseGo(output) BY <1>1 DEF Diags, DiagnosticsFor
  <2>3. Parsed(Diags, output, lines, made) BY <2>1, <2>2, ParseGoFacts
  <2>4. \A i \in DOMAIN output : made[i] = d OBVIOUS
  <2> HIDE DEF lines, made, d
  <2>5. ErrorCount(Diags) \in Nat BY <2>3, ErrorCountFacts
  <2>6. \A k \in DOMAIN Diags : Diags[k] = d BY <2>3, <2>4 DEF Parsed
  <2>7. lang # "Rust" BY <1>1
  <2> QED BY <2>5, <2>6, <2>7 DEF d
<1>2. CASE lang = "Rust"
  <2> DEFINE lines == {i \in DOMAIN output : Reported(output[i])}
             made == [i \in DOMAIN output |-> ConvertRust(output[i].message)]
  <2>1. output \in Seq(RustLines) BY <1>2 DEF GradingTypes
  <2>2. Diags = ParseRust(output) BY <1>2 DEF Diags, DiagnosticsFor
  <2>3. Parsed(Diags, output, lines, made) BY <2>1, <2>2, ParseRustFacts
  <2>4. ErrorCount(Diags) \in Nat
    <3> HIDE DEF lines, made
    <3> QED BY <2>3, ErrorCountFacts
  <2>5. lang # "Go" BY <1>2
  <2> HIDE DEF lines, made
  <2>6. output \in Seq(RustLines) /\ Parsed(Diags, output, lines, made) BY <2>1, <2>3
  <2> QED BY <2>4, <2>5, <2>6 DEF lines, made
<1> QED BY <1>1, <1>2 DEF GradingTypes

\* The reward is that of the reported verdict, in both arms and for any diagnostics.
THEOREM RewardExact == Spec => []RewardFollowsVerdict
<1>1. ASSUME GradingInv PROVE RewardFollowsVerdict
  <2> DEFINE n == ErrorCount(Diags)
             outcome == Classify(res)
             c == res.compiled
             p == res.passed
             f == res.timedOut \/ res.crashed
  <2>1. n \in Nat BY <1>1, DiagsFacts DEF GradingInv
  <2>2. CompileScore(n) \in -100..-61 BY <2>1 DEF CompileScore, Saturation
  <2>3. RewardClassify(res) = outcome
    <3>1. outcome = CASE ~c -> "CompileError"
                      [] c /\ p -> "Passed"
                      [] c /\ ~p /\ f -> "RuntimeError"
                      [] OTHER -> "TestFailed"
      BY DEF Classify
    <3>2. RewardClassify(res) = CASE ~c -> "CompileError"
                                  [] c /\ p -> "Passed"
                                  [] c /\ ~p /\ f -> "RuntimeError"
                                  [] OTHER -> "TestFailed"
      BY DEF RewardClassify
    <3> QED BY <3>1, <3>2
  <2>4. Anchor("CompileError") = -100 /\ Anchor("RuntimeError") = -60 BY DEF Anchor
  <2> HIDE DEF n, outcome
  <2>5. ASSUME NEW mode
        PROVE  IF outcome = "CompileError"
               THEN Reward(res, Diags, mode) \in Anchor("CompileError")..(Anchor("RuntimeError") - 1)
               ELSE Reward(res, Diags, mode) = Anchor(outcome)
    <3>1. Reward(res, Diags, mode) =
            IF outcome # "CompileError" THEN Anchor(outcome)
            ELSE IF mode = "Coarse" THEN Anchor("CompileError") ELSE CompileScore(n)
      BY <2>3 DEF Reward, n
    <3> QED BY <2>2, <2>4, <3>1
  <2> QED BY <2>5 DEF RewardFollowsVerdict, outcome
<1> QED BY <1>1, GradingInvariant, PTL

\* Every compiler message that is an error is one error of the verdict, and no other is.
LEMMA ErrorsMatch ==
  ASSUME NEW out \in Seq(RustLines), NEW diags,
         Parsed(diags, out, {i \in DOMAIN out : Reported(out[i])},
                [i \in DOMAIN out |-> ConvertRust(out[i].message)])
  PROVE  ErrorCount(diags) =
           Cardinality({i \in DOMAIN out : out[i].form = "json"
                          /\ out[i].reason = "compiler-message"
                          /\ out[i].message # NoMessage /\ out[i].message.level = "error"})
<1> DEFINE lines == {i \in DOMAIN out : Reported(out[i])}
           made == [i \in DOMAIN out |-> ConvertRust(out[i].message)]
           E == {k \in DOMAIN diags : diags[k].level = "error"}
           T == {i \in DOMAIN out : out[i].form = "json"
                   /\ out[i].reason = "compiler-message"
                   /\ out[i].message # NoMessage /\ out[i].message.level = "error"}
<1>1. \A i \in DOMAIN out : out[i] \in RustLines OBVIOUS
<1>2. T = {i \in lines : out[i].message.level = "error"} BY <1>1, ReportedFacts
<1>3. \A i \in lines : made[i].level = out[i].message.level
  <2> TAKE i \in lines
  <2>1. out[i].message \in Messages BY <1>1, ReportedFacts
  <2> QED BY <2>1, ConvertCall
<1> HIDE DEF lines, made, T
<1>4. PICK at : /\ at \in [DOMAIN diags -> lines] /\ IsFiniteSet(DOMAIN diags)
                /\ \A i \in lines : \E k \in DOMAIN diags : at[k] = i
                /\ \A j, k \in DOMAIN diags : at[j] = at[k] => j = k
                /\ \A k \in DOMAIN diags : diags[k] = made[at[k]]
  <2>1. Parsed(diags, out, lines, made) BY DEF lines, made
  <2> QED BY <2>1 DEF Parsed
<1>5. \A k \in DOMAIN diags : k \in E <=> at[k] \in T BY <1>2, <1>3, <1>4
<1> DEFINE h == [k \in E |-> at[k]]
<1>6. E \subseteq DOMAIN diags OBVIOUS
<1> HIDE DEF E
<1>7. h \in [E -> T] /\ \A j, k \in E : h[j] = h[k] => j = k BY <1>4, <1>5, <1>6
<1>8. \A i \in T : \E k \in E : h[k] = i
  <2> TAKE i \in T
  <2>1. PICK k \in DOMAIN diags : at[k] = i BY <1>2, <1>4
  <2>2. k \in E /\ h[k] = i BY <1>5, <2>1
  <2> QED BY <2>2
<1> HIDE DEF h
<1>9. ExistsBijection(E, T)
  BY <1>7, <1>8 DEF ExistsBijection, Bijection, Injection, Surjection, IsInjective
<1>10. IsFiniteSet(E) BY <1>4, <1>6, FS_Subset
<1>11. Cardinality(T) = Cardinality(E) BY <1>9, <1>10, FS_Bijection
<1> QED BY <1>11 DEF E, T, ErrorCount

\* What the descendants of a diagnostic suggest, two levels down.
LEMMA DescendantSuggestions ==
  ASSUME NEW m \in Messages, NEW child \in ToSet(ConvertRust(m).children)
  PROVE  /\ ToSet(child.suggestions) \subseteq ToSet(ConvertRust(m).suggestions)
         /\ \E c \in Below(m) : child = ConvertRust(c)
<1>1. /\ ConvertRust(m).suggestions = CollectSuggestions(m)
      /\ ConvertRust(m).children = [i \in DOMAIN m.children |-> ConvertRust(m.children[i])]
  BY ConvertCall
<1>2. PICK i \in DOMAIN m.children : child = ConvertRust(m.children[i]) BY <1>1 DEF ToSet
<1>3. m.children[i] \in Below(m) /\ m.children[i] \in Messages BY <1>2, ChildFacts DEF Below, ToSet
<1>4. child.suggestions = CollectSuggestions(m.children[i]) BY <1>2, <1>3, ConvertCall
<1>5. ToSet(CollectSuggestions(m.children[i])) \subseteq ToSet(CollectSuggestions(m))
  BY <1>3, ChildSuggestions
<1> QED BY <1>1, <1>2, <1>3, <1>4, <1>5

\* For any output and any tree of messages: each error is graded once, and no
\* suggestion of a descendant is lost.
THEOREM ErrorsKept == Spec => []EveryErrorIsKept
<1>1. ASSUME GradingInv PROVE EveryErrorIsKept
  <2>1. GradingTypes BY <1>1 DEF GradingInv
  <2>2. ASSUME lang = "Rust"
        PROVE  ErrorCount(Diags) =
                 Cardinality({i \in DOMAIN output : output[i].form = "json"
                                /\ output[i].reason = "compiler-message"
                                /\ output[i].message # NoMessage /\ output[i].message.level = "error"})
    BY <2>1, <2>2, DiagsFacts, ErrorsMatch
  <2>3. ASSUME NEW i \in DOMAIN Diags, NEW child \in ToSet(Diags[i].children)
        PROVE  /\ ToSet(child.suggestions) \subseteq ToSet(Diags[i].suggestions)
               /\ \A grandchild \in ToSet(child.children) :
                    ToSet(grandchild.suggestions) \subseteq ToSet(Diags[i].suggestions)
    <3>1. lang # "Go"
      <4>1. lang = "Go" => Diags[i].children = <<>> BY <2>1, <2>3, DiagsFacts
      <4>2. ToSet(<<>>) = {} BY DEF ToSet
      <4> QED BY <2>3, <4>1, <4>2
    <3> DEFINE lines == {j \in DOMAIN output : Reported(output[j])}
               made == [j \in DOMAIN output |-> ConvertRust(output[j].message)]
    <3>2. output \in Seq(RustLines) /\ Parsed(Diags, output, lines, made)
      BY <2>1, <3>1, DiagsFacts DEF GradingTypes
    <3>3. PICK j \in lines : Diags[i] = made[j]
      <4> HIDE DEF lines, made
      <4> QED BY <2>3, <3>2 DEF Parsed
    <3>4. Diags[i] = ConvertRust(output[j].message) BY <3>3
    <3> DEFINE m == output[j].message
    <3>5. m \in Messages BY <3>2, <3>3, ReportedFacts
    <3> HIDE DEF m, lines, made
    <3>6. Diags[i] = ConvertRust(m) BY <3>4 DEF m
    <3>7. child \in ToSet(ConvertRust(m).children) BY <2>3, <3>6
    <3>8. /\ ToSet(child.suggestions) \subseteq ToSet(ConvertRust(m).suggestions)
          /\ \E c \in Below(m) : child = ConvertRust(c)
      BY <3>5, <3>7, DescendantSuggestions
    <3>9. PICK c \in Below(m) : child = ConvertRust(c) BY <3>8
    <3>10. c \in Messages BY <3>5, <3>9, ChildFacts
    <3>11. \A grandchild \in ToSet(child.children) :
             ToSet(grandchild.suggestions) \subseteq ToSet(child.suggestions)
      BY <3>9, <3>10, DescendantSuggestions
    <3> QED BY <3>6, <3>8, <3>11
  <2> QED BY <2>2, <2>3 DEF EveryErrorIsKept
<1> QED BY <1>1, GradingInvariant, PTL
=============================================================================
