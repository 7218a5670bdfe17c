---------------------------- MODULE FenceProofs ----------------------------
(***************************************************************************)
(* Proofs about Fence, for every tree, path, fence and change by others.   *)
(* The path walk is a recursive function; what it computes is proved from  *)
(* its recursion by taking least counterexamples.                          *)
(***************************************************************************)
EXTENDS Fence, SequenceTheorems, WellFoundedInduction, TLAPS

---------------------------------------------------------------------------
(* Least numbers and tail recursion.                                       *)

LessPairs == {ss \in Nat \X Nat : ss[1] < ss[2]}

LEMMA LessWellFounded == IsWellFoundedOn(LessPairs, Nat)
  <1>1. OpToRel(<, Nat) = LessPairs
    BY DEF OpToRel, LessPairs
  <1> QED
    BY <1>1, NatLessThanWellFounded, Zenon

(* A nonempty set of naturals has a least element.                         *)
LEMMA LeastNatural ==
    ASSUME NEW S \in SUBSET Nat, S # {}
    PROVE  \E m \in S : \A n \in S : m <= n
  <1>1. S \subseteq Nat
    OBVIOUS
  <1>2. PICK m \in S : \A n \in S : ~(<<n, m>> \in LessPairs)
    BY <1>1, LessWellFounded, WFMin, Zenon
  <1>3. ASSUME NEW n \in S PROVE m <= n
    <2>1. m \in Nat /\ n \in Nat
      BY <1>2
    <2>2. n < m => <<n, m>> \in LessPairs
      BY <2>1 DEF LessPairs
    <2> QED
      BY <2>1, <2>2, <1>2
  <1> QED
    BY <1>2, <1>3

(* What holds of 0 and, if of n, of n + 1, holds of every number.          *)
LEMMA SetInduction ==
    ASSUME NEW S, 0 \in S, \A n \in Nat : n \in S => n + 1 \in S
    PROVE  \A n \in Nat : n \in S
  <1> DEFINE T == {n \in Nat : n \notin S}
  <1>1. ASSUME T # {} PROVE FALSE
    <2>1. T \in SUBSET Nat
      OBVIOUS
    <2> HIDE DEF T
    <2>2. PICK x \in T : \A y \in T : x <= y
      BY <2>1, <1>1, LeastNatural
    <2> USE DEF T
    <2>3. x # 0 /\ x - 1 \in Nat /\ x - 1 \notin T /\ x - 1 + 1 = x
      BY <2>2
    <2> QED
      BY <2>2, <2>3
  <1> QED
    BY <1>1

(* A part of D that a recursion does not leave, and a function on it that  *)
(* satisfies the recursion.                                                *)
Solves(g, S, D, E, succ, res) ==
    /\ S \in SUBSET D
    /\ \A d \in S \ E : succ[d] \in S
    /\ \A d \in S : g[d] = IF d \in E THEN res[d] ELSE g[succ[d]]

(* Two solutions agree where both are defined.                             *)
LEMMA SolutionsAgree ==
    ASSUME NEW D, NEW E, NEW succ, NEW res, NEW g, NEW S, NEW h, NEW T,
           \A B \in SUBSET (D \ E) : B # {} => \E d \in B : succ[d] \notin B,
           Solves(g, S, D, E, succ, res), Solves(h, T, D, E, succ, res)
    PROVE  \A d \in S \cap T : g[d] = h[d]
  <1> DEFINE B == {d \in S \cap T : g[d] # h[d]}
  <1>1. B \in SUBSET (D \ E)
    BY DEF Solves
  <1>2. ASSUME NEW d \in B PROVE succ[d] \in B
    <2>1. d \in S \ E /\ d \in T \ E
      BY <1>1, <1>2
    <2>2. g[d] = g[succ[d]] /\ h[d] = h[succ[d]]
      BY <2>1 DEF Solves
    <2>3. succ[d] \in S /\ succ[d] \in T
      BY <2>1 DEF Solves
    <2> QED
      BY <2>2, <2>3
  <1> HIDE DEF B
  <1>3. B = {}
    BY <1>1, <1>2
  <1> QED
    BY <1>3 DEF B

(* No part of D is one that succ does not leave before it reaches E.       *)
Terminates(D, E, succ) ==
    /\ \A d \in D \ E : succ[d] \in D
    /\ \A B \in SUBSET (D \ E) : B # {} => \E d \in B : succ[d] \notin B

HasSolution(D, E, succ, res) ==
    \E f : f = [d \in D |-> IF d \in E THEN res[d] ELSE f[succ[d]]]

(* A tail recursion that cannot go on for ever has a solution.             *)
LEMMA TailRecursion ==
    ASSUME NEW D, NEW E, NEW succ, NEW res, Terminates(D, E, succ)
    PROVE  HasSolution(D, E, succ, res)
  <1> USE DEF Terminates
  <1> DEFINE Sol(g, S) == Solves(g, S, D, E, succ, res)
             Has(d) == \E g, S : Sol(g, S) /\ d \in S
             F == [d \in D |-> CHOOSE v :
                                  \E g, S : Sol(g, S) /\ d \in S /\ v = g[d]]
  <1>1. ASSUME NEW d \in D, d \in E PROVE Has(d)
    <2>1. Sol([x \in {d} |-> res[x]], {d})
      BY <1>1 DEF Solves
    <2> QED
      BY <2>1
  <1>2. ASSUME NEW d \in D, d \notin E, Has(succ[d]) PROVE Has(d)
    <2>1. PICK g, S : Sol(g, S) /\ succ[d] \in S
      BY <1>2
    <2> DEFINE T == S \cup {d}
               h == [x \in T |-> IF x \in S THEN g[x] ELSE g[succ[d]]]
    <2>2. T \in SUBSET D /\ \A x \in T \ E : succ[x] \in T
      BY <2>1 DEF Solves
    <2>3. \A x \in T : h[x] = IF x \in E THEN res[x] ELSE h[succ[x]]
      <3>1. ASSUME NEW x \in S
            PROVE  h[x] = IF x \in E THEN res[x] ELSE h[succ[x]]
        <4>1. h[x] = g[x] /\ (x \notin E => h[succ[x]] = g[succ[x]])
          BY <2>1, <2>2, <3>1 DEF Solves
        <4> QED
          BY <2>1, <3>1, <4>1 DEF Solves
      <3>2. CASE d \notin S
        <4>1. h[d] = g[succ[d]] /\ h[succ[d]] = g[succ[d]]
          BY <2>1, <3>2
        <4> QED
          BY <1>2, <3>1, <4>1
      <3> QED
        BY <3>1, <3>2
    <2>4. Sol(h, T)
      BY <2>2, <2>3 DEF Solves
    <2> QED
      BY <2>4
  <1>3. \A d \in D : Has(d)
    <2> DEFINE B == {d \in D : ~Has(d)}
    <2>1. B \in SUBSET (D \ E)
      BY <1>1
    <2>2. \A d \in B : succ[d] \in B
      BY <1>2, <2>1
    <2> HIDE DEF B
    <2>3. B = {}
      BY <2>1, <2>2
    <2> QED
      BY <2>3 DEF B
  <1>4. ASSUME NEW d \in D, NEW g, NEW S, Sol(g, S), d \in S
        PROVE  F[d] = g[d]
    <2>1. \E h, T : Sol(h, T) /\ d \in T /\ F[d] = h[d]
      BY <1>4
    <2>2. PICK h, T : Sol(h, T) /\ d \in T /\ F[d] = h[d]
      BY <2>1
    <2>3. \A x \in S \cap T : g[x] = h[x]
      BY <1>4, <2>2, SolutionsAgree
    <2> QED
      BY <1>4, <2>2, <2>3
  <1>5. ASSUME NEW d \in D
        PROVE  F[d] = IF d \in E THEN res[d] ELSE F[succ[d]]
    <2>1. PICK g, S : Sol(g, S) /\ d \in S
      BY <1>3
    <2>2. F[d] = g[d]
      BY <1>4, <2>1
    <2>3. d \notin E => F[succ[d]] = g[succ[d]]
      <3>1. d \notin E => succ[d] \in S /\ succ[d] \in D
        BY <2>1 DEF Solves
      <3> QED
        BY <1>4, <2>1, <3>1
    <2> QED
      BY <2>1, <2>2, <2>3 DEF Solves
  <1>6. F = [d \in D |-> IF d \in E THEN res[d] ELSE F[succ[d]]]
    BY <1>5
  <1> QED
    BY <1>6 DEF HasSolution
---------------------------------------------------------------------------
(* The path walk as a recursion.                                           *)

Start(p, links) == [at |-> <<>>, todo |-> p, left |-> links]

WalkFcn(t) ==
    CHOOSE walk : walk = [c \in Walks |-> IF Stops(t, c) THEN Outcome(t, c)
                                          ELSE walk[Onward(t, c)]]

(* How a walk ends that has come as far as c.                              *)
WalkFrom(t, c) == WalkFcn(t)[c]

LEMMA WalkIs ==
    ASSUME NEW t, NEW p, NEW links
    PROVE  Walk(t, p, links) = WalkFrom(t, Start(p, links))
  BY DEF Walk, WalkFrom, WalkFcn, Start

CleanFcn ==
    CHOOSE cleaned : cleaned = [c \in [at: Path, todo: Text] |->
                                  IF c.todo = <<>> THEN c.at
                                  ELSE cleaned[CleanOne(c)]]

CleanFrom(at, todo) == CleanFcn[[at |-> at, todo |-> todo]]

LEMMA CleanIs ==
    ASSUME NEW p
    PROVE  Clean(p) = CleanFrom(<<>>, p)
  BY DEF Clean, CleanFrom, CleanFcn

---------------------------------------------------------------------------
(* Paths and entries.                                                      *)

(* The first n elements of a sequence.                                     *)
LEMMA PrefixFacts ==
    ASSUME NEW S, NEW p \in Seq(S), NEW n \in Nat, n <= Len(p)
    PROVE  /\ SubSeq(p, 1, n) \in Seq(S)
           /\ Len(SubSeq(p, 1, n)) = n
           /\ \A i \in 1 .. n : SubSeq(p, 1, n)[i] = p[i]
  <1>1. 1 \in Int /\ n \in Int /\ \A i \in 1 .. n : p[i] \in S
    OBVIOUS
  <1>2. /\ SubSeq(p, 1, n) \in Seq(S)
        /\ Len(SubSeq(p, 1, n)) = IF 1 <= n THEN n - 1 + 1 ELSE 0
        /\ \A i \in 1 .. n - 1 + 1 : SubSeq(p, 1, n)[i] = p[1 + i - 1]
    BY <1>1, SubSeqProperties
  <1>3. (IF 1 <= n THEN n - 1 + 1 ELSE 0) = n /\ n - 1 + 1 = n
    OBVIOUS
  <1>4. \A i \in 1 .. n : 1 + i - 1 = i
    OBVIOUS
  <1> QED
    BY <1>2, <1>3, <1>4, Zenon

LEMMA PathFacts ==
    ASSUME NEW p \in Path
    PROVE  /\ p \in Text /\ Len(p) \in Nat
           /\ Parent(p) \in Path
           /\ p # <<>> => /\ Len(p) > 0
                          /\ Front(p) \in Path /\ Len(Front(p)) = Len(p) - 1
                          /\ Last(p) \in Names
                          /\ p = Append(Front(p), Last(p))
                          /\ Parent(p) = Front(p)
  <1>1. p \in Text /\ Len(p) \in Nat
    BY DEF Path, Text
  <1>2. ASSUME p # <<>>
        PROVE  /\ Len(p) > 0
               /\ Front(p) \in Path /\ Len(Front(p)) = Len(p) - 1
               /\ Last(p) \in Names
               /\ p = Append(Front(p), Last(p))
    <2>1. Len(p) > 0 /\ Len(p) - 1 \in Nat /\ Len(p) - 1 <= Len(p)
      BY <1>1, <1>2, EmptySeq DEF Path
    <2>2. Last(p) \in Names
      BY <1>1, <2>1 DEF Path, Last
    <2>3. /\ Front(p) \in Path /\ Len(Front(p)) = Len(p) - 1
          /\ \A i \in 1 .. Len(p) - 1 : Front(p)[i] = p[i]
      BY <2>1, PrefixFacts, Zenon DEF Path, Front
    <2>4. p = Append(Front(p), Last(p))
      BY <1>1, <2>1, <2>2, <2>3 DEF Path, Last
    <2> QED
      BY <2>1, <2>2, <2>3, <2>4
  <1> QED
    BY <1>1, <1>2 DEF Parent

LEMMA AppendFacts ==
    ASSUME NEW p \in Path, NEW n \in Names
    PROVE  /\ Append(p, n) \in Path /\ Append(p, n) # <<>>
           /\ Len(Append(p, n)) = Len(p) + 1
           /\ Front(Append(p, n)) = p /\ Last(Append(p, n)) = n
  <1>1. /\ Append(p, n) \in Path /\ Append(p, n) # <<>>
        /\ Len(Append(p, n)) = Len(p) + 1
        /\ Last(Append(p, n)) = n
    BY DEF Path, Last
  <1>2. Front(Append(p, n)) = p
    BY <1>1 DEF Path, Front
  <1> QED
    BY <1>1, <1>2

LEMMA TextFacts ==
    ASSUME NEW s \in Text
    PROVE  /\ Len(s) \in Nat
           /\ s # <<>> => /\ Head(s) \in Names \cup {Up}
                          /\ Tail(s) \in Text /\ Len(Tail(s)) = Len(s) - 1
                          /\ s = <<Head(s)>> \o Tail(s)
           /\ \A u \in Text : s \o u \in Text
  BY DEF Text

LEMMA EntryFacts ==
    ASSUME NEW e \in Entry
    PROVE  /\ e = Absent \/ e = File \/ e = Dir \/ e.kind = "link"
           /\ e.kind = "link" => e.abs \in BOOLEAN /\ e.to \in LinkText
           /\ e.kind = "link" => e # Absent /\ e # File /\ e # Dir
           /\ e.kind = "absent" <=> e = Absent
  BY DEF Entry, Absent, File, Dir

LEMMA ConstantEntries ==
    /\ Absent \in Entry /\ File \in Entry /\ Dir \in Entry
    /\ Absent # File /\ Absent # Dir /\ File # Dir
    /\ Absent.kind = "absent" /\ File.kind = "file" /\ Dir.kind = "dir"
  BY DEF Entry, Absent, File, Dir

LEMMA LinkTextFacts ==
    ASSUME NEW s \in LinkText
    PROVE  /\ s \in Text
           /\ s # <<>> => Tail(s) \in LinkText
           /\ s # <<>> /\ Head(s) # Up => s \in Path
  <1>1. s \in Text /\ Len(s) \in Nat
    BY DEF LinkText, Text
  <1>2. \A i \in 2 .. Len(s) : s[i] = Up => s[i - 1] = Up
    BY DEF LinkText
  <1>3. ASSUME s # <<>> PROVE Tail(s) \in LinkText
    <2>1. Tail(s) \in Text /\ Len(Tail(s)) = Len(s) - 1
      BY <1>1, <1>3, TextFacts
    <2>2. \A i \in 1 .. Len(Tail(s)) : Tail(s)[i] = s[i + 1]
      BY <1>1, <1>3 DEF Text
    <2>3. ASSUME NEW i \in 2 .. Len(Tail(s)), Tail(s)[i] = Up
          PROVE  Tail(s)[i - 1] = Up
      <3>1. i + 1 \in 2 .. Len(s) /\ i - 1 \in 1 .. Len(Tail(s))
            /\ i \in 1 .. Len(Tail(s)) /\ i + 1 - 1 = i /\ i - 1 + 1 = i
        BY <1>1, <2>1, <2>3
      <3> QED
        BY <1>2, <2>2, <2>3, <3>1
    <2> QED
      BY <2>1, <2>3 DEF LinkText
  <1>4. ASSUME s # <<>>, Head(s) # Up PROVE s \in Path
    <2> DEFINE S == {n \in Nat : n \in 1 .. Len(s) => s[n] # Up}
    <2>1. 0 \in S
      OBVIOUS
    <2>2. ASSUME NEW n \in Nat, n \in S PROVE n + 1 \in S
      <3>1. CASE n = 0
        BY <1>1, <1>4, <3>1 DEF Text
      <3>2. CASE n # 0
        <4>1. n + 1 \in 1 .. Len(s) =>
                n \in 1 .. Len(s) /\ n + 1 \in 2 .. Len(s) /\ n + 1 - 1 = n
          BY <1>1, <3>2
        <4>2. n + 1 \in 1 .. Len(s) => s[n + 1] # Up
          BY <1>2, <2>2, <4>1
        <4> QED
          BY <4>2
      <3> QED
        BY <3>1, <3>2
    <2> HIDE DEF S
    <2>3. \A n \in Nat : n \in S
      BY <2>1, <2>2, SetInduction
    <2> USE DEF S
    <2>4. \A n \in 1 .. Len(s) : s[n] \in Names
      BY <1>1, <2>3 DEF Text
    <2> QED
      BY <1>1, <2>4 DEF Path, Text
  <1> QED
    BY <1>1, <1>3, <1>4

(* What the file system may be: every place has an entry, below            *)
(* directories.                                                            *)
FileTrees == {t \in [Places -> Entry] : IsTree(t)}

LEMMA TreeFacts ==
    ASSUME NEW t \in FileTrees, NEW p \in Path
    PROVE  /\ At(t, p) \in Entry
           /\ At(t, p) # Absent => p \in Places /\ t[p] = At(t, p)
           /\ At(t, p) # Absent /\ p # <<>> => At(t, Front(p)) = Dir
           /\ At(t, <<>>) = Dir
  <1>1. <<>> \in Places /\ Places \subseteq Path /\ t \in [Places -> Entry]
    BY FenceAssumption DEF FileTrees
  <1>2. At(t, p) \in Entry /\ (At(t, p) # Absent => p \in Places /\ t[p] = At(t, p))
    BY <1>1, ConstantEntries DEF At
  <1>3. At(t, <<>>) = Dir
    BY <1>1 DEF At, FileTrees, IsTree
  <1>4. ASSUME At(t, p) # Absent, p # <<>> PROVE At(t, Front(p)) = Dir
    BY <1>2, <1>4, FenceAssumption DEF At, FileTrees, IsTree
  <1> QED
    BY <1>2, <1>3, <1>4

---------------------------------------------------------------------------
(* The recursion of the walk.                                              *)

LEMMA WalksFacts ==
    ASSUME NEW c \in Walks
    PROVE  /\ c.at \in Path /\ c.todo \in Text
           /\ c.left \in Nat
           /\ Len(c.todo) \in Nat
           /\ c = [at |-> c.at, todo |-> c.todo, left |-> c.left]
           /\ c.todo # <<>> /\ Head(c.todo) # Up =>
                 Head(c.todo) \in Names /\ Ahead(c) \in Path
  <1>1. /\ c.at \in Path /\ c.todo \in Text
        /\ c.left \in Nat
        /\ c = [at |-> c.at, todo |-> c.todo, left |-> c.left]
    BY DEF Walks
  <1>2. /\ Len(c.todo) \in Nat
        /\ c.todo # <<>> => Head(c.todo) \in Names \cup {Up}
    BY <1>1, TextFacts
  <1>3. c.todo # <<>> /\ Head(c.todo) # Up =>
           Head(c.todo) \in Names /\ Ahead(c) \in Path
    BY <1>1, <1>2, AppendFacts DEF Ahead
  <1> QED
    BY <1>1, <1>2, <1>3

LEMMA IsWalk ==
    ASSUME NEW at \in Path, NEW todo \in Text, NEW left \in Nat
    PROVE  [at |-> at, todo |-> todo, left |-> left] \in Walks
  BY DEF Walks

(* A step uses up a name or a link.                                        *)
LEMMA OnwardFacts ==
    ASSUME NEW t \in FileTrees, NEW c \in Walks, ~Stops(t, c)
    PROVE  /\ Onward(t, c) \in Walks
           /\ \/ /\ Onward(t, c).left = c.left
                 /\ Len(Onward(t, c).todo) < Len(c.todo)
              \/ Onward(t, c).left < c.left
  <1>1. /\ c.todo # <<>> /\ Head(c.todo) \in Names \cup {Up}
        /\ Tail(c.todo) \in Text /\ Len(Tail(c.todo)) = Len(c.todo) - 1
        /\ Len(c.todo) \in Nat
    BY WalksFacts, TextFacts DEF Stops
  <1>2. CASE Head(c.todo) = Up
    <2>1. Onward(t, c) = [at |-> Parent(c.at), todo |-> Tail(c.todo),
                          left |-> c.left]
      BY <1>2 DEF Onward
    <2>2. Parent(c.at) \in Path
      BY WalksFacts, PathFacts
    <2> QED
      BY <1>1, <2>1, <2>2, WalksFacts DEF Walks
  <1>3. CASE Head(c.todo) # Up /\ At(t, Ahead(c)).kind # "link"
    <2>1. Onward(t, c) = [at |-> Ahead(c), todo |-> Tail(c.todo),
                          left |-> c.left]
      BY <1>3 DEF Onward
    <2>2. Ahead(c) \in Path
      BY <1>1, <1>3, WalksFacts
    <2> QED
      BY <1>1, <2>1, <2>2, WalksFacts DEF Walks
  <1>4. CASE Head(c.todo) # Up /\ At(t, Ahead(c)).kind = "link"
    <2> DEFINE e == At(t, Ahead(c))
    <2>1. Onward(t, c) = [at |-> IF e.abs THEN <<>> ELSE c.at,
                          todo |-> e.to \o Tail(c.todo), left |-> c.left - 1]
      BY <1>4 DEF Onward
    <2>2. c.left # 0
      BY <1>4 DEF Stops
    <2>3. c.left - 1 \in Nat /\ c.left - 1 < c.left
      BY <2>2, WalksFacts
    <2>4. e \in Entry
      BY <1>1, <1>4, WalksFacts, TreeFacts
    <2>5. e.to \in Text
      BY <1>4, <2>4, EntryFacts, LinkTextFacts
    <2>6. e.to \o Tail(c.todo) \in Text
      BY <1>1, <2>5, TextFacts
    <2>7. (IF e.abs THEN <<>> ELSE c.at) \in Path
      BY WalksFacts DEF Path
    <2> HIDE DEF e
    <2>8. Onward(t, c) \in Walks
      BY <2>1, <2>3, <2>6, <2>7, IsWalk
    <2>9. Onward(t, c).left < c.left
      BY <2>1, <2>3
    <2> QED
      BY <2>8, <2>9
  <1> QED
    BY <1>2, <1>3, <1>4

(* A walk cannot go on for ever: the least of the walks that do would.     *)
LEMMA WalkEnds ==
    ASSUME NEW t \in FileTrees, NEW B \in SUBSET Walks, B # {}
    PROVE  \E c \in B : Stops(t, c) \/ Onward(t, c) \notin B
  <1> SUFFICES ASSUME \A c \in B : ~Stops(t, c) /\ Onward(t, c) \in B
               PROVE  FALSE
    OBVIOUS
  <1> DEFINE L == {c.left : c \in B}
  <1>1. L \in SUBSET Nat /\ L # {}
    BY WalksFacts
  <1>2. PICK l \in L : \A n \in L : l <= n
    <2> HIDE DEF L
    <2> QED
      BY <1>1, LeastNatural
  <1> DEFINE T == {Len(c.todo) : c \in {d \in B : d.left = l}}
  <1>3. T \in SUBSET Nat /\ T # {}
    BY WalksFacts
  <1>4. PICK m \in T : \A n \in T : m <= n
    <2> HIDE DEF T
    <2> QED
      BY <1>3, LeastNatural
  <1>5. PICK c \in B : c.left = l /\ Len(c.todo) = m
    OBVIOUS
  <1>6. Onward(t, c) \in B /\ Onward(t, c) \in Walks /\ c \in Walks
    OBVIOUS
  <1>7. Onward(t, c).left \in L
    BY <1>6
  <1>8. Onward(t, c).left = l => Len(Onward(t, c).todo) \in T
    BY <1>6
  <1>9. /\ l \in Nat /\ m \in Nat
        /\ Onward(t, c).left \in Nat /\ Len(Onward(t, c).todo) \in Nat
    BY <1>1, <1>3, <1>6, WalksFacts
  <1>10. l <= Onward(t, c).left
    BY <1>2, <1>7
  <1>11. Onward(t, c).left = l => m <= Len(Onward(t, c).todo)
    BY <1>4, <1>8
  <1>12. \/ Onward(t, c).left = l /\ Len(Onward(t, c).todo) < m
         \/ Onward(t, c).left < l
    BY <1>5, <1>6, OnwardFacts
  <1> QED
    BY <1>9, <1>10, <1>11, <1>12

LEMMA WalkUnfolds ==
    ASSUME NEW t \in FileTrees
    PROVE  \A c \in Walks : WalkFrom(t, c) = IF Stops(t, c) THEN Outcome(t, c)
                                            ELSE WalkFrom(t, Onward(t, c))
  <1> DEFINE E == {c \in Walks : Stops(t, c)}
             succ == [c \in Walks |-> Onward(t, c)]
             res == [c \in Walks |-> Outcome(t, c)]
  <1>1. \A c \in Walks \ E : succ[c] \in Walks
    BY OnwardFacts
  <1>2. ASSUME NEW B \in SUBSET (Walks \ E), B # {}
        PROVE  \E c \in B : succ[c] \notin B
    <2>1. B \in SUBSET Walks
      OBVIOUS
    <2>2. PICK c \in B : Stops(t, c) \/ Onward(t, c) \notin B
      BY <1>2, <2>1, WalkEnds
    <2>3. ~Stops(t, c) /\ succ[c] = Onward(t, c)
      OBVIOUS
    <2> QED
      BY <2>2, <2>3
  <1>3. Terminates(Walks, E, succ)
    <2> HIDE DEF E, succ
    <2> QED
      BY <1>1, <1>2 DEF Terminates
  <1> HIDE DEF E, succ, res
  <1>4. HasSolution(Walks, E, succ, res)
    BY <1>3, TailRecursion
  <1>5. PICK f : f = [c \in Walks |-> IF c \in E THEN res[c] ELSE f[succ[c]]]
    BY <1>4 DEF HasSolution
  <1>6. f = [c \in Walks |-> IF Stops(t, c) THEN Outcome(t, c)
                            ELSE f[Onward(t, c)]]
    <2>1. \A c \in Walks : (IF c \in E THEN res[c] ELSE f[succ[c]]) =
             IF Stops(t, c) THEN Outcome(t, c) ELSE f[Onward(t, c)]
      BY DEF E, succ, res
    <2> QED
      BY <1>5, <2>1, Zenon
  <1>7. WalkFcn(t) = [c \in Walks |-> IF Stops(t, c) THEN Outcome(t, c)
                                     ELSE WalkFcn(t)[Onward(t, c)]]
    BY <1>6, Zenon DEF WalkFcn
  <1> QED
    BY <1>7, Zenon DEF WalkFrom

---------------------------------------------------------------------------
(* Clean.                                                                  *)

(* Texts cannot be shortened for ever.                                     *)
LEMMA TextEnds ==
    ASSUME NEW B \in SUBSET Text, B # {}
    PROVE  \E s \in B : s = <<>> \/ Tail(s) \notin B
  <1> SUFFICES ASSUME \A s \in B : s # <<>> /\ Tail(s) \in B
               PROVE  FALSE
    OBVIOUS
  <1> DEFINE L == {Len(s) : s \in B}
  <1>1. L \in SUBSET Nat /\ L # {}
    BY TextFacts
  <1>2. PICK m \in L : \A n \in L : m <= n
    <2> HIDE DEF L
    <2> QED
      BY <1>1, LeastNatural
  <1>3. PICK s \in B : Len(s) = m
    OBVIOUS
  <1>4. Len(Tail(s)) \in L /\ Len(Tail(s)) = Len(s) - 1 /\ Len(s) \in Nat
    BY TextFacts
  <1> QED
    BY <1>2, <1>3, <1>4

LEMMA HeadFacts ==
    ASSUME NEW d \in Path, d # <<>>, NEW at \in Path
    PROVE  /\ d \in Text /\ Head(d) \in Names /\ Head(d) # Up
           /\ Tail(d) \in Path
           /\ Append(at, Head(d)) \in Path
           /\ Append(at, Head(d)) \o Tail(d) = at \o d
           /\ at \o d \in Path
  <1>1. /\ d \in Text /\ Head(d) \in Names /\ Head(d) # Up
        /\ Tail(d) \in Path
    BY PathFacts, HeadTailProperties, FenceAssumption DEF Path
  <1>2. /\ Append(at, Head(d)) \in Path
        /\ Append(at, Head(d)) \o Tail(d) = at \o d
        /\ at \o d \in Path
    BY <1>1, EmptySeq DEF Path
  <1> QED
    BY <1>1, <1>2

LEMMA ConcatFacts ==
    ASSUME NEW d \in Text, d # <<>>, NEW s \in Text
    PROVE  /\ d \o s \in Text /\ d \o s # <<>>
           /\ Head(d \o s) = Head(d)
           /\ Tail(d \o s) = Tail(d) \o s
           /\ Tail(d) = <<>> => Tail(d \o s) = s
  <1>1. /\ d \o s \in Text /\ d \o s # <<>> /\ Head(d \o s) = Head(d)
    BY EmptySeq DEF Text
  <1>2. Tail(d \o s) = Tail(d) \o s
    BY EmptySeq DEF Text
  <1>3. Tail(d) = <<>> => Tail(d \o s) = s
    BY <1>2, ConcatEmptySeq DEF Text
  <1> QED
    BY <1>1, <1>2, <1>3

CleanNext(at, n) == IF n = Up THEN Parent(at) ELSE Append(at, n)

LEMMA CleanNextTypes ==
    ASSUME NEW at \in Path, NEW todo \in Text, todo # <<>>
    PROVE  CleanNext(at, Head(todo)) \in Path
  BY TextFacts, PathFacts, AppendFacts DEF CleanNext

LEMMA CleanUnfolds ==
    ASSUME NEW at \in Path, NEW todo \in Text
    PROVE  /\ todo = <<>> => CleanFrom(at, todo) = at
           /\ todo # <<>> => CleanFrom(at, todo) =
                                CleanFrom(CleanNext(at, Head(todo)), Tail(todo))
  <1> DEFINE D == [at: Path, todo: Text]
             E == {c \in D : c.todo = <<>>}
             succ == [c \in D |-> CleanOne(c)]
             res == [c \in D |-> c.at]
  <1>1. ASSUME NEW c \in D \ E
        PROVE  /\ CleanOne(c) = [at |-> CleanNext(c.at, Head(c.todo)),
                                 todo |-> Tail(c.todo)]
               /\ CleanOne(c) \in D
    <2>1. c.at \in Path /\ c.todo \in Text /\ c.todo # <<>>
      OBVIOUS
    <2>2. CleanOne(c) = [at |-> CleanNext(c.at, Head(c.todo)),
                         todo |-> Tail(c.todo)]
      BY DEF CleanOne, CleanNext
    <2>3. CleanNext(c.at, Head(c.todo)) \in Path /\ Tail(c.todo) \in Text
      BY <2>1, CleanNextTypes, TextFacts
    <2> QED
      BY <2>2, <2>3
  <1>2. ASSUME NEW B \in SUBSET (D \ E), B # {}
        PROVE  \E c \in B : succ[c] \notin B
    <2> DEFINE T == {c.todo : c \in B}
    <2>1. T \in SUBSET Text /\ T # {}
      BY <1>2
    <2>2. PICK s \in T : s = <<>> \/ Tail(s) \notin T
      <3> HIDE DEF T
      <3> QED
        BY <2>1, TextEnds
    <2>3. PICK c \in B : c.todo = s
      OBVIOUS
    <2>4. c \in D \ E /\ s # <<>> /\ succ[c].todo = Tail(s)
      BY <1>1, <2>3
    <2> QED
      BY <2>2, <2>4
  <1>3. Terminates(D, E, succ)
    <2>1. \A c \in D \ E : succ[c] \in D
      BY <1>1
    <2> HIDE DEF D, E, succ
    <2> QED
      BY <1>2, <2>1 DEF Terminates
  <1> HIDE DEF E, succ, res
  <1>4. HasSolution(D, E, succ, res)
    BY <1>3, TailRecursion
  <1>5. PICK f : f = [c \in D |-> IF c \in E THEN res[c] ELSE f[succ[c]]]
    BY <1>4 DEF HasSolution
  <1>6. f = [c \in D |-> IF c.todo = <<>> THEN c.at ELSE f[CleanOne(c)]]
    <2>1. \A c \in D : (IF c \in E THEN res[c] ELSE f[succ[c]]) =
             IF c.todo = <<>> THEN c.at ELSE f[CleanOne(c)]
      BY DEF E, succ, res
    <2> QED
      BY <1>5, <2>1, Zenon
  <1>7. CleanFcn = [c \in D |-> IF c.todo = <<>> THEN c.at
                                ELSE CleanFcn[CleanOne(c)]]
    BY <1>6, Zenon DEF CleanFcn
  <1> DEFINE c == [at |-> at, todo |-> todo]
  <1>8. c \in D /\ c.at = at /\ c.todo = todo
    OBVIOUS
  <1>9. CleanFcn[c] = IF c.todo = <<>> THEN c.at ELSE CleanFcn[CleanOne(c)]
    <2> HIDE DEF c, D
    <2> QED
      BY <1>7, <1>8, Zenon
  <1>10. todo # <<>> =>
            CleanOne(c) = [at |-> CleanNext(at, Head(todo)), todo |-> Tail(todo)]
    BY <1>1, <1>8 DEF E
  <1> QED
    BY <1>8, <1>9, <1>10 DEF CleanFrom

LEMMA CleanTyped ==
    \A todo \in Text : \A at \in Path : CleanFrom(at, todo) \in Path
  <1> DEFINE B == {s \in Text : \E at \in Path : CleanFrom(at, s) \notin Path}
  <1>1. ASSUME NEW s \in B, s = <<>> \/ Tail(s) \notin B PROVE FALSE
    <2>1. PICK at \in Path : CleanFrom(at, s) \notin Path
      OBVIOUS
    <2>2. s # <<>>
      BY <2>1, CleanUnfolds
    <2>3. Tail(s) \in Text /\ CleanNext(at, Head(s)) \in Path
      BY <2>2, TextFacts, CleanNextTypes
    <2>4. CleanFrom(CleanNext(at, Head(s)), Tail(s)) \in Path
      BY <1>1, <2>2, <2>3
    <2> QED
      BY <2>1, <2>2, <2>4, CleanUnfolds
  <1>2. B \in SUBSET Text
    OBVIOUS
  <1>3. B = {}
    <2> HIDE DEF B
    <2> QED
      BY <1>1, <1>2, TextEnds
  <1> QED
    BY <1>3

(* Names are kept as they are.                                             *)
LEMMA CleanKeepsNames ==
    \A d \in Path : \A at \in Path, s \in Text :
        /\ at \o d \in Path
        /\ CleanFrom(at, d \o s) = CleanFrom(at \o d, s)
  <1> DEFINE Good(d) == \A at \in Path, s \in Text :
                           /\ at \o d \in Path
                           /\ CleanFrom(at, d \o s) = CleanFrom(at \o d, s)
             B == {d \in Path : ~Good(d)}
  <1>1. ASSUME NEW d \in Path, d = <<>> PROVE Good(d)
    BY <1>1, ConcatEmptySeq DEF Path, Text
  <1>2. ASSUME NEW d \in Path, d # <<>>, Good(Tail(d)) PROVE Good(d)
    <2> SUFFICES ASSUME NEW at \in Path, NEW s \in Text
                 PROVE  /\ at \o d \in Path
                        /\ CleanFrom(at, d \o s) = CleanFrom(at \o d, s)
      OBVIOUS
    <2>1. /\ d \in Text /\ Head(d) \in Names /\ Head(d) # Up
          /\ Tail(d) \in Path
      BY <1>2, HeadFacts
    <2>2. /\ Append(at, Head(d)) \in Path
          /\ Append(at, Head(d)) \o Tail(d) = at \o d
          /\ at \o d \in Path
      BY <1>2, HeadFacts
    <2>3. /\ d \o s \in Text /\ d \o s # <<>>
          /\ Head(d \o s) = Head(d) /\ Tail(d \o s) = Tail(d) \o s
      BY <1>2, <2>1, ConcatFacts
    <2>4. CleanFrom(at, d \o s) =
             CleanFrom(Append(at, Head(d)), Tail(d) \o s)
      <3>1. CleanFrom(at, d \o s) =
               CleanFrom(CleanNext(at, Head(d \o s)), Tail(d \o s))
        BY <2>3, CleanUnfolds
      <3>2. CleanNext(at, Head(d \o s)) = Append(at, Head(d))
        BY <2>1, <2>3, Zenon DEF CleanNext
      <3> QED
        BY <2>3, <3>1, <3>2
    <2>5. CleanFrom(Append(at, Head(d)), Tail(d) \o s) =
             CleanFrom(Append(at, Head(d)) \o Tail(d), s)
      BY <1>2, <2>2
    <2> QED
      BY <2>2, <2>4, <2>5
  <1>3. ASSUME NEW d \in B, d = <<>> \/ Tail(d) \notin B PROVE FALSE
    <2>1. d # <<>> => Tail(d) \in Path
      BY HeadTailProperties DEF Path
    <2> QED
      BY <1>1, <1>2, <1>3, <2>1
  <1>4. B \in SUBSET Text
    BY PathFacts
  <1>5. B = {}
    <2> HIDE DEF B
    <2> QED
      BY <1>3, <1>4, TextEnds
  <1> QED
    BY <1>5

---------------------------------------------------------------------------
(* Where walks lead.                                                       *)

Stands(t, p) == At(t, p) = File \/ At(t, p) = Dir

(* The three kinds of step.                                                *)
GoesUp(t, c) ==
    /\ Head(c.todo) = Up
    /\ Onward(t, c) = [at |-> Parent(c.at), todo |-> Tail(c.todo),
                       left |-> c.left]

GoesOn(t, c) ==
    /\ Head(c.todo) # Up /\ Stands(t, Ahead(c))
    /\ Onward(t, c) = [at |-> Ahead(c), todo |-> Tail(c.todo), left |-> c.left]

FollowsLink(t, c) ==
    LET e == At(t, Ahead(c)) IN
    /\ Head(c.todo) # Up /\ c.left > 0
    /\ e.kind = "link" /\ e.abs \in BOOLEAN /\ e.to \in LinkText
    /\ Onward(t, c) = [at |-> IF e.abs THEN <<>> ELSE c.at,
                       todo |-> e.to \o Tail(c.todo), left |-> c.left - 1]

LEMMA OnwardCases ==
    ASSUME NEW t \in FileTrees, NEW c \in Walks, ~Stops(t, c)
    PROVE  /\ c.todo # <<>> /\ At(t, c.at) = Dir
           /\ GoesUp(t, c) \/ GoesOn(t, c) \/ FollowsLink(t, c)
  <1> DEFINE e == At(t, Ahead(c))
  <1>1. c.todo # <<>> /\ At(t, c.at) = Dir
    BY DEF Stops
  <1>2. CASE Head(c.todo) = Up
    BY <1>1, <1>2 DEF Onward, GoesUp
  <1>3. CASE Head(c.todo) # Up
    <2>1. e \in Entry
      BY <1>1, <1>3, WalksFacts, TreeFacts
    <2>2. e # Absent /\ (e.kind = "link" => c.left # 0)
      BY <1>3 DEF Stops
    <2>3. c.left \in Nat
      BY WalksFacts
    <2>4. CASE e.kind = "link"
      BY <1>1, <1>3, <2>1, <2>2, <2>3, <2>4, EntryFacts DEF Onward, FollowsLink
    <2>5. CASE e.kind # "link"
      <3>1. Stands(t, Ahead(c))
        BY <2>1, <2>2, <2>5, EntryFacts DEF Stands
      <3> QED
        BY <1>1, <1>3, <2>5, <3>1 DEF Onward, GoesOn
    <2> QED
      BY <2>4, <2>5
  <1> QED
    BY <1>2, <1>3

LEMMA ParentIsDir ==
    ASSUME NEW t \in FileTrees, NEW p \in Path, At(t, p) = Dir
    PROVE  At(t, Parent(p)) = Dir
  BY ConstantEntries, TreeFacts DEF Parent

(* What a walk may end with.                                               *)
Sound(t, r) ==
    /\ r \in [st: {"found", "missing", "loop", "error"}, at: Path]
    /\ r.st = "found" => Stands(t, r.at)
    /\ r.st = "missing" => /\ r.at \in Places /\ r.at # <<>>
                           /\ At(t, r.at) = Absent /\ At(t, Front(r.at)) = Dir

LEMMA StopIsSound ==
    ASSUME NEW t \in FileTrees, NEW c \in Walks, Stops(t, c), Stands(t, c.at)
    PROVE  Sound(t, Outcome(t, c))
  <1>1. CASE c.todo = <<>>
    <2>1. Outcome(t, c) = [st |-> "found", at |-> c.at]
      BY <1>1 DEF Outcome, Result
    <2> QED
      BY <2>1, WalksFacts DEF Sound
  <1> DEFINE links == /\ At(t, c.at) = Dir /\ Head(c.todo) # Up
                      /\ At(t, Ahead(c)).kind = "link"
             missing == /\ At(t, c.at) = Dir /\ Head(c.todo) # Up
                        /\ Tail(c.todo) = <<>>
                        /\ Ahead(c) \in Places /\ At(t, Ahead(c)) = Absent
  <1>2. CASE c.todo # <<>> /\ missing
    <2>1. Outcome(t, c) = [st |-> "missing", at |-> Ahead(c)]
      BY <1>2, ConstantEntries DEF Outcome, Result
    <2>2. Head(c.todo) \in Names /\ Ahead(c) \in Path /\ c.at \in Path
      BY <1>2, WalksFacts
    <2>3. Ahead(c) # <<>> /\ Front(Ahead(c)) = c.at
      BY <2>2, AppendFacts DEF Ahead
    <2> QED
      BY <1>2, <2>1, <2>2, <2>3 DEF Sound
  <1>3. CASE c.todo # <<>> /\ links
    <2>1. Outcome(t, c) = [st |-> "loop", at |-> c.at]
      BY <1>3 DEF Outcome, Result
    <2> QED
      BY <2>1, WalksFacts DEF Sound
  <1>4. CASE c.todo # <<>> /\ ~missing /\ ~links
    <2>1. Outcome(t, c) = [st |-> "error", at |-> c.at]
      BY <1>4 DEF Outcome, Result
    <2> QED
      BY <2>1, WalksFacts DEF Sound
  <1> QED
    BY <1>1, <1>2, <1>3, <1>4

LEMMA OnwardStands ==
    ASSUME NEW t \in FileTrees, NEW c \in Walks, ~Stops(t, c)
    PROVE  Stands(t, Onward(t, c).at)
  <1>1. c.at \in Path /\ At(t, c.at) = Dir /\ At(t, <<>>) = Dir
    BY WalksFacts, OnwardCases, TreeFacts
  <1>2. At(t, Parent(c.at)) = Dir
    BY <1>1, ParentIsDir
  <1>3. GoesUp(t, c) \/ GoesOn(t, c) \/ FollowsLink(t, c)
    BY OnwardCases
  <1>4. \/ Onward(t, c).at \in {Parent(c.at), <<>>, c.at}
        \/ Onward(t, c).at = Ahead(c) /\ Stands(t, Ahead(c))
    <2>1. CASE GoesUp(t, c)
      BY <2>1 DEF GoesUp
    <2>2. CASE GoesOn(t, c)
      BY <2>2 DEF GoesOn
    <2>3. CASE FollowsLink(t, c)
      <3> DEFINE place == IF At(t, Ahead(c)).abs THEN <<>> ELSE c.at
      <3>1. Onward(t, c).at = place
        BY <2>3 DEF FollowsLink
      <3>2. place \in {<<>>, c.at}
        OBVIOUS
      <3> QED
        BY <3>1, <3>2
    <2> QED
      BY <1>3, <2>1, <2>2, <2>3
  <1> QED
    BY <1>1, <1>2, <1>4 DEF Stands

(* A walk that starts at a file or a directory ends at one, or before a    *)
(* name that can be created in a directory, or in an error.                *)
LEMMA WalkSound ==
    ASSUME NEW t \in FileTrees
    PROVE  \A c \in Walks : Stands(t, c.at) => Sound(t, WalkFrom(t, c))
  <1> DEFINE B == {c \in Walks : ~(Stands(t, c.at) => Sound(t, WalkFrom(t, c)))}
  <1>1. ASSUME NEW c \in B, Stops(t, c) \/ Onward(t, c) \notin B PROVE FALSE
    <2>1. c \in Walks /\ Stands(t, c.at) /\ ~Sound(t, WalkFrom(t, c))
      OBVIOUS
    <2>2. CASE Stops(t, c)
      BY <2>1, <2>2, WalkUnfolds, StopIsSound
    <2>3. CASE ~Stops(t, c)
      <3>1. Onward(t, c) \in Walks /\ Stands(t, Onward(t, c).at)
        BY <2>1, <2>3, OnwardFacts, OnwardStands
      <3>2. Sound(t, WalkFrom(t, Onward(t, c)))
        BY <1>1, <2>3, <3>1
      <3> QED
        BY <2>1, <2>3, <3>2, WalkUnfolds
    <2> QED
      BY <2>2, <2>3
  <1>2. B \in SUBSET Walks
    OBVIOUS
  <1>3. B = {}
    <2> HIDE DEF B
    <2> QED
      BY <1>1, <1>2, WalkEnds
  <1> QED
    BY <1>3

LEMMA StartIsWalk ==
    ASSUME NEW p \in Text, NEW links \in Nat
    PROVE  Start(p, links) \in Walks
  <1>1. <<>> \in Path
    BY DEF Path
  <1> QED
    BY <1>1, IsWalk DEF Start

LEMMA WalkResult ==
    ASSUME NEW t \in FileTrees, NEW p \in Text, NEW links \in Nat
    PROVE  Sound(t, Walk(t, p, links))
  <1>1. Start(p, links) \in Walks
    BY StartIsWalk
  <1>2. Stands(t, Start(p, links).at)
    <2>1. <<>> \in Path
      BY DEF Path
    <2>2. At(t, <<>>) = Dir
      BY <2>1, TreeFacts
    <2> QED
      BY <2>2 DEF Stands, Start
  <1> QED
    BY <1>1, <1>2, WalkIs, WalkSound

(* What has something below it is a directory.                             *)
LEMMA AboveIsDir ==
    ASSUME NEW t \in FileTrees
    PROVE  \A e \in Path : \A q \in Path :
              e # <<>> /\ At(t, q \o e) # Absent => At(t, q) = Dir
  <1> DEFINE Good(e) == \A q \in Path :
                           e # <<>> /\ At(t, q \o e) # Absent => At(t, q) = Dir
             B == {e \in Path : ~Good(e)}
  <1>1. ASSUME NEW e \in Path, e # <<>>, Tail(e) = <<>> \/ Good(Tail(e))
        PROVE  Good(e)
    <2> SUFFICES ASSUME NEW q \in Path, At(t, q \o e) # Absent
                 PROVE  At(t, q) = Dir
      OBVIOUS
    <2>1. /\ Head(e) \in Names /\ Tail(e) \in Path
          /\ q \o e = Append(q, Head(e)) \o Tail(e)
      BY <1>1, EmptySeq DEF Path
    <2>2. /\ Append(q, Head(e)) \in Path /\ Append(q, Head(e)) # <<>>
          /\ Front(Append(q, Head(e))) = q
      BY <2>1, AppendFacts
    <2>3. At(t, Append(q, Head(e))) # Absent
      <3>1. CASE Tail(e) = <<>>
        <4>1. q \o e = Append(q, Head(e))
          BY <2>1, <2>2, <3>1, ConcatEmptySeq DEF Path
        <4> QED
          BY <4>1
      <3>2. CASE Tail(e) # <<>>
        BY <1>1, <2>1, <2>2, <3>2, ConstantEntries
      <3> QED
        BY <3>1, <3>2
    <2> QED
      BY <2>2, <2>3, TreeFacts
  <1>2. ASSUME NEW e \in B, e = <<>> \/ Tail(e) \notin B PROVE FALSE
    <2>1. e \in Path /\ e # <<>>
      OBVIOUS
    <2>2. Tail(e) \in Path
      BY <2>1, HeadTailProperties DEF Path
    <2> QED
      BY <1>1, <1>2, <2>1, <2>2
  <1>3. B \in SUBSET Text
    BY PathFacts
  <1>4. B = {}
    <2> HIDE DEF B
    <2> QED
      BY <1>2, <1>3, TextEnds
  <1> QED
    BY <1>4

(* A walk comes without following links to what stands under a path of     *)
(* its own name.                                                           *)
Straight(t, at, d, s, l) ==
    Stands(t, at \o d) =>
        /\ at \o d \in Path
        /\ WalkFrom(t, [at |-> at, todo |-> d \o s, left |-> l]) =
             WalkFrom(t, [at |-> at \o d, todo |-> s, left |-> l])

LEMMA WalkStraight ==
    ASSUME NEW t \in FileTrees, NEW s \in Text, NEW l \in Nat
    PROVE  \A d \in Path : \A at \in Path : Straight(t, at, d, s, l)
  <1> DEFINE Same(at, d) ==
               WalkFrom(t, [at |-> at, todo |-> d \o s, left |-> l]) =
                 WalkFrom(t, [at |-> at \o d, todo |-> s, left |-> l])
             Good(d) == \A at \in Path :
                           Stands(t, at \o d) => at \o d \in Path /\ Same(at, d)
             B == {d \in Path : ~Good(d)}
  <1>1. ASSUME NEW d \in Path, d = <<>> PROVE Good(d)
    <2>1. \A at \in Path : at \o d = at
      BY <1>1, ConcatEmptySeq DEF Path
    <2>2. d \o s = s
      BY <1>1, ConcatEmptySeq DEF Text
    <2> QED
      BY <2>1, <2>2
  <1>2. ASSUME NEW d \in Path, d # <<>>, Good(Tail(d)) PROVE Good(d)
    <2> SUFFICES ASSUME NEW at \in Path, Stands(t, at \o d)
                 PROVE  at \o d \in Path /\ Same(at, d)
      OBVIOUS
    <2> DEFINE n == Head(d)
               c == [at |-> at, todo |-> d \o s, left |-> l]
               next == Append(at, n)
    <2>1. /\ d \in Text /\ n \in Names /\ n # Up /\ Tail(d) \in Path
          /\ next \in Path /\ next \o Tail(d) = at \o d /\ at \o d \in Path
      BY <1>2, HeadFacts
    <2>2. /\ d \o s \in Text /\ d \o s # <<>>
          /\ Head(d \o s) = n /\ Tail(d \o s) = Tail(d) \o s
      BY <1>2, <2>1, ConcatFacts
    <2>3. At(t, at \o d) # Absent
      BY ConstantEntries DEF Stands
    <2>4. At(t, at) = Dir
      BY <1>2, <2>1, <2>3, AboveIsDir
    <2>5. Stands(t, next)
      <3>1. CASE Tail(d) = <<>>
        <4>1. next \o Tail(d) = next
          BY <2>1, <3>1, ConcatEmptySeq DEF Path
        <4> QED
          BY <2>1, <4>1
      <3>2. CASE Tail(d) # <<>>
        BY <2>1, <2>3, <3>2, AboveIsDir DEF Stands
      <3> QED
        BY <3>1, <3>2
    <2>6. c \in Walks /\ Ahead(c) = next
      BY <2>2, IsWalk DEF Ahead
    <2>7. ~Stops(t, c)
      BY <2>2, <2>4, <2>5, <2>6, ConstantEntries DEF Stops, Stands
    <2>8. Onward(t, c) = [at |-> next, todo |-> Tail(d) \o s, left |-> l]
      BY <2>1, <2>2, <2>5, <2>6, ConstantEntries DEF Onward, Stands
    <2>9. WalkFrom(t, c) = WalkFrom(t, Onward(t, c))
      BY <2>6, <2>7, WalkUnfolds
    <2>10. Same(next, Tail(d))
      BY <1>2, <2>1
    <2> QED
      BY <2>1, <2>8, <2>9, <2>10
  <1>3. ASSUME NEW d \in B, d = <<>> \/ Tail(d) \notin B PROVE FALSE
    <2>1. d # <<>> => Tail(d) \in Path
      BY HeadTailProperties DEF Path
    <2> QED
      BY <1>1, <1>2, <1>3, <2>1
  <1>4. B \in SUBSET Text
    BY PathFacts
  <1>5. B = {}
    <2> HIDE DEF B
    <2> QED
      BY <1>3, <1>4, TextEnds
  <1> QED
    BY <1>5 DEF Straight

(* The same path from the root.                                            *)
LEMMA WalkFromRoot ==
    ASSUME NEW t \in FileTrees, NEW p \in Path, Stands(t, p), NEW s \in Text,
           NEW l \in Nat
    PROVE  WalkFrom(t, [at |-> <<>>, todo |-> p \o s, left |-> l]) =
             WalkFrom(t, [at |-> p, todo |-> s, left |-> l])
  <1>1. <<>> \in Path /\ <<>> \o p = p
    BY ConcatEmptySeq DEF Path
  <1>2. Straight(t, <<>>, p, s, l)
    BY <1>1, WalkStraight
  <1> QED
    BY <1>1, <1>2 DEF Straight

LEMMA WalkAtEnd ==
    ASSUME NEW t \in FileTrees, NEW p \in Path, NEW l \in Nat
    PROVE  WalkFrom(t, [at |-> p, todo |-> <<>>, left |-> l]) =
             Result("found", p)
  <1> DEFINE c == [at |-> p, todo |-> <<>>, left |-> l]
  <1>1. <<>> \in Text
    BY DEF Text
  <1>2. c \in Walks
    BY <1>1, IsWalk
  <1>3. Stops(t, c) /\ Outcome(t, c) = Result("found", p)
    BY DEF Stops, Outcome
  <1> QED
    BY <1>2, <1>3, WalkUnfolds

(* What stands under a path is found under it.                             *)
LEMMA FoundByName ==
    ASSUME NEW t \in FileTrees, NEW p \in Path, Stands(t, p),
           NEW links \in Nat
    PROVE  Walk(t, p, links) = Result("found", p)
  <1>1. p \o <<>> = p /\ <<>> \in Text
    BY ConcatEmptySeq DEF Path, Text
  <1>2. WalkFrom(t, [at |-> <<>>, todo |-> p \o <<>>, left |-> links]) =
           WalkFrom(t, [at |-> p, todo |-> <<>>, left |-> links])
    BY <1>1, WalkFromRoot
  <1>3. WalkFrom(t, [at |-> p, todo |-> <<>>, left |-> links]) =
           Result("found", p)
    BY <1>1, WalkAtEnd
  <1> QED
    BY <1>1, <1>2, <1>3, WalkIs DEF Start

(* The last name of a walk.                                                *)
LEMMA LastName ==
    ASSUME NEW t \in FileTrees, NEW at \in Path, Stands(t, at),
           NEW n \in Names, NEW l \in Nat,
           At(t, Append(at, n)).kind # "link"
    PROVE  WalkFrom(t, [at |-> at, todo |-> <<n>>, left |-> l]) =
              IF At(t, at) = Dir /\ Stands(t, Append(at, n))
              THEN Result("found", Append(at, n))
              ELSE IF /\ At(t, at) = Dir /\ At(t, Append(at, n)) = Absent
                      /\ Append(at, n) \in Places
              THEN Result("missing", Append(at, n))
              ELSE Result("error", at)
  <1> DEFINE c == [at |-> at, todo |-> <<n>>, left |-> l]
             next == Append(at, n)
  <1>1. <<n>> \in Text /\ <<n>> # <<>> /\ Head(<<n>>) = n /\ Tail(<<n>>) = <<>>
    BY DEF Text
  <1>2. c \in Walks /\ Ahead(c) = next /\ n # Up
    BY <1>1, IsWalk, FenceAssumption DEF Ahead
  <1>3. next \in Path /\ At(t, next) \in Entry
    BY AppendFacts, TreeFacts
  <1>4. At(t, next) = Absent \/ Stands(t, next)
    BY <1>3, EntryFacts DEF Stands
  <1>5. CASE At(t, at) = Dir /\ Stands(t, next)
    <2>1. ~Stops(t, c)
      BY <1>1, <1>2, <1>5, ConstantEntries DEF Stops, Stands
    <2>2. Onward(t, c) = [at |-> next, todo |-> <<>>, left |-> l]
      BY <1>1, <1>2 DEF Onward
    <2>3. WalkFrom(t, Onward(t, c)) = Result("found", next)
      BY <1>3, <2>2, WalkAtEnd
    <2> QED
      BY <1>2, <1>5, <2>1, <2>3, WalkUnfolds
  <1>6. CASE ~(At(t, at) = Dir /\ Stands(t, next))
    <2>1. Stops(t, c)
      BY <1>2, <1>4, <1>6, <1>1 DEF Stops
    <2>2. Outcome(t, c) = IF /\ At(t, at) = Dir /\ At(t, next) = Absent
                             /\ next \in Places
                          THEN Result("missing", next) ELSE Result("error", at)
      BY <1>1, <1>2 DEF Outcome
    <2> QED
      BY <1>2, <1>6, <2>1, <2>2, WalkUnfolds
  <1> QED
    BY <1>5, <1>6

---------------------------------------------------------------------------
(* Walks of longer paths, with more links, and of cleaned ones.            *)

Longer(c, s) == [at |-> c.at, todo |-> c.todo \o s, left |-> c.left]

(* With more names behind it a walk goes on from where it would have       *)
(* ended, and leads nowhere if it would not have found anything.           *)
ComesBy(t, c, s, p) ==
    \E l \in 0 .. c.left :
        WalkFrom(t, Longer(c, s)) =
          WalkFrom(t, [at |-> p, todo |-> s, left |-> l])

Splits(t, c, s) ==
    IF WalkFrom(t, c).st = "found"
    THEN ComesBy(t, c, s, WalkFrom(t, c).at)
    ELSE ~Leads(WalkFrom(t, Longer(c, s)))

LEMMA Regroup ==
    ASSUME NEW x \in Text, NEW y \in Text, NEW z \in Text
    PROVE  x \o (y \o z) = (x \o y) \o z
  BY ConcatAssociative DEF Text

LEMMA LongerFacts ==
    ASSUME NEW t \in FileTrees, NEW c \in Walks, c.todo # <<>>,
           NEW s \in Text, s # <<>>
    PROVE  /\ Longer(c, s) \in Walks
           /\ Longer(c, s).todo # <<>> /\ Tail(Longer(c, s).todo) # <<>>
           /\ Head(Longer(c, s).todo) = Head(c.todo)
           /\ Tail(Longer(c, s).todo) = Tail(c.todo) \o s
           /\ Ahead(Longer(c, s)) = Ahead(c)
           /\ Longer(c, s).at = c.at /\ Longer(c, s).left = c.left
           /\ Stops(t, Longer(c, s)) <=> Stops(t, c)
  <1> DEFINE d == Longer(c, s)
  <1>1. c.at \in Path /\ c.todo \in Text /\ c.left \in Nat
    BY WalksFacts
  <1>2. /\ c.todo \o s \in Text /\ c.todo \o s # <<>>
        /\ Head(c.todo \o s) = Head(c.todo)
        /\ Tail(c.todo \o s) = Tail(c.todo) \o s
    BY <1>1, ConcatFacts
  <1>3. Tail(c.todo) \o s # <<>>
    BY <1>1, TextFacts, ConcatEqualIffEmpty DEF Text
  <1>4. d.at = c.at /\ d.todo = c.todo \o s /\ d.left = c.left /\ d \in Walks
    BY <1>1, <1>2, IsWalk DEF Longer
  <1>5. Ahead(d) = Ahead(c)
    BY <1>2, <1>4 DEF Ahead
  <1> HIDE DEF d
  <1>6. Stops(t, d) <=> Stops(t, c)
    BY <1>2, <1>4, <1>5 DEF Stops
  <1> QED
    BY <1>2, <1>3, <1>4, <1>5, <1>6 DEF d

LEMMA OnwardLonger ==
    ASSUME NEW t \in FileTrees, NEW c \in Walks, ~Stops(t, c),
           NEW s \in Text, s # <<>>
    PROVE  Onward(t, Longer(c, s)) = Longer(Onward(t, c), s)
  <1> DEFINE d == Longer(c, s)
             e == At(t, Ahead(c))
  <1>1. c.todo # <<>> /\ Tail(c.todo) \in Text
    BY WalksFacts, TextFacts, OnwardCases
  <1>2. /\ Head(d.todo) = Head(c.todo) /\ Tail(d.todo) = Tail(c.todo) \o s
        /\ Ahead(d) = Ahead(c) /\ d.at = c.at /\ d.left = c.left
    BY <1>1, LongerFacts
  <1> HIDE DEF d
  <1>3. CASE Head(c.todo) = Up
    <2>1. Onward(t, c) = [at |-> Parent(c.at), todo |-> Tail(c.todo),
                          left |-> c.left]
      BY <1>3 DEF Onward
    <2>2. Onward(t, d) = [at |-> Parent(c.at), todo |-> Tail(c.todo) \o s,
                          left |-> c.left]
      BY <1>2, <1>3 DEF Onward
    <2> QED
      BY <2>1, <2>2 DEF Longer, d
  <1>4. CASE Head(c.todo) # Up /\ e.kind # "link"
    <2>1. Onward(t, c) = [at |-> Ahead(c), todo |-> Tail(c.todo),
                          left |-> c.left]
      BY <1>4 DEF Onward
    <2>2. Onward(t, d) = [at |-> Ahead(c), todo |-> Tail(c.todo) \o s,
                          left |-> c.left]
      BY <1>2, <1>4 DEF Onward
    <2> QED
      BY <2>1, <2>2 DEF Longer, d
  <1>5. CASE Head(c.todo) # Up /\ e.kind = "link"
    <2> DEFINE p == IF e.abs THEN <<>> ELSE c.at
    <2>1. Onward(t, c) = [at |-> p, todo |-> e.to \o Tail(c.todo),
                          left |-> c.left - 1]
      BY <1>5 DEF Onward
    <2>2. Onward(t, d) = [at |-> p, todo |-> e.to \o (Tail(c.todo) \o s),
                          left |-> c.left - 1]
      BY <1>2, <1>5 DEF Onward
    <2>3. e.to \in Text
      BY <1>5, WalksFacts, OnwardCases, TreeFacts, EntryFacts, LinkTextFacts
    <2> HIDE DEF p, e
    <2>4. e.to \o (Tail(c.todo) \o s) = (e.to \o Tail(c.todo)) \o s
      BY <1>1, <2>3, Regroup
    <2>5. Longer(Onward(t, c), s) = [at |-> p,
                                     todo |-> (e.to \o Tail(c.todo)) \o s,
                                     left |-> c.left - 1]
      BY <2>1 DEF Longer
    <2>6. Onward(t, d) = Longer(Onward(t, c), s)
      BY <2>2, <2>4, <2>5
    <2> QED
      BY <2>6 DEF d
  <1> QED
    BY <1>3, <1>4, <1>5

LEMMA WalkSplits ==
    ASSUME NEW t \in FileTrees, NEW s \in Text, s # <<>>
    PROVE  \A c \in Walks : Splits(t, c, s)
  <1> DEFINE B == {c \in Walks : ~Splits(t, c, s)}
  <1>1. ASSUME NEW c \in Walks, c.todo = <<>> PROVE Splits(t, c, s)
    <2>1. /\ c.at \in Path /\ c.left \in Nat
          /\ c = [at |-> c.at, todo |-> <<>>, left |-> c.left]
      BY <1>1, WalksFacts
    <2>2. WalkFrom(t, c) = Result("found", c.at)
      BY <2>1, WalkAtEnd
    <2>3. Longer(c, s) = [at |-> c.at, todo |-> s, left |-> c.left]
      BY <1>1, ConcatEmptySeq DEF Longer, Text
    <2>4. WalkFrom(t, c).st = "found" /\ WalkFrom(t, c).at = c.at
      BY <2>2 DEF Result
    <2>5. ComesBy(t, c, s, c.at)
      <3>1. c.left \in 0 .. c.left
        BY <2>1
      <3> QED
        BY <2>1, <2>3, <3>1, Zenon DEF ComesBy
    <2> QED
      BY <2>4, <2>5 DEF Splits
  <1>2. ASSUME NEW c \in Walks, c.todo # <<>>, Stops(t, c)
        PROVE  Splits(t, c, s)
    <2>1. WalkFrom(t, c) = Outcome(t, c)
      BY <1>2, WalkUnfolds
    <2>2. WalkFrom(t, c).st # "found"
      BY <1>2, <2>1 DEF Outcome, Result
    <2>3. /\ Longer(c, s) \in Walks /\ Stops(t, Longer(c, s))
          /\ Longer(c, s).todo # <<>> /\ Tail(Longer(c, s).todo) # <<>>
      BY <1>2, LongerFacts
    <2>4. Outcome(t, Longer(c, s)).st \in {"loop", "error"}
      BY <2>3 DEF Outcome, Result
    <2> QED
      BY <2>1, <2>2, <2>3, <2>4, WalkUnfolds DEF Splits, Leads
  <1>3. ASSUME NEW c \in Walks, ~Stops(t, c), Splits(t, Onward(t, c), s)
        PROVE  Splits(t, c, s)
    <2>1. c.todo # <<>>
      BY <1>3 DEF Stops
    <2>2. Longer(c, s) \in Walks /\ ~Stops(t, Longer(c, s))
      BY <1>3, <2>1, LongerFacts
    <2>3. WalkFrom(t, c) = WalkFrom(t, Onward(t, c))
      BY <1>3, WalkUnfolds
    <2>4. WalkFrom(t, Longer(c, s)) = WalkFrom(t, Longer(Onward(t, c), s))
      BY <1>3, <2>2, WalkUnfolds, OnwardLonger
    <2>5. ASSUME NEW p, ComesBy(t, Onward(t, c), s, p)
          PROVE  ComesBy(t, c, s, p)
      <3>1. PICK l \in 0 .. Onward(t, c).left :
               WalkFrom(t, Longer(Onward(t, c), s)) =
                 WalkFrom(t, [at |-> p, todo |-> s, left |-> l])
        BY <2>5 DEF ComesBy
      <3>2. l \in 0 .. c.left
        BY <1>3, OnwardFacts, WalksFacts
      <3> QED
        BY <2>4, <3>1, <3>2 DEF ComesBy
    <2> QED
      BY <1>3, <2>3, <2>4, <2>5 DEF Splits
  <1>4. ASSUME NEW c \in B, Stops(t, c) \/ Onward(t, c) \notin B PROVE FALSE
    <2>1. c \in Walks /\ ~Splits(t, c, s)
      OBVIOUS
    <2>2. ~Stops(t, c)
      BY <1>1, <1>2, <2>1
    <2>3. Onward(t, c) \in Walks
      BY <2>1, <2>2, OnwardFacts
    <2> QED
      BY <1>3, <1>4, <2>1, <2>2, <2>3
  <1>5. B \in SUBSET Walks
    OBVIOUS
  <1>6. B = {}
    <2> HIDE DEF B
    <2> QED
      BY <1>4, <1>5, WalkEnds
  <1> QED
    BY <1>6

(* A path with one name more.                                              *)
LEMMA NameAfter ==
    ASSUME NEW t \in FileTrees, NEW p \in Path, NEW n \in Names,
           NEW links \in Nat
    PROVE  /\ Walk(t, p, links).st = "found" =>
                \E l \in 0 .. links :
                   Walk(t, Append(p, n), links) =
                     WalkFrom(t, [at |-> Walk(t, p, links).at, todo |-> <<n>>,
                                  left |-> l])
           /\ Walk(t, p, links).st # "found" =>
                ~Leads(Walk(t, Append(p, n), links))
  <1>1. <<n>> \in Text /\ <<n>> # <<>> /\ p \in Text /\ Append(p, n) \in Text
    BY PathFacts, AppendFacts DEF Text
  <1>2. Append(p, n) = p \o <<n>>
    BY AppendIsConcat DEF Path
  <1>3. Longer(Start(p, links), <<n>>) = Start(Append(p, n), links)
    BY <1>2 DEF Longer, Start
  <1>4. Start(p, links) \in Walks
    BY <1>1, StartIsWalk
  <1>5. Splits(t, Start(p, links), <<n>>)
    BY <1>1, <1>4, WalkSplits
  <1>6. /\ Walk(t, p, links) = WalkFrom(t, Start(p, links))
        /\ Walk(t, Append(p, n), links) =
             WalkFrom(t, Longer(Start(p, links), <<n>>))
        /\ Start(p, links).left = links
    BY <1>3, WalkIs DEF Start
  <1> QED
    BY <1>5, <1>6 DEF Splits, ComesBy

With(c, l) == [at |-> c.at, todo |-> c.todo, left |-> l]

AtLeast(n) == {l \in Nat : n <= l}

(* A walk that does not run out of links ends in the same way if it may    *)
(* follow more.                                                            *)
More(t, c) ==
    \A l \in AtLeast(c.left) :
        WalkFrom(t, c).st # "loop" => WalkFrom(t, With(c, l)) = WalkFrom(t, c)

LEMMA WithFacts ==
    ASSUME NEW t, NEW c \in Walks, NEW l \in AtLeast(c.left)
    PROVE  /\ With(c, l) \in Walks
           /\ With(c, l).at = c.at /\ With(c, l).todo = c.todo
           /\ With(c, l).left = l
           /\ Ahead(With(c, l)) = Ahead(c)
           /\ Outcome(t, With(c, l)) = Outcome(t, c)
           /\ ~Stops(t, c) => ~Stops(t, With(c, l))
  <1> DEFINE d == With(c, l)
  <1>1. /\ c.at \in Path /\ c.todo \in Text /\ c.left \in Nat
        /\ l \in Nat /\ c.left <= l
    BY WalksFacts DEF AtLeast
  <1>2. d \in Walks /\ d.at = c.at /\ d.todo = c.todo /\ d.left = l
    BY <1>1, IsWalk DEF With
  <1> HIDE DEF d
  <1>3. Ahead(d) = Ahead(c)
    BY <1>2 DEF Ahead
  <1>4. Outcome(t, d) = Outcome(t, c)
    BY <1>2, <1>3 DEF Outcome
  <1>5. d.left = 0 => c.left = 0
    BY <1>1, <1>2
  <1>6. ~Stops(t, c) => ~Stops(t, d)
    BY <1>2, <1>3, <1>5, Zenon DEF Stops
  <1> QED
    BY <1>2, <1>3, <1>4, <1>6 DEF d

LEMMA OnwardWith ==
    ASSUME NEW t \in FileTrees, NEW c \in Walks, ~Stops(t, c),
           NEW l \in AtLeast(c.left)
    PROVE  \E m \in AtLeast(Onward(t, c).left) :
              Onward(t, With(c, l)) = With(Onward(t, c), m)
  <1> DEFINE d == With(c, l)
             e == At(t, Ahead(c))
  <1>1. c.left \in Nat /\ l \in Nat /\ c.left <= l
    BY WalksFacts DEF AtLeast
  <1>2. d.at = c.at /\ d.todo = c.todo /\ d.left = l /\ Ahead(d) = Ahead(c)
    BY WithFacts
  <1> HIDE DEF d
  <1>3. GoesUp(t, c) \/ GoesOn(t, c) \/ FollowsLink(t, c)
    BY OnwardCases
  <1>4. CASE GoesUp(t, c)
    <2>1. Onward(t, d) = [at |-> Parent(c.at), todo |-> Tail(c.todo), left |-> l]
      BY <1>2, <1>4 DEF GoesUp, Onward
    <2>2. Onward(t, d) = With(Onward(t, c), l) /\ Onward(t, c).left = c.left
      BY <1>4, <2>1 DEF GoesUp, With
    <2> QED
      BY <1>1, <2>2 DEF d, AtLeast
  <1>5. CASE GoesOn(t, c)
    <2>1. e.kind # "link"
      BY <1>5, ConstantEntries DEF GoesOn, Stands
    <2>2. Onward(t, d) = [at |-> Ahead(c), todo |-> Tail(c.todo), left |-> l]
      BY <1>2, <1>5, <2>1 DEF GoesOn, Onward
    <2>3. Onward(t, d) = With(Onward(t, c), l) /\ Onward(t, c).left = c.left
      BY <1>5, <2>2 DEF GoesOn, With
    <2> QED
      BY <1>1, <2>3 DEF d, AtLeast
  <1>6. CASE FollowsLink(t, c)
    <2> DEFINE p == IF e.abs THEN <<>> ELSE c.at
               u == e.to \o Tail(c.todo)
    <2>1. /\ Head(c.todo) # Up /\ e.kind = "link" /\ c.left > 0
          /\ Onward(t, c) = [at |-> p, todo |-> u, left |-> c.left - 1]
      BY <1>6 DEF FollowsLink
    <2>2. Onward(t, d) = [at |-> p, todo |-> u, left |-> l - 1]
      BY <1>2, <2>1 DEF Onward
    <2> HIDE DEF p, u, e
    <2>3. Onward(t, d) = With(Onward(t, c), l - 1)
      BY <2>1, <2>2 DEF With
    <2>4. Onward(t, c).left = c.left - 1
      BY <2>1
    <2>5. l - 1 \in AtLeast(Onward(t, c).left)
      BY <1>1, <2>1, <2>4 DEF AtLeast
    <2> QED
      BY <2>3, <2>5 DEF d
  <1> QED
    BY <1>3, <1>4, <1>5, <1>6

LEMMA WalkMore ==
    ASSUME NEW t \in FileTrees
    PROVE  \A c \in Walks : More(t, c)
  <1> DEFINE B == {c \in Walks : ~More(t, c)}
  <1>1. ASSUME NEW c \in Walks, Stops(t, c) PROVE More(t, c)
    <2> SUFFICES ASSUME NEW l \in AtLeast(c.left),
                        WalkFrom(t, c).st # "loop"
                 PROVE  WalkFrom(t, With(c, l)) = WalkFrom(t, c)
      BY DEF More
    <2>1. WalkFrom(t, c) = Outcome(t, c) /\ Outcome(t, c).st # "loop"
      BY <1>1, WalkUnfolds
    <2>2. \/ c.todo = <<>>
          \/ At(t, c.at) # Dir
          \/ Head(c.todo) # Up /\ At(t, Ahead(c)) = Absent
      BY <1>1, <2>1 DEF Stops, Outcome, Result
    <2>3. /\ With(c, l) \in Walks
          /\ With(c, l).todo = c.todo /\ With(c, l).at = c.at
          /\ Ahead(With(c, l)) = Ahead(c)
          /\ Outcome(t, With(c, l)) = Outcome(t, c)
      BY WithFacts
    <2>4. Stops(t, With(c, l))
      BY <2>2, <2>3 DEF Stops
    <2> QED
      BY <2>1, <2>3, <2>4, WalkUnfolds
  <1>2. ASSUME NEW c \in Walks, ~Stops(t, c), More(t, Onward(t, c))
        PROVE  More(t, c)
    <2> SUFFICES ASSUME NEW l \in AtLeast(c.left),
                        WalkFrom(t, c).st # "loop"
                 PROVE  WalkFrom(t, With(c, l)) = WalkFrom(t, c)
      BY DEF More
    <2>1. WalkFrom(t, c) = WalkFrom(t, Onward(t, c))
      BY <1>2, WalkUnfolds
    <2>2. With(c, l) \in Walks /\ ~Stops(t, With(c, l))
      BY <1>2, WithFacts
    <2>3. PICK m \in AtLeast(Onward(t, c).left) :
             Onward(t, With(c, l)) = With(Onward(t, c), m)
      BY <1>2, OnwardWith
    <2>4. WalkFrom(t, With(Onward(t, c), m)) = WalkFrom(t, Onward(t, c))
      BY <1>2, <2>1 DEF More
    <2> QED
      BY <2>1, <2>2, <2>3, <2>4, WalkUnfolds
  <1>3. ASSUME NEW c \in B, Stops(t, c) \/ Onward(t, c) \notin B PROVE FALSE
    <2>1. c \in Walks /\ ~More(t, c) /\ ~Stops(t, c)
      BY <1>1
    <2>2. Onward(t, c) \in Walks
      BY <2>1, OnwardFacts
    <2> QED
      BY <1>2, <1>3, <2>1, <2>2
  <1>4. B \in SUBSET Walks
    OBVIOUS
  <1>5. B = {}
    <2> HIDE DEF B
    <2> QED
      BY <1>3, <1>4, WalkEnds
  <1> QED
    BY <1>5

(* Two walks over the same names that do not run out of links.             *)
LEMMA SameEnd ==
    ASSUME NEW t \in FileTrees, NEW at \in Path, NEW s \in Text,
           NEW l \in Nat, NEW m \in Nat,
           WalkFrom(t, [at |-> at, todo |-> s, left |-> l]).st # "loop",
           WalkFrom(t, [at |-> at, todo |-> s, left |-> m]).st # "loop"
    PROVE  WalkFrom(t, [at |-> at, todo |-> s, left |-> l]) =
             WalkFrom(t, [at |-> at, todo |-> s, left |-> m])
  <1> DEFINE c == [at |-> at, todo |-> s, left |-> l]
             d == [at |-> at, todo |-> s, left |-> m]
  <1>1. /\ c \in Walks /\ d \in Walks
        /\ d = With(c, m) /\ c = With(d, l) /\ c.left = l /\ d.left = m
    BY IsWalk DEF With
  <1> HIDE DEF c, d
  <1>2. More(t, c) /\ More(t, d)
    BY <1>1, WalkMore
  <1>3. WalkFrom(t, c).st # "loop" /\ WalkFrom(t, d).st # "loop"
    BY DEF c, d
  <1>4. CASE l <= m
    <2>1. m \in AtLeast(c.left)
      BY <1>1, <1>4 DEF AtLeast
    <2>2. WalkFrom(t, With(c, m)) = WalkFrom(t, c)
      BY <1>2, <1>3, <2>1 DEF More
    <2> QED
      BY <1>1, <2>2 DEF c, d
  <1>5. CASE m <= l
    <2>1. l \in AtLeast(d.left)
      BY <1>1, <1>5 DEF AtLeast
    <2>2. WalkFrom(t, With(d, l)) = WalkFrom(t, d)
      BY <1>2, <1>3, <2>1 DEF More
    <2> QED
      BY <1>1, <2>2 DEF c, d
  <1> QED
    BY <1>4, <1>5

(* EvalSymlinks follows more links than the system: it finds what that     *)
(* finds, and fails where that does for another reason.                    *)
LEMMA KernelEval ==
    ASSUME NEW t \in FileTrees, NEW p \in Text, Kernel(t, p).st # "loop"
    PROVE  Eval(t, p) = Kernel(t, p)
  <1> DEFINE c == Start(p, KernelHops)
  <1>1. /\ KernelHops \in Nat /\ EvalHops \in Nat
        /\ EvalHops \in AtLeast(c.left)
    BY FenceAssumption DEF AtLeast, Start
  <1>2. c \in Walks /\ With(c, EvalHops) = Start(p, EvalHops)
    BY <1>1, StartIsWalk DEF With, Start
  <1>3. Kernel(t, p) = WalkFrom(t, c) /\ Eval(t, p) = WalkFrom(t, Start(p, EvalHops))
    BY WalkIs DEF Kernel, Eval
  <1> HIDE DEF c
  <1>4. More(t, c)
    BY <1>2, WalkMore
  <1> QED
    BY <1>1, <1>2, <1>3, <1>4 DEF More

(* In a directory a link's text leads where the cleaned path leads.        *)
CleanLeads(t, at, s, l) ==
    At(t, at) = Dir =>
        WalkFrom(t, [at |-> at, todo |-> s, left |-> l]) =
          WalkFrom(t, [at |-> <<>>, todo |-> CleanFrom(at, s), left |-> l])

LEMMA WalkCleaned ==
    ASSUME NEW t \in FileTrees, NEW l \in Nat
    PROVE  \A s \in LinkText : \A at \in Path : CleanLeads(t, at, s, l)
  <1> DEFINE Good(s) == \A at \in Path : CleanLeads(t, at, s, l)
             B == {s \in LinkText : ~Good(s)}
  <1>1. ASSUME NEW s \in LinkText, s = <<>> \/ Head(s) # Up PROVE Good(s)
    <2> SUFFICES ASSUME NEW at \in Path, At(t, at) = Dir
                 PROVE  WalkFrom(t, [at |-> at, todo |-> s, left |-> l]) =
                          WalkFrom(t, [at |-> <<>>, todo |-> CleanFrom(at, s),
                                       left |-> l])
      BY DEF CleanLeads
    <2>1. s \in Path /\ s \in Text /\ <<>> \in Text
      BY <1>1, LinkTextFacts DEF Path, Text
    <2>2. s \o <<>> = s /\ at \o s \in Path
      BY <2>1, ConcatEmptySeq, CleanKeepsNames DEF Path
    <2>3. CleanFrom(at, s \o <<>>) = CleanFrom(at \o s, <<>>)
      BY <2>1, CleanKeepsNames
    <2>4. CleanFrom(at \o s, <<>>) = at \o s
      BY <2>1, <2>2, CleanUnfolds
    <2>5. Stands(t, at)
      BY DEF Stands
    <2>6. WalkFrom(t, [at |-> <<>>, todo |-> at \o s, left |-> l]) =
             WalkFrom(t, [at |-> at, todo |-> s, left |-> l])
      BY <2>1, <2>5, WalkFromRoot
    <2> QED
      BY <2>2, <2>3, <2>4, <2>6
  <1>2. ASSUME NEW s \in LinkText, s # <<>>, Head(s) = Up, Good(Tail(s))
        PROVE  Good(s)
    <2> SUFFICES ASSUME NEW at \in Path, At(t, at) = Dir
                 PROVE  WalkFrom(t, [at |-> at, todo |-> s, left |-> l]) =
                          WalkFrom(t, [at |-> <<>>, todo |-> CleanFrom(at, s),
                                       left |-> l])
      BY DEF CleanLeads
    <2> DEFINE c == [at |-> at, todo |-> s, left |-> l]
               up == [at |-> Parent(at), todo |-> Tail(s), left |-> l]
    <2>1. s \in Text /\ Parent(at) \in Path /\ At(t, Parent(at)) = Dir
      BY LinkTextFacts, PathFacts, ParentIsDir
    <2>2. c \in Walks /\ ~Stops(t, c) /\ Onward(t, c) = up
      BY <1>2, <2>1, IsWalk DEF Stops, Onward
    <2>3. WalkFrom(t, c) = WalkFrom(t, up)
      BY <2>2, WalkUnfolds
    <2>4. CleanFrom(at, s) = CleanFrom(CleanNext(at, Head(s)), Tail(s))
      BY <1>2, <2>1, CleanUnfolds
    <2>5. CleanNext(at, Head(s)) = Parent(at)
      BY <1>2 DEF CleanNext
    <2>6. WalkFrom(t, up) =
             WalkFrom(t, [at |-> <<>>, todo |-> CleanFrom(Parent(at), Tail(s)),
                          left |-> l])
      BY <1>2, <2>1 DEF CleanLeads
    <2> QED
      BY <2>3, <2>4, <2>5, <2>6
  <1>3. ASSUME NEW s \in B, s = <<>> \/ Tail(s) \notin B PROVE FALSE
    <2>1. s \in LinkText /\ ~Good(s) /\ s # <<>> /\ Head(s) = Up
      BY <1>1
    <2>2. Tail(s) \in LinkText
      BY <2>1, LinkTextFacts
    <2> QED
      BY <1>2, <1>3, <2>1, <2>2
  <1>4. B \in SUBSET Text
    BY LinkTextFacts
  <1>5. B = {}
    <2> HIDE DEF B
    <2> QED
      BY <1>3, <1>4, TextEnds
  <1> QED
    BY <1>5

---------------------------------------------------------------------------
(* Prefixes, and trees with something changed.                             *)

(* A prefix, name by name.                                                 *)
LEMMA PrefixMeans ==
    ASSUME NEW p \in Path, NEW q \in Path
    PROVE  IsPrefix(p, q) <=>
              Len(p) <= Len(q) /\ \A i \in 1 .. Len(p) : p[i] = q[i]
  <1>1. Len(p) \in Nat /\ Len(q) \in Nat
    BY PathFacts
  <1>2. /\ SubSeq(p, 1, Len(p)) \in Path /\ Len(SubSeq(p, 1, Len(p))) = Len(p)
        /\ \A i \in 1 .. Len(p) : SubSeq(p, 1, Len(p))[i] = p[i]
    BY <1>1, PrefixFacts DEF Path
  <1>3. ASSUME Len(p) <= Len(q)
        PROVE  /\ SubSeq(q, 1, Len(p)) \in Path
               /\ Len(SubSeq(q, 1, Len(p))) = Len(p)
               /\ \A i \in 1 .. Len(p) : SubSeq(q, 1, Len(p))[i] = q[i]
    BY <1>1, <1>3, PrefixFacts DEF Path
  <1> DEFINE u == SubSeq(p, 1, Len(p))
             v == SubSeq(q, 1, Len(p))
  <1> HIDE DEF u, v
  <1>4. IsPrefix(p, q) <=> Len(p) <= Len(q) /\ u = v
    BY DEF IsPrefix, u, v
  <1>5. ASSUME Len(p) <= Len(q)
        PROVE  u = v <=> \A i \in 1 .. Len(p) : u[i] = v[i]
    BY <1>1, <1>2, <1>3, <1>5 DEF u, v, Path
  <1> QED
    BY <1>2, <1>3, <1>4, <1>5 DEF u, v

LEMMA PrefixOfFront ==
    ASSUME NEW p \in Path, NEW q \in Path, q # <<>>
    PROVE  /\ IsPrefix(p, Front(q)) => IsPrefix(p, q)
           /\ IsPrefix(Front(q), q) /\ IsPrefix(q, q)
           /\ ~IsPrefix(q, Front(q))
           /\ IsPrefix(p, q) => p = q \/ IsPrefix(p, Front(q))
  <1>1. /\ Front(q) \in Path /\ Len(Front(q)) = Len(q) - 1 /\ Len(q) > 0
        /\ Len(q) \in Nat /\ Len(p) \in Nat
    BY PathFacts
  <1>2. \A i \in 1 .. Len(q) - 1 : Front(q)[i] = q[i]
    <2>1. Len(q) - 1 \in Nat /\ Len(q) - 1 <= Len(q) /\ q \in Seq(Names)
      BY <1>1 DEF Path
    <2> QED
      BY <2>1, PrefixFacts DEF Front
  <1>3. IsPrefix(p, Front(q)) => IsPrefix(p, q)
    BY <1>1, <1>2, PrefixMeans
  <1>4. IsPrefix(Front(q), q) /\ IsPrefix(q, q)
    BY <1>1, <1>2, PrefixMeans
  <1>5. ~IsPrefix(q, Front(q))
    BY <1>1, PrefixMeans
  <1>6. ASSUME IsPrefix(p, q), p # q PROVE IsPrefix(p, Front(q))
    <2>1. Len(p) <= Len(q) /\ \A i \in 1 .. Len(p) : p[i] = q[i]
      BY <1>6, PrefixMeans
    <2>2. Len(p) # Len(q)
      BY <1>6, <2>1, SeqEqual DEF Path
    <2>3. Len(p) <= Len(q) - 1
      BY <1>1, <2>1, <2>2
    <2> QED
      BY <1>1, <1>2, <2>1, <2>3, PrefixMeans
  <1> QED
    BY <1>3, <1>4, <1>5, <1>6

(* An entry put where no directory is, in a directory, leaves a tree.      *)
LEMMA EntryPut ==
    ASSUME NEW t \in FileTrees, NEW p \in Places, p # <<>>, t[p] # Dir,
           At(t, Front(p)) = Dir, NEW e \in Entry
    PROVE  /\ [t EXCEPT ![p] = e] \in FileTrees
           /\ \A q \in Path : q # p => At([t EXCEPT ![p] = e], q) = At(t, q)
           /\ At([t EXCEPT ![p] = e], p) = e
  <1> DEFINE u == [t EXCEPT ![p] = e]
  <1>1. /\ p \in Path /\ Front(p) \in Path /\ Front(p) \in Places
        /\ t \in [Places -> Entry] /\ IsTree(t)
    BY PathFacts, FenceAssumption DEF FileTrees
  <1>2. u \in [Places -> Entry]
    BY <1>1
  <1>3. Front(p) # p /\ t[Front(p)] = Dir
    <2>1. Len(Front(p)) = Len(p) - 1 /\ Len(p) \in Nat
      BY <1>1, PathFacts
    <2> QED
      BY <1>1, <2>1 DEF At
  <1>4. u[<<>>] = Dir
    BY <1>1, FenceAssumption DEF IsTree
  <1>5. ASSUME NEW q \in Places \ {<<>>}, u[q] # Absent
        PROVE  u[Front(q)] = Dir
    <2>1. Front(q) \in Places
      BY FenceAssumption
    <2>2. CASE q = p
      BY <1>1, <1>3, <2>2
    <2>3. CASE q # p
      <3>1. t[Front(q)] = Dir
        BY <1>1, <1>5, <2>3 DEF IsTree
      <3> QED
        BY <1>1, <2>1, <3>1
    <2> QED
      BY <2>2, <2>3
  <1>6. ASSUME NEW q \in Path, q # p PROVE At(u, q) = At(t, q)
    BY <1>1, <1>6 DEF At
  <1>7. At(u, p) = e
    BY <1>1 DEF At
  <1> QED
    BY <1>2, <1>4, <1>5, <1>6, <1>7 DEF FileTrees, IsTree

(* What Change makes of a tree.                                            *)
Altered(t, p, e) ==
    [q \in Places |-> IF q = p THEN e
                      ELSE IF IsPrefix(p, q) THEN Absent ELSE t[q]]

LEMMA AlteredFacts ==
    ASSUME NEW t \in FileTrees, NEW p \in Places \ {<<>>}, NEW e \in Entry,
           t[Front(p)] = Dir
    PROVE  /\ Altered(t, p, e) \in FileTrees
           /\ \A q \in Path :
                 ~IsPrefix(p, q) => At(Altered(t, p, e), q) = At(t, q)
  <1> DEFINE u == Altered(t, p, e)
  <1>1. /\ p \in Path /\ Front(p) \in Path /\ Front(p) \in Places
        /\ t \in [Places -> Entry] /\ IsTree(t) /\ Places \subseteq Path
        /\ p # <<>> /\ <<>> \in Places
    BY PathFacts, FenceAssumption DEF FileTrees
  <1>2. u \in [Places -> Entry]
    BY <1>1, ConstantEntries DEF Altered
  <1>3. ASSUME NEW q \in Places, ~IsPrefix(p, q) PROVE u[q] = t[q]
    <2>1. q # p
      BY <1>1, <1>3, PrefixOfFront
    <2> QED
      BY <1>3, <2>1 DEF Altered
  <1>4. u[<<>>] = Dir
    <2>1. ~IsPrefix(p, <<>>)
      <3>1. Len(p) > 0
        BY <1>1, PathFacts
      <3> QED
        BY <3>1 DEF IsPrefix
    <2> QED
      BY <1>1, <1>3, <2>1 DEF IsTree
  <1>5. ASSUME NEW q \in Places \ {<<>>}, u[q] # Absent
        PROVE  u[Front(q)] = Dir
    <2>1. Front(q) \in Places /\ q \in Path /\ q # <<>>
      BY FenceAssumption
    <2>2. CASE q = p
      <3>1. ~IsPrefix(p, Front(q))
        BY <2>1, <2>2, PrefixOfFront
      <3> QED
        BY <1>3, <2>1, <2>2, <3>1
    <2>3. CASE q # p
      <3>1. ~IsPrefix(p, q)
        BY <1>5, <2>3 DEF Altered
      <3>2. ~IsPrefix(p, Front(q))
        BY <1>1, <2>1, <3>1, PrefixOfFront
      <3>3. t[q] # Absent
        BY <1>3, <1>5, <3>1
      <3> QED
        BY <1>1, <1>3, <2>1, <3>2, <3>3 DEF IsTree
    <2> QED
      BY <2>2, <2>3
  <1>6. ASSUME NEW q \in Path, ~IsPrefix(p, q)
        PROVE  At(u, q) = At(t, q)
    BY <1>3, <1>6 DEF At
  <1> QED
    BY <1>2, <1>4, <1>5, <1>6 DEF FileTrees, IsTree

---------------------------------------------------------------------------
(* The look at the leaf, and the path that is opened by its name.          *)

(* A path whose walk follows no link: its own entry is none, and what is   *)
(* above it has its own name.                                              *)
NoLinks(t, p) ==
    At(t, p).kind # "link" /\ (p # <<>> => Stands(t, Front(p)))

(* It leads to itself, if anywhere, and so does its parent.                *)
LEMMA NoLinksFollowed ==
    ASSUME NEW t \in FileTrees, NEW p \in Path, NoLinks(t, p)
    PROVE  /\ Leads(Kernel(t, p)) => Kernel(t, p).at = p
           /\ p # <<>> => Kernel(t, Parent(p)) = Result("found", Front(p))
  <1>0. KernelHops \in Nat
    BY FenceAssumption
  <1>1. ASSUME p # <<>>
        PROVE  Kernel(t, Parent(p)) = Result("found", Front(p))
    BY <1>0, <1>1, PathFacts, FoundByName DEF NoLinks, Kernel
  <1>2. CASE Stands(t, p)
    <2>1. Kernel(t, p).at = p
      BY <1>0, <1>2, FoundByName DEF Result, Kernel
    <2> QED
      BY <1>1, <2>1
  <1>3. CASE ~Stands(t, p)
    <2>1. p # <<>>
      BY <1>3, TreeFacts DEF Stands
    <2> DEFINE d == Front(p)
               n == Last(p)
    <2>2. d \in Path /\ n \in Names /\ p = Append(d, n) /\ Stands(t, d)
      BY <2>1, PathFacts DEF NoLinks
    <2>3. Kernel(t, d).st = "found" /\ Kernel(t, d).at = d
      BY <1>0, <2>2, FoundByName DEF Result, Kernel
    <2> HIDE DEF d, n
    <2>4. PICK l \in 0 .. KernelHops :
             Kernel(t, p) = WalkFrom(t, [at |-> d, todo |-> <<n>>, left |-> l])
      BY <1>0, <2>2, <2>3, NameAfter DEF Kernel
    <2>5. At(t, Append(d, n)).kind # "link" /\ ~Stands(t, Append(d, n))
      BY <1>3, <2>2 DEF NoLinks
    <2>6. \/ Kernel(t, p) = Result("missing", p)
          \/ Kernel(t, p) = Result("error", d)
      BY <2>2, <2>4, <2>5, LastName
    <2>7. Leads(Kernel(t, p)) => Kernel(t, p).at = p
      BY <2>6 DEF Result, Leads
    <2> QED
      BY <1>1, <2>7
  <1> QED
    BY <1>2, <1>3

(* What Kernel and Eval return for a tree and a text.                      *)
Typed(t, r) ==
    /\ r \in [st: {"found", "missing", "loop", "error"}, at: Path]
    /\ r.at \in Path
    /\ r.st \in {"found", "missing", "loop", "error"}
    /\ r.st = "found" => Stands(t, r.at) /\ r.at \in Places
    /\ r.st = "missing" =>
          /\ r.at \in Places /\ r.at # <<>>
          /\ At(t, r.at) = Absent /\ At(t, Front(r.at)) = Dir

LEMMA WalkTyped ==
    ASSUME NEW t \in FileTrees, NEW p \in Text
    PROVE  Typed(t, Kernel(t, p)) /\ Typed(t, Eval(t, p))
  <1>1. Sound(t, Kernel(t, p)) /\ Sound(t, Eval(t, p))
    BY FenceAssumption, WalkResult DEF Kernel, Eval
  <1>2. \A q \in Path : Stands(t, q) => q \in Places
    BY TreeFacts, ConstantEntries DEF Stands
  <1>3. ASSUME NEW r, Sound(t, r) PROVE Typed(t, r)
    BY <1>2, <1>3 DEF Sound, Typed
  <1> QED
    BY <1>1, <1>3

(* Lstat of a path with one name more.                                     *)
LEMMA LstatFacts ==
    ASSUME NEW t \in FileTrees, NEW p \in Path, NEW n \in Names
    PROVE  /\ Lstat(t, Append(p, n)) =
                IF Kernel(t, p).st = "found"
                THEN At(t, Append(Kernel(t, p).at, n)) ELSE Absent
           /\ BlindTo(Append(p, n)) <=>
                Kernel(tree, p).st = "loop" /\ Evaluates(tree, p)
  <1>1. /\ Append(p, n) # <<>> /\ Front(Append(p, n)) = p
        /\ Last(Append(p, n)) = n
    BY AppendFacts
  <1>2. Parent(Append(p, n)) = p
    BY <1>1 DEF Parent
  <1> QED
    BY <1>1, <1>2 DEF Lstat, BlindTo

(* A link at the end of a path.                                            *)
LEMMA LstatLink ==
    ASSUME NEW t \in FileTrees, NEW p \in Path, Lstat(t, p).kind = "link"
    PROVE  /\ p # <<>> /\ Kernel(t, Front(p)).st = "found"
           /\ Lstat(t, p) = At(t, Append(Kernel(t, Front(p)).at, Last(p)))
           /\ Lstat(t, p) \in Entry
  <1>1. p # <<>>
    BY ConstantEntries DEF Lstat
  <1>2. /\ Front(p) \in Path /\ Last(p) \in Names /\ Front(p) \in Text
        /\ Parent(p) = Front(p)
    BY <1>1, PathFacts
  <1>3. /\ Kernel(t, Front(p)).st = "found"
        /\ Lstat(t, p) = At(t, Append(Kernel(t, Front(p)).at, Last(p)))
    BY <1>1, <1>2, ConstantEntries DEF Lstat
  <1>4. Kernel(t, Front(p)).at \in Path
    BY <1>2, WalkTyped DEF Typed
  <1>5. Append(Kernel(t, Front(p)).at, Last(p)) \in Path
    BY <1>2, <1>4, AppendFacts
  <1> QED
    BY <1>1, <1>3, <1>5, TreeFacts

(* The root evaluates.                                                     *)
LEMMA RootEvaluates ==
    ASSUME NEW t \in FileTrees
    PROVE  Evaluates(t, <<>>)
  <1>1. <<>> \in Path
    BY DEF Path
  <1>2. Stands(t, <<>>)
    BY <1>1, TreeFacts DEF Stands
  <1> QED
    BY <1>1, <1>2, FenceAssumption, FoundByName DEF Evaluates, Eval, Result

(* If a path leads somewhere that is not there yet and its last name is no *)
(* link, its parent leads to the directory it would be created in.         *)
LEMMA ParentOfMissing ==
    ASSUME NEW t \in FileTrees, NEW p \in Path, NEW n \in Names,
           Kernel(t, Append(p, n)).st = "missing",
           Lstat(t, Append(p, n)).kind # "link"
    PROVE  /\ Evaluates(t, p) /\ Eval(t, p) = Kernel(t, p)
           /\ Kernel(t, Append(p, n)).at = Append(Eval(t, p).at, n)
  <1>0. KernelHops \in Nat
    BY FenceAssumption
  <1>1. Kernel(t, p).st = "found"
    BY <1>0, NameAfter DEF Kernel, Leads
  <1> DEFINE d == Kernel(t, p).at
  <1>2. d \in Path /\ Stands(t, d) /\ p \in Text
    BY <1>1, PathFacts, WalkTyped DEF Typed
  <1>3. At(t, Append(d, n)).kind # "link"
    BY <1>1, LstatFacts
  <1>4. PICK l \in 0 .. KernelHops :
           Kernel(t, Append(p, n)) =
             WalkFrom(t, [at |-> d, todo |-> <<n>>, left |-> l])
    BY <1>0, <1>1, NameAfter DEF Kernel
  <1>5. Eval(t, p) = Kernel(t, p)
    BY <1>1, <1>2, KernelEval
  <1> HIDE DEF d
  <1>6. Kernel(t, Append(p, n)) = Result("missing", Append(d, n))
    <2>1. \/ Kernel(t, Append(p, n)) = Result("found", Append(d, n))
          \/ Kernel(t, Append(p, n)) = Result("missing", Append(d, n))
          \/ Kernel(t, Append(p, n)) = Result("error", d)
      BY <1>2, <1>3, <1>4, LastName
    <2> QED
      BY <2>1 DEF Result
  <1>7. Kernel(t, Append(p, n)).at = Append(d, n)
    BY <1>6 DEF Result
  <1> QED
    BY <1>1, <1>5, <1>7 DEF d, Evaluates

(* A path is walked on from what its first names lead to.                  *)
LEMMA WalkOn ==
    ASSUME NEW t \in FileTrees, NEW p \in Text, NEW s \in Text, s # <<>>,
           NEW links \in Nat
    PROVE  IF Walk(t, p, links).st = "found"
           THEN \E l \in 0 .. links :
                   Walk(t, p \o s, links) =
                     WalkFrom(t, [at |-> Walk(t, p, links).at, todo |-> s,
                                  left |-> l])
           ELSE ~Leads(Walk(t, p \o s, links))
  <1>1. Longer(Start(p, links), s) = Start(p \o s, links)
    BY DEF Longer, Start
  <1>2. Splits(t, Start(p, links), s)
    BY StartIsWalk, WalkSplits
  <1>3. /\ Walk(t, p, links) = WalkFrom(t, Start(p, links))
        /\ Walk(t, p \o s, links) = WalkFrom(t, Longer(Start(p, links), s))
        /\ Start(p, links).left = links
    BY <1>1, WalkIs DEF Start
  <1> QED
    BY <1>2, <1>3 DEF Splits, ComesBy

(* The path that FollowLeaf puts in the place of one whose leaf is a link. *)
Replaced(p, e) == Clean(IF e.abs THEN e.to ELSE Parent(p) \o e.to)

LEMMA ReplacedTyped ==
    ASSUME NEW p \in Path, NEW e \in Entry, e.kind = "link"
    PROVE  Replaced(p, e) \in Path
  <1>1. e.to \in Text /\ Parent(p) \in Text /\ <<>> \in Path
    BY EntryFacts, LinkTextFacts, PathFacts DEF Path
  <1>2. Parent(p) \o e.to \in Text
    BY <1>1, TextFacts
  <1>3. (IF e.abs THEN e.to ELSE Parent(p) \o e.to) \in Text
    BY <1>1, <1>2
  <1> QED
    BY <1>1, <1>3, CleanIs, CleanTyped DEF Replaced

(* It leads where the path did, if the system has links enough for that,   *)
(* unless the link is relative and the path's parent is not where its text *)
(* says.                                                                   *)
LEMMA ReplacedLeads ==
    ASSUME NEW t \in FileTrees, NEW p \in Path, NEW e \in Entry,
           Lstat(t, p) = e, e.kind = "link", Kernel(t, p).st # "loop",
           e.abs \/ Kernel(t, Parent(p)).at = Parent(p)
    PROVE  Kernel(t, Replaced(p, e)) = Kernel(t, p)
  <1>0. KernelHops \in Nat
    BY FenceAssumption
  <1>1. p # <<>>
    BY ConstantEntries DEF Lstat
  <1> DEFINE b == Front(p)
             n == Last(p)
             d == Kernel(t, b).at
  <1>2. b \in Path /\ n \in Names /\ p = Append(b, n) /\ Parent(p) = b
    BY <1>1, PathFacts
  <1>3. Kernel(t, b).st = "found" /\ e = At(t, Append(d, n))
    BY <1>2, LstatFacts, ConstantEntries
  <1>4. d \in Path /\ <<>> \in Path
    BY <1>2, PathFacts, WalkTyped DEF Typed, Path
  <1>5. PICK l \in 0 .. KernelHops :
           Kernel(t, p) = WalkFrom(t, [at |-> d, todo |-> <<n>>, left |-> l])
    <2>1. Walk(t, b, KernelHops).st = "found"
      BY <1>3 DEF Kernel
    <2>2. \E l \in 0 .. KernelHops :
             Walk(t, Append(b, n), KernelHops) =
               WalkFrom(t, [at |-> Walk(t, b, KernelHops).at, todo |-> <<n>>,
                            left |-> l])
      <3> HIDE DEF b, n
      <3> QED
        BY <1>0, <1>2, <2>1, NameAfter
    <2> QED
      BY <1>2, <2>2 DEF Kernel
  <1> HIDE DEF b, n, d
  <1>6. e.abs \in BOOLEAN /\ e.to \in LinkText /\ e.to \in Text /\ e # Absent
    BY EntryFacts, LinkTextFacts
  <1>7. At(t, d) = Dir /\ At(t, <<>>) = Dir
    <2>1. Append(d, n) \in Path /\ Append(d, n) # <<>> /\ Front(Append(d, n)) = d
      BY <1>2, <1>4, AppendFacts
    <2> QED
      BY <1>3, <1>4, <1>6, <2>1, TreeFacts
  <1> DEFINE c == [at |-> d, todo |-> <<n>>, left |-> l]
             place == IF e.abs THEN <<>> ELSE d
             next == [at |-> place, todo |-> e.to, left |-> l - 1]
  <1>8. <<n>> \in Text /\ <<n>> # <<>> /\ Head(<<n>>) = n /\ Tail(<<n>>) = <<>>
    BY <1>2 DEF Text
  <1>9. c \in Walks /\ Ahead(c) = Append(d, n) /\ n # Up
    BY <1>2, <1>4, <1>8, IsWalk, FenceAssumption DEF Ahead
  <1>10. ~Stops(t, c)
    <2>1. ASSUME Stops(t, c) PROVE WalkFrom(t, c).st = "loop"
      <3>1. Outcome(t, c) = Result("loop", d)
        BY <1>3, <1>7, <1>8, <1>9 DEF Outcome
      <3> QED
        BY <1>9, <2>1, <3>1, WalkUnfolds DEF Result
    <2> QED
      BY <1>5, <2>1
  <1>11. e.to \o <<>> = e.to
    BY <1>6, ConcatEmptySeq DEF Text
  <1>12. Onward(t, c) = next
    BY <1>3, <1>8, <1>9, <1>11 DEF Onward
  <1>13. l # 0
    BY <1>3, <1>8, <1>9, <1>10 DEF Stops
  <1>14. l - 1 \in Nat
    BY <1>13
  <1>15. Kernel(t, p) = WalkFrom(t, next)
    BY <1>5, <1>9, <1>10, <1>12, WalkUnfolds
  <1>16. Replaced(p, e) = CleanFrom(place, e.to)
    <2>1. CASE e.abs
      BY <2>1, CleanIs DEF Replaced
    <2>2. CASE ~e.abs
      <3>1. b = d
        BY <1>2, <2>2 DEF d
      <3>2. Replaced(p, e) = CleanFrom(<<>>, d \o e.to)
        BY <1>2, <2>2, <3>1, CleanIs DEF Replaced
      <3>3. <<>> \o d = d
        BY <1>4, ConcatEmptySeq DEF Path
      <3>4. CleanFrom(<<>>, d \o e.to) = CleanFrom(d, e.to)
        <4>1. CleanFrom(<<>>, d \o e.to) = CleanFrom(<<>> \o d, e.to)
          BY <1>4, <1>6, CleanKeepsNames
        <4> QED
          BY <3>3, <4>1
      <3>5. place = d
        BY <2>2
      <3> QED
        BY <3>2, <3>4, <3>5
    <2> QED
      BY <2>1, <2>2
  <1>17. place \in Path /\ At(t, place) = Dir
    BY <1>4, <1>7
  <1>18. CleanLeads(t, place, e.to, l - 1)
    <2> HIDE DEF place
    <2> QED
      BY <1>6, <1>14, <1>17, WalkCleaned
  <1> DEFINE short == [at |-> <<>>, todo |-> Replaced(p, e), left |-> l - 1]
             whole == [at |-> <<>>, todo |-> Replaced(p, e),
                       left |-> KernelHops]
  <1>19. Kernel(t, p) = WalkFrom(t, short)
    BY <1>15, <1>16, <1>17, <1>18 DEF CleanLeads
  <1>20. Replaced(p, e) \in Text
    BY ReplacedTyped, PathFacts
  <1>21. /\ Kernel(t, Replaced(p, e)) = WalkFrom(t, With(short, KernelHops))
         /\ short \in Walks
         /\ KernelHops \in AtLeast(short.left)
    BY <1>0, <1>4, <1>14, <1>20, IsWalk, WalkIs
    DEF Kernel, Start, With, AtLeast
  <1> HIDE DEF short
  <1>22. WalkFrom(t, With(short, KernelHops)) = WalkFrom(t, short)
    <2>1. More(t, short)
      BY <1>21, WalkMore
    <2> QED
      BY <1>19, <1>21, <2>1 DEF More
  <1> QED
    BY <1>19, <1>21, <1>22

(* If a path's first names evaluate and one more does not, what is kept    *)
(* below them leads nowhere, unless EvalSymlinks ran out of links.         *)
LEMMA KeptLeadsNowhere ==
    ASSUME NEW t \in FileTrees, NEW p \in Path, NEW s \in Path, Len(s) > 1,
           Evaluates(t, p), ~Evaluates(t, Append(p, s[1])),
           ~(/\ Eval(t, Append(p, s[1])).st = "loop"
             /\ Kernel(t, Append(Eval(t, p).at, s[1])).st = "found")
    PROVE  ~Leads(Kernel(t, Eval(t, p).at \o s))
  <1>0. KernelHops \in Nat /\ EvalHops \in Nat
    BY FenceAssumption
  <1> DEFINE a == Eval(t, p).at
             n == s[1]
             rest == Tail(s)
  <1>1. n \in Names /\ rest \in Path /\ rest # <<>> /\ n = Head(s) /\ s # <<>>
    <2>1. s # <<>> /\ s \in Text /\ Head(s) = s[1]
      BY PathFacts
    <2>2. Head(s) \in Names /\ Tail(s) \in Path
      BY <2>1, HeadTailProperties DEF Path
    <2>3. Len(Tail(s)) = Len(s) - 1 /\ Len(s) \in Nat
      BY <2>1, TextFacts
    <2>4. Tail(s) # <<>>
      <3>1. Len(<<>>) = 0
        BY EmptySeq
      <3>2. Len(Tail(s)) # 0
        <4> DEFINE k == Len(s)
                   m == Len(Tail(s))
        <4>1. k \in Nat /\ k > 1 /\ m = k - 1
          BY <2>3
        <4> HIDE DEF k, m
        <4>2. m # 0
          BY <4>1
        <4> QED
          BY <4>2 DEF m
      <3> QED
        BY <3>1, <3>2, Zenon
    <2> QED
      BY <2>1, <2>2, <2>4
  <1>2. a \in Path /\ Stands(t, a)
    BY PathFacts, WalkTyped DEF Typed, Evaluates
  <1>3. Evaluates(t, p) /\ ~Evaluates(t, Append(p, n))
    OBVIOUS
  <1>4. PICK l \in 0 .. EvalHops :
           Eval(t, Append(p, n)) =
             WalkFrom(t, [at |-> a, todo |-> <<n>>, left |-> l])
    BY <1>0, <1>1, NameAfter DEF Eval, Evaluates
  <1>5. ~(Eval(t, Append(p, n)).st = "loop" /\ Kernel(t, Append(a, n)).st = "found")
    OBVIOUS
  <1> HIDE DEF a, n, rest
  <1>6. /\ Append(a, n) \in Path /\ Append(a, n) \in Text
        /\ Append(a, n) = a \o <<n>> /\ <<n>> \in Text /\ rest \in Text
        /\ a \o s = Append(a, n) \o rest
    <2>1. Append(a, n) \in Path /\ Append(a, n) \in Text /\ rest \in Text
      BY <1>1, <1>2, AppendFacts, PathFacts
    <2>2. Append(a, n) = a \o <<n>>
      BY <1>1, <1>2, AppendIsConcat DEF Path
    <2>3. <<n>> \in Text
      BY <1>1 DEF Text
    <2>4. a \o s = Append(a, n) \o rest
      BY <1>1, <1>2, HeadFacts DEF rest
    <2> QED
      BY <2>1, <2>2, <2>3, <2>4
  <1>7. ASSUME Kernel(t, Append(a, n)).st = "found" PROVE FALSE
    <2>1. Kernel(t, Append(a, n)) =
             WalkFrom(t, [at |-> a, todo |-> <<n>>, left |-> KernelHops])
      <3>1. WalkFrom(t, [at |-> <<>>, todo |-> a \o <<n>>,
                         left |-> KernelHops]) =
               WalkFrom(t, [at |-> a, todo |-> <<n>>, left |-> KernelHops])
        BY <1>0, <1>2, <1>6, WalkFromRoot
      <3> QED
        BY <1>6, <3>1, WalkIs DEF Kernel, Start
    <2>2. Eval(t, Append(p, n)).st # "loop"
      BY <1>5, <1>7
    <2>3. l \in Nat
      BY <1>0
    <2>4. Eval(t, Append(p, n)) = Kernel(t, Append(a, n))
      BY <1>0, <1>2, <1>4, <1>6, <1>7, <2>1, <2>2, <2>3, SameEnd
    <2> QED
      BY <1>3, <1>7, <2>4 DEF Evaluates
  <1>8. ~Leads(Kernel(t, Append(a, n) \o rest))
    BY <1>0, <1>1, <1>6, <1>7, WalkOn DEF Kernel
  <1> QED
    BY <1>6, <1>8 DEF a

(* What leads nowhere does not lead anywhere either after its first names  *)
(* have been evaluated.                                                    *)
LEMMA ErrorKept ==
    ASSUME NEW t \in FileTrees, NEW p \in Path, NEW s \in Path, s # <<>>,
           Evaluates(t, p), Kernel(t, p \o s).st = "error"
    PROVE  ~Leads(Kernel(t, Eval(t, p).at \o s))
  <1>0. KernelHops \in Nat /\ EvalHops \in Nat
    BY FenceAssumption
  <1> DEFINE a == Eval(t, p).at
  <1>1. p \in Text /\ s \in Text /\ p \o s \in Text
    BY PathFacts, TextFacts
  <1>2. a \in Path /\ Stands(t, a)
    BY <1>1, WalkTyped DEF Typed, Evaluates
  <1>3. Eval(t, p \o s).st = "error"
    BY <1>1, KernelEval
  <1>4. PICK l \in 0 .. EvalHops :
           Eval(t, p \o s) = WalkFrom(t, [at |-> a, todo |-> s, left |-> l])
    BY <1>0, <1>1, WalkOn DEF Eval, Evaluates
  <1> HIDE DEF a
  <1>5. Kernel(t, a \o s) =
           WalkFrom(t, [at |-> a, todo |-> s, left |-> KernelHops])
    BY <1>0, <1>1, <1>2, WalkIs, WalkFromRoot DEF Kernel, Start
  <1>6. l \in Nat
    BY <1>0
  <1>7. Kernel(t, a \o s).st # "loop" => Kernel(t, a \o s) = Eval(t, p \o s)
    BY <1>0, <1>1, <1>2, <1>3, <1>4, <1>5, <1>6, SameEnd
  <1> QED
    BY <1>3, <1>7 DEF Leads, a

(* A path that leads somewhere has parents the system can follow.          *)
LEMMA LeadsNotBlind ==
    ASSUME NEW t \in FileTrees, NEW p \in Path, Leads(Kernel(t, p))
    PROVE  Kernel(t, Parent(p)).st # "loop"
  <1>1. CASE p = <<>>
    BY <1>1 DEF Parent, Leads
  <1>2. CASE p # <<>>
    <2> DEFINE d == Front(p)
               n == Last(p)
    <2>1. d \in Path /\ n \in Names /\ p = Append(d, n) /\ Parent(p) = d
      BY <1>2, PathFacts
    <2> HIDE DEF d, n
    <2>2. Walk(t, d, KernelHops).st = "found"
      BY <2>1, NameAfter, FenceAssumption DEF Kernel
    <2> QED
      BY <2>1, <2>2 DEF Kernel
  <1> QED
    BY <1>1, <1>2

---------------------------------------------------------------------------
(* The inductive invariant.                                                *)

Looking == {"leaf", "link", "eval"}
Editing == {"stated", "read", "temp", "moded", "cleanup"}
Returned == {"accepted", "done", "failed"} \cup Editing

FileTypes ==
    /\ TypeOK
    /\ pc = "link" => hops <= MaxHops
    /\ pc \in {"new"} \cup Looking => suffix = <<>>
    /\ pc = "climb" => suffix # <<>>
    /\ pc \in Editing => real # <<>> /\ touched # {}
    /\ pc \notin Editing \cup {"done", "failed"} => touched = {}
    /\ refusal # "none" => pc = "refused"
    /\ changes = 0 => ~disturbed /\ changed = {}

(* Nobody has changed the tree between the look at the leaf and the check, *)
(* nor later what is on the path; its parent evaluated, and for the system *)
(* too.                                                                    *)
Steady ==
    ~disturbed /\ ~blind /\ changed \cap Own = {} /\ Len(suffix) <= 1

(* What the look at the leaf has found out: the path that is opened has no *)
(* links, and the temporary file is none.                                  *)
LeafIsNoLink ==
    /\ pc = "eval" /\ ~disturbed =>
          Lstat(tree, clean).kind # "link" /\ (BlindTo(clean) => blind)
    /\ pc = "climb" /\ ~disturbed =>
          /\ ~Evaluates(tree, Append(clean, suffix[1]))
          /\ Len(suffix) = 1 /\ ~blind /\ Evaluates(tree, clean) =>
                At(tree, Append(Eval(tree, clean).at, suffix[1])).kind # "link"
    /\ pc \in {"check"} \cup Opening /\ Steady => NoLinks(tree, real)
    /\ pc = "temp" /\ Steady => NoLinks(tree, TempOf(real))

(* What is opened is the path that was compared with the fence.            *)
Opened ==
    /\ Steady => /\ touched \subseteq {real, TempOf(real)}
                 /\ touched # {} => real \in touched
    /\ pc \in Returned /\ fence # NoFence => Inside(real, limit)
    /\ refusal = "outside" => /\ ~Inside(real, limit)
                              /\ limit = Eval(tree, fence).at

(* The client's path can be followed, and nothing keeps it from that.      *)
Followed == changes = 0 /\ ~skewed /\ goal.st # "loop"

LeadsToGoal ==
    Followed =>
        /\ pc = "new" => Kernel(tree, Clean(request.to)) = goal
        /\ pc \in Looking => Kernel(tree, clean) = goal
        /\ pc = "climb" /\ Leads(goal) =>
              /\ Len(suffix) = 1 /\ Evaluates(tree, clean)
              /\ goal.at = Append(Eval(tree, clean).at, suffix[1])
        /\ pc = "climb" /\ ~Leads(goal) => Kernel(tree, clean \o suffix) = goal
        /\ pc \in {"eval", "climb", "check"} \cup Returned /\ Leads(goal) =>
              ~blind
        /\ pc \in {"check"} \cup Returned \/ refusal = "outside" =>
              (Leads(goal) => real = goal.at /\ Len(suffix) <= 1)

(* A path that leads nowhere, or whose parent did not evaluate, ...        *)
Barren ==
    \/ ~disturbed /\ ~blind /\ changed = {} /\ Len(suffix) > 1
    \/ changes = 0 /\ ~skewed /\ goal.st = "error"

(* ... is returned as one that leads nowhere, and nothing is touched.      *)
Nowhere ==
    Barren => /\ pc \in {"check", "accepted"} => ~Leads(Kernel(tree, real))
              /\ pc \notin Editing
              /\ touched = {}

LEMMA ValueFacts ==
    ASSUME FileTypes
    PROVE  /\ tree \in FileTrees
           /\ request \in RawPath /\ request.to \in Text
           /\ request.abs \in BOOLEAN /\ Clean(request.to) \in Path
           /\ clean \in Text /\ clean \in Path
           /\ real \in Text /\ real \in Path /\ suffix \in Path
           /\ fence # NoFence => fence \in Path /\ fence \in Text
           /\ goal.st \in {"found", "missing", "loop", "error"}
  <1>1. tree \in FileTrees
    BY DEF FileTypes, TypeOK, FileTrees
  <1>2. /\ request \in RawPath /\ request.to \in Text /\ request.abs \in BOOLEAN
        /\ fence # NoFence => fence \in Path
    BY FenceAssumption DEF FileTypes, TypeOK, RawPath
  <1>3. Clean(request.to) \in Path
    <2>1. <<>> \in Path
      BY DEF Path
    <2> QED
      BY <1>2, <2>1, CleanIs, CleanTyped
  <1>4. clean \in Path /\ real \in Path /\ suffix \in Path
    BY DEF FileTypes, TypeOK
  <1>5. clean \in Text /\ real \in Text
    BY <1>4, PathFacts
  <1>6. goal.st \in {"found", "missing", "loop", "error"}
    BY DEF FileTypes, TypeOK
  <1> QED
    BY <1>1, <1>2, <1>3, <1>4, <1>5, <1>6, PathFacts

(* The temporary file's name, and where it and the path are put if the     *)
(* path has no links.                                                      *)
LEMMA TempFacts ==
    ASSUME NEW p \in Path
    PROVE  /\ TempOf(p) \in Path /\ TempOf(p) \in Text /\ TempOf(p) # <<>>
           /\ Front(TempOf(p)) = Parent(p) /\ Last(TempOf(p)) = Temp
           /\ Len(TempOf(p)) = Len(Parent(p)) + 1
  BY PathFacts, AppendFacts, FenceAssumption DEF TempOf

LEMMA InDirFacts ==
    ASSUME FileTypes, NEW n \in Names
    PROVE  /\ InDir(n) \in Path /\ InDir(n) # <<>>
           /\ Front(InDir(n)) = Kernel(tree, Parent(real)).at
           /\ Len(InDir(n)) = Len(Kernel(tree, Parent(real)).at) + 1
           /\ DirOpens => At(tree, Front(InDir(n))) = Dir
  <1>1. Kernel(tree, Parent(real)).at \in Path
    BY ValueFacts, PathFacts, WalkTyped DEF Typed
  <1> QED
    BY <1>1, AppendFacts DEF InDir, DirOpens

LEMMA InDirIs ==
    ASSUME FileTypes, NoLinks(tree, real), real # <<>>
    PROVE  InDir(Temp) = TempOf(real) /\ InDir(Last(real)) = real
  <1>1. Kernel(tree, Parent(real)).at = Front(real)
    BY ValueFacts, NoLinksFollowed DEF Result
  <1>2. real = Append(Front(real), Last(real)) /\ Parent(real) = Front(real)
    BY ValueFacts, PathFacts
  <1> QED
    BY <1>1, <1>2 DEF InDir, TempOf

LEMMA InitTypes == Init => FileTypes
  <1> SUFFICES ASSUME Init PROVE FileTypes
    OBVIOUS
  <1>1. tree \in [Places -> Entry] /\ IsTree(tree) /\ tree \in FileTrees
    BY FenceAssumption DEF Init, FileTrees
  <1>2. request \in RawPath /\ request.to \in Text
    BY FenceAssumption DEF Init, RawPath
  <1>3. <<>> \in Path /\ Clean(request.to) \in Text
    <2>1. <<>> \in Path
      BY DEF Path
    <2> QED
      BY <1>2, <2>1, CleanIs, CleanTyped, PathFacts
  <1>4. goal \in [st: {"found", "missing", "loop", "error"}, at: Path]
    BY <1>1, <1>3, WalkTyped DEF Init, Typed
  <1>5. 0 \in 0 .. MaxHops + 1 /\ 0 \in 0 .. MaxChanges
    BY FenceAssumption
  <1> QED
    BY <1>1, <1>3, <1>4, <1>5
    DEF Init, FileTypes, TypeOK, States, Refusals, Editing

(* Uploads, and the edit's steps that change the tree.                     *)
LEMMA UploadTypes ==
    ASSUME FileTypes, Upload
    PROVE  tree' \in FileTrees /\ touched' \subseteq Places
  <1> DEFINE to == Kernel(tree, real)
  <1>1. tree \in FileTrees /\ Typed(tree, to) /\ touched \subseteq Places
    BY ValueFacts, WalkTyped DEF FileTypes, TypeOK
  <1>2. ASSUME to.st = "missing" \/ (to.st = "found" /\ At(tree, to.at) = File)
        PROVE  /\ to.at \in Places
               /\ [tree EXCEPT ![to.at] = File] \in FileTrees
    <2>1. to.at \in Path /\ to.at \in Places
      BY <1>1, <1>2 DEF Typed
    <2>2. to.at # <<>> /\ tree[to.at] # Dir
      BY <1>1, <1>2, <2>1, TreeFacts, ConstantEntries DEF At, Typed
    <2>3. At(tree, Front(to.at)) = Dir
      BY <1>1, <1>2, <2>1, <2>2, TreeFacts, ConstantEntries DEF Typed
    <2> HIDE DEF to
    <2> QED
      BY <1>1, <2>1, <2>2, <2>3, EntryPut, ConstantEntries
  <1> QED
    BY <1>1, <1>2 DEF Upload, Fail

LEMMA TempTypes ==
    ASSUME FileTypes, EditTemp
    PROVE  tree' \in FileTrees /\ touched' \subseteq Places
  <1> DEFINE at == InDir(Temp)
  <1>1. tree \in FileTrees /\ touched \subseteq Places /\ Temp \in Names
    BY ValueFacts, FenceAssumption DEF FileTypes, TypeOK
  <1>2. at # <<>> /\ (DirOpens => At(tree, Front(at)) = Dir)
    BY <1>1, InDirFacts
  <1> HIDE DEF at
  <1>3. ASSUME DirOpens, Creatable(at)
        PROVE  at \in Places /\ [tree EXCEPT ![at] = File] \in FileTrees
    <2>1. at \in Places /\ tree[at] # Dir
      BY <1>3, ConstantEntries DEF Creatable
    <2> QED
      BY <1>1, <1>2, <1>3, <2>1, EntryPut, ConstantEntries
  <1>4. \/ /\ DirOpens /\ Creatable(at)
           /\ tree' = [tree EXCEPT ![at] = File]
           /\ touched' = touched \cup {at}
        \/ UNCHANGED <<tree, touched>>
    BY DEF EditTemp, Fail, at
  <1> QED
    BY <1>1, <1>3, <1>4

LEMMA RemoveTypes ==
    ASSUME FileTypes, EditRemove
    PROVE  tree' \in FileTrees /\ touched' \subseteq Places
  <1> DEFINE at == InDir(Temp)
  <1>1. tree \in FileTrees /\ touched \subseteq Places /\ Temp \in Names
    BY ValueFacts, FenceAssumption DEF FileTypes, TypeOK
  <1>2. at # <<>> /\ (DirOpens => At(tree, Front(at)) = Dir)
    BY <1>1, InDirFacts
  <1> HIDE DEF at
  <1>3. ASSUME DirOpens, Moved(at)
        PROVE  at \in Places /\ [tree EXCEPT ![at] = Absent] \in FileTrees
    <2>1. at \in Places /\ tree[at] # Dir
      BY <1>3 DEF Moved
    <2> QED
      BY <1>1, <1>2, <1>3, <2>1, EntryPut, ConstantEntries
  <1>4. \/ /\ DirOpens /\ Moved(at)
           /\ tree' = [tree EXCEPT ![at] = Absent]
           /\ touched' = touched \cup {at}
        \/ UNCHANGED <<tree, touched>>
    BY DEF EditRemove, Fail, at
  <1> QED
    BY <1>1, <1>3, <1>4

LEMMA RenameTypes ==
    ASSUME FileTypes, EditRename
    PROVE  tree' \in FileTrees /\ touched' \subseteq Places
  <1> DEFINE from == InDir(Temp)
             to == InDir(Last(real))
             works == /\ DirOpens /\ Moved(from)
                      /\ to \in Places /\ tree[to] # Dir
  <1>1. /\ tree \in FileTrees /\ touched \subseteq Places /\ Temp \in Names
        /\ Last(real) \in Names
    BY ValueFacts, PathFacts, FenceAssumption
    DEF FileTypes, TypeOK, Editing, EditRename
  <1>2. /\ from # <<>> /\ (DirOpens => At(tree, Front(from)) = Dir)
        /\ to # <<>> /\ (DirOpens => At(tree, Front(to)) = Dir)
        /\ Front(to) = Front(from) /\ from \in Path /\ Front(to) \in Path
        /\ Front(to) # from
    <2>1. \A n \in Names : /\ InDir(n) \in Path /\ InDir(n) # <<>>
                           /\ Front(InDir(n)) = Kernel(tree, Parent(real)).at
                           /\ DirOpens => At(tree, Front(InDir(n))) = Dir
      BY InDirFacts
    <2>2. \A q \in Path : q # <<>> => Front(q) \in Path /\ Front(q) # q
      <3>1. ASSUME NEW q \in Path, q # <<>>
            PROVE  Front(q) \in Path /\ Front(q) # q
        <4>1. /\ Front(q) \in Path /\ Len(Front(q)) = Len(q) - 1
              /\ Len(q) \in Nat
          BY <3>1, PathFacts
        <4> QED
          BY <4>1
      <3> QED
        BY <3>1
    <2> QED
      BY <1>1, <2>1, <2>2
  <1>3. \/ /\ works
           /\ tree' = [tree EXCEPT ![from] = Absent, ![to] = tree[from]]
           /\ touched' = touched \cup {from, to}
        \/ UNCHANGED <<tree, touched>>
    BY DEF EditRename
  <1> HIDE DEF from, to
  <1>4. ASSUME works
        PROVE  /\ from \in Places /\ to \in Places
               /\ [tree EXCEPT ![from] = Absent, ![to] = tree[from]] \in FileTrees
    <2> DEFINE u == [tree EXCEPT ![from] = Absent]
               e == tree[from]
    <2>1. /\ from \in Places /\ tree[from] # Dir /\ to \in Places
          /\ At(tree, Front(from)) = Dir
      BY <1>2, <1>4 DEF Moved
    <2>2. /\ u \in FileTrees /\ \A q \in Path : q # from => At(u, q) = At(tree, q)
      BY <1>1, <1>2, <2>1, EntryPut, ConstantEntries
    <2>3. At(u, Front(to)) = Dir
      BY <1>2, <1>4, <2>2
    <2>4. e \in Entry /\ u[to] # Dir
      BY <1>1, <1>4, <2>1, ConstantEntries DEF FileTrees
    <2>5. [u EXCEPT ![to] = e] \in FileTrees
      <3> HIDE DEF u, e
      <3> QED
        BY <1>2, <2>1, <2>2, <2>3, <2>4, EntryPut
    <2> QED
      BY <2>1, <2>5
  <1> QED
    BY <1>1, <1>3, <1>4

LEMMA StepTypes == FileTypes /\ [Next]_vars => FileTypes'
  <1> SUFFICES ASSUME FileTypes, [Next]_vars PROVE FileTypes'
    OBVIOUS
  <1> USE DEF FileTypes, TypeOK, Looking, Editing, Goto, Refuse, Refusals,
              States, Opening, given, others
  <1>1. /\ tree \in FileTrees /\ request.to \in Text
        /\ Clean(request.to) \in Path /\ clean \in Text /\ real \in Text
        /\ fence # NoFence => fence \in Text
    BY ValueFacts
  <1>2. ASSUME Begin PROVE FileTypes'
    BY <1>1, <1>2 DEF Begin
  <1>3. ASSUME LookAtLeaf PROVE FileTypes'
    <2>1. blind' \in BOOLEAN
      BY <1>3 DEF LookAtLeaf, BlindTo, Evaluates
    <2> QED
      BY <1>3, <2>1 DEF LookAtLeaf
  <1>4. ASSUME FollowLeaf PROVE FileTypes'
    <2> DEFINE e == Lstat(tree, clean)
    <2>1. ASSUME e.kind = "link" PROVE Replaced(clean, e) \in Path
      <3>1. e \in Entry
        BY <1>1, <2>1, LstatLink
      <3> QED
        BY <2>1, <3>1, ReplacedTyped
    <2>2. clean' \in Path
      BY <1>4, <2>1 DEF FollowLeaf, Replaced
    <2>3. hops' \in 0 .. MaxHops + 1
      BY <1>4, FenceAssumption DEF FollowLeaf
    <2>4. skewed' \in BOOLEAN
      BY <1>4 DEF FollowLeaf
    <2>5. /\ pc = "link" /\ suffix = <<>>
          /\ \/ pc' = "leaf" /\ refusal' = refusal
             \/ pc' = "refused" /\ refusal' = "readlink"
      BY <1>4 DEF FollowLeaf
    <2>6. UNCHANGED <<tree, given, suffix, real, limit, blind, others, touched>>
      BY <1>4 DEF FollowLeaf
    <2> QED
      BY <2>2, <2>3, <2>4, <2>5, <2>6
  <1>5. ASSUME Evaluate PROVE FileTypes'
    <2>1. CASE Evaluates(tree, clean)
      BY <1>1, <1>5, <2>1, WalkTyped DEF Evaluate, Typed
    <2>2. CASE ~Evaluates(tree, clean)
      <3>1. clean # <<>>
        BY <1>1, <2>2, RootEvaluates
      <3>2. /\ Front(clean) \in Path /\ <<Last(clean)>> \in Path
            /\ <<Last(clean)>> # <<>>
        BY <3>1, PathFacts DEF Path
      <3> QED
        BY <1>5, <2>2, <3>2 DEF Evaluate
    <2> QED
      BY <2>1, <2>2
  <1>6. ASSUME Climb PROVE FileTypes'
    <2>1. CASE Evaluates(tree, clean)
      <3>1. Eval(tree, clean).at \o suffix \in Path
        BY <1>1, WalkTyped DEF Path, Typed
      <3>2. blind' \in BOOLEAN
        BY <1>6, <2>1 DEF Climb, GivenUp
      <3> QED
        BY <1>6, <2>1, <3>1, <3>2 DEF Climb
    <2>2. CASE ~Evaluates(tree, clean)
      <3>1. clean # <<>>
        BY <1>1, <2>2, RootEvaluates
      <3>2. /\ Front(clean) \in Path /\ <<Last(clean)>> \o suffix \in Path
            /\ <<Last(clean)>> \o suffix # <<>>
        BY <3>1, PathFacts DEF Path
      <3> QED
        BY <1>6, <2>2, <3>2 DEF Climb
    <2> QED
      BY <2>1, <2>2
  <1>7. ASSUME Check PROVE FileTypes'
    <2>1. limit' \in Path
      BY <1>1, <1>7, WalkTyped DEF Check, Typed
    <2> QED
      BY <1>7, <2>1 DEF Check
  <1>8. ASSUME Operate, tree' \in FileTrees, touched' \subseteq Places,
               pc' \in Editing => real # <<>> /\ touched' # {},
               pc' \in Editing \cup {"done", "failed"}, refusal' = refusal,
               refusal = "none"
        PROVE  FileTypes'
    <2>1. UNCHANGED <<given, resolved, others>>
      BY <1>8 DEF Operate, Upload, Read, EditStat, EditRead, EditTemp, EditChmod,
                  EditRename, EditRemove
    <2> QED
      BY <1>8, <2>1 DEF FileTrees, resolved
  <1>9. ASSUME NEW p \in Text, Kernel(tree, p).st = "found"
        PROVE  Kernel(tree, p).at \in Places
    BY <1>1, <1>9, WalkTyped DEF Typed
  <1>10. ASSUME Upload PROVE FileTypes'
    <2>1. tree' \in FileTrees /\ touched' \subseteq Places
      BY <1>10, UploadTypes
    <2>2. /\ pc' \in {"done", "failed"} /\ refusal' = refusal
          /\ pc = "accepted"
      BY <1>10 DEF Upload, Fail
    <2> QED
      BY <1>8, <1>10, <2>1, <2>2 DEF Operate
  <1>11. ASSUME Read PROVE FileTypes'
    <2>1. /\ touched' \subseteq Places /\ UNCHANGED tree
          /\ pc' \in {"done", "failed"} /\ refusal' = refusal
          /\ pc = "accepted"
      BY <1>1, <1>9, <1>11 DEF Read, Fail
    <2> QED
      BY <1>1, <1>8, <1>11, <2>1 DEF Operate
  <1>12. ASSUME EditStat PROVE FileTypes'
    <2> DEFINE to == Kernel(tree, real)
    <2>1. ASSUME to.st = "found" /\ At(tree, to.at) = File PROVE real # <<>>
      <3>1. ASSUME real = <<>> PROVE to = Result("found", <<>>)
        <4>1. Stands(tree, real) /\ KernelHops \in Nat
          BY <1>1, <3>1, TreeFacts, FenceAssumption DEF Stands
        <4> QED
          BY <1>1, <3>1, <4>1, FoundByName DEF Kernel
      <3>2. ASSUME real = <<>> PROVE At(tree, to.at) = Dir
        BY <1>1, <3>1, <3>2, TreeFacts DEF Result
      <3> QED
        BY <2>1, <3>2, ConstantEntries
    <2>2. /\ touched' \subseteq Places /\ UNCHANGED tree
          /\ \/ pc' = "stated" /\ real # <<>> /\ touched' # {}
             \/ pc' = "failed"
          /\ refusal' = refusal /\ pc = "accepted"
      BY <1>1, <1>9, <1>12, <2>1 DEF EditStat, Fail
    <2> QED
      BY <1>1, <1>8, <1>12, <2>2 DEF Operate
  <1>13. ASSUME EditRead PROVE FileTypes'
    <2>1. /\ touched' \subseteq Places /\ touched' # {} /\ UNCHANGED tree
          /\ pc' \in {"read", "failed"}
          /\ refusal' = refusal /\ pc = "stated"
      BY <1>1, <1>9, <1>13 DEF EditRead, Fail
    <2> QED
      BY <1>1, <1>8, <1>13, <2>1 DEF Operate
  <1>14. ASSUME EditTemp PROVE FileTypes'
    <2>1. tree' \in FileTrees /\ touched' \subseteq Places
      BY <1>14, TempTypes
    <2>2. /\ touched' # {} /\ pc' \in {"temp", "failed"}
          /\ refusal' = refusal /\ pc = "read"
      BY <1>14 DEF EditTemp, Fail
    <2> QED
      BY <1>8, <1>14, <2>1, <2>2 DEF Operate
  <1>15. ASSUME EditChmod PROVE FileTypes'
    <2>1. TempOf(real) \in Text
      BY TempFacts
    <2>2. /\ touched' \subseteq Places /\ touched' # {} /\ UNCHANGED tree
          /\ pc' \in {"moded", "cleanup"}
          /\ refusal' = refusal /\ pc = "temp"
      BY <1>1, <1>9, <1>15, <2>1 DEF EditChmod
    <2> QED
      BY <1>1, <1>8, <1>15, <2>2 DEF Operate
  <1>16. ASSUME EditRename PROVE FileTypes'
    <2>1. tree' \in FileTrees /\ touched' \subseteq Places
      BY <1>16, RenameTypes
    <2>2. /\ touched' # {} /\ pc' \in {"done", "cleanup"}
          /\ refusal' = refusal /\ pc = "moded"
      BY <1>16 DEF EditRename
    <2> QED
      BY <1>8, <1>16, <2>1, <2>2 DEF Operate
  <1>17. ASSUME EditRemove PROVE FileTypes'
    <2>1. tree' \in FileTrees /\ touched' \subseteq Places
      BY <1>17, RemoveTypes
    <2>2. pc' = "failed" /\ refusal' = refusal /\ pc = "cleanup"
      BY <1>17 DEF EditRemove, Fail
    <2> QED
      BY <1>8, <1>17, <2>1, <2>2 DEF Operate
  <1>18. ASSUME Change PROVE FileTypes'
    <2>1. PICK e \in Edits :
             /\ tree[Front(e[1])] = Dir
             /\ tree' = Altered(tree, e[1], e[2])
             /\ changed' = IF pc \in Opening
                           THEN changed \cup {e[1]} ELSE changed
      BY <1>18 DEF Change, Altered
    <2>2. e[1] \in Places \ {<<>>} /\ e[2] \in Entry
      BY FenceAssumption
    <2>3. tree' \in FileTrees
      BY <1>1, <2>1, <2>2, AlteredFacts
    <2>4. changed' \subseteq Places
      BY <2>1, <2>2
    <2>5. /\ disturbed' \in BOOLEAN
          /\ changes' \in 0 .. MaxChanges /\ changes' # 0
      BY <1>18, FenceAssumption DEF Change
    <2>6. UNCHANGED <<given, pc, refusal, resolved, touched>>
      BY <1>18 DEF Change
    <2> QED
      BY <2>3, <2>4, <2>5, <2>6 DEF FileTrees, resolved
  <1>19. CASE UNCHANGED vars
    BY <1>19 DEF vars, resolved
  <1> QED
    BY <1>2, <1>3, <1>4, <1>5, <1>6, <1>7, <1>10, <1>11, <1>12, <1>13, <1>14,
       <1>15, <1>16, <1>17, <1>18, <1>19 DEF Next, Resolve, Operate

(* Every step leaves a tree, paths and places.                             *)
THEOREM TypeCorrect == Spec => []TypeOK
  <1>1. FileTypes => TypeOK
    BY DEF FileTypes
  <1> QED
    BY <1>1, InitTypes, StepTypes, PTL DEF Spec

---------------------------------------------------------------------------
(* The path that is opened has no links.                                   *)

LEMMA FoundHasNoLinks ==
    ASSUME NEW t \in FileTrees, NEW p \in Path, Stands(t, p)
    PROVE  NoLinks(t, p)
  <1>1. At(t, p).kind # "link"
    BY ConstantEntries DEF Stands
  <1>2. ASSUME p # <<>> PROVE At(t, Front(p)) = Dir
    BY <1>2, TreeFacts, ConstantEntries DEF Stands
  <1> QED
    BY <1>1, <1>2 DEF NoLinks, Stands

LEMMA SingleName ==
    ASSUME NEW p \in Path, p # <<>>, Len(p) <= 1
    PROVE  Len(p) = 1 /\ p[1] \in Names /\ p = <<p[1]>>
  <1>1. Len(p) = 1
    <2>1. Len(p) \in Nat /\ Len(p) > 0
      BY PathFacts
    <2> QED
      BY <2>1
  <1>2. p[1] \in Names
    BY <1>1 DEF Path
  <1>3. p = <<p[1]>>
    BY <1>1, SeqEqual DEF Path
  <1> QED
    BY <1>1, <1>2, <1>3

(* A change elsewhere leaves a path as it is.                              *)
LEMMA NoLinksKept ==
    ASSUME NEW t \in FileTrees, NEW p \in Places \ {<<>>}, NEW e \in Entry,
           t[Front(p)] = Dir, NEW q \in Path, ~IsPrefix(p, q), NoLinks(t, q)
    PROVE  NoLinks(Altered(t, p, e), q)
  <1>1. At(Altered(t, p, e), q) = At(t, q)
    BY AlteredFacts
  <1>2. ASSUME q # <<>>
        PROVE  At(Altered(t, p, e), Front(q)) = At(t, Front(q))
    <2>1. p \in Path /\ Front(q) \in Path
      BY <1>2, PathFacts, FenceAssumption
    <2>2. ~IsPrefix(p, Front(q))
      BY <1>2, <2>1, PrefixOfFront
    <2> QED
      BY <2>1, <2>2, AlteredFacts
  <1> QED
    BY <1>1, <1>2 DEF NoLinks, Stands

(* What Change does, in terms of one edit.                                 *)
LEMMA ChangeFacts ==
    ASSUME FileTypes, Change
    PROVE  \E p \in Places \ {<<>>} : \E e \in Entry :
              /\ tree[Front(p)] = Dir
              /\ tree' = Altered(tree, p, e)
              /\ changed' = IF pc \in Opening
                            THEN changed \cup {p} ELSE changed
  <1>1. PICK e \in Edits :
           /\ tree[Front(e[1])] = Dir
           /\ tree' = Altered(tree, e[1], e[2])
           /\ changed' = IF pc \in Opening
                         THEN changed \cup {e[1]} ELSE changed
    BY DEF Change, Altered
  <1>2. e[1] \in Places \ {<<>>} /\ e[2] \in Entry
    BY FenceAssumption
  <1> QED
    BY <1>1, <1>2

(* What an operation leaves alone, and when it takes a step.               *)
LEMMA OperateFacts ==
    ASSUME FileTypes, Operate
    PROVE  /\ pc \in {"accepted"} \cup Editing /\ pc' \in Returned
           /\ refusal = "none" /\ refusal' = "none"
           /\ UNCHANGED <<given, resolved, others>>
           /\ pc' \in Editing => EditStat \/ pc \in Editing
           /\ pc' # "accepted"
  <1>1. \/ Upload \/ Read \/ EditStat \/ EditRead \/ EditTemp \/ EditChmod
        \/ EditRename \/ EditRemove
    BY DEF Operate
  <1>2. UNCHANGED <<given, resolved, others>>
    BY <1>1, Zenon DEF Upload, Read, EditStat, EditRead, EditTemp, EditChmod,
                EditRename, EditRemove
  <1>3. /\ pc \in {"accepted"} \cup Editing
        /\ pc' \in {"done", "failed"} \cup Editing
        /\ refusal' = refusal
        /\ pc' \in Editing => EditStat \/ pc \in Editing
    BY <1>1 DEF Upload, Read, EditStat, EditRead, EditTemp, EditChmod,
                EditRename, EditRemove, Fail, Goto, Editing
  <1>4. refusal = "none"
    BY <1>3 DEF FileTypes, Editing
  <1> QED
    BY <1>2, <1>3, <1>4 DEF Returned, Editing

(* Once the path is checked, what is steady was steady before.             *)
LEMMA SteadyBefore ==
    ASSUME UNCHANGED <<real, suffix, blind>>, disturbed => disturbed',
           changed \subseteq changed'
    PROVE  Steady' => Steady
  BY DEF Steady, Own, Prefixed, TempOf

LEMMA StepLeaf == FileTypes /\ LeafIsNoLink /\ [Next]_vars => LeafIsNoLink'
  <1> SUFFICES ASSUME FileTypes, LeafIsNoLink, [Next]_vars
               PROVE  LeafIsNoLink'
    OBVIOUS
  <1>1. /\ tree \in FileTrees /\ clean \in Text /\ clean \in Path
        /\ real \in Path /\ suffix \in Path
    BY ValueFacts
  <1> USE DEF LeafIsNoLink, Goto, Refuse, Opening
  <1>2. CASE Begin
    BY <1>2 DEF Begin
  <1>3. CASE LookAtLeaf
    <2>1. /\ UNCHANGED <<tree, clean>> /\ blind' = BlindTo(clean)
          /\ pc' = "eval" => Lstat(tree, clean).kind # "link"
          /\ pc' \in {"eval", "link", "refused"}
      BY <1>3 DEF LookAtLeaf
    <2>2. BlindTo(clean)' = BlindTo(clean)
      BY <2>1 DEF BlindTo
    <2> QED
      BY <2>1, <2>2
  <1>4. CASE FollowLeaf
    BY <1>4 DEF FollowLeaf
  <1>5. CASE Evaluate
    <2>1. pc = "eval" /\ UNCHANGED <<tree, disturbed>>
      BY <1>5 DEF Evaluate, others
    <2>2. CASE Evaluates(tree, clean)
      <3>1. real' = Eval(tree, clean).at /\ pc' = "check"
        BY <1>5, <2>2 DEF Evaluate
      <3>2. NoLinks(tree, real')
        BY <1>1, <2>2, <3>1, WalkTyped, FoundHasNoLinks DEF Evaluates, Typed
      <3> QED
        BY <2>1, <3>1, <3>2
    <2>3. CASE ~Evaluates(tree, clean)
      <3> DEFINE d == Front(clean)
                 n == Last(clean)
      <3>1. /\ pc' = "climb" /\ suffix' = <<n>> /\ clean' = d /\ blind' = blind
        BY <1>5, <2>3 DEF Evaluate
      <3>2. d \in Path /\ n \in Names /\ clean = Append(d, n)
        BY <1>1, <2>3, RootEvaluates, PathFacts
      <3>3. ASSUME ~disturbed, ~blind, Evaluates(tree, d)
            PROVE  At(tree, Append(Eval(tree, d).at, n)).kind # "link"
        <4>1. Lstat(tree, clean).kind # "link" /\ ~BlindTo(clean)
          BY <2>1, <3>3
        <4> HIDE DEF d, n
        <4>2. d \in Text
          BY <3>2, PathFacts
        <4>3. Kernel(tree, d).st # "loop"
          BY <1>1, <3>2, <3>3, <4>1, LstatFacts
        <4>4. Eval(tree, d) = Kernel(tree, d)
          BY <1>1, <4>2, <4>3, KernelEval
        <4>5. Kernel(tree, d).st = "found"
          BY <3>3, <4>4 DEF Evaluates
        <4> QED
          BY <1>1, <3>2, <4>1, <4>4, <4>5, LstatFacts
      <3>4. suffix'[1] = n
        BY <3>1
      <3>5. ~Evaluates(tree, Append(d, n))
        BY <2>3, <3>2
      <3> HIDE DEF d, n
      <3> QED
        BY <2>1, <3>1, <3>3, <3>4, <3>5
    <2> QED
      BY <2>2, <2>3
  <1>6. CASE Climb
    <2>1. /\ pc = "climb" /\ UNCHANGED <<tree, disturbed>> /\ suffix # <<>>
      BY <1>6 DEF Climb, others, FileTypes
    <2>2. CASE Evaluates(tree, clean)
      <3> DEFINE d == Eval(tree, clean).at
      <3>1. /\ real' = d \o suffix /\ pc' = "check" /\ suffix' = suffix
            /\ Len(suffix) = 1 => blind' = blind
        BY <1>6, <2>2 DEF Climb
      <3>2. ASSUME ~disturbed, ~blind', Len(suffix) <= 1
            PROVE  NoLinks(tree, real')
        <4>1. /\ Len(suffix) = 1 /\ suffix = <<suffix[1]>>
              /\ suffix[1] \in Names
          BY <1>1, <2>1, <3>2, SingleName
        <4>2. d \in Path /\ Stands(tree, d)
          BY <1>1, <2>2, WalkTyped DEF Evaluates, Typed
        <4>3. At(tree, Append(d, suffix[1])).kind # "link"
          BY <2>1, <2>2, <3>1, <3>2, <4>1
        <4> HIDE DEF d
        <4>4. real' = Append(d, suffix[1])
          BY <3>1, <4>1, <4>2, AppendIsConcat DEF Path
        <4> QED
          BY <4>1, <4>2, <4>3, <4>4, AppendFacts DEF NoLinks
      <3> QED
        BY <2>1, <3>1, <3>2 DEF Steady
    <2>3. CASE ~Evaluates(tree, clean)
      <3>1. /\ pc' = "climb" /\ suffix' = <<Last(clean)>> \o suffix
            /\ clean' = Front(clean)
        BY <1>6, <2>3 DEF Climb
      <3>2. /\ Last(clean) \in Names
            /\ Append(Front(clean), Last(clean)) = clean
        BY <1>1, <2>3, RootEvaluates, PathFacts
      <3>3. Len(suffix') # 1 /\ suffix'[1] = Last(clean)
        <4>1. Len(suffix) \in Nat /\ Len(suffix) > 0
          BY <1>1, <2>1, PathFacts
        <4> QED
          BY <1>1, <3>1, <3>2, <4>1 DEF Path
      <3>4. ~Evaluates(tree, Append(clean', suffix'[1]))
        BY <2>3, <3>1, <3>2, <3>3
      <3> QED
        BY <2>1, <3>1, <3>3, <3>4
    <2> QED
      BY <2>2, <2>3
  <1>7. CASE Check
    <2>1. /\ pc = "check" /\ pc' \in {"accepted", "refused"}
          /\ UNCHANGED <<tree, real, disturbed, changed, suffix, blind>>
      BY <1>7 DEF Check, others
    <2>2. Steady' => Steady
      BY <2>1, SteadyBefore
    <2> QED
      BY <2>1, <2>2
  <1>8. CASE Operate
    <2>1. /\ UNCHANGED <<real, disturbed, changed, suffix, blind>>
          /\ pc \in Opening /\ pc' # "accepted"
          /\ pc' \in {"check"} \cup Opening => pc' \in Editing
          /\ pc' \in Editing => EditStat \/ pc \in Editing
      BY <1>8, OperateFacts DEF resolved, others, Returned, Editing
    <2>2. Steady' => Steady
      BY <2>1, SteadyBefore
    <2>3. pc' \notin {"eval", "climb"}
      BY <1>8, OperateFacts DEF Returned, Editing
    <2>4. CASE EditTemp
      <3>1. pc = "read"
        BY <2>4 DEF EditTemp
      <3>2. ASSUME Steady, pc' = "temp"
            PROVE  NoLinks(tree', real) /\ NoLinks(tree', TempOf(real))
        <4> DEFINE p == TempOf(real)
        <4>1. NoLinks(tree, real) /\ real # <<>>
          BY <3>1, <3>2 DEF FileTypes, Editing
        <4>2. /\ p \in Places /\ tree[p] # Dir
              /\ DirOpens /\ tree' = [tree EXCEPT ![p] = File]
          BY <2>4, <3>2, <4>1, InDirIs, ConstantEntries
          DEF EditTemp, Fail, Creatable
        <4>3. /\ p \in Path /\ p # <<>> /\ Front(p) = Front(real)
              /\ Front(real) \in Path /\ Stands(tree, Front(real))
              /\ Front(real) # p
          <5>1. /\ p \in Path /\ p # <<>> /\ Front(p) = Parent(real)
                /\ Parent(real) = Front(real) /\ Front(real) \in Path
            BY <1>1, <4>1, TempFacts, PathFacts
          <5>2. Len(Front(p)) = Len(p) - 1 /\ Len(p) \in Nat
            BY <5>1, PathFacts
          <5>3. Front(p) # p
            BY <5>2
          <5> QED
            BY <4>1, <5>1, <5>3 DEF NoLinks
        <4>4. At(tree, Front(p)) = Dir
          <5>1. InDir(Temp) = p
            BY <4>1, InDirIs
          <5> QED
            BY <4>2, <5>1, InDirFacts, FenceAssumption
        <4> HIDE DEF p
        <4>5. /\ \A q \in Path : q # p => At(tree', q) = At(tree, q)
              /\ At(tree', p) = File
          <5> DEFINE u == [tree EXCEPT ![p] = File]
          <5>1. /\ p \in Places \ {<<>>} /\ At(tree, Front(p)) = Dir
                /\ tree[p] # Dir /\ File \in Entry
            BY <4>2, <4>3, <4>4, ConstantEntries
          <5>2. /\ \A q \in Path : q # p => At(u, q) = At(tree, q)
                /\ At(u, p) = File
            BY <1>1, <5>1, EntryPut
          <5>3. tree' = u
            BY <4>2
          <5> HIDE DEF u
          <5> QED
            BY <5>2, <5>3
        <4>6. Stands(tree', Front(real)) /\ Stands(tree', Front(p))
          BY <4>3, <4>5 DEF Stands
        <4>7. NoLinks(tree', p)
          BY <4>5, <4>6, ConstantEntries DEF NoLinks
        <4>8. At(tree', real).kind # "link"
          BY <1>1, <4>1, <4>5, ConstantEntries DEF NoLinks
        <4>9. NoLinks(tree', real)
          BY <4>6, <4>8 DEF NoLinks
        <4> QED
          BY <4>7, <4>9 DEF p
      <3>3. pc' \in {"temp", "failed"}
        BY <2>4 DEF EditTemp, Fail
      <3>4. TempOf(real)' = TempOf(real)
        BY <2>1 DEF TempOf
      <3> QED
        BY <2>1, <2>2, <3>2, <3>3, <3>4
    <2>5. CASE ~EditTemp
      <3>1. pc' \in Editing => tree' = tree
        BY <1>8, <2>5 DEF Operate, Upload, Read, EditStat, EditRead, EditChmod,
                         EditRename, EditRemove, Fail, Editing
      <3>2. pc' # "temp"
        BY <1>8, <2>5 DEF Operate, Upload, Read, EditStat, EditRead, EditChmod,
                         EditRename, EditRemove, Fail
      <3> QED
        BY <2>1, <2>2, <2>3, <3>1, <3>2
    <2> QED
      BY <2>4, <2>5
  <1>9. CASE Change
    <2>1. /\ UNCHANGED <<pc, real, suffix, blind>>
          /\ pc \in {"eval", "climb", "check"} => disturbed'
          /\ disturbed => disturbed'
      BY <1>9 DEF Change, resolved
    <2>2. PICK p \in Places \ {<<>>}, e \in Entry :
             /\ tree[Front(p)] = Dir
             /\ tree' = Altered(tree, p, e)
             /\ changed' = IF pc \in Opening
                           THEN changed \cup {p} ELSE changed
      BY <1>9, ChangeFacts
    <2>3. ASSUME pc \in Opening, Steady'
          PROVE  /\ Steady
                 /\ NoLinks(tree, real) => NoLinks(tree', real)
                 /\ NoLinks(tree, TempOf(real)) => NoLinks(tree', TempOf(real))
      <3>1. Steady
        BY <2>1, <2>2, <2>3, SteadyBefore
      <3>2. p \notin Own
        <4>1. Own' = Own
          BY <2>1 DEF Own, Prefixed, TempOf
        <4>2. p \in changed'
          BY <2>2, <2>3
        <4> QED
          BY <2>3, <4>1, <4>2 DEF Steady
      <3>3. ~IsPrefix(p, real) /\ ~IsPrefix(p, TempOf(real))
        BY <3>2 DEF Own, Prefixed
      <3>4. TempOf(real) \in Path
        BY <1>1, TempFacts
      <3> QED
        BY <1>1, <2>2, <3>1, <3>3, <3>4, NoLinksKept
    <2>4. ASSUME pc' \in {"check"} \cup Opening, Steady'
          PROVE  NoLinks(tree', real')
      <3>1. pc # "check"
        BY <2>1, <2>4 DEF Steady
      <3> QED
        BY <2>1, <2>3, <2>4, <3>1
    <2>5. ASSUME pc' = "temp", Steady'
          PROVE  NoLinks(tree', TempOf(real)')
      <3>1. TempOf(real)' = TempOf(real)
        BY <2>1 DEF TempOf
      <3> QED
        BY <2>1, <2>3, <2>5, <3>1
    <2> QED
      BY <2>1, <2>4, <2>5
  <1>10. CASE UNCHANGED vars
    <2>1. /\ UNCHANGED <<tree, clean, real, suffix, pc, disturbed, changed, blind>>
      BY <1>10 DEF vars
    <2>2. Steady' => Steady
      BY <2>1, SteadyBefore
    <2>3. BlindTo(clean)' = BlindTo(clean) /\ TempOf(real)' = TempOf(real)
      BY <2>1 DEF BlindTo, TempOf
    <2> QED
      BY <2>1, <2>2, <2>3
  <1> QED
    BY <1>2, <1>3, <1>4, <1>5, <1>6, <1>7, <1>8, <1>9, <1>10 DEF Next, Resolve

LEMMA StepOpened ==
    FileTypes /\ LeafIsNoLink /\ Opened /\ [Next]_vars => Opened'
  <1> SUFFICES ASSUME FileTypes, LeafIsNoLink, Opened, [Next]_vars
               PROVE  Opened'
    OBVIOUS
  <1>1. tree \in FileTrees /\ real \in Path /\ real \in Text
    BY ValueFacts
  <1> USE DEF Opened, Goto, Refuse
  <1>2. ASSUME Resolve PROVE touched' = {}
    BY <1>2 DEF Resolve, Begin, LookAtLeaf, FollowLeaf, Evaluate, Climb, Check,
                FileTypes, Editing
  <1>3. ASSUME Begin \/ LookAtLeaf \/ FollowLeaf \/ Evaluate \/ Climb
        PROVE  /\ pc' \notin Returned
               /\ refusal' # "outside"
    BY <1>3 DEF Begin, LookAtLeaf, FollowLeaf, Evaluate, Climb, FileTypes,
                Returned, Editing
  <1>4. ASSUME Check
        PROVE  /\ pc' \in Returned /\ fence' # NoFence => Inside(real', limit')
               /\ refusal' = "outside" => /\ ~Inside(real', limit')
                                          /\ limit' = Eval(tree', fence').at
    <2>1. /\ real' = real /\ fence' = fence /\ tree' = tree
          /\ pc = "check" /\ refusal = "none"
      BY <1>4 DEF Check, given, FileTypes
    <2> QED
      BY <1>4, <2>1 DEF Check, Returned, Editing
  <1>5. CASE Resolve
    BY <1>2, <1>3, <1>4, <1>5 DEF Resolve
  <1>6. ASSUME Operate
        PROVE  /\ pc \in {"accepted"} \cup Editing
               /\ refusal = "none" /\ refusal' = "none"
               /\ UNCHANGED <<fence, real, limit, suffix, disturbed, changed,
                              blind>>
    BY <1>6, OperateFacts DEF given, resolved, others
  <1>7. ASSUME Operate, Steady
        PROVE  /\ touched' \subseteq {real, TempOf(real)}
               /\ touched' # {} => real \in touched'
    <2>1. /\ NoLinks(tree, real) /\ touched \subseteq {real, TempOf(real)}
          /\ touched # {} => real \in touched
      BY <1>6, <1>7 DEF LeafIsNoLink, Opening, Editing
    <2>2. Leads(Kernel(tree, real)) => Kernel(tree, real).at = real
      BY <1>1, <2>1, NoLinksFollowed
    <2>3. ASSUME pc \in Editing
          PROVE  /\ InDir(Temp) = TempOf(real) /\ InDir(Last(real)) = real
                 /\ real \in touched
      BY <2>1, <2>3, InDirIs DEF FileTypes
    <2>4. CASE Upload
      BY <2>1, <2>2, <2>4 DEF Upload, Fail, Leads
    <2>5. CASE Read
      BY <2>1, <2>2, <2>5 DEF Read, Fail, Leads
    <2>6. CASE EditStat
      BY <2>1, <2>2, <2>6 DEF EditStat, Fail, Leads
    <2>7. CASE EditRead
      BY <2>1, <2>2, <2>7 DEF EditRead, Fail, Leads
    <2>8. CASE EditTemp
      BY <2>1, <2>3, <2>8 DEF EditTemp, Fail, Editing
    <2>9. CASE EditChmod
      <3>1. NoLinks(tree, TempOf(real)) /\ TempOf(real) \in Path
        BY <1>1, <1>7, <2>9, TempFacts DEF LeafIsNoLink, EditChmod
      <3>2. Leads(Kernel(tree, TempOf(real))) =>
              Kernel(tree, TempOf(real)).at = TempOf(real)
        BY <1>1, <3>1, NoLinksFollowed
      <3> QED
        BY <2>1, <2>3, <2>9, <3>2 DEF EditChmod, Leads, Editing
    <2>10. CASE EditRename
      BY <2>1, <2>3, <2>10 DEF EditRename, Editing
    <2>11. CASE EditRemove
      BY <2>1, <2>3, <2>11 DEF EditRemove, Fail, Editing
    <2> QED
      BY <1>7, <2>4, <2>5, <2>6, <2>7, <2>8, <2>9, <2>10, <2>11 DEF Operate
  <1>8. CASE Operate
    <2>1. Steady' => Steady
      BY <1>6, <1>8, SteadyBefore
    <2>2. TempOf(real)' = TempOf(real)
      BY <1>6, <1>8 DEF TempOf
    <2>3. Steady' => /\ touched' \subseteq {real', TempOf(real)'}
                     /\ touched' # {} => real' \in touched'
      BY <1>6, <1>7, <1>8, <2>1, <2>2
    <2>4. /\ pc \in Returned /\ fence' = fence /\ real' = real /\ limit' = limit
          /\ refusal' # "outside"
      BY <1>6, <1>8 DEF Returned
    <2> QED
      BY <2>3, <2>4
  <1>9. CASE Change
    <2>1. /\ UNCHANGED <<pc, fence, real, limit, refusal, suffix, blind, touched>>
          /\ disturbed => disturbed'
          /\ refusal = "none"
      BY <1>9 DEF Change, given, resolved, FileTypes
    <2>2. changed \subseteq changed'
      <3>1. PICK p \in Places :
               changed' = IF pc \in Opening
                          THEN changed \cup {p} ELSE changed
        BY <1>9, ChangeFacts
      <3> QED
        BY <3>1
    <2>3. Steady' => Steady
      BY <2>1, <2>2, SteadyBefore
    <2>4. TempOf(real)' = TempOf(real)
      BY <2>1 DEF TempOf
    <2> QED
      BY <2>1, <2>3, <2>4
  <1>10. CASE UNCHANGED vars
    <2>1. UNCHANGED <<tree, pc, fence, real, limit, refusal, suffix, blind,
                      touched, disturbed, changed>>
      BY <1>10 DEF vars
    <2>2. Steady' => Steady
      BY <2>1, SteadyBefore
    <2>3. TempOf(real)' = TempOf(real)
      BY <2>1 DEF TempOf
    <2> QED
      BY <2>1, <2>2, <2>3
  <1> QED
    BY <1>5, <1>8, <1>9, <1>10 DEF Next

---------------------------------------------------------------------------
(* The path leads where the client's path leads.                           *)

(* Evaluate: what is not found is where a file can be created, below the   *)
(* parent, or leads nowhere.                                               *)
LEMMA EvaluateLeads ==
    ASSUME FileTypes, LeafIsNoLink, LeadsToGoal, Evaluate, Followed'
    PROVE  LeadsToGoal'
  <1>1. /\ tree \in FileTrees /\ clean \in Text /\ clean \in Path
        /\ pc = "eval" /\ suffix = <<>> /\ refusal # "outside"
        /\ UNCHANGED <<tree, refusal, changes, skewed, goal, disturbed>>
    BY ValueFacts DEF FileTypes, TypeOK, Evaluate, Goto, others, given, Looking
  <1>2. /\ Kernel(tree, clean) = goal /\ goal.st # "loop" /\ ~disturbed
        /\ Leads(goal) => ~blind
    BY <1>1 DEF LeadsToGoal, Followed, Looking, FileTypes
  <1>3. Eval(tree, clean) = goal
    BY <1>1, <1>2, KernelEval
  <1>4. CASE Evaluates(tree, clean)
    <2>1. /\ real' = goal.at /\ pc' = "check" /\ suffix' = <<>>
          /\ blind' = FALSE
      BY <1>1, <1>3, <1>4 DEF Evaluate, Goto
    <2>2. Len(suffix') <= 1
      BY <2>1
    <2> QED
      BY <1>1, <2>1, <2>2 DEF LeadsToGoal, Looking
  <1>5. CASE ~Evaluates(tree, clean)
    <2> DEFINE d == Front(clean)
               n == Last(clean)
    <2>1. /\ pc' = "climb" /\ suffix' = <<n>> /\ clean' = d /\ blind' = blind
      BY <1>5 DEF Evaluate, Goto
    <2>2. d \in Path /\ n \in Names /\ clean = Append(d, n)
      BY <1>1, <1>5, RootEvaluates, PathFacts
    <2>3. Lstat(tree, clean).kind # "link"
      BY <1>1, <1>2 DEF LeafIsNoLink
    <2>4. goal.st # "found"
      BY <1>3, <1>5 DEF Evaluates
    <2> HIDE DEF d, n
    <2>5. ASSUME Leads(goal)
          PROVE  /\ Evaluates(tree, d)
                 /\ goal.at = Append(Eval(tree, d).at, n)
      <3>1. Kernel(tree, Append(d, n)).st = "missing"
        BY <1>2, <2>2, <2>4, <2>5 DEF Leads
      <3> QED
        BY <1>1, <1>2, <2>2, <2>3, <3>1, ParentOfMissing
    <2>6. Len(suffix') = 1 /\ suffix'[1] = n
      BY <2>1
    <2>7. clean' \o suffix' = clean
      BY <2>1, <2>2, AppendIsConcat DEF Path
    <2>8. Kernel(tree', clean' \o suffix') = goal'
      BY <1>1, <1>2, <2>7
    <2>9. /\ Leads(goal') =>
                /\ Len(suffix') = 1 /\ Evaluates(tree', clean')
                /\ goal'.at = Append(Eval(tree', clean').at, suffix'[1])
          /\ Leads(goal') => ~blind'
      BY <1>1, <1>2, <2>1, <2>5, <2>6
    <2> QED
      BY <1>1, <2>1, <2>8, <2>9 DEF LeadsToGoal, Looking, Returned, Editing
  <1> QED
    BY <1>4, <1>5

(* FollowLeaf.                                                             *)
LEMMA FollowLeads ==
    ASSUME FileTypes, LeadsToGoal, FollowLeaf, Followed'
    PROVE  LeadsToGoal'
  <1> DEFINE e == Lstat(tree, clean)
  <1>1. /\ tree \in FileTrees /\ clean \in Path
        /\ pc = "link" /\ refusal # "outside"
        /\ UNCHANGED <<tree, changes, goal>>
        /\ skewed => skewed'
    BY ValueFacts DEF FileTypes, TypeOK, FollowLeaf, others, given
  <1>2. Kernel(tree, clean) = goal /\ goal.st # "loop"
    BY <1>1 DEF LeadsToGoal, Followed, Looking
  <1>3. CASE e.kind = "link"
    <2>1. /\ clean' = Replaced(clean, e) /\ pc' = "leaf"
          /\ refusal' = refusal
      BY <1>3 DEF FollowLeaf, Goto, Replaced
    <2>2. e.abs \/ Kernel(tree, Parent(clean)).at = Parent(clean)
      BY <1>3 DEF FollowLeaf, Followed, Skews
    <2>3. e \in Entry
      BY <1>1, <1>3, LstatLink
    <2>4. Kernel(tree, Replaced(clean, e)) = Kernel(tree, clean)
      BY <1>1, <1>2, <1>3, <2>2, <2>3, ReplacedLeads
    <2>5. Kernel(tree', clean') = goal'
      BY <1>1, <1>2, <2>1, <2>4
    <2> QED
      BY <1>1, <2>1, <2>5 DEF LeadsToGoal, Looking, Returned, Editing
  <1>4. CASE e.kind # "link"
    <2>1. pc' = "refused" /\ refusal' = "readlink"
      BY <1>4 DEF FollowLeaf, Refuse
    <2> QED
      BY <2>1 DEF LeadsToGoal, Looking, Returned, Editing
  <1> QED
    BY <1>3, <1>4

(* Climb.                                                                  *)
LEMMA ClimbLeads ==
    ASSUME FileTypes, LeadsToGoal, Climb, Followed'
    PROVE  LeadsToGoal'
  <1>1. /\ pc = "climb" /\ refusal = "none" /\ suffix # <<>>
        /\ UNCHANGED <<tree, refusal, goal, changes, skewed>>
    BY DEF Climb, Goto, given, others, FileTypes
  <1>2. tree \in FileTrees /\ clean \in Path /\ clean \in Text /\ suffix \in Path
    BY ValueFacts
  <1>3. Followed
    BY <1>1 DEF Followed
  <1>4. CASE Leads(goal)
    <2>1. /\ Len(suffix) = 1 /\ Evaluates(tree, clean) /\ ~blind
          /\ goal.at = Append(Eval(tree, clean).at, suffix[1])
      BY <1>1, <1>3, <1>4 DEF LeadsToGoal
    <2> DEFINE d == Eval(tree, clean).at
    <2>2. /\ real' = d \o suffix /\ pc' = "check" /\ suffix' = suffix
          /\ blind' = blind
      BY <2>1 DEF Climb, Goto
    <2>3. d \in Path
      BY <1>2, WalkTyped DEF Typed
    <2>4. suffix = <<suffix[1]>> /\ suffix[1] \in Names
      <3>1. Len(suffix) <= 1
        BY <2>1
      <3> QED
        BY <1>1, <1>2, <3>1, SingleName
    <2> HIDE DEF d
    <2>5. d \o suffix = Append(d, suffix[1])
      BY <2>3, <2>4, AppendIsConcat DEF Path
    <2>6. real' = goal'.at /\ Len(suffix') <= 1 /\ ~blind'
      BY <1>1, <2>1, <2>2, <2>5 DEF d
    <2> QED
      BY <1>1, <2>2, <2>6 DEF LeadsToGoal, Looking
  <1>5. CASE ~Leads(goal)
    <2>1. ~Leads(goal') /\ refusal' # "outside" /\ pc' \in {"check", "climb"}
      BY <1>1, <1>5 DEF Climb, Goto
    <2>2. ASSUME pc' = "climb" PROVE Kernel(tree', clean' \o suffix') = goal'
      <3>1. /\ suffix' = <<Last(clean)>> \o suffix
            /\ clean' = Front(clean) /\ ~Evaluates(tree, clean)
        BY <2>2 DEF Climb, Goto
      <3>2. clean # <<>>
        BY <1>2, <3>1, RootEvaluates
      <3> DEFINE d == Front(clean)
                 n == Last(clean)
      <3>3. /\ d \in Path /\ n \in Names /\ clean = Append(d, n)
        BY <1>2, <3>2, PathFacts
      <3>4. clean' \o suffix' = d \o (<<n>> \o suffix)
        BY <3>1
      <3> HIDE DEF d, n
      <3>5. /\ d \in Text /\ <<n>> \in Text /\ suffix \in Text
            /\ clean = d \o <<n>>
        <4>1. d \in Text /\ suffix \in Text
          BY <1>2, <3>3, PathFacts
        <4>2. <<n>> \in Text
          BY <3>3 DEF Text
        <4>3. clean = d \o <<n>>
          BY <3>3, AppendIsConcat DEF Path
        <4> QED
          BY <4>1, <4>2, <4>3
      <3>6. clean' \o suffix' = clean \o suffix
        BY <3>4, <3>5, Regroup
      <3>7. Kernel(tree, clean \o suffix) = goal
        BY <1>1, <1>3, <1>5 DEF LeadsToGoal
      <3> QED
        BY <1>1, <3>6, <3>7
    <2> QED
      BY <2>1, <2>2 DEF LeadsToGoal, Looking
  <1> QED
    BY <1>4, <1>5

LEMMA StepGoal ==
    FileTypes /\ LeafIsNoLink /\ LeadsToGoal /\ [Next]_vars => LeadsToGoal'
  <1> SUFFICES ASSUME FileTypes, LeafIsNoLink, LeadsToGoal, [Next]_vars,
                      Followed'
               PROVE  LeadsToGoal'
    BY DEF LeadsToGoal
  <1>1. CASE Begin
    <2>1. /\ pc = "new" /\ refusal = "none"
          /\ UNCHANGED <<tree, goal, changes, skewed>>
          /\ \/ /\ pc' = "leaf" /\ clean' = Clean(request.to)
                /\ refusal' = refusal
             \/ pc' = "refused" /\ refusal' = "relative"
      BY <1>1 DEF Begin, Goto, Refuse, given, others, FileTypes
    <2> QED
      BY <2>1 DEF LeadsToGoal, Followed, Looking, Returned, Editing
  <1>2. CASE LookAtLeaf
    <2>1. /\ pc = "leaf" /\ refusal = "none"
          /\ UNCHANGED <<tree, clean, goal, changes, skewed>>
          /\ \/ pc' \in {"link", "eval"} /\ refusal' = refusal
             \/ pc' = "refused" /\ refusal' = "hops"
          /\ blind' = BlindTo(clean)
      BY <1>2 DEF LookAtLeaf, Goto, Refuse, given, others, FileTypes
    <2>2. Kernel(tree, clean) = goal
      BY <2>1 DEF LeadsToGoal, Followed, Looking
    <2>3. Leads(goal) => ~blind'
      <3>1. ASSUME Leads(goal) PROVE Kernel(tree, Parent(clean)).st # "loop"
        BY <2>2, <3>1, ValueFacts, LeadsNotBlind
      <3> QED
        BY <2>1, <3>1 DEF BlindTo
    <2>4. Kernel(tree', clean') = goal' /\ (Leads(goal') => ~blind')
      BY <2>1, <2>2, <2>3
    <2> QED
      BY <2>1, <2>4 DEF LeadsToGoal, Looking, Returned, Editing
  <1>3. CASE FollowLeaf
    BY <1>3, FollowLeads
  <1>4. CASE Evaluate
    BY <1>4, EvaluateLeads
  <1>5. CASE Climb
    BY <1>5, ClimbLeads
  <1>6. CASE Check
    <2>1. /\ pc = "check" /\ pc' \in {"accepted", "refused"}
          /\ UNCHANGED <<real, suffix, goal, changes, skewed, blind>>
      BY <1>6 DEF Check, Goto, Refuse, given, others
    <2> QED
      BY <2>1 DEF LeadsToGoal, Followed, Looking
  <1>7. CASE Operate
    <2>1. /\ pc \in Returned /\ pc' \in Returned
          /\ UNCHANGED <<real, suffix, goal, changes, skewed, blind, refusal>>
      BY <1>7, OperateFacts DEF given, resolved, others, Returned
    <2>2. pc' \notin {"new", "climb"} \cup Looking
      BY <2>1 DEF Returned, Editing, Looking
    <2> QED
      BY <2>1, <2>2 DEF LeadsToGoal, Followed
  <1>8. CASE Change
    <2>1. changes \in Nat /\ changes' = changes + 1
      BY <1>8, FenceAssumption DEF Change, FileTypes, TypeOK
    <2> QED
      BY <2>1 DEF Followed
  <1>9. CASE UNCHANGED vars
    BY <1>9 DEF vars, LeadsToGoal, Followed
  <1> QED
    BY <1>1, <1>2, <1>3, <1>4, <1>5, <1>6, <1>7, <1>8, <1>9
    DEF Next, Resolve

---------------------------------------------------------------------------
(* What leads nowhere is not opened.                                       *)

LEMMA StepNowhere ==
    FileTypes /\ LeafIsNoLink /\ LeadsToGoal /\ Nowhere /\ [Next]_vars
      => Nowhere'
  <1> SUFFICES ASSUME FileTypes, LeafIsNoLink, LeadsToGoal, Nowhere,
                      [Next]_vars, Barren'
               PROVE  /\ pc' \in {"check", "accepted"} =>
                           ~Leads(Kernel(tree', real'))
                      /\ pc' \notin Editing
                      /\ touched' = {}
    BY DEF Nowhere
  <1>1. /\ tree \in FileTrees /\ clean \in Text /\ clean \in Path
        /\ suffix \in Path
    BY ValueFacts
  <1> USE DEF Goto, Refuse
  <1>2. CASE Begin \/ LookAtLeaf \/ FollowLeaf
    BY <1>2 DEF Begin, LookAtLeaf, FollowLeaf, FileTypes, Editing
  <1>3. CASE Evaluate
    <2>1. /\ pc = "eval" /\ suffix = <<>> /\ touched' = {}
          /\ pc' \in {"check", "climb"}
          /\ UNCHANGED <<tree, changes, skewed, goal>>
      BY <1>3 DEF Evaluate, FileTypes, Looking, Editing, given, others
    <2>2. ASSUME pc' = "check" PROVE FALSE
      <3>1. Evaluates(tree, clean) /\ suffix' = <<>>
        BY <1>3, <2>1, <2>2 DEF Evaluate
      <3>2. ~(Len(suffix') > 1)
        BY <3>1
      <3>3. changes = 0 /\ ~skewed /\ goal.st = "error"
        BY <2>1, <3>2 DEF Barren
      <3>4. Kernel(tree, clean) = goal
        BY <2>1, <3>3 DEF LeadsToGoal, Followed, Looking
      <3>5. Eval(tree, clean) = goal
        BY <1>1, <3>3, <3>4, KernelEval
      <3> QED
        BY <3>1, <3>3, <3>5 DEF Evaluates
    <2> QED
      BY <2>1, <2>2 DEF Editing
  <1>4. CASE Climb
    <2>1. /\ pc = "climb" /\ suffix # <<>> /\ touched' = {}
          /\ pc' \in {"check", "climb"}
          /\ UNCHANGED <<tree, changes, skewed, goal, disturbed, changed>>
      BY <1>4 DEF Climb, FileTypes, Editing, given, others
    <2>2. ASSUME pc' = "check" PROVE ~Leads(Kernel(tree', real'))
      <3>1. /\ Evaluates(tree, clean) /\ suffix' = suffix
            /\ real' = Eval(tree, clean).at \o suffix
            /\ blind' = IF Len(suffix) = 1 THEN blind ELSE GivenUp
        BY <1>4, <2>1, <2>2 DEF Climb
      <3>2. CASE ~disturbed' /\ ~blind' /\ changed' = {} /\ Len(suffix') > 1
        <4>1. ~disturbed /\ Len(suffix) > 1 /\ Len(suffix) # 1
          BY <2>1, <3>1, <3>2
        <4>2. ~GivenUp
          BY <3>1, <3>2, <4>1
        <4>3. ~Evaluates(tree, Append(clean, suffix[1]))
          BY <2>1, <4>1 DEF LeafIsNoLink
        <4>4. ~(/\ Eval(tree, Append(clean, suffix[1])).st = "loop"
                /\ Kernel(tree, Append(Eval(tree, clean).at, suffix[1])).st
                     = "found")
          BY <4>1, <4>2 DEF GivenUp
        <4>5. ~Leads(Kernel(tree, Eval(tree, clean).at \o suffix))
          BY <1>1, <3>1, <4>1, <4>3, <4>4, KeptLeadsNowhere
        <4> QED
          BY <2>1, <3>1, <4>5
      <3>3. CASE changes' = 0 /\ ~skewed' /\ goal'.st = "error"
        <4>1. Followed /\ ~Leads(goal) /\ goal.st = "error"
          BY <2>1, <3>3 DEF Followed, Leads
        <4>2. Kernel(tree, clean \o suffix) = goal
          BY <2>1, <4>1 DEF LeadsToGoal
        <4>3. ~Leads(Kernel(tree, Eval(tree, clean).at \o suffix))
          BY <1>1, <2>1, <3>1, <4>1, <4>2, ErrorKept
        <4> QED
          BY <2>1, <3>1, <4>3
      <3> QED
        BY <3>2, <3>3 DEF Barren
    <2> QED
      BY <2>1, <2>2 DEF Editing
  <1>5. CASE Check
    <2>1. /\ pc = "check" /\ pc' \in {"accepted", "refused"} /\ touched' = {}
          /\ UNCHANGED <<tree, real, suffix, changes, skewed, goal, disturbed,
                         changed, blind>>
      BY <1>5 DEF Check, FileTypes, Editing, given, others
    <2>2. Barren
      BY <2>1 DEF Barren
    <2> QED
      BY <2>1, <2>2 DEF Nowhere, Editing
  <1>6. CASE Operate
    <2>1. /\ pc \in {"accepted"} \cup Editing
          /\ UNCHANGED <<real, suffix, changes, skewed, goal, disturbed,
                         changed, blind>>
      BY <1>6, OperateFacts DEF resolved, given, others
    <2>2. Barren
      BY <2>1 DEF Barren
    <2>3. pc = "accepted" /\ ~Leads(Kernel(tree, real)) /\ touched = {}
      BY <2>1, <2>2 DEF Nowhere
    <2>4. pc' = "failed" /\ touched' = {}
      <3>1. Upload \/ Read \/ EditStat
        BY <1>6, <2>3 DEF Operate, EditRead, EditTemp, EditChmod, EditRename,
                          EditRemove
      <3> QED
        BY <2>3, <3>1 DEF Upload, Read, EditStat, Fail, Leads
    <2> QED
      BY <2>4 DEF Editing
  <1>7. CASE Change
    <2>1. changes \in Nat /\ changes' = changes + 1
      BY <1>7, FenceAssumption DEF Change, FileTypes, TypeOK
    <2>2. changes' # 0
      BY <2>1
    <2>3. ~disturbed' /\ changed' = {}
      BY <2>2 DEF Barren
    <2>4. pc \in {"leaf", "link"} /\ pc' = pc /\ touched' = touched
      <3>1. pc \notin {"eval", "climb", "check"}
        BY <1>7, <2>3 DEF Change
      <3>2. pc \notin Opening
        <4>1. PICK p \in Places :
                 changed' = IF pc \in Opening
                            THEN changed \cup {p} ELSE changed
          BY <1>7, ChangeFacts
        <4> QED
          BY <2>3, <4>1
      <3>3. pc \in States /\ pc \notin {"new", "done", "failed", "refused"}
        BY <1>7 DEF Change, FileTypes, TypeOK
      <3>4. pc' = pc /\ touched' = touched
        BY <1>7 DEF Change
      <3> QED
        BY <3>1, <3>2, <3>3, <3>4 DEF States
    <2> QED
      BY <2>4 DEF FileTypes, Editing
  <1>8. CASE UNCHANGED vars
    <2>1. Barren
      BY <1>8 DEF Barren, vars
    <2> QED
      BY <1>8, <2>1 DEF Nowhere, vars
  <1> QED
    BY <1>2, <1>3, <1>4, <1>5, <1>6, <1>7, <1>8 DEF Next, Resolve

---------------------------------------------------------------------------
(* The theorems.                                                           *)

LEMMA InitInvariant ==
    Init => LeafIsNoLink /\ Opened /\ LeadsToGoal /\ Nowhere
  <1> SUFFICES ASSUME Init
               PROVE  LeafIsNoLink /\ Opened /\ LeadsToGoal /\ Nowhere
    OBVIOUS
  <1>1. /\ pc = "new" /\ touched = {} /\ refusal = "none"
        /\ goal = Kernel(tree, Clean(request.to))
    BY DEF Init
  <1> QED
    BY <1>1 DEF LeafIsNoLink, Opened, LeadsToGoal, Nowhere, Looking, Returned,
                Opening, Editing

(* The temporary file of a path below the fence is below it.               *)
LEMMA TempInside ==
    ASSUME NEW l \in Path, NEW p \in Path, Inside(p, l), p # l
    PROVE  IsPrefix(l, p) /\ IsPrefix(l, TempOf(p))
  <1>1. IsPrefix(l, p) /\ Len(l) \in Nat
    BY PathFacts DEF Inside, IsStrictPrefix
  <1>2. p # <<>>
    <2>1. ASSUME p = <<>> PROVE l = <<>>
      <3>1. Len(l) <= 0
        BY <1>1, <2>1, PrefixMeans, EmptySeq
      <3> QED
        BY <1>1, <3>1, PathFacts
    <2> QED
      BY <2>1
  <1>3. /\ Front(p) \in Path /\ Parent(p) = Front(p) /\ Last(p) \in Names
        /\ p = Append(Front(p), Last(p)) /\ Len(p) \in Nat
        /\ Len(Front(p)) = Len(p) - 1
    BY <1>2, PathFacts
  <1>4. IsPrefix(l, Front(p))
    BY <1>1, <1>2, <1>3, PrefixOfFront
  <1>5. IsPrefix(l, Append(Front(p), Temp))
    <2> DEFINE q == Append(Front(p), Temp)
    <2>1. q \in Path /\ q # <<>> /\ Front(q) = Front(p)
      BY <1>3, AppendFacts, FenceAssumption
    <2>2. IsPrefix(l, Front(q)) => IsPrefix(l, q)
      BY <2>1, PrefixOfFront
    <2> QED
      BY <1>4, <2>1, <2>2
  <1> QED
    BY <1>1, <1>3, <1>5 DEF TempOf

(* What an operation touches is inside the fence: the path that is opened, *)
(* which has no links, and the temporary file beside it; a path whose      *)
(* parent does not evaluate leads nowhere (fence.go:29-80).                *)
THEOREM LandsInsideHolds == Spec => []LandsInside
  <1>1. FileTypes /\ Opened /\ Nowhere => LandsInside
    <2> SUFFICES ASSUME FileTypes, Opened, Nowhere, fence # NoFence,
                        ~disturbed, ~blind, changed \cap Own = {},
                        changed = {} \/ ~(Len(suffix) > 1),
                        NEW p \in touched
                 PROVE  \/ IsPrefix(limit, p)
                        \/ p = TempOf(real) /\ real = limit
      BY DEF LandsInside
    <2>1. real \in Path /\ suffix \in Path /\ limit \in Path
      BY DEF FileTypes, TypeOK
    <2>2. Len(suffix) <= 1
      <3>1. ~Barren
        BY DEF Nowhere
      <3>2. ~(Len(suffix) > 1)
        BY <3>1 DEF Barren
      <3>3. Len(suffix) \in Nat
        BY <2>1, PathFacts
      <3> QED
        BY <3>2, <3>3
    <2>3. p \in {real, TempOf(real)}
      BY <2>2 DEF Opened, Steady
    <2>4. pc \in Returned
      BY DEF FileTypes, Returned
    <2>5. Inside(real, limit)
      BY <2>4 DEF Opened
    <2>6. CASE real = limit
      <3>1. IsPrefix(real, real)
        BY <2>1, PathFacts, PrefixMeans
      <3> QED
        BY <2>3, <2>6, <3>1
    <2>7. CASE real # limit
      BY <2>1, <2>3, <2>5, <2>7, TempInside
    <2> QED
      BY <2>6, <2>7
  <1> QED
    BY <1>1, InitInvariant, InitTypes, StepTypes, StepLeaf, StepOpened,
       StepGoal, StepNowhere, PTL DEF Spec

(* The fence is transparent (fence.go:17-19, 76-83): nobody changes the    *)
(* tree, so what is opened is where the client's path leads, and the fence *)
(* is compared with that.                                                  *)
THEOREM TransparentHolds == Spec => []Transparent
  <1>1. FileTypes /\ Opened /\ LeadsToGoal /\ Nowhere => Transparent
    <2> SUFFICES ASSUME FileTypes, Opened, LeadsToGoal, Nowhere, Followed
                 PROVE  /\ touched # {} =>
                              /\ Leads(goal) /\ goal.at \in touched
                              /\ touched \subseteq {goal.at, TempOf(goal.at)}
                        /\ refusal = "outside" =>
                              LET root == Eval(tree, fence).at IN
                              \/ root = <<>> \/ ~Leads(goal)
                              \/ ~IsPrefix(root, goal.at)
      BY DEF Transparent, Followed
    <2>1. /\ changes = 0 /\ ~skewed /\ goal.st # "loop"
          /\ ~disturbed /\ changed = {}
          /\ goal.st \in {"found", "missing", "loop", "error"}
      BY ValueFacts DEF FileTypes, Followed
    <2>2. ASSUME touched # {}
          PROVE  /\ Leads(goal) /\ goal.at \in touched
                 /\ touched \subseteq {goal.at, TempOf(goal.at)}
      <3>1. Leads(goal)
        BY <2>1, <2>2 DEF Nowhere, Barren, Leads
      <3>2. pc \in Returned
        BY <2>2 DEF FileTypes, Returned
      <3>3. real = goal.at /\ Len(suffix) <= 1 /\ ~blind
        BY <3>1, <3>2 DEF LeadsToGoal
      <3>4. touched \subseteq {real, TempOf(real)} /\ real \in touched
        BY <2>1, <2>2, <3>3 DEF Opened, Steady
      <3> QED
        BY <3>1, <3>3, <3>4
    <2>3. ASSUME refusal = "outside", Eval(tree, fence).at # <<>>, Leads(goal)
          PROVE  ~IsPrefix(Eval(tree, fence).at, goal.at)
      <3>1. /\ real = goal.at /\ ~Inside(real, limit)
            /\ limit = Eval(tree, fence).at
        BY <2>3 DEF LeadsToGoal, Opened
      <3> QED
        BY <2>3, <3>1 DEF Inside, IsStrictPrefix
    <2> QED
      BY <2>2, <2>3
  <1> QED
    BY <1>1, InitInvariant, InitTypes, StepTypes, StepLeaf, StepOpened,
       StepGoal, StepNowhere, PTL DEF Spec
============================================================================
