--------------------------- MODULE AppBoot_proofs ---------------------------
(* Proofs about AppBoot: whatever the list of names and the settings, every  *)
(* name is read (ReadsNames), and user_init leaves sound lists of protocols  *)
(* and applications (BootIsSound).  Before that, what the proofs about       *)
(* recursive functions need: least numbers, induction up to a number, and    *)
(* that a walk from step to step exists.                                     *)
EXTENDS AppBoot, FiniteSetTheorems, SequenceTheorems, WellFoundedInduction, TLAPS

(* Every set of numbers has a least element.                                 *)
LEMMA LeastOf ==
  ASSUME NEW S \in SUBSET Nat, S # {}
  PROVE  \E m \in S : \A i \in S : m <= i
<1>1. IsWellFoundedOn(OpToRel(<, Nat), Nat)
  BY NatLessThanWellFounded
<1>2. PICK m \in S : \A i \in S : ~ (<<i, m>> \in OpToRel(<, Nat))
  BY <1>1, WFMin
<1>3. ASSUME NEW i \in S PROVE m <= i
  <2>1. i \in Nat /\ m \in Nat
    OBVIOUS
  <2>2. i < m => <<i, m>> \in OpToRel(<, Nat)
    BY <2>1 DEF OpToRel
  <2>3. ~ (i < m)
    BY <1>2, <2>2, Zenon
  <2> QED
    BY ONLY <2>1, <2>3
<1> QED
  BY <1>2, <1>3

(* What holds at 0 and goes on to the next number up to N holds up to N.     *)
LEMMA UpTo ==
  ASSUME NEW N \in Nat, NEW T, 0 \in T, \A n \in 0 .. N - 1 : n \in T => n + 1 \in T
  PROVE  \A n \in 0 .. N : n \in T
<1> DEFINE Bad == {n \in 0 .. N : n \notin T}
<1>1. SUFFICES ASSUME Bad # {} PROVE FALSE
  OBVIOUS
<1>2. PICK m \in Bad : \A i \in Bad : m <= i
  <2>1. Bad \in SUBSET Nat
    OBVIOUS
  <2> QED
    BY <1>1, <2>1, LeastOf
<1>3. m # 0 /\ m - 1 \in 0 .. N - 1 /\ m - 1 \notin Bad
  BY <1>2
<1> QED
  BY <1>2, <1>3
----------------------------------------------------------------------------
(* A walk that starts at base and takes a step at every place exists.        *)
Moves(S, N) == [S \X (1 .. N) -> S]
IsWalk(walk, S, N, base, step) ==
  /\ walk \in [0 .. N -> S] /\ walk[0] = base
  /\ \A i \in 1 .. N : walk[i] = step[<<walk[i - 1], i>>]

LEMMA WalkExists ==
  ASSUME NEW N \in Nat, NEW S, NEW base \in S, NEW step \in Moves(S, N)
  PROVE  \E walk : IsWalk(walk, S, N, base, step)
<1> DEFINE Goes(g, n) == IsWalk(g, S, n, base, step)
           T == {n \in 0 .. N : \E g : Goes(g, n)}
<1>1. 0 \in T
  <2> DEFINE g == [i \in 0 .. 0 |-> base]
  <2>1. g \in [0 .. 0 -> S] /\ g[0] = base /\ 1 .. 0 = {}
    OBVIOUS
  <2> HIDE DEF g
  <2>2. Goes(g, 0)
    BY <2>1 DEF IsWalk
  <2> HIDE DEF Goes
  <2> QED
    BY <2>2
<1>2. ASSUME NEW n \in 0 .. N - 1, n \in T PROVE n + 1 \in T
  <2>1. PICK g : Goes(g, n)
    BY <1>2
  <2> DEFINE end == step[<<g[n], n + 1>>]
             h == [i \in 0 .. n + 1 |-> IF i = n + 1 THEN end ELSE g[i]]
  <2>2. n \in 0 .. n /\ n \in Nat /\ n + 1 \in 1 .. N /\ g[n] \in S
    BY <2>1 DEF IsWalk
  <2>3. end \in S
    BY <2>2 DEF Moves
  <2>4. /\ h \in [0 .. n + 1 -> S] /\ h[n + 1] = end
        /\ \A i \in 0 .. n : h[i] = g[i]
    BY <2>1, <2>2, <2>3 DEF IsWalk
  <2> HIDE DEF h
  <2>5. h[0] = base
    BY <2>1, <2>2, <2>4 DEF IsWalk
  <2>6. ASSUME NEW i \in 1 .. n + 1 PROVE h[i] = step[<<h[i - 1], i>>]
    <3>1. CASE i = n + 1
      <4>1. i - 1 = n /\ h[n] = g[n]
        BY <2>2, <2>4, <3>1
      <4> QED
        BY <2>4, <3>1, <4>1
    <3>2. CASE i # n + 1
      <4>1. i \in 1 .. n /\ i \in 0 .. n /\ i - 1 \in 0 .. n
        BY <2>2, <3>2
      <4>2. h[i] = g[i] /\ h[i - 1] = g[i - 1] /\ g[i] = step[<<g[i - 1], i>>]
        BY <2>1, <2>4, <4>1 DEF IsWalk
      <4> QED
        BY <4>2
    <3> QED
      BY <3>1, <3>2
  <2>7. Goes(h, n + 1)
    BY <2>4, <2>5, <2>6 DEF IsWalk
  <2>8. n + 1 \in 0 .. N
    BY <2>2
  <2> QED
    BY <2>7, <2>8
<1>3. N \in T
  <2> HIDE DEF T
  <2>1. \A n \in 0 .. N : n \in T
    BY <1>1, <1>2, UpTo
  <2> QED
    BY <2>1
<1>4. PICK g : Goes(g, N)
  BY <1>3
<1> QED
  BY <1>4
----------------------------------------------------------------------------
(* The names. A word without its spaces is characters.                       *)
Words == Seq(1 .. 255)
Walks == [names : Seq(Words), open : Words]

(* What the walk does at a word, in general and where no name is one         *)
(* character long.                                                           *)
LEMMA NextNameIs ==
  ASSUME NEW walk \in Walks, NEW word \in Words
  PROVE  /\ NextName(walk, word) \in Walks
         /\ walk.open = <<>> /\ Len(word) # 1 =>
              /\ NextName(walk, word).open = <<>>
              /\ NextName(walk, word).names =
                   IF word = <<>> THEN walk.names ELSE Append(walk.names, word)
<1> DEFINE text == walk.open \o word
<1>1. walk.names \in Seq(Words) /\ walk.open \in Words
      /\ walk = [names |-> walk.names, open |-> walk.open]
  BY DEF Walks
<1> DEFINE left == IF text = <<>> THEN <<>> ELSE <<Gap>>
<1>2. text \in Words /\ <<>> \in Words /\ left \in Words
  <2>1. <<Gap>> \in Words /\ <<>> \in Words
    BY DEF Words, Gap
  <2>2. text \in Words
    BY <1>1 DEF Words
  <2> QED
    BY <2>1, <2>2
<1>3. /\ Len(text) > 1 => NextName(walk, word) =
             [names |-> Append(walk.names, text), open |-> <<>>]
      /\ ~ (Len(text) > 1) => NextName(walk, word) = [names |-> walk.names, open |-> left]
  BY <1>1 DEF NextName
<1>4. Append(walk.names, text) \in Seq(Words)
  BY <1>1, <1>2, AppendProperties
<1>0. text = <<>> => left = <<>>
  OBVIOUS
<1>9. text = walk.open \o word
  OBVIOUS
<1> HIDE DEF text, left
<1>5. NextName(walk, word) \in Walks
  <2>1. CASE Len(text) > 1
    BY <1>2, <1>3, <1>4, <2>1 DEF Walks
  <2>2. CASE ~ (Len(text) > 1)
    BY <1>1, <1>2, <1>3, <2>2 DEF Walks
  <2> QED
    BY <2>1, <2>2
<1>6. ASSUME walk.open = <<>>, Len(word) # 1
      PROVE  /\ NextName(walk, word).open = <<>>
             /\ NextName(walk, word).names =
                  IF word = <<>> THEN walk.names ELSE Append(walk.names, word)
  <2>1. text = word
    BY <1>6, <1>9 DEF Words
  <2>2. Len(word) \in Nat /\ (Len(word) = 0 <=> word = <<>>)
    BY EmptySeq, LenProperties DEF Words
  <2>3. CASE word = <<>>
    <3>1. ~ (Len(text) > 1) /\ left = <<>>
      BY <1>0, <2>1, <2>2, <2>3
    <3> QED
      BY <1>3, <2>3, <3>1
  <2>4. CASE word # <<>>
    <3>2. Len(word) \in Nat /\ Len(word) # 0 /\ Len(word) # 1
      BY <1>6, <2>2, <2>4, Zenon
    <3>4. \A n \in Nat : n # 0 /\ n # 1 => n > 1
      OBVIOUS
    <3>3. Len(word) > 1
      BY <3>2, <3>4, Zenon
    <3>1. Len(text) > 1
      BY <2>1, <3>3, Zenon
    <3> QED
      BY <1>3, <2>1, <2>4, <3>1
  <2> QED
    BY <2>3, <2>4
<1> QED
  BY <1>5, <1>6

(* The walk of parse_config_for_app over the list of names.                  *)
IsNaming(walk, words) ==
  /\ DOMAIN walk = 0 .. Len(words) /\ walk[0] = [names |-> <<>>, open |-> <<>>]
  /\ \A n \in 1 .. Len(words) : walk[n] = NextName(walk[n - 1], words[n])

LEMMA NamingIs ==
  ASSUME NEW words \in Seq(Words)
  PROVE  \E walk \in [0 .. Len(words) -> Walks] :
           IsNaming(walk, words) /\ Names(words) = walk[Len(words)].names
<1> DEFINE N == Len(words)
           base == [names |-> <<>>, open |-> <<>>]
           F(w) == [n \in 0 .. N |-> IF n = 0 THEN base ELSE NextName(w[n - 1], words[n])]
           walk == CHOOSE w : w = F(w)
           step == [x \in Walks \X (1 .. N) |-> NextName(x[1], words[x[2]])]
<1>1. N \in Nat /\ \A n \in 1 .. N : words[n] \in Words
  BY ElementOfSeq
<1>2. base \in Walks
  BY DEF Walks, Words
<1>3. step \in Moves(Walks, N)
  <2>1. ASSUME NEW x \in Walks \X (1 .. N) PROVE NextName(x[1], words[x[2]]) \in Walks
    <3>1. x[1] \in Walks /\ words[x[2]] \in Words
      BY <1>1
    <3> QED
      BY <3>1, NextNameIs
  <2> QED
    BY <2>1 DEF Moves
<1>4. \E w : w = F(w)
  <2>1. PICK w : IsWalk(w, Walks, N, base, step)
    <3>1. N \in Nat
      BY <1>1
    <3> HIDE DEF step, base, N, F, walk
    <3> QED
      BY ONLY <1>2, <1>3, <3>1, WalkExists
  <2>0. /\ w \in [0 .. N -> Walks] /\ w[0] = base
        /\ \A i \in 1 .. N : w[i] = step[<<w[i - 1], i>>]
    BY <2>1 DEF IsWalk
  <2>2. ASSUME NEW i \in 1 .. N PROVE w[i] = NextName(w[i - 1], words[i])
    <3>1. i - 1 \in 0 .. N
      BY <1>1
    <3>2. w[i - 1] \in Walks
      BY <2>0, <3>1
    <3>3. <<w[i - 1], i>> \in Walks \X (1 .. N)
      BY <3>2
    <3> QED
      BY <2>0, <3>3
  <2>3. w = [n \in 0 .. N |-> w[n]]
    BY <2>0
  <2>4. \A n \in 0 .. N : w[n] = IF n = 0 THEN base ELSE NextName(w[n - 1], words[n])
    BY <1>1, <2>0, <2>2
  <2>5. w = F(w)
    BY <2>3, <2>4
  <2> QED
    BY <2>5
<1>5. walk = F(walk)
  <2> HIDE DEF F
  <2> QED
    BY <1>4
<1>6. Names(words) = walk[N].names
  BY DEF Names
<1> HIDE DEF walk
<1>7. IsNaming(walk, words)
  BY <1>1, <1>5 DEF IsNaming
<1> DEFINE T == {n \in 0 .. N : walk[n] \in Walks}
<1>8. 0 \in T
  BY <1>1, <1>2, <1>7 DEF IsNaming
<1>9. ASSUME NEW n \in 0 .. N - 1, n \in T PROVE n + 1 \in T
  <2>1. n + 1 \in 1 .. N /\ n + 1 \in 0 .. N /\ (n + 1) - 1 = n
    BY <1>1
  <2>2. walk[n + 1] = NextName(walk[n], words[n + 1])
    BY <1>7, <2>1 DEF IsNaming
  <2>3. walk[n + 1] \in Walks
    BY <1>1, <1>9, <2>1, <2>2, NextNameIs
  <2> QED
    BY <2>1, <2>3
<1>10. \A n \in 0 .. N : n \in T
  <2> HIDE DEF T, N
  <2> QED
    BY <1>1, <1>8, <1>9, UpTo
<1>11. walk \in [0 .. N -> Walks]
  BY <1>1, <1>5, <1>10
<1> QED
  BY <1>6, <1>7, <1>11

(* One word more.                                                            *)
LEMMA OneMoreWord ==
  ASSUME NEW words \in Seq(Words), NEW n \in 0 .. Len(words) - 1
  PROVE  /\ IsFiniteSet(WordsUpTo(words, n))
         /\ words[n + 1] = <<>> => WordsUpTo(words, n + 1) = WordsUpTo(words, n)
         /\ words[n + 1] # <<>> =>
              /\ WordsUpTo(words, n + 1) = WordsUpTo(words, n) \cup {n + 1}
              /\ Cardinality(WordsUpTo(words, n + 1)) = Cardinality(WordsUpTo(words, n)) + 1
<1>1. Len(words) \in Nat /\ n \in Nat /\ n + 1 \in Nat
  OBVIOUS
<1>2. IsFiniteSet(WordsUpTo(words, n))
  <2>1. IsFiniteSet(1 .. n)
    BY <1>1, FS_Interval
  <2>2. WordsUpTo(words, n) \subseteq 1 .. n
    BY DEF WordsUpTo
  <2> QED
    BY <2>1, <2>2, FS_Subset
<1>3. \A i : i \in 1 .. n + 1 <=> i \in 1 .. n \/ i = n + 1
  BY <1>1
<1>4. words[n + 1] = <<>> => WordsUpTo(words, n + 1) = WordsUpTo(words, n)
  BY <1>3 DEF WordsUpTo
<1>5. words[n + 1] # <<>> => WordsUpTo(words, n + 1) = WordsUpTo(words, n) \cup {n + 1}
  BY <1>3 DEF WordsUpTo
<1>6. n + 1 \notin WordsUpTo(words, n)
  BY <1>1 DEF WordsUpTo
<1> QED
  BY <1>2, <1>4, <1>5, <1>6, FS_AddElement

(* However the words of "apps" are spaced, the names read from it are those  *)
(* words, as long as none has a single character.                            *)
THEOREM NamesAreRead ==
  ASSUME NEW words \in Seq(Words)
  PROVE  ReadsNames(words)
<1> DEFINE N == Len(words)
           U(n) == WordsUpTo(words, n)
<1>1. SUFFICES ASSUME \A i \in DOMAIN words : Len(words[i]) # 1
               PROVE  /\ Len(Names(words)) = Cardinality(U(N))
                      /\ \A i \in U(N) : Names(words)[Cardinality(U(i))] = words[i]
  BY DEF ReadsNames
<1>2. PICK walk \in [0 .. N -> Walks] :
        IsNaming(walk, words) /\ Names(words) = walk[N].names
  BY NamingIs
<1>3. N \in Nat /\ \A n \in 1 .. N : words[n] \in Words /\ Len(words[n]) # 1
  BY <1>1, ElementOfSeq
<1> DEFINE names(n) == walk[n].names
           Read(n) == /\ walk[n].open = <<>>
                      /\ Len(names(n)) = Cardinality(U(n))
                      /\ \A i \in U(n) : /\ Cardinality(U(i)) \in 1 .. Len(names(n))
                                         /\ names(n)[Cardinality(U(i))] = words[i]
           T == {n \in 0 .. N : Read(n)}
<1>4. \A n \in 0 .. N : names(n) \in Seq(Words)
  BY DEF Walks
<1>5. 0 \in T
  <2>1. walk[0].open = <<>> /\ names(0) = <<>>
    BY <1>2 DEF IsNaming
  <2>2. U(0) = {}
    BY DEF WordsUpTo
  <2>3. Cardinality(U(0)) = 0
    BY <2>2, FS_EmptySet
  <2>4. Len(names(0)) = 0
    BY <2>1
  <2> QED
    BY <1>3, <2>1, <2>2, <2>3, <2>4
<1>6. ASSUME NEW n \in 0 .. N - 1, n \in T PROVE n + 1 \in T
  <2>1. n + 1 \in 1 .. N /\ n + 1 \in 0 .. N /\ (n + 1) - 1 = n /\ n \in 0 .. N
    BY <1>3
  <2>2. /\ walk[n] \in Walks /\ words[n + 1] \in Words /\ Len(words[n + 1]) # 1
        /\ walk[n + 1] = NextName(walk[n], words[n + 1])
    BY <1>2, <1>3, <2>1 DEF IsNaming
  <2>3. walk[n].open = <<>> /\ Read(n)
    BY <1>6
  <2>4. /\ walk[n + 1].open = <<>>
        /\ names(n + 1) = IF words[n + 1] = <<>> THEN names(n)
                          ELSE Append(names(n), words[n + 1])
    BY <2>2, <2>3, NextNameIs
  <2>5. /\ words[n + 1] = <<>> => U(n + 1) = U(n)
        /\ words[n + 1] # <<>> => /\ U(n + 1) = U(n) \cup {n + 1}
                                  /\ Cardinality(U(n + 1)) = Cardinality(U(n)) + 1
    BY OneMoreWord
  <2>6. names(n) \in Seq(Words)
    BY <1>4, <2>1
  <2> HIDE DEF U, names
  <2>7. CASE words[n + 1] = <<>>
    <3>1. names(n + 1) = names(n) /\ U(n + 1) = U(n)
      BY <2>4, <2>5, <2>7
    <3> QED
      BY <2>1, <2>3, <2>4, <3>1
  <2>8. CASE words[n + 1] # <<>>
    <3> DEFINE s == names(n)
               t == Append(s, words[n + 1])
    <3>1. names(n + 1) = t /\ Cardinality(U(n + 1)) = Len(s) + 1
      BY <2>3, <2>4, <2>5, <2>8
    <3>2. Len(t) = Len(s) + 1 /\ t[Len(s) + 1] = words[n + 1] /\ Len(s) \in Nat
          /\ \A k \in 1 .. Len(s) : t[k] = s[k]
      BY <2>2, <2>6, AppendProperties
    <3>3. ASSUME NEW i \in U(n + 1)
          PROVE  Cardinality(U(i)) \in 1 .. Len(t) /\ t[Cardinality(U(i))] = words[i]
      <4>1. CASE i = n + 1
        BY <3>1, <3>2, <4>1
      <4>2. CASE i \in U(n)
        <5>1. Cardinality(U(i)) \in 1 .. Len(s) /\ s[Cardinality(U(i))] = words[i]
          BY <2>3, <4>2
        <5> QED
          BY <3>2, <5>1
      <4> QED
        BY <2>5, <2>8, <4>1, <4>2
    <3>4. Read(n + 1)
      BY <2>4, <3>1, <3>2, <3>3
    <3> QED
      BY <2>1, <3>4
  <2> QED
    BY <2>7, <2>8
<1>7. N \in T
  <2> HIDE DEF T, N
  <2>1. \A n \in 0 .. N : n \in T
    BY <1>3, <1>5, <1>6, UpTo
  <2> QED
    BY <1>3, <2>1
<1> QED
  BY <1>2, <1>7

(* The settings that are found are settings of the tree.                     *)
LEMMA ConfigsAre ==
  ASSUME NEW words \in Seq(Words), NEW items
  PROVE  Configs(words, items) \in Seq({items[name] : name \in DOMAIN items})
<1> DEFINE R == {items[name] : name \in DOMAIN items}
           names == Names(words)
           N == Len(names)
           F(w) == [n \in 0 .. N |-> IF n = 0 THEN <<>> ELSE NextConfig(w[n - 1], names[n], items)]
           found == CHOOSE w : w = F(w)
           step == [x \in Seq(R) \X (1 .. N) |-> NextConfig(x[1], names[x[2]], items)]
<1>1. names \in Seq(Words)
  <2>1. PICK walk \in [0 .. Len(words) -> Walks] : Names(words) = walk[Len(words)].names
    BY NamingIs
  <2>2. Len(words) \in 0 .. Len(words)
    OBVIOUS
  <2> QED
    BY <2>1, <2>2 DEF Walks
<1>2. N \in Nat
  BY <1>1
<1> HIDE DEF names, N
<1>3. ASSUME NEW s \in Seq(R), NEW name PROVE NextConfig(s, name, items) \in Seq(R)
  <2>1. CASE name \in DOMAIN items
    <3>1. items[name] \in R /\ NextConfig(s, name, items) = Append(s, items[name])
      BY <2>1 DEF NextConfig
    <3> HIDE DEF R
    <3> QED
      BY <3>1, AppendProperties
  <2>2. CASE name \notin DOMAIN items
    BY <2>2 DEF NextConfig
  <2> QED
    BY <2>1, <2>2
<1> HIDE DEF R
<1>4. step \in Moves(Seq(R), N)
  <2>1. ASSUME NEW x \in Seq(R) \X (1 .. N) PROVE NextConfig(x[1], names[x[2]], items) \in Seq(R)
    <3>1. x[1] \in Seq(R)
      OBVIOUS
    <3> QED
      BY <1>3, <3>1
  <2> QED
    BY <2>1 DEF Moves
<1>5. <<>> \in Seq(R)
  OBVIOUS
<1>6. \E w : w = F(w)
  <2>1. PICK w : IsWalk(w, Seq(R), N, <<>>, step)
    <3> HIDE DEF step, F, found
    <3> QED
      BY ONLY <1>2, <1>4, <1>5, WalkExists
  <2>0. /\ w \in [0 .. N -> Seq(R)] /\ w[0] = <<>>
        /\ \A i \in 1 .. N : w[i] = step[<<w[i - 1], i>>]
    BY <2>1 DEF IsWalk
  <2>2. ASSUME NEW i \in 1 .. N PROVE w[i] = NextConfig(w[i - 1], names[i], items)
    <3>1. i - 1 \in 0 .. N
      BY <1>2
    <3>2. w[i - 1] \in Seq(R)
      BY <2>0, <3>1
    <3>3. <<w[i - 1], i>> \in Seq(R) \X (1 .. N)
      BY <3>2
    <3> QED
      BY <2>0, <3>3
  <2>3. w = [n \in 0 .. N |-> w[n]]
    BY <2>0
  <2>4. \A n \in 0 .. N : w[n] = IF n = 0 THEN <<>> ELSE NextConfig(w[n - 1], names[n], items)
    BY <1>2, <2>0, <2>2
  <2>5. w = F(w)
    BY <2>3, <2>4
  <2> QED
    BY <2>5
<1>7. found = F(found)
  <2> HIDE DEF F
  <2> QED
    BY <1>6
<1>8. Configs(words, items) = found[N]
  BY DEF Configs, names, N
<1> HIDE DEF found
<1> DEFINE T == {n \in 0 .. N : found[n] \in Seq(R)}
<1>9. 0 \in T
  BY <1>2, <1>5, <1>7
<1>10. ASSUME NEW n \in 0 .. N - 1, n \in T PROVE n + 1 \in T
  <2>1. n + 1 \in 0 .. N /\ n + 1 # 0 /\ (n + 1) - 1 = n
    BY <1>2
  <2>2. found[n + 1] = NextConfig(found[n], names[n + 1], items)
    BY <1>7, <2>1
  <2> QED
    BY <1>3, <1>10, <2>1, <2>2
<1>11. N \in T
  <2> HIDE DEF T
  <2>1. \A n \in 0 .. N : n \in T
    BY <1>2, <1>9, <1>10, UpTo
  <2> QED
    BY <1>2, <2>1
<1> QED
  BY <1>8, <1>11 DEF R
----------------------------------------------------------------------------
(* The applications the settings of R can have, the clients, and what        *)
(* create_protocol_app keeps true of the lists: that they refer to each      *)
(* other both ways, and no protocol has two applications of one name.        *)
AppsFrom(R) ==
  [app : UNION {lamp_create(c) \cup switch_create(c) \cup switchlamp_create(c) : c \in R},
   asked : R, name : {c.name : c \in R}, proto : Nat]
ClientsFrom(R) ==
  [server : {c.server : c \in R}, port : {c.port : c \in R} \cup {DefaultPort},
   user : {c.user : c \in R}, pass : {c.pass : c \in R}, apps : Seq(Nat)]

Serves(proto, c) == /\ c.server \in {"", proto.server} /\ c.port \in {NoPort, proto.port}
                    /\ c.user \in {"", proto.user} /\ c.pass \in {"", proto.pass}

ListsRefer(protos, apps) ==
  /\ \A p \in DOMAIN protos : \A i \in DOMAIN protos[p].apps :
       /\ protos[p].apps[i] \in DOMAIN apps
       /\ apps[protos[p].apps[i]].proto = p
  /\ \A a \in DOMAIN apps : apps[a].proto # 0 =>
       /\ apps[a].proto \in DOMAIN protos /\ a \in Range(protos[apps[a].proto].apps)
       /\ Serves(protos[apps[a].proto], apps[a].asked)

NamesDiffer(protos, apps) ==
  \A p \in DOMAIN protos : \A i, j \in DOMAIN protos[p].apps :
    apps[protos[p].apps[i]].name = apps[protos[p].apps[j]].name => i = j

BootInv(R, b) ==
  /\ b \in [protos : Seq(ClientsFrom(R)), apps : Seq(AppsFrom(R))]
  /\ Len(b.protos) < MaxProtocols /\ Len(b.apps) < MaxApps
  /\ \A p \in DOMAIN b.protos : Len(b.protos[p].apps) <= MaxPerProto
  /\ ListsRefer(b.protos, b.apps) /\ NamesDiffer(b.protos, b.apps)

(* user_init starts with no applications.                                    *)
LEMMA NothingBooted ==
  ASSUME NEW R
  PROVE  BootInv(R, Nothing)
BY LimitAssumption DEF BootInv, Nothing, ListsRefer, NamesDiffer

(* protocol_find and protocol_create find or make a client that serves the   *)
(* settings, or none.                                                        *)
LEMMA ClientServes ==
  ASSUME NEW R, NEW c \in R, NEW b, BootInv(R, b)
  PROVE  /\ BootInv(R, [b EXCEPT !.protos = WithProto(@, c)])
         /\ OwnProto(b.protos, c) # 0 =>
              /\ OwnProto(b.protos, c) \in DOMAIN WithProto(b.protos, c)
              /\ Serves(WithProto(b.protos, c)[OwnProto(b.protos, c)], c)
<1> DEFINE ps == b.protos
           found == {i \in DOMAIN ps : mqtt_match_client(ps[i], c)}
           qs == WithProto(ps, c)
<1>1. /\ ps \in Seq(ClientsFrom(R)) /\ b.apps \in Seq(AppsFrom(R)) /\ Len(ps) < MaxProtocols
      /\ Len(ps) \in Nat /\ DOMAIN ps = 1 .. Len(ps)
  BY DEF BootInv
<1>2. found # {} => /\ protocol_find(ps, c) \in found
                    /\ protocol_find(ps, c) # 0
  <2>1. SUFFICES ASSUME found # {}
                 PROVE protocol_find(ps, c) \in found /\ protocol_find(ps, c) # 0
    OBVIOUS
  <2>2. found \in SUBSET Nat
    BY <1>1
  <2>3. \E m \in found : \A i \in found : m <= i
    BY <2>1, <2>2, LeastOf
  <2>4. protocol_find(ps, c) = CHOOSE i \in found : \A j \in found : i <= j
    BY <2>1 DEF protocol_find
  <2>5. protocol_find(ps, c) \in found
    BY <2>3, <2>4
  <2> QED
    BY <1>1, <2>5
<1>3. found = {} => protocol_find(ps, c) = 0
  BY DEF protocol_find
<1>4. CASE found # {}
  <2>1. qs = ps /\ OwnProto(ps, c) = protocol_find(ps, c)
    BY <1>2, <1>4 DEF WithProto, OwnProto
  <2>2. [b EXCEPT !.protos = WithProto(@, c)] = b
    BY <2>1 DEF BootInv
  <2>3. mqtt_match_client(ps[protocol_find(ps, c)], c) /\ protocol_find(ps, c) \in DOMAIN ps
    BY <1>2, <1>4
  <2> QED
    BY <2>1, <2>2, <2>3 DEF mqtt_match_client, Serves
<1>5. CASE found = {} /\ (Len(ps) >= MaxProtocols - 1 \/ c.server = "")
  <2>1. qs = ps
    BY <1>3, <1>5 DEF WithProto, protocol_create, mqtt_create_client
  <2>2. OwnProto(ps, c) = 0
    BY <1>3, <1>5, <2>1 DEF OwnProto
  <2>3. [b EXCEPT !.protos = WithProto(@, c)] = b
    BY <2>1 DEF BootInv
  <2> QED
    BY <2>2, <2>3
<1>6. CASE found = {} /\ Len(ps) < MaxProtocols - 1 /\ c.server # ""
  <2> DEFINE port == IF c.port = NoPort THEN DefaultPort ELSE c.port
             new == [server |-> c.server, port |-> port, user |-> c.user,
                     pass |-> c.pass, apps |-> <<>>]
  <2>1. mqtt_create_client(c) = {new}
    BY <1>6 DEF mqtt_create_client
  <2>2. qs = Append(ps, new)
    <3>1. (CHOOSE proto \in mqtt_create_client(c) : TRUE) = new
      BY <2>1
    <3>2. ~ (Len(ps) >= MaxProtocols - 1)
      <4>1. Len(ps) < MaxProtocols - 1 /\ MaxProtocols \in Nat
        BY <1>6, LimitAssumption
      <4> HIDE DEF ps
      <4> QED
        BY ONLY <1>1, <4>1
    <3>3. protocol_find(ps, c) = 0 /\ {new} # {}
      BY <1>3, <1>6
    <3>4. WithProto(ps, c) = protocol_create(ps, c)
      BY <3>3 DEF WithProto
    <3> QED
      BY <2>1, <3>1, <3>2, <3>3, <3>4 DEF protocol_create
  <2>3. new \in ClientsFrom(R)
    BY DEF ClientsFrom
  <2>4. /\ qs \in Seq(ClientsFrom(R)) /\ Len(qs) = Len(ps) + 1 /\ DOMAIN qs = 1 .. Len(ps) + 1
        /\ \A i \in DOMAIN ps : qs[i] = ps[i] /\ i \in DOMAIN qs
        /\ qs[Len(ps) + 1] = new
    BY <1>1, <2>2, <2>3
  <2>5. qs # ps
    BY <1>1, <2>4
  <2>6. OwnProto(ps, c) = Len(ps) + 1
    BY <1>3, <1>6, <2>5 DEF OwnProto
  <2>7. Serves(qs[Len(ps) + 1], c)
    BY <2>4 DEF Serves
  <2>8. [b EXCEPT !.protos = WithProto(@, c)] = [protos |-> qs, apps |-> b.apps]
    BY DEF BootInv
  <2>9. BootInv(R, [protos |-> qs, apps |-> b.apps])
    <3> DEFINE as == b.apps
    <3>1. DOMAIN new.apps = {} /\ Len(new.apps) = 0
      OBVIOUS
    <3>2. \A p \in DOMAIN qs : p \in DOMAIN ps \/ p = Len(ps) + 1
      BY <1>1, <2>4
    <3>3. \A p \in DOMAIN qs : Len(qs[p].apps) <= MaxPerProto
      BY <2>4, <3>1, <3>2, LimitAssumption DEF BootInv
    <3>4. ListsRefer(qs, as)
      <4>1. ListsRefer(ps, as)
        BY DEF BootInv
      <4>2. ASSUME NEW p \in DOMAIN qs, NEW i \in DOMAIN qs[p].apps
            PROVE qs[p].apps[i] \in DOMAIN as /\ as[qs[p].apps[i]].proto = p
        BY <2>4, <3>1, <3>2, <4>1, <4>2 DEF ListsRefer
      <4>3. ASSUME NEW a \in DOMAIN as, as[a].proto # 0
            PROVE /\ as[a].proto \in DOMAIN qs /\ a \in Range(qs[as[a].proto].apps)
                  /\ Serves(qs[as[a].proto], as[a].asked)
        BY <2>4, <4>1, <4>3 DEF ListsRefer
      <4> HIDE DEF qs
      <4> QED
        BY <4>2, <4>3 DEF ListsRefer
    <3>5. NamesDiffer(qs, as)
      <4>1. NamesDiffer(ps, as)
        BY DEF BootInv
      <4> HIDE DEF qs
      <4>2. ASSUME NEW p \in DOMAIN qs, NEW i \in DOMAIN qs[p].apps, NEW j \in DOMAIN qs[p].apps,
                   as[qs[p].apps[i]].name = as[qs[p].apps[j]].name
            PROVE i = j
        BY <2>4, <3>1, <3>2, <4>1, <4>2 DEF NamesDiffer
      <4> QED
        BY <4>2 DEF NamesDiffer
    <3>6. Len(qs) < MaxProtocols /\ Len(as) < MaxApps
      <4>1. Len(ps) < MaxProtocols - 1 /\ MaxProtocols \in Nat /\ Len(as) < MaxApps
        BY <1>6, LimitAssumption DEF BootInv
      <4> HIDE DEF ps, qs
      <4> QED
        BY ONLY <1>1, <2>4, <4>1
    <3>7. as \in Seq(AppsFrom(R))
      BY <1>1
    <3> DEFINE both == [protos |-> qs, apps |-> as]
    <3> HIDE DEF qs, as
    <3>8. both \in [protos : Seq(ClientsFrom(R)), apps : Seq(AppsFrom(R))]
      BY <2>4, <3>7
    <3>9. both.protos = qs /\ both.apps = as
      OBVIOUS
    <3> HIDE DEF both
    <3>10. BootInv(R, both)
      BY <3>3, <3>4, <3>5, <3>6, <3>8, <3>9 DEF BootInv
    <3> QED
      BY <3>10 DEF both, as
  <2> QED
    BY <2>4, <2>6, <2>7, <2>8, <2>9
<1> QED
  <2>1. Len(ps) >= MaxProtocols - 1 \/ Len(ps) < MaxProtocols - 1
    BY <1>1, LimitAssumption
  <2> QED
    BY <1>4, <1>5, <1>6, <2>1

(* app_create makes an application of the settings.                          *)
LEMMA AppIsFrom ==
  ASSUME NEW R, NEW c \in R, NEW b, NEW p, NEW app \in app_create(b, p, c)
  PROVE  /\ app \in lamp_create(c) \cup switch_create(c) \cup switchlamp_create(c)
         /\ p # 0 /\ ~(Len(b.apps) >= MaxApps - 1)
<1>1. p # 0 /\ ~(Len(b.apps) >= MaxApps - 1)
  BY DEF app_create
<1>2. app \in CASE c.type = "lamp" -> lamp_create(c)
                [] c.type = "switch" -> switch_create(c)
                [] c.type = "switchlamp" -> switchlamp_create(c)
                [] OTHER -> {}
  BY <1>1 DEF app_create
<1>3. CASE c.type = "lamp"
  BY <1>1, <1>2, <1>3
<1>4. CASE c.type = "switch"
  BY <1>1, <1>2, <1>4
<1>5. CASE c.type = "switchlamp"
  BY <1>1, <1>2, <1>5
<1> QED
  BY <1>1, <1>2, <1>3, <1>4, <1>5

(* protocol_add_app enters the application in both lists, or in the one of   *)
(* all applications only.                                                    *)
LEMMA AppIsAdded ==
  ASSUME NEW R, NEW c \in R, NEW b, BootInv(R, b),
         NEW p \in DOMAIN b.protos, Serves(b.protos[p], c),
         NEW app \in app_create(b, p, c)
  PROVE  BootInv(R, protocol_add_app(b, p, c, app))
<1> DEFINE ps == b.protos
           as == b.apps
           n == Len(as) + 1
           old == ps[p].apps
           added == AddsApp(b, p, c)
           new == [app |-> app, asked |-> c, name |-> c.name,
                   proto |-> IF added THEN p ELSE 0]
           qs == IF added THEN [ps EXCEPT ![p].apps = Append(@, n)] ELSE ps
           bs == Append(as, new)
<1>1. /\ ps \in Seq(ClientsFrom(R)) /\ as \in Seq(AppsFrom(R)) /\ Len(ps) < MaxProtocols
      /\ Len(ps) \in Nat /\ DOMAIN ps = 1 .. Len(ps)
      /\ Len(as) \in Nat /\ DOMAIN as = 1 .. Len(as)
      /\ p \in 1 .. Len(ps)
      /\ \A q \in DOMAIN ps : Len(ps[q].apps) <= MaxPerProto
      /\ ListsRefer(ps, as) /\ NamesDiffer(ps, as)
  BY DEF BootInv
<1>2. new \in AppsFrom(R)
  <2>1. app \in UNION {lamp_create(d) \cup switch_create(d) \cup switchlamp_create(d) : d \in R}
    BY AppIsFrom
  <2>2. c.name \in {d.name : d \in R} /\ (IF added THEN p ELSE 0) \in Nat
    BY <1>1
  <2> HIDE DEF added
  <2> QED
    BY <2>1, <2>2 DEF AppsFrom
<1>3. /\ bs \in Seq(AppsFrom(R)) /\ Len(bs) = n /\ DOMAIN bs = 1 .. n /\ bs[n] = new
      /\ \A a \in DOMAIN as : bs[a] = as[a] /\ a \in DOMAIN bs /\ a # n
      /\ n \in Nat
  <2> HIDE DEF new
  <2> QED
    BY <1>1, <1>2
<1>3a. \A a \in DOMAIN bs : a = n \/ a \in DOMAIN as
  <2>1. n = Len(as) + 1 /\ DOMAIN bs = 1 .. n /\ DOMAIN as = 1 .. Len(as) /\ Len(as) \in Nat
    BY <1>1, <1>3
  <2>2. ASSUME NEW k \in Nat, NEW a \in 1 .. k + 1
        PROVE  a = k + 1 \/ a \in 1 .. k
    OBVIOUS
  <2> HIDE DEF bs
  <2> QED
    BY <2>1, <2>2
<1>4. n < MaxApps
  <2>1. ~(Len(as) >= MaxApps - 1) /\ MaxApps \in Nat /\ Len(as) \in Nat
    BY <1>1, AppIsFrom, LimitAssumption
  <2>2. ASSUME NEW k \in Nat, NEW m \in Nat, ~(k >= m - 1)
        PROVE  k + 1 < m
    BY <2>2
  <2> QED
    BY <2>1, <2>2
<1>5. /\ ps[p] \in ClientsFrom(R)
      /\ old \in Seq(Nat) /\ Len(old) \in Nat /\ DOMAIN old = 1 .. Len(old)
  <2>1. ps[p] \in ClientsFrom(R)
    BY <1>1
  <2>2. old \in Seq(Nat)
    BY <2>1 DEF ClientsFrom
  <2> HIDE DEF old
  <2> QED
    BY <2>1, <2>2
<1>6. /\ new.app = app /\ new.asked = c /\ new.name = c.name
      /\ new.proto = IF added THEN p ELSE 0
  OBVIOUS
<1>7. protocol_add_app(b, p, c, app) = [protos |-> qs, apps |-> bs]
  BY DEF protocol_add_app
<1>8. CASE ~added
  <2>1. qs = ps /\ new.proto = 0
    BY <1>6, <1>8
  <2>2. ListsRefer(ps, bs)
    <3> HIDE DEF bs, new, n, as, ps
    <3>1. ASSUME NEW q \in DOMAIN ps, NEW i \in DOMAIN ps[q].apps
          PROVE ps[q].apps[i] \in DOMAIN bs /\ bs[ps[q].apps[i]].proto = q
      BY <1>1, <1>3, <3>1 DEF ListsRefer
    <3>2. ASSUME NEW a \in DOMAIN bs, bs[a].proto # 0
          PROVE /\ bs[a].proto \in DOMAIN ps /\ a \in Range(ps[bs[a].proto].apps)
                /\ Serves(ps[bs[a].proto], bs[a].asked)
      <4>1. a \in DOMAIN as
        BY <1>3, <1>3a, <2>1, <3>2
      <4> QED
        BY <1>1, <1>3, <3>2, <4>1 DEF ListsRefer
    <3> QED
      BY <3>1, <3>2 DEF ListsRefer
  <2>3. NamesDiffer(ps, bs)
    <3> HIDE DEF bs, new, n, as, ps
    <3> QED
      BY <1>1, <1>3 DEF NamesDiffer, ListsRefer
  <2> DEFINE both == [protos |-> ps, apps |-> bs]
  <2> HIDE DEF bs, ps, n
  <2>4. both.protos = ps /\ both.apps = bs
    OBVIOUS
  <2>5. both \in [protos : Seq(ClientsFrom(R)), apps : Seq(AppsFrom(R))]
    BY <1>1, <1>3
  <2> HIDE DEF both
  <2>6. BootInv(R, both)
    BY <1>1, <1>3, <1>4, <2>2, <2>3, <2>4, <2>5 DEF BootInv
  <2> QED
    BY <1>7, <2>1, <2>6 DEF both
<1>9. CASE added
  <2>1. /\ qs = [ps EXCEPT ![p].apps = Append(old, n)] /\ new.proto = p
        /\ Len(old) < MaxPerProto
        /\ \A i \in Range(old) : as[i].name # c.name
    BY <1>6, <1>9 DEF AddsApp
  <2>2. /\ Append(old, n) \in Seq(Nat) /\ Len(Append(old, n)) = Len(old) + 1
        /\ DOMAIN Append(old, n) = 1 .. Len(old) + 1
        /\ Append(old, n)[Len(old) + 1] = n
        /\ \A i \in DOMAIN old : Append(old, n)[i] = old[i] /\ i \in 1 .. Len(old) + 1
    <3> HIDE DEF old, n
    <3> QED
      BY <1>3, <1>5
  <2> DEFINE ns == Append(old, n)
             r == [ps[p] EXCEPT !.apps = ns]
  <2>3. /\ r \in ClientsFrom(R) /\ r.apps = ns /\ r.server = ps[p].server
        /\ r.port = ps[p].port /\ r.user = ps[p].user /\ r.pass = ps[p].pass
    <3> HIDE DEF ns, ps
    <3> QED
      BY <1>5, <2>2 DEF ClientsFrom, ns
  <2>4. qs = [ps EXCEPT ![p] = r]
    BY <2>1
  <2>5. /\ qs \in Seq(ClientsFrom(R)) /\ Len(qs) = Len(ps) /\ DOMAIN qs = 1 .. Len(ps)
        /\ qs[p] = r /\ \A q \in DOMAIN ps : q # p => qs[q] = ps[q]
    <3> HIDE DEF r, ps, qs
    <3> QED
      BY <1>1, <2>3, <2>4
  <2>6. ListsRefer(qs, bs)
    <3> HIDE DEF bs, new, n, as, ps, qs, r, ns, old
    <3>1. ASSUME NEW q \in DOMAIN qs, NEW i \in DOMAIN qs[q].apps
          PROVE qs[q].apps[i] \in DOMAIN bs /\ bs[qs[q].apps[i]].proto = q
      <4>1. CASE q # p
        <5>1. qs[q] = ps[q] /\ q \in DOMAIN ps
          BY <1>1, <2>5, <4>1
        <5>2. i \in DOMAIN ps[q].apps
          BY <5>1
        <5>3. ps[q].apps[i] \in DOMAIN as /\ as[ps[q].apps[i]].proto = q
          BY <1>1, <5>1, <5>2 DEF ListsRefer
        <5> QED
          BY <1>3, <5>1, <5>3
      <4>2. CASE q = p /\ i = Len(old) + 1
        <5>1. qs[q].apps[i] = n
          BY <2>2, <2>3, <2>5, <4>2 DEF ns
        <5>2. n \in DOMAIN bs /\ bs[n].proto = p
          <6>1. n \in 1 .. n
            <7>1. ASSUME NEW k \in Nat PROVE k + 1 \in 1 .. k + 1
              OBVIOUS
            <7> QED
              BY <1>1, <7>1 DEF n, as
          <6> QED
            BY <1>3, <2>1, <6>1
        <5> QED
          BY <4>2, <5>1, <5>2
      <4>3. CASE q = p /\ i # Len(old) + 1
        <5>1. i \in DOMAIN old /\ qs[q].apps[i] = old[i]
          BY <1>5, <2>2, <2>3, <2>5, <3>1, <4>3 DEF ns
        <5>2. old[i] \in DOMAIN as /\ as[old[i]].proto = p
          BY <1>1, <5>1 DEF ListsRefer, old
        <5> QED
          BY <1>3, <4>3, <5>1, <5>2
      <4> QED
        BY <4>1, <4>2, <4>3
    <3>2. ASSUME NEW a \in DOMAIN bs, bs[a].proto # 0
          PROVE /\ bs[a].proto \in DOMAIN qs /\ a \in Range(qs[bs[a].proto].apps)
                /\ Serves(qs[bs[a].proto], bs[a].asked)
      <4>0. \A q \in DOMAIN qs : /\ qs[q].server = ps[q].server /\ qs[q].port = ps[q].port
                                  /\ qs[q].user = ps[q].user /\ qs[q].pass = ps[q].pass
        BY <1>1, <2>3, <2>5
      <4>1. CASE a = n
        <5>1. bs[a].proto = p /\ bs[a].asked = c
          BY <1>3, <1>6, <2>1, <4>1
        <5>2. n \in Range(ns)
          BY <2>2, <1>5 DEF Range, ns
        <5>3. Serves(qs[p], c)
          BY <1>1, <2>5, <4>0 DEF Serves, ps
        <5> QED
          BY <1>1, <2>3, <2>5, <4>1, <5>1, <5>2, <5>3
      <4>2. CASE a # n
        <5>1. a \in DOMAIN as /\ bs[a] = as[a]
          BY <1>3, <1>3a, <4>2
        <5>2. /\ as[a].proto \in DOMAIN ps /\ a \in Range(ps[as[a].proto].apps)
              /\ Serves(ps[as[a].proto], as[a].asked)
          BY <1>1, <3>2, <5>1 DEF ListsRefer
        <5>3. Serves(qs[as[a].proto], as[a].asked)
          BY <1>1, <2>5, <4>0, <5>2 DEF Serves
        <5>4. a \in Range(qs[as[a].proto].apps)
          <6>1. CASE as[a].proto # p
            BY <2>5, <5>2, <6>1
          <6>2. CASE as[a].proto = p
            <7>1. PICK i \in DOMAIN old : old[i] = a
              BY <5>2, <6>2 DEF Range, old
            <7>2. ns[i] = a /\ i \in DOMAIN ns
              BY <2>2, <7>1 DEF ns
            <7> QED
              BY <2>3, <2>5, <6>2, <7>2 DEF Range
          <6> QED
            BY <6>1, <6>2
        <5> QED
          BY <1>1, <2>5, <5>1, <5>2, <5>3, <5>4
      <4> QED
        BY <4>1, <4>2
    <3> QED
      BY <3>1, <3>2 DEF ListsRefer
  <2>7. NamesDiffer(qs, bs)
    <3> HIDE DEF bs, new, n, as, ps, qs, r, ns, old
    <3>1. ASSUME NEW q \in DOMAIN qs, NEW i \in DOMAIN qs[q].apps,
                 NEW j \in DOMAIN qs[q].apps,
                 bs[qs[q].apps[i]].name = bs[qs[q].apps[j]].name
          PROVE i = j
      <4>1. CASE q # p
        <5>1. qs[q] = ps[q] /\ q \in DOMAIN ps
          BY <1>1, <2>5, <4>1
        <5>2. /\ bs[ps[q].apps[i]] = as[ps[q].apps[i]] /\ bs[ps[q].apps[j]] = as[ps[q].apps[j]]
              /\ i \in DOMAIN ps[q].apps /\ j \in DOMAIN ps[q].apps
          BY <1>1, <1>3, <5>1 DEF ListsRefer
        <5>3. as[ps[q].apps[i]].name = as[ps[q].apps[j]].name
          BY <3>1, <5>1, <5>2
        <5> QED
          BY <1>1, <5>1, <5>2, <5>3 DEF NamesDiffer
      <4>2. CASE q = p
        <5>1. qs[q].apps = ns /\ i \in 1 .. Len(old) + 1 /\ j \in 1 .. Len(old) + 1
          BY <2>2, <2>3, <2>5, <4>2 DEF ns
        <5>2. \A k \in DOMAIN old : old[k] \in DOMAIN as /\ bs[old[k]] = as[old[k]]
          BY <1>1, <1>3 DEF ListsRefer, old
        <5>3. \A k \in DOMAIN old : as[old[k]].name # c.name
          BY <2>1 DEF Range
        <5>4. CASE i \in DOMAIN old /\ j \in DOMAIN old
          <6>1. ns[i] = old[i] /\ ns[j] = old[j]
            BY <2>2, <5>4 DEF ns
          <6>2. as[old[i]].name = as[old[j]].name
            BY <3>1, <5>1, <5>2, <5>4, <6>1
          <6> QED
            BY <1>1, <5>4, <6>2 DEF NamesDiffer, old
        <5>5. CASE i \in DOMAIN old /\ j = Len(old) + 1
          <6>1. ns[i] = old[i] /\ ns[j] = n
            BY <2>2, <5>5 DEF ns
          <6> QED
            BY <1>3, <1>6, <3>1, <5>1, <5>2, <5>3, <5>5, <6>1
        <5>6. CASE j \in DOMAIN old /\ i = Len(old) + 1
          <6>1. ns[j] = old[j] /\ ns[i] = n
            BY <2>2, <5>6 DEF ns
          <6> QED
            BY <1>3, <1>6, <3>1, <5>1, <5>2, <5>3, <5>6, <6>1
        <5> QED
          BY <1>5, <5>1, <5>4, <5>5, <5>6
      <4> QED
        BY <4>1, <4>2
    <3> QED
      BY <3>1 DEF NamesDiffer
  <2>8. \A q \in DOMAIN qs : Len(qs[q].apps) <= MaxPerProto
    <3>1. MaxPerProto \in Nat
      BY LimitAssumption
    <3> HIDE DEF qs, r, ns, old, ps
    <3>2. Len(ns) <= MaxPerProto
      BY <1>5, <2>1, <2>2, <3>1 DEF ns
    <3> QED
      BY <1>1, <2>3, <2>5, <3>2
  <2> DEFINE both == [protos |-> qs, apps |-> bs]
  <2> HIDE DEF bs, ps, qs, n
  <2>9. both.protos = qs /\ both.apps = bs
    OBVIOUS
  <2>10. both \in [protos : Seq(ClientsFrom(R)), apps : Seq(AppsFrom(R))]
    BY <1>3, <2>5
  <2> HIDE DEF both
  <2>11. BootInv(R, both)
    BY <1>1, <1>3, <1>4, <2>5, <2>6, <2>7, <2>8, <2>9, <2>10 DEF BootInv
  <2> QED
    BY <1>7, <2>11 DEF both
<1> QED
  BY <1>8, <1>9

(* create_protocol_app keeps the lists sound.                                *)
LEMMA OneMoreApp ==
  ASSUME NEW R, NEW c \in R, NEW b, BootInv(R, b)
  PROVE  BootInv(R, create_protocol_app(b, c))
<1> DEFINE p == OwnProto(b.protos, c)
           found == [b EXCEPT !.protos = WithProto(@, c)]
<1>1. BootInv(R, found) /\ found.protos = WithProto(b.protos, c)
  BY ClientServes DEF BootInv
<1>2. CASE c.protocol # "mqtt" \/ app_create(found, p, c) = {}
  <2>1. create_protocol_app(b, c) \in {found, b}
    BY <1>2 DEF create_protocol_app
  <2> HIDE DEF found
  <2> QED
    BY <1>1, <2>1
<1>3. CASE c.protocol = "mqtt" /\ app_create(found, p, c) # {}
  <2> DEFINE app == CHOOSE x \in app_create(found, p, c) : TRUE
  <2>1. app \in app_create(found, p, c)
    BY <1>3
  <2>2. create_protocol_app(b, c) = protocol_add_app(found, p, c, app)
    BY <1>3 DEF create_protocol_app
  <2>3. p # 0
    BY <2>1, AppIsFrom
  <2>4. p \in DOMAIN found.protos /\ Serves(found.protos[p], c)
    BY <1>1, <2>3, ClientServes
  <2> HIDE DEF app, found, p
  <2>5. BootInv(R, protocol_add_app(found, p, c, app))
    BY <1>1, <2>1, <2>4, AppIsAdded
  <2> QED
    BY <2>2, <2>5
<1> QED
  BY <1>2, <1>3

(* The walk of user_init over the settings exists ...                        *)
LEMMA BootingExists ==
  ASSUME NEW configs, Len(configs) \in Nat
  PROVE  \E walk : walk = [i \in 0 .. Len(configs) |->
           IF i = 0 THEN Nothing ELSE create_protocol_app(walk[i - 1], configs[i])]
<1> DEFINE N == Len(configs)
           Goes(g, n) == g = [i \in 0 .. n |->
             IF i = 0 THEN Nothing ELSE create_protocol_app(g[i - 1], configs[i])]
           Bad == {n \in Nat : \A g : ~Goes(g, n)}
<1>1. SUFFICES Bad = {}
  <2>1. N \notin Bad
    BY <1>1
  <2>2. \E g : Goes(g, N)
    BY <2>1
  <2> QED
    BY <2>2
<1>2. SUFFICES ASSUME Bad # {} PROVE FALSE
  OBVIOUS
<1>3. PICK n \in Bad : \A i \in Bad : n <= i
  BY <1>2, LeastOf
<1>4. CASE n = 0
  <2> DEFINE g == [i \in 0 .. 0 |-> Nothing]
  <2>1. Goes(g, 0)
    OBVIOUS
  <2> HIDE DEF g
  <2> QED
    BY <1>4, <2>1
<1>5. CASE n # 0
  <2>0. n \in Nat
    OBVIOUS
  <2>1. n - 1 \in Nat /\ n - 1 \notin Bad /\ n \in Nat
    <3> HIDE DEF Bad
    <3> QED
      BY <1>3, <1>5, <2>0
  <2>2. PICK g : Goes(g, n - 1)
    BY <2>1
  <2> DEFINE h == [i \in 0 .. n |->
                    IF i = n THEN create_protocol_app(g[n - 1], configs[n]) ELSE g[i]]
  <2>3. DOMAIN h = 0 .. n /\ h[n] = create_protocol_app(g[n - 1], configs[n])
        /\ \A i \in 0 .. n - 1 : h[i] = g[i]
    BY <2>1
  <2>4. /\ \A i \in 1 .. n - 1 : g[i] = create_protocol_app(g[i - 1], configs[i])
        /\ g[0] = Nothing
    BY <2>1, <2>2
  <2>5. ASSUME NEW i \in 0 .. n
        PROVE h[i] = IF i = 0 THEN Nothing ELSE create_protocol_app(h[i - 1], configs[i])
    <3> HIDE DEF h
    <3>1. CASE i = 0
      BY <1>5, <2>1, <2>3, <2>4, <3>1
    <3>2. CASE i = n
      <4>1. h[n - 1] = g[n - 1] /\ i # 0
        BY <2>1, <2>3, <3>2, <1>5
      <4> QED
        BY <2>3, <3>2, <4>1
    <3>3. CASE i # 0 /\ i # n
      <4>1. i \in 1 .. n - 1 /\ i - 1 \in 0 .. n - 1 /\ i \in 0 .. n - 1
        BY <2>1, <3>3
      <4>2. h[i] = g[i] /\ h[i - 1] = g[i - 1] /\ g[i] = create_protocol_app(g[i - 1], configs[i])
        BY <2>3, <2>4, <4>1
      <4> QED
        BY <3>3, <4>2
    <3> QED
      BY <3>1, <3>2, <3>3
  <2>6. h = [i \in 0 .. n |-> h[i]]
    OBVIOUS
  <2> HIDE DEF h
  <2>7. Goes(h, n)
    BY <2>5, <2>6
  <2> QED
    BY <2>7
<1> QED
  BY <1>4, <1>5

(* ... and keeps the lists sound at every application.                       *)
LEMMA BootKeepsLists ==
  ASSUME NEW R, NEW configs \in Seq(R)
  PROVE  BootInv(R, Booted(configs))
<1> DEFINE N == Len(configs)
           lists == CHOOSE walk : walk = [i \in 0 .. N |->
             IF i = 0 THEN Nothing ELSE create_protocol_app(walk[i - 1], configs[i])]
<1>1. N \in Nat
  OBVIOUS
<1>2. lists = [i \in 0 .. N |->
                IF i = 0 THEN Nothing ELSE create_protocol_app(lists[i - 1], configs[i])]
  BY <1>1, BootingExists
<1>3. Booted(configs) = lists[N]
  BY DEF Booted
<1> HIDE DEF lists
<1> DEFINE Bad == {n \in 0 .. N : ~BootInv(R, lists[n])}
<1>4. SUFFICES Bad = {}
  BY <1>1, <1>3, <1>4
<1>5. SUFFICES ASSUME Bad # {} PROVE FALSE
  OBVIOUS
<1>6. PICK n \in Bad : \A i \in Bad : n <= i
  <2>1. Bad \in SUBSET Nat
    BY <1>1
  <2> QED
    BY <1>5, <2>1, LeastOf
<1>7. CASE n = 0
  <2>1. lists[0] = Nothing
    BY <1>1, <1>2
  <2> QED
    BY <1>6, <1>7, <2>1, NothingBooted
<1>8. CASE n # 0
  <2>1. n - 1 \in 0 .. N /\ n \in 1 .. N /\ n - 1 \notin Bad
    BY <1>1, <1>6, <1>8
  <2>2. lists[n] = create_protocol_app(lists[n - 1], configs[n])
    BY <1>2, <1>8, <2>1
  <2>3. configs[n] \in R /\ BootInv(R, lists[n - 1])
    BY <2>1
  <2> QED
    BY <1>6, <2>2, <2>3, OneMoreApp
<1> QED
  BY <1>7, <1>8

(* However the settings repeat, clash or exceed the lists, user_init leaves  *)
(* lists that refer to each other and applications with the server, port,    *)
(* user and password they ask for.                                           *)
THEOREM BootsAreSound ==
  ASSUME NEW R, NEW configs \in Seq(R)
  PROVE  BootIsSound(configs)
<1> DEFINE b == Booted(configs)
<1>1. BootInv(R, b)
  BY BootKeepsLists
<1> HIDE DEF b
<1>2. Len(b.protos) <= MaxProtocols /\ Len(b.apps) <= MaxApps
  <2>1. /\ Len(b.protos) \in Nat /\ Len(b.apps) \in Nat
        /\ Len(b.protos) < MaxProtocols /\ Len(b.apps) < MaxApps
    BY <1>1 DEF BootInv
  <2> QED
    BY <2>1, LimitAssumption
<1>3. ASSUME NEW p \in DOMAIN b.protos
      PROVE /\ Len(b.protos[p].apps) <= MaxPerProto
            /\ \A i \in DOMAIN b.protos[p].apps : b.apps[b.protos[p].apps[i]].proto = p
            /\ IsInjective([i \in DOMAIN b.protos[p].apps |->
                              b.apps[b.protos[p].apps[i]].name])
  BY <1>1 DEF BootInv, ListsRefer, NamesDiffer, IsInjective
<1>4. ASSUME NEW a \in DOMAIN b.apps, b.apps[a].proto # 0
      PROVE LET c == b.apps[a].asked
                p == b.protos[b.apps[a].proto]
            IN  /\ b.apps[a].proto \in DOMAIN b.protos /\ a \in Range(p.apps)
                /\ c.server \in {"", p.server} /\ c.port \in {NoPort, p.port}
                /\ c.user \in {"", p.user} /\ c.pass \in {"", p.pass}
  BY <1>1, <1>4 DEF BootInv, ListsRefer, Serves
<1> QED
  BY <1>2, <1>3, <1>4 DEF BootIsSound, b
=============================================================================
