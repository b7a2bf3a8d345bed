--------------------------- MODULE Settings_proofs ---------------------------
(* Settings for any keys, values and networks, any default configuration     *)
(* that is a tree of settings, and sectors and trees of any size.  The       *)
(* inductive invariant adds to what is checked that a save writes a text     *)
(* that was printed in whole, that a boot reads the default configuration,   *)
(* and that the SDK keeps what smartconfig learnt.                           *)
EXTENDS Settings, TLAPS

(* The names an item can have: those of the default configuration, the one   *)
(* smartconfig_done adds, and those typed.                                   *)
Names == STRING \cup {Last(Ssid)} \cup {LastName(key) : key \in Keys}

Paths == Seq(Names)

Tree(t) == IsTree(t) /\ DOMAIN t \subseteq Paths

(* The path of the item a key names.                                         *)
PathOf(key) == Append(Walk(key).steps, LastName(key))

TreesHold == /\ Tree(tree)
             /\ Tree(flash) /\ flash = Printed(flash)
             /\ config_string \in {NoTree, Default}

(* What CFG_save is writing, and what for.                                   *)
SaveHolds ==
  pc = "erased" =>
    /\ saving.then \in {"read", "learn", "run"}
    /\ Tree(saving.text) /\ saving.text = Printed(saving.text)
    /\ saving.then = "read" => saving.text = Default

(* What the station is told to connect to, and what the SDK keeps of it.     *)
SdkHolds ==
  /\ sdk \in Ssids \cup {"", Default[Ssid].text}
  /\ learnt # "" => sdk = learnt
  /\ pc = "learn" \/ (pc = "erased" /\ saving.then = "learn") => station \in Ssids
  /\ pc = "run" \/ (pc = "erased" /\ saving.then = "run") =>
       (learnt # "" => station = learnt)

SettingsInv ==
  /\ inFlash \in BOOLEAN /\ pc \in {"boot", "erased", "read", "start", "learn", "run"}
  /\ TreesHold /\ SaveHolds /\ SdkHolds
  /\ pc = "read" => flash = Default
-------------------------------------------------------------------------------
(* Paths and trees.                                                          *)
LEMMA SsidIsPath == Ssid \in Paths /\ Ssid # <<>> /\ Len(Ssid) = 1
<1>1. Last(Ssid) = "wifi_ssid" /\ Last(Ssid) \in Names
  BY DEF Ssid, Last, Names
<1>2. Len(Ssid) = 1 /\ Ssid \in Seq(Names)
  BY <1>1 DEF Ssid
<1>3. Len(<<>>) = 0
  OBVIOUS
<1> QED
  BY <1>2, <1>3 DEF Paths

(* The default configuration is a tree of settings.                          *)
LEMMA DefaultIsTree == Tree(Default) /\ Default # NoTree
<1>1. ASSUME NEW p \in Seq(STRING) PROVE p \in Paths
  <2>1. \A i \in 1 .. Len(p) : p[i] \in Names
    BY DEF Names
  <2> QED
    BY <2>1 DEF Paths
<1> QED
  BY SettingsAssumption, <1>1 DEF Tree

(* The root is above every path, and no path above a shorter one.            *)
LEMMA PrefixShorter ==
  ASSUME NEW p \in Paths, NEW q \in Paths, IsPrefix(p, q)
  PROVE  Len(p) <= Len(q)
  BY DEF IsPrefix

(* A path leads to itself.                                                   *)
LEMMA PrefixItself == ASSUME NEW p \in Paths PROVE IsPrefix(p, p)
  BY DEF IsPrefix

(* A prefix of the start of a path is one of the path.                       *)
LEMMA PrefixOfPrefix ==
  ASSUME NEW p \in Paths, NEW q \in Paths, NEW n \in 0 .. Len(q),
         IsPrefix(p, SubSeq(q, 1, n))
  PROVE  IsPrefix(p, q)
<1> DEFINE s == SubSeq(q, 1, n)
<1>1. s \in Paths /\ Len(s) = n /\ \A i \in 1 .. n : s[i] = q[i]
  BY DEF Paths
<1>2. Len(p) <= n /\ SubSeq(p, 1, Len(p)) = SubSeq(s, 1, Len(p)) /\ Len(p) \in Nat
  BY <1>1 DEF IsPrefix, Paths
<1>3. SubSeq(s, 1, Len(p)) = SubSeq(q, 1, Len(p))
  BY <1>1, <1>2 DEF Paths
<1> QED
  BY <1>2, <1>3 DEF IsPrefix, Paths

(* Deleting an item and all below it leaves a tree, if it is not the root    *)
(* (cJSON_DeleteItemFromObject).                                             *)
LEMMA WithoutIsTree ==
  ASSUME NEW t, Tree(t), t # NoTree, NEW p \in Paths, p # <<>>
  PROVE  LET u == Without(t, p)
         IN  /\ Tree(u) /\ u # NoTree
             /\ \A q \in DOMAIN t : q \in Paths /\ Len(q) < Len(p) => q \in DOMAIN u
<1> DEFINE u == Without(t, p)
<1>1. DOMAIN u = {q \in DOMAIN t : ~IsPrefix(p, q)} /\ \A q \in DOMAIN u : u[q] = t[q]
  BY DEF Without, Below
<1>2. \A q \in DOMAIN t : q \in Paths
  BY DEF Tree
<1>3. \A q \in DOMAIN t : Len(q) < Len(p) => q \in DOMAIN u
  BY <1>1, <1>2, PrefixShorter DEF Paths
<1>4. <<>> \in DOMAIN u /\ u[<<>>] = Obj
  <2>1. <<>> \in DOMAIN t /\ t[<<>>] = Obj
    BY DEF Tree, IsTree
  <2>2. Len(<<>>) < Len(p)
    BY DEF Paths
  <2> QED
    BY <1>1, <1>3, <2>1, <2>2
<1>5. u # NoTree
  BY <1>4 DEF NoTree
<1>6. ASSUME NEW q \in DOMAIN u \ {<<>>}
      PROVE  /\ \A n \in 0 .. (Len(q) - 1) : SubSeq(q, 1, n) \in DOMAIN u
             /\ Len(Last(q)) > 1 /\ u[q].type \in {"object", "string", "number"}
  <2>1. /\ q \in DOMAIN t \ {<<>>} /\ q \in Paths /\ ~IsPrefix(p, q) /\ u[q] = t[q]
    BY <1>1, <1>2, <1>6
  <2>2. /\ \A n \in 0 .. (Len(q) - 1) : SubSeq(q, 1, n) \in DOMAIN t
        /\ Len(Last(q)) > 1 /\ t[q].type \in {"object", "string", "number"}
    BY <2>1 DEF Tree, IsTree
  <2>3. ASSUME NEW n \in 0 .. (Len(q) - 1) PROVE SubSeq(q, 1, n) \in DOMAIN u
    <3>1. n \in 0 .. Len(q)
      BY <2>1, <2>3 DEF Paths
    <3>2. ~IsPrefix(p, SubSeq(q, 1, n))
      BY <2>1, <3>1, PrefixOfPrefix
    <3> QED
      BY <1>1, <2>2, <2>3, <3>2
  <2> QED
    BY <2>1, <2>2, <2>3
<1> QED
  BY <1>1, <1>2, <1>3, <1>4, <1>5, <1>6 DEF Tree, IsTree

(* Adding an item with a name that counts, whose parent is there             *)
(* (cJSON_AddItemToObject).                                                  *)
LEMMA WithIsTree ==
  ASSUME NEW t, Tree(t), t # NoTree, NEW p \in Paths, p # <<>>, Len(Last(p)) > 1,
         \A n \in 0 .. (Len(p) - 1) : SubSeq(p, 1, n) \in DOMAIN t,
         p \notin DOMAIN t, NEW v, v.type \in {"string", "number"}
  PROVE  Tree(With(t, p, v)) /\ With(t, p, v) # NoTree
<1> DEFINE u == With(t, p, v)
<1>1. /\ DOMAIN u = DOMAIN t \cup {p} /\ u[p] = v
      /\ \A q \in DOMAIN t : u[q] = t[q]
  BY DEF With
<1>2. <<>> \in DOMAIN t /\ t[<<>>] = Obj
  BY DEF Tree, IsTree
<1>3. <<>> \in DOMAIN u /\ u[<<>>] = Obj
  BY <1>1, <1>2
<1>4. u # NoTree
  BY <1>3 DEF NoTree
<1>5. ASSUME NEW q \in DOMAIN u \ {<<>>}
      PROVE  /\ \A n \in 0 .. (Len(q) - 1) : SubSeq(q, 1, n) \in DOMAIN u
             /\ Len(Last(q)) > 1 /\ u[q].type \in {"object", "string", "number"}
  <2>1. CASE q = p
    BY <1>1, <2>1
  <2>2. CASE q # p
    <3>1. q \in DOMAIN t \ {<<>>} /\ u[q] = t[q]
      BY <1>1, <1>5, <2>2
    <3>2. /\ \A n \in 0 .. (Len(q) - 1) : SubSeq(q, 1, n) \in DOMAIN t
          /\ Len(Last(q)) > 1 /\ t[q].type \in {"object", "string", "number"}
      BY <3>1 DEF Tree, IsTree
    <3> QED
      BY <1>1, <3>1, <3>2
  <2> QED
    BY <2>1, <2>2
<1>6. DOMAIN u \subseteq Paths
  BY <1>1 DEF Tree
<1> QED
  BY <1>3, <1>4, <1>5, <1>6 DEF Tree, IsTree
(* What a tree prints to is a tree, and prints to the same (print_value).    *)
LEMMA PrintedIsTree ==
  ASSUME NEW t, Tree(t), t # NoTree
  PROVE  LET u == Printed(t) IN Tree(u) /\ u # NoTree /\ Printed(u) = u
<1> DEFINE Open(q) == \A n \in 0 .. (Len(q) - 1) : t[SubSeq(q, 1, n)] = Obj
           u == Printed(t)
<1>1. DOMAIN u = {q \in DOMAIN t : Open(q)} /\ \A q \in DOMAIN u : u[q] = t[q]
  BY DEF Printed
<1>2. <<>> \in DOMAIN t /\ t[<<>>] = Obj /\ \A q \in DOMAIN t : q \in Paths
  BY DEF Tree, IsTree
<1>3. <<>> \in DOMAIN u /\ u[<<>>] = Obj
  <2>1. Open(<<>>)
    OBVIOUS
  <2> QED
    BY <1>1, <1>2, <2>1
<1>4. u # NoTree
  BY <1>3 DEF NoTree
<1>5. ASSUME NEW q \in DOMAIN u, NEW n \in 0 .. (Len(q) - 1)
      PROVE  SubSeq(q, 1, n) \in DOMAIN u /\ u[SubSeq(q, 1, n)] = Obj
  <2> DEFINE s == SubSeq(q, 1, n)
  <2>1. q \in Paths /\ q \in DOMAIN t /\ q # <<>> /\ Len(q) \in Nat /\ Open(q)
    BY <1>1, <1>2, <1>5 DEF Paths
  <2>2. s \in DOMAIN t /\ t[s] = Obj
    BY <2>1, <1>5 DEF Tree, IsTree
  <2>3. s \in Paths /\ Len(s) = n
    BY <2>1, <1>5 DEF Paths
  <2>4. ASSUME NEW m \in 0 .. (Len(s) - 1) PROVE t[SubSeq(s, 1, m)] = Obj
    <3>1. SubSeq(s, 1, m) = SubSeq(q, 1, m) /\ m \in 0 .. (Len(q) - 1)
      BY <2>1, <2>3, <2>4, <1>5 DEF Paths
    <3> QED
      BY <2>1, <3>1
  <2>5. s \in DOMAIN u
    BY <1>1, <2>2, <2>4
  <2> QED
    BY <1>1, <2>2, <2>5
<1>6. Tree(u)
  <2>1. ASSUME NEW q \in DOMAIN u \ {<<>>}
        PROVE  Len(Last(q)) > 1 /\ u[q].type \in {"object", "string", "number"}
    <3>1. q \in DOMAIN t \ {<<>>} /\ u[q] = t[q]
      BY <1>1, <2>1
    <3> QED
      BY <3>1 DEF Tree, IsTree
  <2> QED
    BY <1>1, <1>2, <1>3, <1>5, <2>1 DEF Tree, IsTree
<1>7. Printed(u) = u
  <2>1. DOMAIN u = {q \in DOMAIN u : \A n \in 0 .. (Len(q) - 1) :
                                      u[SubSeq(q, 1, n)] = Obj}
    BY <1>5
  <2>2. u = [q \in DOMAIN u |-> u[q]]
    BY DEF Printed
  <2> QED
    BY <2>1, <2>2 DEF Printed
<1> QED
  BY <1>4, <1>6, <1>7

(* NoTree counts as a tree, one without items.                               *)
LEMMA NoTreeIsTree == Tree(NoTree) /\ Printed(NoTree) = NoTree /\ DOMAIN NoTree = {}
<1>1. DOMAIN NoTree = {}
  BY DEF NoTree
<1>2. Printed(NoTree) = [q \in {} |-> NoTree[q]]
  BY <1>1 DEF Printed
<1>3. NoTree = [q \in {} |-> NoTree[q]]
  BY DEF NoTree
<1> QED
  BY <1>1, <1>2, <1>3 DEF Tree, IsTree

(* CFG_save erases the sector to write what the tree prints to, or nothing   *)
(* of it.                                                                    *)
LEMMA SaveText ==
  ASSUME NEW t, Tree(t), t # NoTree
  PROVE  LET u == Fitting(Printed(t)) IN Tree(u) /\ Printed(u) = u
<1>1. Fitting(Printed(t)) \in {Printed(t), NoTree}
  BY DEF Fitting
<1> QED
  BY <1>1, PrintedIsTree, NoTreeIsTree
-------------------------------------------------------------------------------
(* The item a key names, where its parent is in the tree.                    *)
LEMMA KeyNamesPath ==
  ASSUME NEW key \in Keys, NEW t, Tree(t), t # NoTree, Walk(key).steps \in DOMAIN t
  PROVE  LET p == PathOf(key)
         IN  /\ p \in Paths /\ p # <<>> /\ Last(p) = LastName(key)
             /\ Walk(key).steps \in Paths /\ Len(Walk(key).steps) < Len(p)
             /\ \A n \in 0 .. (Len(p) - 1) :
                  /\ SubSeq(p, 1, n) \in DOMAIN t
                  /\ SubSeq(p, 1, n) \in Paths /\ Len(SubSeq(p, 1, n)) < Len(p)
<1> DEFINE s == Walk(key).steps
           p == PathOf(key)
<1>1. s \in Paths /\ s \in DOMAIN t /\ LastName(key) \in Names
  BY DEF Tree, Names
<1> HIDE DEF s
<1>2. p = Append(s, LastName(key))
  BY DEF PathOf, s
<1>3. /\ p \in Paths /\ Len(p) = Len(s) + 1 /\ Len(s) \in Nat
      /\ p[Len(p)] = LastName(key) /\ Len(<<>>) = 0
  BY <1>1, <1>2 DEF Paths
<1>4. ASSUME NEW n \in 0 .. (Len(p) - 1)
      PROVE  /\ SubSeq(p, 1, n) = SubSeq(s, 1, n)
             /\ SubSeq(p, 1, n) \in Paths /\ Len(SubSeq(p, 1, n)) = n
  BY <1>1, <1>2, <1>3, <1>4 DEF Paths
<1>5. ASSUME NEW n \in 0 .. (Len(p) - 1) PROVE SubSeq(s, 1, n) \in DOMAIN t
  <2>1. CASE n = Len(s)
    <3>1. SubSeq(s, 1, n) = s
      BY <1>1, <2>1 DEF Paths
    <3> QED
      BY <1>1, <3>1
  <2>2. CASE n < Len(s)
    <3>1. s \in DOMAIN t \ {<<>>} /\ n \in 0 .. (Len(s) - 1)
      BY <1>1, <1>3, <1>5, <2>2
    <3> QED
      BY <3>1 DEF Tree, IsTree
  <2> QED
    BY <1>3, <1>5, <2>1, <2>2
<1>6. p # <<>> /\ Last(p) = LastName(key) /\ Len(s) < Len(p)
  BY <1>3 DEF Last
<1>7. ASSUME NEW n \in 0 .. (Len(p) - 1)
      PROVE  /\ SubSeq(p, 1, n) \in DOMAIN t
             /\ SubSeq(p, 1, n) \in Paths /\ Len(SubSeq(p, 1, n)) < Len(p)
  <2>1. SubSeq(p, 1, n) = SubSeq(s, 1, n) /\ SubSeq(s, 1, n) \in DOMAIN t
    BY <1>4, <1>5
  <2>2. n < Len(p)
    BY <1>3
  <2> QED
    BY <1>4, <2>1, <2>2
<1> QED
  BY <1>1, <1>3, <1>6, <1>7 DEF s

(* A value typed is a string or a number.                                    *)
LEMMA ValueTypes ==
  ASSUME NEW words, NEW v \in ValueOf(words)
  PROVE  v.type \in {"string", "number"}
<1> DEFINE text == Joined(Kept(words))
           rest == SubSeq(text, 2, Len(text))
           first == SubSeq(text, 1, 1)
<1>1. ValueOf(words) = IF rest = "" THEN {}
                       ELSE CASE first = "s" -> {Text(rest)}
                              [] first = "i" -> {Number(rest)}
                              [] OTHER -> {}
  BY DEF ValueOf
<1> HIDE DEF rest, first
<1>2. v \in {Text(rest), Number(rest)}
  BY <1>1
<1> QED
  BY <1>2 DEF Text, Number

(* Adding or replacing an item.                                              *)
LEMMA ReplacedIsTree ==
  ASSUME NEW t, Tree(t), t # NoTree, NEW p \in Paths, p # <<>>, Len(Last(p)) > 1,
         \A n \in 0 .. (Len(p) - 1) :
           /\ SubSeq(p, 1, n) \in DOMAIN t
           /\ SubSeq(p, 1, n) \in Paths /\ Len(SubSeq(p, 1, n)) < Len(p),
         NEW v, v.type \in {"string", "number"}
  PROVE  LET u == With(Without(t, p), p, v) IN Tree(u) /\ u # NoTree
<1> DEFINE w == Without(t, p)
<1>1. /\ Tree(w) /\ w # NoTree
      /\ \A q \in DOMAIN t : q \in Paths /\ Len(q) < Len(p) => q \in DOMAIN w
  BY WithoutIsTree
<1>2. p \notin DOMAIN w
  BY PrefixItself DEF Without, Below
<1>3. \A n \in 0 .. (Len(p) - 1) : SubSeq(p, 1, n) \in DOMAIN w
  BY <1>1
<1> HIDE DEF w
<1>4. Tree(With(w, p, v)) /\ With(w, p, v) # NoTree
  BY <1>1, <1>2, <1>3, WithIsTree
<1> QED
  BY <1>4 DEF w

(* What a set command leaves is a tree (config_set).                         *)
LEMMA SetKeepsTree ==
  ASSUME Tree(tree), NEW key \in Keys,
         Delete(key) \/ \E words \in Values : Update(key, words)
  PROVE  Tree(tree') /\ UNCHANGED <<inFlash, pc, saving, flash, config_string, sdk,
                                   station, learnt>>
<1>1. UNCHANGED <<inFlash, pc, saving, flash, config_string, sdk, station, learnt>>
      /\ tree # NoTree
  BY DEF Delete, Update, TreeCommand, Command
<1>2. CASE UNCHANGED tree
  BY <1>1, <1>2
<1>3. CASE ~UNCHANGED tree
  <2> DEFINE p == PathOf(key)
  <2>1. Walk(key).steps \in DOMAIN tree /\ HasLast(key)
    BY <1>3 DEF Delete, Update, Parent
  <2>2. /\ p \in Paths /\ p # <<>> /\ Last(p) = LastName(key)
        /\ \A n \in 0 .. (Len(p) - 1) :
             /\ SubSeq(p, 1, n) \in DOMAIN tree
             /\ SubSeq(p, 1, n) \in Paths /\ Len(SubSeq(p, 1, n)) < Len(p)
    BY <1>1, <2>1, KeyNamesPath
  <2>3. Len(Last(p)) > 1
    BY <2>1, <2>2 DEF HasLast
  <2>4. CASE Delete(key)
    <3>1. tree' = Without(tree, p)
      BY <1>3, <2>4 DEF Delete, PathOf
    <3> QED
      BY <1>1, <2>2, <3>1, WithoutIsTree
  <2>5. CASE \E words \in Values : Update(key, words)
    <3>0. PICK words \in Values : Update(key, words)
      BY <2>5
    <3>1. PICK v \in ValueOf(words) :
            tree' = With(Without(tree, p), p, v)
      BY <1>3, <3>0 DEF Update, PathOf
    <3>2. v.type \in {"string", "number"}
      BY ValueTypes
    <3> HIDE DEF p
    <3>3. Tree(tree')
      BY <1>1, <2>2, <2>3, <3>1, <3>2, ReplacedIsTree
    <3> QED
      BY <1>1, <3>3
  <2> QED
    BY <2>4, <2>5
<1> QED
  BY <1>2, <1>3
-------------------------------------------------------------------------------
(* The board before its first boot.                                          *)
LEMMA InitHolds == Init => SettingsInv
  BY NoTreeIsTree DEF Init, SettingsInv, TreesHold, SaveHolds, SdkHolds

(* Either there is nothing to save, or the sector is erased, and what is     *)
(* written next was printed in whole (CFG_save).                             *)
LEMMA SaveStep ==
  ASSUME NEW t, Tree(t), NEW then, CFG_save(t, then)
  PROVE  \/ t = NoTree /\ pc' = then /\ UNCHANGED <<flash, saving>>
         \/ /\ pc' = "erased" /\ flash' = NoTree /\ saving'.then = then
            /\ saving'.text = Fitting(Printed(t))
            /\ Tree(saving'.text) /\ saving'.text = Printed(saving'.text)
  BY SaveText DEF CFG_save

(* The boot saves the default configuration, which fits the sector, and      *)
(* reads it back (user_init).                                                *)
LEMMA BootKeeps == SettingsInv /\ Boot => SettingsInv'
<1> SUFFICES ASSUME SettingsInv, Boot PROVE SettingsInv'
  OBVIOUS
<1>1. CASE ~inFlash
  BY <1>1, DefaultIsTree
  DEF Boot, SettingsInv, TreesHold, SaveHolds, SdkHolds
<1>2. CASE inFlash
  <2>1. /\ CFG_save(Default, "read")
        /\ UNCHANGED <<inFlash, config_string, tree, sdk, station, answer, learnt>>
    BY <1>2 DEF Boot
  <2>2. Fitting(Printed(Default)) = Default
    BY SettingsAssumption
  <2>3. /\ pc' = "erased" /\ flash' = NoTree /\ saving'.then = "read"
        /\ saving'.text = Default
        /\ Tree(saving'.text) /\ saving'.text = Printed(saving'.text)
    BY <2>1, <2>2, DefaultIsTree, SaveStep
  <2> QED
    BY <2>1, <2>3, NoTreeIsTree
    DEF SettingsInv, TreesHold, SaveHolds, SdkHolds
<1> QED
  BY <1>1, <1>2

(* The write ends a save, the read gives what was written or nothing.        *)
LEMMA FlashKeeps == SettingsInv /\ (Write \/ CFG_read) => SettingsInv'
<1> SUFFICES ASSUME SettingsInv, Write \/ CFG_read PROVE SettingsInv'
  OBVIOUS
<1>1. CASE Write
  BY <1>1 DEF Write, SettingsInv, TreesHold, SaveHolds, SdkHolds
<1>2. CASE CFG_read
  BY <1>2 DEF CFG_read, SettingsInv, TreesHold, SaveHolds, SdkHolds
<1> QED
  BY <1>1, <1>2

(* The station gets the tree's network only where the SDK has none           *)
(* (WIFI_Connect).                                                           *)
LEMMA StartKeeps == SettingsInv /\ Start => SettingsInv'
<1> SUFFICES ASSUME SettingsInv, Start PROVE SettingsInv'
  OBVIOUS
<1>1. Tree(tree')
  BY DefaultIsTree, NoTreeIsTree DEF Start, SettingsInv, TreesHold
<1>2. Ssid \in DOMAIN tree' => tree'[Ssid].text = Default[Ssid].text
  BY NoTreeIsTree DEF Start, SettingsInv, TreesHold
<1>3. SdkHolds'
  BY <1>2 DEF Start, SettingsInv, SdkHolds
<1> QED
  BY <1>1, <1>3 DEF Start, SettingsInv, TreesHold, SaveHolds

(* Whatever restarts the board leaves the two flashes.                       *)
LEMMA RestartKeeps ==
  ASSUME SettingsInv, Restart, UNCHANGED <<inFlash, flash, sdk, learnt>>
  PROVE  SettingsInv'
  BY NoTreeIsTree
  DEF Restart, SettingsInv, TreesHold, SaveHolds, SdkHolds

(* smartconfig_done puts the network into the tree and saves it; the SDK     *)
(* keeps it too.                                                             *)
LEMMA LearnKeeps ==
  ASSUME SettingsInv, NEW ssid \in Ssids, Learn(ssid)
  PROVE  SettingsInv'
<1>1. /\ pc = "run" /\ CFG_save(tree', "learn") /\ station' = ssid
      /\ tree' = IF LinkTree = NoTree THEN NoTree
                 ELSE With(Without(LinkTree, Ssid), Ssid, Text(ssid))
      /\ UNCHANGED <<inFlash, config_string, sdk, learnt>>
  BY DEF Learn
<1>2. Tree(LinkTree)
  BY DefaultIsTree DEF LinkTree, SettingsInv, TreesHold
<1>3. Tree(tree')
  <2>1. CASE LinkTree = NoTree
    BY <1>1, <2>1, NoTreeIsTree
  <2>2. CASE LinkTree # NoTree
    <3>1. ASSUME NEW n \in 0 .. (Len(Ssid) - 1)
          PROVE  /\ SubSeq(Ssid, 1, n) \in DOMAIN LinkTree
                 /\ SubSeq(Ssid, 1, n) \in Paths /\ Len(SubSeq(Ssid, 1, n)) < Len(Ssid)
      <4>1. SubSeq(Ssid, 1, n) = <<>>
        BY <3>1, SsidIsPath DEF Paths
      <4>2. <<>> \in DOMAIN LinkTree
        BY <1>2, <2>2 DEF Tree, IsTree
      <4>3. <<>> \in Paths /\ Len(<<>>) < Len(Ssid)
        BY SsidIsPath DEF Paths
      <4> QED
        BY ONLY <4>1, <4>2, <4>3, Zenon
    <3>2. Text(ssid).type \in {"string", "number"}
      BY DEF Text
    <3>3. Ssid \in Paths /\ Ssid # <<>> /\ Len(Last(Ssid)) > 1
      BY SsidIsPath, SettingsAssumption
    <3>4. Tree(With(Without(LinkTree, Ssid), Ssid, Text(ssid)))
      BY ONLY <1>2, <2>2, <3>1, <3>2, <3>3, ReplacedIsTree
    <3> QED
      BY <1>1, <2>2, <3>4
  <2> QED
    BY <2>1, <2>2
<1>4. \/ pc' = "learn" /\ UNCHANGED <<flash, saving>>
      \/ /\ pc' = "erased" /\ flash' = NoTree /\ saving'.then = "learn"
         /\ Tree(saving'.text) /\ saving'.text = Printed(saving'.text)
  BY <1>1, <1>3, SaveStep
<1> QED
  BY <1>1, <1>3, <1>4, NoTreeIsTree
  DEF SettingsInv, TreesHold, SaveHolds, SdkHolds

(* smartconfig_done's last write.                                            *)
LEMMA LearntKeeps == SettingsInv /\ Learnt => SettingsInv'
  BY DEF Learnt, SettingsInv, TreesHold, SaveHolds, SdkHolds

(* The telnet commands leave the network alone.                              *)
LEMMA CommandKeeps ==
  ASSUME SettingsInv, (\E key \in Keys : GetOne(key)) \/ config_set \/ Save
  PROVE  SettingsInv'
<1>1. CASE \E key \in Keys : GetOne(key)
  BY <1>1 DEF GetOne, TreeCommand, Command, SettingsInv, TreesHold, SaveHolds, SdkHolds
<1>2. CASE config_set
  <2>1. PICK key \in Keys : Delete(key) \/ \E words \in Values : Update(key, words)
    BY <1>2 DEF config_set
  <2>2. /\ Tree(tree')
        /\ UNCHANGED <<inFlash, pc, saving, flash, config_string, sdk, station, learnt>>
    BY <2>1, SetKeepsTree DEF SettingsInv, TreesHold
  <2> QED
    BY <2>2 DEF SettingsInv, TreesHold, SaveHolds, SdkHolds
<1>3. CASE Save
  <2>1. /\ pc = "run" /\ CFG_save(tree, "run")
        /\ UNCHANGED <<inFlash, config_string, sdk, station, learnt, tree>>
    BY <1>3 DEF Save, Command
  <2>2. \/ pc' = "run" /\ UNCHANGED <<flash, saving>>
        \/ /\ pc' = "erased" /\ flash' = NoTree /\ saving'.then = "run"
           /\ Tree(saving'.text) /\ saving'.text = Printed(saving'.text)
    BY <2>1, SaveStep DEF SettingsInv, TreesHold
  <2> QED
    BY <2>1, <2>2, NoTreeIsTree DEF SettingsInv, TreesHold, SaveHolds, SdkHolds
<1> QED
  BY <1>1, <1>2, <1>3

(* Every command, boot, save, loss of power and smartconfig.                 *)
LEMMA StepKeeps == SettingsInv /\ [Next]_vars => SettingsInv'
<1> SUFFICES ASSUME SettingsInv, [Next]_vars PROVE SettingsInv'
  OBVIOUS
<1>1. CASE PowerCut \/ Crash \/ config_restart
  BY <1>1, RestartKeeps DEF PowerCut, Crash, config_restart
<1>2. CASE UNCHANGED vars
  BY <1>2 DEF vars, SettingsInv, TreesHold, SaveHolds, SdkHolds
<1> QED
  BY <1>1, <1>2, BootKeeps, FlashKeeps, StartKeeps, LearnKeeps, LearntKeeps,
     CommandKeeps DEF Next

(* They hold in every state.                                                 *)
LEMMA SettingsInvariant == Spec => []SettingsInv
  BY InitHolds, StepKeeps, PTL DEF Spec

(* Wherever the power goes, also between the erase and the write of a save,  *)
(* the sector holds a text printed in whole or none, and the boot finds the  *)
(* default configuration where it reads it (CFG_save, CFG_read, user_init).  *)
THEOREM BoardCanBoot == Spec => []ReadableAtBoot
<1>1. SettingsInv => ReadableAtBoot
  BY DefaultIsTree, NoTreeIsTree
  DEF SettingsInv, TreesHold, SaveHolds, SdkHolds, ReadableAtBoot, TypeOK, Tree
<1> QED
  BY SettingsInvariant, <1>1, PTL

(* For any settings and any order of commands, restarts and power cuts, the  *)
(* station connects with the network smartconfig learnt last                 *)
(* (smartconfig_done, WIFI_Connect).                                         *)
THEOREM LearntIsKept == Spec => []StationStaysLearnt
<1>1. SettingsInv => StationStaysLearnt
  BY DEF SettingsInv, SdkHolds, StationStaysLearnt
<1> QED
  BY SettingsInvariant, <1>1, PTL
-------------------------------------------------------------------------------
(* What With and Without leave beside an item, and below it.                 *)
LEMMA ItemReplaced ==
  ASSUME NEW t, NEW p \in Paths, NEW v
  PROVE  LET w == Without(t, p)
             u == With(w, p, v)
         IN  /\ Without(w, p) = w /\ Below(w, p) = {}
             /\ Without(u, p) = w /\ Below(u, p) = {p} /\ p \in DOMAIN u
<1> DEFINE w == Without(t, p)
           u == With(w, p, v)
<1>1. DOMAIN w = {q \in DOMAIN t : ~IsPrefix(p, q)} /\ w = [q \in DOMAIN w |-> w[q]]
  BY DEF Without, Below
<1> HIDE DEF w
<1>2. Below(w, p) = {} /\ Without(w, p) = w
  BY <1>1 DEF Below, Without
<1>3. /\ DOMAIN u = DOMAIN w \cup {p}
      /\ \A q \in DOMAIN w : q # p => u[q] = w[q]
  BY DEF With
<1>4. Below(u, p) = {p} /\ DOMAIN u \ Below(u, p) = DOMAIN w /\ p \notin DOMAIN w
  BY <1>1, <1>3, PrefixItself DEF Below
<1>5. Without(u, p) = w
  BY <1>1, <1>3, <1>4 DEF Without
<1> QED
  BY <1>2, <1>3, <1>4, <1>5 DEF w

(* get_config_by_key finds the item a key names exactly if it is there, when *)
(* the item's parent is.                                                     *)
LEMMA GetFindsItem ==
  ASSUME NEW key, HasLast(key), Walk(key).steps \in DOMAIN tree
  PROVE  ConfigByKey(key) # {} <=> PathOf(key) \in DOMAIN tree
  BY DEF ConfigByKey, Item, PathOf

(* A set that was not refused.                                               *)
LEMMA SetStep ==
  ASSUME SettingsInv, NEW key \in Keys,
         Delete(key) \/ \E words \in Values : Update(key, words),
         answer'.what \in {"updated", "deleted"}
  PROVE  LET p == PathOf(key)
         IN  /\ answer'.key = key
             /\ Without(tree', p) = Without(tree, p)
             /\ Below(tree', p) \subseteq {p}
             /\ answer'.what = "updated" <=> (ConfigByKey(key))' # {}
<1> DEFINE p == PathOf(key)
<1>1. Walk(key).steps \in DOMAIN tree /\ HasLast(key) /\ tree # NoTree /\ Tree(tree)
  BY DEF Delete, Update, Parent, Answer, TreeCommand, SettingsInv, TreesHold
<1>2. /\ p \in Paths /\ p # <<>> /\ Walk(key).steps \in Paths
      /\ Len(Walk(key).steps) < Len(p)
  BY <1>1, KeyNamesPath
<1>3. Walk(key).steps \in DOMAIN Without(tree, p)
  BY <1>1, <1>2, WithoutIsTree
<1>4. Walk(key).steps \in DOMAIN tree' =>
        ((ConfigByKey(key))' # {} <=> p \in DOMAIN tree')
  BY <1>1 DEF ConfigByKey, Item, PathOf
<1>5. CASE Delete(key)
  <2>1. /\ tree' = Without(tree, p) /\ answer' = [what |-> "deleted", key |-> key]
    BY <1>5 DEF Delete, Answer, AnswerTo, PathOf
  <2>2. /\ Without(tree', p) = Without(tree, p) /\ Below(tree', p) = {}
    BY <1>2, <2>1, ItemReplaced
  <2>3. p \notin DOMAIN tree'
    BY <1>2, <2>2, PrefixItself DEF Below
  <2> QED
    BY <1>3, <1>4, <2>1, <2>2, <2>3
<1>6. CASE \E words \in Values : Update(key, words)
  <2>1. PICK words \in Values : Update(key, words)
    BY <1>6
  <2>2. PICK v \in ValueOf(words) :
          /\ tree' = With(Without(tree, p), p, v)
          /\ answer' = [what |-> "updated", key |-> key]
    BY <2>1 DEF Update, Answer, AnswerTo, PathOf
  <2>3. /\ Without(tree', p) = Without(tree, p) /\ Below(tree', p) = {p}
        /\ p \in DOMAIN tree'
    BY <1>2, <2>2, ItemReplaced
  <2>4. Walk(key).steps \in DOMAIN tree'
    BY <1>3, <2>2 DEF With
  <2> QED
    BY <1>4, <2>2, <2>3, <2>4
<1> QED
  BY <1>5, <1>6

(* Only a set that was not refused says that it updated or deleted.          *)
LEMMA OnlySetAnswers ==
  ASSUME Next, pc = "run", answer'.what \in {"updated", "deleted"}
  PROVE  config_set
<1>1. CASE Boot \/ Write \/ CFG_read \/ Start \/ Learnt
  BY <1>1 DEF Boot, Write, CFG_read, Start, Learnt
<1>2. CASE PowerCut \/ Crash \/ config_restart
  <2>1. Answer("none")
    BY <1>2 DEF PowerCut, Crash, config_restart, Restart
  <2> QED
    BY <2>1 DEF Answer
<1>3. CASE Save \/ \E ssid \in Ssids : Learn(ssid)
  BY <1>3 DEF Save, Learn, Answer
<1>4. CASE \E key \in Keys : GetOne(key)
  <2>1. PICK key \in Keys : GetOne(key)
    BY <1>4
  <2>2. answer'.what \in {"found", "not found"}
    BY <2>1 DEF GetOne, AnswerTo
  <2> QED
    BY <2>2
<1> QED
  BY <1>1, <1>2, <1>3, <1>4 DEF Next

(* However a key is typed, and whatever tree it meets: a set that is not     *)
(* refused changes the item the key names, leaves nothing below it and       *)
(* everything beside it, and get then finds that item or not as it must      *)
(* (config_set, get_parent_by_key, get_config_by_key).                       *)
THEOREM SetIsExact == Spec => SetChangesOneItem
<1> DEFINE A == answer'.what \in {"updated", "deleted"} /\ pc = "run" =>
                  LET p == Append(Walk(answer'.key).steps, LastName(answer'.key))
                  IN  /\ Without(tree', p) = Without(tree, p)
                      /\ Below(tree', p) \subseteq {p}
                      /\ answer'.what = "updated" <=> (ConfigByKey(answer.key))' # {}
<1>1. SettingsInv /\ [Next]_vars => [A]_vars
  <2> SUFFICES ASSUME SettingsInv, Next, pc = "run",
                      answer'.what \in {"updated", "deleted"}
               PROVE  A
    OBVIOUS
  <2>1. PICK key \in Keys : Delete(key) \/ \E words \in Values : Update(key, words)
    BY OnlySetAnswers DEF config_set
  <2>2. /\ answer'.key = key
        /\ Without(tree', PathOf(key)) = Without(tree, PathOf(key))
        /\ Below(tree', PathOf(key)) \subseteq {PathOf(key)}
        /\ answer'.what = "updated" <=> (ConfigByKey(key))' # {}
    BY <2>1, SetStep
  <2>3. (ConfigByKey(answer.key))' = (ConfigByKey(key))'
    BY <2>2 DEF ConfigByKey, Item
  <2> QED
    BY <2>2, <2>3 DEF PathOf
<1> QED
  BY SettingsInvariant, <1>1, PTL DEF Spec, SetChangesOneItem
=============================================================================
