------------------------------ MODULE MCCodecs ------------------------------
(* Texts that need every kind of escape, trees of up to three levels, every  *)
(* order of the four names of an answer with each of them missing or no      *)
(* text, versions whose parts are at the boundaries of a byte and of an      *)
(* int8_t, and applications that clash (also in nothing but the port and the *)
(* password), lack an item or exceed the lists.                              *)
EXTENDS Codecs, FiniteSetsExt

MCUsers == {<<>>, <<5>>}
MCTexts == {<<>>, <<1>>, <<1, 2>>, <<3, 1, 2, 15, 7>>, [i \in 1 .. 20 |-> i % 16]}

Leaf(type) == Item(type, <<>>, IF type = "true" THEN 1 ELSE 0, <<>>)
Number(n) == Item("number", <<>>, n, <<>>)
String(s) == Item("string", s, 0, <<>>)
Array(child) == Item("array", <<>>, 0, child)
Object(child) == Item("object", <<>>, 0, child)

Specials == {<<>>, <<97>>, <<34>>, <<97, 92>>, <<92, 34, 92>>, <<8, 9, 10, 12, 13>>,
             <<1, 31, 32, 44>>, <<123, 58, 93>>, <<92, 117, 48>>}
Leaves == {Leaf("null"), Leaf("true"), Leaf("false"), Number(0), Number(-105),
           Number(90)} \cup {String(s) : s \in Specials}
FewLeaves == {Leaf("true"), Number(7), String(<<34, 92>>)}
Few == FewLeaves \cup {Array(<<>>), Object(<<>>)}
Named2(a, b) == Object(<<Named(<<110>>, a), Named(<<34, 110>>, b)>>)
Level1 == {Array(<<a>>) : a \in Leaves} \cup {Object(<<Named(s, String(s))>>) : s \in Specials}
          \cup {Array(<<a, b>>) : a, b \in Few} \cup {Named2(a, b) : a, b \in Few}
FewLevel1 == {Array(<<a, b>>) : a \in FewLeaves, b \in Few}
             \cup {Named2(a, b) : a \in Few, b \in FewLeaves}
Level2 == {Array(<<a, Number(7)>>) : a \in FewLevel1}
          \cup {Named2(String(<<9>>), a) : a \in FewLevel1}
          \cup {Named2(a, Leaf("null")) : a \in FewLevel1}
Level3 == {Array(<<Leaf("false"), a>>) : a \in Level2}
          \cup {Named2(a, Number(7)) : a \in Level2}
MCTrees == Leaves \cup Few \cup Level1 \cup Level2 \cup Level3

(* Every text of a few brackets, quotes, separators and characters.          *)
MCGarbled == UNION {[1 .. n -> {123, 125, 34, 44, 58, 92, 97}] : n \in 0 .. 4}
             \cup [1 .. 5 -> {123, 125, 91, 93, 97}]

(* "last", and one letter each for the four names and another one.           *)
MCLast == <<108, 97, 115, 116>>
MCKeys == {<<118>>, <<104>>, <<112>>, <<114>>}
MCStale == [type |-> "object", start |-> 1, end |-> 9, size |-> 3]

Orders == {o \in [1 .. 4 -> MCKeys] : IsInjective(o)}
Odd == {Number(7), Array(<<>>), Leaf("null")}
(* All four, or the n-th of another kind, or without the n-th.               *)
Full(o) == [i \in 1 .. 4 |-> Named(o[i], String(<<34, i>>))]
Last4 == {Full(o) : o \in Orders}
         \cup {[Full(o) EXCEPT ![n] = Named(o[n], x)] : o \in Orders, n \in 1 .. 4, x \in Odd}
         \cup {RemoveAt(Full(o), n) : o \in Orders, n \in 1 .. 4}
Other == Named(<<120>>, String(<<118>>))
LastObjects == Last4 \cup {<<Other>> \o s : s \in Last4} \cup {Append(s, Other) : s \in Last4}
Around == {Named(<<118>>, String(<<120>>)), Named(<<121>>, Object(<<Other>>))}
MCAnswers == {Object(<<Named(MCLast, Object(s))>>) : s \in LastObjects}
             \cup {Object(<<x, Named(MCLast, Object(s))>>) : x \in Around, s \in Last4}
             \cup {Object(<<Named(MCLast, Object(s)), x>>) : x \in Around, s \in Last4}
             \cup {Object(<<Named(MCLast, String(<<118>>))>>), Array(<<>>), Number(7)}

Parts == {<<>>, <<48>>, <<48, 55>>, <<49, 50, 55>>, <<49, 50, 56>>, <<50, 53, 53>>,
          <<50, 53, 54>>, <<49, 97>>}
MCVersions == UNION {[1 .. n -> Parts] : n \in 1 .. 4}

Config(name, server, user, type, pin) ==
  [name |-> name, protocol |-> "mqtt", server |-> server, port |-> NoPort, user |-> user,
   pass |-> "", type |-> type, url |-> <<"u">>, surl |-> <<>>, pin |-> pin, swpin |-> 2]
(* A name is a letter twice.                                                 *)
Twice(letter) == <<letter, letter>>
AppNames == {Twice(n) : n \in 97 .. 100}
ConfigsOf(n) == {Config(n, "s", "", "lamp", 1),
                 [Config(n, "s", "x", "switch", 3) EXCEPT !.port = DefaultPort],
                 [Config(n, "s", "x", "switch", 3) EXCEPT !.port = 8883, !.pass = "k"],
                 [Config(n, "t", "x", "switchlamp", 4) EXCEPT !.pass = "k"],
                 Config(n, "", "", "lamp", NoPin)}
MCAppItems == {[n \in AppNames |-> f[n]] :
                 f \in {g \in [AppNames -> UNION {ConfigsOf(n) : n \in AppNames}] :
                          \A n \in AppNames : g[n] \in ConfigsOf(n)}}
MCAppLists == {<<Twice(97), Twice(98), Twice(99), Twice(100)>>,
               <<Twice(100), <<>>, Twice(97), Twice(98)>>,
               <<Twice(97), Twice(97), <<>>, <<>>, Twice(98), Twice(99)>>,
               <<<<>>, Twice(99), Twice(101), Twice(98), <<>>>>}
=============================================================================
