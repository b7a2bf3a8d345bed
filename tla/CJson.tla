------------------------------- MODULE CJson -------------------------------
(* src/apps/cjson/cJSON.c: a tree written as text and a text read back as a  *)
(* tree.  The configuration of examples/esp_iot goes through both on every   *)
(* save and boot.  Texts are sequences of character codes; numbers are       *)
(* integers, other numbers need the doubles of the C library.  The functions *)
(* that call themselves are functions of how deep they may still go.         *)
EXTENDS Integers, SequencesExt

CONSTANT Nesting  \* levels of arrays and objects below a tree's root

ASSUME NestingAssumption == Nesting \in Nat

Tab == 9
LineFeed == 10
Space == 32
Quote == 34
Comma == 44
Minus == 45
DigitZero == 48
Colon == 58
OpenBracket == 91
Backslash == 92
CloseBracket == 93
OpenBrace == 123
CloseBrace == 125

Digits == DigitZero .. DigitZero + 9
Null == <<110, 117, 108, 108>>
False == <<102, 97, 108, 115, 101>>
True == <<116, 114, 117, 101>>

(* The letters behind a backslash, for back space, form feed, line feed,     *)
(* carriage return and tab.                                                  *)
Letter == [c \in {8, Tab, LineFeed, 12, 13} |->
             CASE c = 8 -> 98 [] c = Tab -> 116 [] c = LineFeed -> 110
               [] c = 12 -> 102 [] c = 13 -> 114]

(* An item: its type, its name in an object, and what the type needs.        *)
Item(type, text, number, child) ==
  [type |-> type, string |-> <<>>, valuestring |-> text, valueint |-> number,
   child |-> child]
Named(name, item) == [item EXCEPT !.string = name]

(* The items with at most n levels below them.  Of an item's fields only     *)
(* those its type needs are set, and only members of an object have names.   *)
Types == {"null", "false", "true", "number", "string", "array", "object"}
Strings == Seq(1 .. 255)
Ints == {n \in Int : -2147483647 - 1 <= n /\ n <= 2147483647}
ItemsTo[n \in 0 .. Nesting] ==
  {i \in [type : Types, string : Strings, valuestring : Strings, valueint : Ints,
          child : IF n = 0 THEN {<<>>} ELSE Seq(ItemsTo[n - 1])] :
     /\ i.type # "string" => i.valuestring = <<>>
     /\ i.type # "number" => i.valueint = IF i.type = "true" THEN 1 ELSE 0
     /\ i.type \notin {"array", "object"} => i.child = <<>>
     /\ i.type = "array" => \A k \in DOMAIN i.child : i.child[k].string = <<>>}

(* The character at a place, 0 at the end of the text.                       *)
Char(text, at) == IF at <= Len(text) THEN text[at] ELSE 0

(* The first place from at on whose character is not in the set, the end     *)
(* being in none.                                                            *)
PassOver(text, at, set) ==
  CHOOSE i \in at .. Len(text) + 1 :
    /\ Char(text, i) \notin set \/ i > Len(text)
    /\ \A j \in at .. i - 1 : Char(text, j) \in set

skip(text, at) == PassOver(text, at, 1 .. Space)

Starts(text, at, word) == \A i \in DOMAIN word : Char(text, at + i - 1) = word[i]
----------------------------------------------------------------------------
(* Reading: the item with the place behind it, as a set of one, or the empty *)
(* set.                                                                      *)
Read(item, at) == {[item |-> item, at |-> at]}

Value(text, from, to) ==
  LET value[k \in 0 .. to - from] ==
        IF k = 0 THEN 0 ELSE value[k - 1] * 10 + (text[from + k - 1] - DigitZero)
  IN  value[to - from]

parse_number(text, at) ==
  LET signed == Char(text, at) = Minus
      first == IF signed THEN at + 1 ELSE at
      rest == IF Char(text, first) = DigitZero THEN first + 1 ELSE first
      end == IF Char(text, rest) \in Digits \ {DigitZero} THEN PassOver(text, rest, Digits)
             ELSE rest
      n == Value(text, rest, end)
  IN  Read(Item("number", <<>>, IF signed THEN -n ELSE n, <<>>), end)

(* The value of four hexadecimal digits, 0 when one is none.                 *)
HexDigit(c) == CASE c \in Digits -> c - DigitZero
                 [] c \in 65 .. 70 -> c - 55
                 [] c \in 97 .. 102 -> c - 87
                 [] OTHER -> -1
parse_hex4(text, at) ==
  LET h == [i \in 0 .. 3 |-> HexDigit(Char(text, at + i))]
  IN  IF \E i \in 0 .. 3 : h[i] < 0 THEN 0
      ELSE 4096 * h[0] + 256 * h[1] + 16 * h[2] + h[3]

(* The last k times six bits of a character, one byte each.                  *)
Continued(c, k) == [i \in 1 .. k |-> 128 + ((c \div (64 ^ (k - i))) % 64)]

Utf8(c) == IF c < 128 THEN <<c>>
           ELSE IF c < 2048 THEN <<192 + (c \div 64)>> \o Continued(c, 1)
           ELSE IF c < 65536 THEN <<224 + (c \div 4096)>> \o Continued(c, 2)
           ELSE <<240 + (c \div 262144)>> \o Continued(c, 3)

(* The two halves of a pair of \u escapes, by their ranges.                  *)
HighHalf(u) == u >= 55296 /\ u <= 56319
LowHalf(u) == u >= 56320 /\ u <= 57343

(* What stands for \uXXXX, at the first digit, and where it ends; a second   *)
(* half without a first and a 0 stand for nothing.                           *)
Unicode(text, at) ==
  LET high == parse_hex4(text, at)
      low == parse_hex4(text, at + 6)
      paired == Char(text, at + 4) = Backslash /\ Char(text, at + 5) = 117
  IN  CASE high = 0 \/ LowHalf(high) -> [bytes |-> <<>>, at |-> at + 4]
        [] high # 0 /\ ~ LowHalf(high) /\ ~ HighHalf(high) -> [bytes |-> Utf8(high), at |-> at + 4]
        [] OTHER ->
             [bytes |-> IF paired /\ LowHalf(low)
                        THEN Utf8(65536 + 1024 * (high % 1024) + (low % 1024)) ELSE <<>>,
              at |-> IF paired THEN at + 10 ELSE at + 4]

(* The text of a string from a character on and the place behind its quote;  *)
(* what the next characters are read as, wherever they start, is "others".   *)
UnescapeFrom(text, at, others) ==
  LET c == Char(text, at)
      e == Char(text, at + 1)
      Then(read, next) == [out |-> read \o others[next].out, at |-> others[next].at]
  IN  CASE c \in {Quote, 0} -> [out |-> <<>>, at |-> IF c = Quote THEN at + 1 ELSE at]
        [] c \notin {Quote, 0, Backslash} -> Then(<<c>>, at + 1)
        [] c = Backslash /\ e \in Range(Letter) ->
             Then(<<CHOOSE x \in DOMAIN Letter : Letter[x] = e>>, at + 2)
        [] c = Backslash /\ e = 117 ->
             LET u == Unicode(text, at + 2) IN Then(u.bytes, u.at)
        [] OTHER -> Then(<<e>>, at + 2)

(* At most n - 1 characters are read, and the text has no more.              *)
Unescaped(text, at) ==
  LET read[n \in 0 .. Len(text) + 1] ==
        [i \in Nat |-> IF n = 0 THEN [out |-> <<>>, at |-> i]
                       ELSE UnescapeFrom(text, i, read[n - 1])]
  IN  read[Len(text) + 1][at]

parse_string(text, at) ==
  IF Char(text, at) # Quote THEN {}
  ELSE LET s == Unescaped(text, at + 1)
       IN  Read(Item("string", s.out, 0, <<>>), s.at)

(* One member of an object: a string, a colon and a value.  What the values  *)
(* one level down are, wherever they start, is "deeper".                     *)
Member(text, at, deeper) ==
  UNION {LET colon == skip(text, s.at)
         IN  IF Char(text, colon) # Colon THEN {}
             ELSE {[v EXCEPT !.item = Named(s.item.valuestring, v.item)] :
                     v \in deeper[skip(text, colon + 1)]}
         : s \in parse_string(text, at)}

CloseOf(type) == IF type = "array" THEN CloseBracket ELSE CloseBrace

(* The items of an array or object from one of its children on, and the      *)
(* place behind its end; the items behind a comma are "others".              *)
ChildrenFrom(text, at, type, deeper, others) ==
  UNION {LET next == skip(text, x.at)
         IN  CASE Char(text, next) = Comma ->
                    {[items |-> <<x.item>> \o r.items, at |-> r.at] :
                       r \in others[skip(text, next + 1)]}
               [] Char(text, next) = CloseOf(type) ->
                    {[items |-> <<x.item>>, at |-> next + 1]}
               [] OTHER -> {}
         : x \in IF type = "array" THEN deeper[at] ELSE Member(text, at, deeper)}

Children(text, at, type, deeper) ==
  LET list[n \in 0 .. Len(text) + 1] ==
        [i \in 1 .. Len(text) + 1 |->
           IF n = 0 THEN {} ELSE ChildrenFrom(text, i, type, deeper, list[n - 1])]
  IN  list[Len(text) + 1][at]

(* parse_array and parse_object.                                             *)
Container(text, at, type, deeper) ==
  LET first == skip(text, at + 1)
  IN  IF Char(text, first) = CloseOf(type) THEN Read(Item(type, <<>>, 0, <<>>), first + 1)
      ELSE UNION {Read(Item(type, <<>>, 0, l.items), l.at) :
                    l \in Children(text, first, type, deeper)}

parse_value(text, at, deeper) ==
  LET c == Char(text, at)
  IN  CASE Starts(text, at, Null) -> Read(Item("null", <<>>, 0, <<>>), at + 4)
        [] Starts(text, at, False) -> Read(Item("false", <<>>, 0, <<>>), at + 5)
        [] Starts(text, at, True) -> Read(Item("true", <<>>, 1, <<>>), at + 4)
        [] c = Quote -> parse_string(text, at)
        [] c = Minus \/ c \in Digits -> parse_number(text, at)
        [] c = OpenBracket -> Container(text, at, "array", deeper)
        [] c = OpenBrace -> Container(text, at, "object", deeper)
        [] OTHER -> {}

(* The values with less than m levels, wherever they start; no text has more *)
(* levels than characters.                                                   *)
Values(text) ==
  LET values[m \in 0 .. Len(text) + 1] ==
        [at \in 1 .. Len(text) + 1 |->
           IF m = 0 THEN {} ELSE parse_value(text, at, values[m - 1])]
  IN  values

cJSON_Parse(text) == {r.item : r \in Values(text)[Len(text) + 1][skip(text, 1)]}
----------------------------------------------------------------------------
(* Writing: the text with the room that is allocated for it, and whether it  *)
(* and all texts it is made of stay, with their final 0, inside theirs.      *)
Out(text, room) == [text |-> text, room |-> room, fits |-> TRUE]

(* One more part of a text, with what stands before and behind it and the    *)
(* room for all three.                                                       *)
Add(out, before, part, behind, room) ==
  [text |-> out.text \o before \o part.text \o behind, room |-> out.room + room,
   fits |-> out.fits /\ part.fits]

(* The end of a text, for which there is room.                               *)
End(out, end) == [text |-> out.text \o end, room |-> out.room,
                  fits |-> out.fits /\ Len(out.text \o end) < out.room]

PowersOf10 == <<1, 10, 100, 1000, 10000, 100000, 1000000, 10000000, 100000000, 1000000000>>

(* The digits of a number below 2^31 (%d of sprintf).                        *)
Decimal(n) ==
  LET len == CHOOSE d \in 1 .. 10 : /\ d = 1 \/ PowersOf10[d] <= n
                                    /\ d = 10 \/ n < PowersOf10[d + 1]
  IN  [i \in 1 .. len |-> DigitZero + ((n \div PowersOf10[len + 1 - i]) % 10)]

print_number(n) == End(Out(IF n < 0 THEN <<Minus>> ELSE <<>>, 21),
                       IF n < 0 THEN Decimal(-n) ELSE Decimal(n))

HexChar(n) == IF n < 10 THEN DigitZero + n ELSE 87 + n

(* How one character of a string is printed.                                 *)
Escaped(c) == CASE c \in {Quote, Backslash} -> <<Backslash, c>>
                [] c \in DOMAIN Letter -> <<Backslash, Letter[c]>>
                [] c \in (1 .. 31) \ DOMAIN Letter ->
                     <<Backslash, 117, DigitZero, DigitZero, HexChar(c \div 16), HexChar(c % 16)>>
                [] OTHER -> <<c>>

(* The room one character of a string is counted with.                       *)
RoomFor(c) == 1 + (IF c \in {Quote, Backslash} \cup DOMAIN Letter THEN 1
                   ELSE IF c < 32 THEN 5 ELSE 0)

(* Wrong variant: a backslash is printed as it is.                           *)
PrintBackslash(out, c) ==
  Add(out, <<>>, Out(IF c = Backslash THEN <<c>> ELSE Escaped(c), 0), <<>>, RoomFor(c))

PrintCharacter(out, c) == Add(out, <<>>, Out(Escaped(c), 0), <<>>, RoomFor(c))

print_string_ptr(s) ==
  LET printed[k \in 0 .. Len(s)] ==
        IF k = 0 THEN Out(<<Quote>>, 3) ELSE PrintCharacter(printed[k - 1], s[k])
  IN  End(printed[Len(s)], <<Quote>>)

Tabs(n) == IF n < 0 THEN <<>> ELSE [i \in 1 .. n |-> Tab]
If(fmt, seq) == IF fmt THEN seq ELSE <<>>

(* How the children print one level down is "deeper".                        *)
print_array(child, depth, fmt, deeper) ==
  LET Behind(k) == IF k = Len(child) THEN <<>> ELSE <<Comma>> \o If(fmt, <<Space>>)
      printed[k \in 0 .. Len(child)] ==
        IF k = 0 THEN Out(<<OpenBracket>>, 5)
        ELSE LET entry == deeper[child[k]][depth + 1]
             IN  Add(printed[k - 1], <<>>, entry, Behind(k),
                     Len(entry.text) + (IF fmt THEN 3 ELSE 2))
  IN  IF child = <<>> THEN End(Out(<<OpenBracket>>, 3), <<CloseBracket>>)
      ELSE End(printed[Len(child)], <<CloseBracket>>)

(* One member: its name and its value.                                       *)
PrintMember(out, name, entry, depth, fmt, last) ==
  Add(Add(out, If(fmt, Tabs(depth + 1)), name, <<Colon>> \o If(fmt, <<Tab>>),
          Len(name.text) + 2 + (IF fmt THEN 3 + depth ELSE 0)),
      <<>>, entry, (IF last THEN <<>> ELSE <<Comma>>) \o If(fmt, <<LineFeed>>),
      Len(entry.text))

print_object(child, depth, fmt, deeper) ==
  LET printed[k \in 0 .. Len(child)] ==
        IF k = 0 THEN Out(<<OpenBrace>> \o If(fmt, <<LineFeed>>),
                          7 + (IF fmt THEN depth + 1 ELSE 0))
        ELSE PrintMember(printed[k - 1], print_string_ptr(child[k].string),
                         deeper[child[k]][depth + 1], depth, fmt, k = Len(child))
  IN  IF child = <<>>
      THEN End(Out(<<OpenBrace>>, IF fmt THEN depth + 4 ELSE 3),
               If(fmt, <<LineFeed>> \o Tabs(depth - 1)) \o <<CloseBrace>>)
      ELSE End(printed[Len(child)], If(fmt, Tabs(depth)) \o <<CloseBrace>>)

print_value(item, depth, fmt, deeper) ==
  CASE item.type = "null" -> End(Out(<<>>, 5), Null)
    [] item.type = "false" -> End(Out(<<>>, 6), False)
    [] item.type = "true" -> End(Out(<<>>, 5), True)
    [] item.type = "number" -> print_number(item.valueint)
    [] item.type = "string" -> print_string_ptr(item.valuestring)
    [] item.type = "array" -> print_array(item.child, depth, fmt, deeper)
    [] item.type = "object" -> print_object(item.child, depth, fmt, deeper)

(* How every item prints at every depth.                                     *)
Prints(fmt) ==
  LET prints[n \in 0 .. Nesting] ==
        [item \in ItemsTo[n] |-> [depth \in Nat |->
           print_value(item, depth, fmt, IF n = 0 THEN <<>> ELSE prints[n - 1])]]
  IN  prints

Printed(item, fmt) == Prints(fmt)[Nesting][item][0]

cJSON_Print(item) == Printed(item, TRUE).text
cJSON_PrintUnformatted(item) == Printed(item, FALSE).text
----------------------------------------------------------------------------
(* A tree printed either way and read back is the same tree, whatever its    *)
(* names and texts contain, and printing stays inside the room allocated for *)
(* it: settings that were saved are the settings of the next boot.           *)
ReadsBack(item) ==
  /\ cJSON_Parse(cJSON_Print(item)) = {item}
  /\ cJSON_Parse(cJSON_PrintUnformatted(item)) = {item}
  /\ \A fmt \in BOOLEAN : Printed(item, fmt).fits
=============================================================================
