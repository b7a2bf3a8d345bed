------------------------------ MODULE FotaUtil -----------------------------
(* src/apps/fota/fota-util.c: what the updater makes of a version server's   *)
(* answer.  parse_fota finds the four texts in the tokens of the answer,     *)
(* convert_version makes a number of the version.                            *)
EXTENDS Jsmn

CONSTANTS LastKey,  \* the text "last"
          Keys,     \* the texts "version", "host", "path" and "protocol"
          Stale,    \* what the stack holds behind the last token
          DigitMax  \* VERSION_DIGIT_MAX

ASSUME KeysAssumption == LastKey \notin Keys /\ Cardinality(Keys) = 4
ASSUME DigitAssumption == DigitMax \in Nat

VERSION_BYTE == 3

TokenAt(tokens, i) == IF i <= Len(tokens) THEN tokens[i] ELSE Stale

TextAt(js, token) == SubSeq(js, token.start, token.end - 1)

jsoneq(js, token, s) == token.type = "string" /\ TextAt(js, token) = s

(* Wrong variant: a value of any kind is taken.                              *)
GetAnyValue(js, tokens, i, key) == jsoneq(js, TokenAt(tokens, i), key)

(* Whether token i is the key and a string follows.                          *)
json_get_value(js, tokens, i, key) ==
  jsoneq(js, TokenAt(tokens, i), key) /\ TokenAt(tokens, i + 1).type = "string"

(* Where the keys below any "last" are taken to be: two tokens each.         *)
KeyPlaces(js, tokens) ==
  FlattenSeq([i \in DOMAIN tokens |->
    IF i = 1 \/ ~jsoneq(js, tokens[i], LastKey) \/ TokenAt(tokens, i + 1).type # "object"
    THEN <<>>
    ELSE [j \in 1 .. TokenAt(tokens, i + 1).size |-> i + 2 * j]])

(* The texts found, a set of one each, or none at all when fewer than four   *)
(* were counted; a key that comes again counts again and its text replaces   *)
(* the earlier one.                                                          *)
parse_fota(js) ==
  LET Found(tokens, k) ==
        SelectSeq(KeyPlaces(js, tokens), LAMBDA i : json_get_value(js, tokens, i, k))
      Text(tokens, k) ==
        IF Found(tokens, k) = <<>> THEN {}
        ELSE {TextAt(js, TokenAt(tokens, 1 + Last(Found(tokens, k))))}
      Count(tokens) == FoldSet(LAMBDA k, n : n + Len(Found(tokens, k)), 0, Keys)
  IN  {[k \in Keys |-> Text(tokens, k)] :
         tokens \in {t \in jsmn_parse(js) : /\ t # <<>> /\ t[1].type = "object"
                                            /\ Count(t) >= 4}}
----------------------------------------------------------------------------
Dot == 46

(* A number returned as int8_t.                                              *)
AsInt8(n) == ((n + 128) % 256) - 128

Reading == [value |-> 0, byte |-> 0, version_bin |-> 0, result |-> {}]

(* Wrong variant: the largest value is refused.                              *)
DigitBelowMax(r, c) ==
  LET v == r.value * 10 + (c - DigitZero)
  IN  IF v >= DigitMax THEN [r EXCEPT !.result = {-1}] ELSE [r EXCEPT !.value = v]

ReadDigit(r, c) ==
  LET v == r.value * 10 + (c - DigitZero)
  IN  IF v > DigitMax THEN [r EXCEPT !.result = {-1}] ELSE [r EXCEPT !.value = v]

(* The end of a part; after the last one the number itself is returned.      *)
ReadEnd(r, c) ==
  LET n == r.version_bin * 256 + r.value
      q == [r EXCEPT !.version_bin = n, !.byte = @ + 1, !.value = 0]
  IN  IF q.byte >= VERSION_BYTE THEN [q EXCEPT !.result = {AsInt8(n)}]
      ELSE IF c = 0 THEN [q EXCEPT !.result = {-1}] ELSE q

ReadCharacter(r, c) ==
  IF r.result # {} THEN r
  ELSE CASE c \in Digits -> ReadDigit(r, c)
         [] c \in {Dot, 0} -> ReadEnd(r, c)
         [] OTHER -> [r EXCEPT !.result = {-1}]

(* The terminating 0 is read as well.                                        *)
convert_version(version) ==
  LET text == Append(version, 0)
      read[n \in 0 .. Len(text)] ==
        IF n = 0 THEN Reading ELSE ReadCharacter(read[n - 1], text[n])
  IN  read[Len(text)]
----------------------------------------------------------------------------
(* An answer whose object "last" is flat, with no name twice and the word    *)
(* "last" nowhere else, is taken exactly if that object has the four names   *)
(* with texts, in any order and among any others, and then the texts are     *)
(* read as they stand between their quotes: what was escaped stays escaped.  *)
Members(answer) ==
  UNION {Range(m.child) : m \in {x \in Range(answer.child) : x.string = LastKey}}

ReadsAnswer(answer) ==
  LET texts(k) == {FlattenSeq([i \in DOMAIN m.valuestring |-> Escaped(m.valuestring[i])]) :
                     m \in {x \in Members(answer) : x.string = k /\ x.type = "string"}}
      complete == \A k \in Keys : texts(k) # {}
  IN  \A js \in {cJSON_Print(answer), cJSON_PrintUnformatted(answer)} :
        parse_fota(js) = IF complete THEN {[k \in Keys |-> texts(k)]} ELSE {}

(* The text of a version, from the parts between the dots, and what it       *)
(* means, read from the parts and not character by character.                *)
Dotted(parts) ==
  LET text[n \in 0 .. Len(parts)] ==
        IF n = 0 THEN <<>>
        ELSE text[n - 1] \o (IF n = 1 THEN <<>> ELSE <<Dot>>) \o parts[n]
  IN  text[Len(parts)]

PartValue(part) ==
  LET value[n \in 0 .. Len(part)] ==
        IF n = 0 THEN 0 ELSE value[n - 1] * 10 + (part[n] - DigitZero)
  IN  value[Len(part)]

IsByte(part) == Range(part) \subseteq Digits /\ PartValue(part) <= DigitMax

(* A version is accepted, with a result that is not negative, and its number *)
(* computed exactly if its first three parts are numbers of one byte, the    *)
(* last below 128; anything behind them is ignored and an empty part is 0.   *)
ConvertsVersion(parts) ==
  LET read == convert_version(Dotted(parts))
      whole == Len(parts) >= VERSION_BYTE /\ \A n \in 1 .. VERSION_BYTE : IsByte(parts[n])
      number == (PartValue(parts[1]) * 256 + PartValue(parts[2])) * 256 + PartValue(parts[3])
  IN  IF whole /\ number % 256 < 128
      THEN read.version_bin = number /\ \A r \in read.result : r >= 0
      ELSE \A r \in read.result : r < 0
=============================================================================
