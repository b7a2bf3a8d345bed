------------------------------- MODULE Jsmn --------------------------------
(* src/apps/jsmn/jsmn.c as it is built: neither strict nor with parent       *)
(* links.  It cuts a text into tokens, each with the span of the text it     *)
(* stands for and the number of tokens directly below it.                    *)
EXTENDS CJson

CONSTANT NumTokens  \* tokens the caller gives, 128 in parse_fota

ASSUME NumTokensAssumption == NumTokens \in Nat

Open == -1

(* Spans go from start up to but not including end.                          *)
Token(type, start, end) == [type |-> type, start |-> start, end |-> end, size |-> 0]

jsmn_init == [pos |-> 1, super |-> 0, tokens |-> <<>>, error |-> FALSE]

Failed(p) == [p EXCEPT !.error = TRUE]

Counted(token) == [token EXCEPT !.size = @ + 1]

(* Add a token, if one is left, and count it where it belongs.               *)
AddToken(p, token) ==
  LET n == Len(p.tokens)
  IN  IF n >= NumTokens THEN Failed(p)
      ELSE [p EXCEPT !.tokens = [i \in 1 .. n + 1 |->
                                   IF i = p.super THEN Counted(p.tokens[i])
                                   ELSE IF i <= n THEN p.tokens[i] ELSE token]]

(* The containers whose end has not come yet, and the innermost, 0 for none. *)
OpenOnes(tokens) == {i \in DOMAIN tokens : tokens[i].end = Open}
Innermost(tokens) ==
  IF OpenOnes(tokens) = {} THEN 0
  ELSE CHOOSE i \in OpenOnes(tokens) : \A j \in OpenOnes(tokens) : j <= i

OpenContainer(p, type) ==
  LET added == AddToken(p, Token(type, p.pos, Open))
  IN  IF added.error THEN added ELSE [added EXCEPT !.super = Len(added.tokens)]

(* Wrong variant: what follows is counted below the container just closed.   *)
CloseKeepingSuper(p, type) ==
  LET i == Innermost(p.tokens)
  IN  IF i = 0 \/ p.tokens[i].type # type THEN Failed(p)
      ELSE [p EXCEPT !.tokens[i].end = p.pos + 1, !.super = i]

CloseContainer(p, type) ==
  LET i == Innermost(p.tokens)
  IN  IF i = 0 \/ p.tokens[i].type # type THEN Failed(p)
      ELSE LET closed == [p EXCEPT !.tokens[i].end = p.pos + 1]
           IN  [closed EXCEPT !.super = Innermost(closed.tokens)]

(* The place of the quote that ends a string, 0 when it is missing or an     *)
(* escape is none; where it is from the next characters on is "others".      *)
EndQuoteFrom(js, at, others) ==
  LET c == Char(js, at)
      e == Char(js, at + 1)
      hex == {i \in 0 .. 3 : \A j \in 0 .. i : Char(js, at + 2 + j) # 0}
  IN  CASE c = 0 -> 0
        [] c = Quote -> at
        [] c \notin {0, Quote, Backslash} \/ (c = Backslash /\ e = 0) -> others[at + 1]
        [] c = Backslash /\ e \in {Quote, Backslash, 47} \cup Range(Letter) -> others[at + 2]
        [] c = Backslash /\ e = 117 /\ \A i \in hex : HexDigit(Char(js, at + 2 + i)) >= 0 ->
             others[at + 2 + Cardinality(hex)]
        [] OTHER -> 0

(* At most n - 1 characters are passed, and the text has no more.            *)
EndQuote(js, at) ==
  LET ends[n \in 0 .. Len(js) + 1] ==
        [i \in Nat |-> IF n = 0 THEN 0 ELSE EndQuoteFrom(js, i, ends[n - 1])]
  IN  ends[Len(js) + 1][at]

jsmn_parse_string(js, p) ==
  LET end == EndQuote(js, p.pos + 1)
  IN  IF end = 0 THEN Failed(p)
      ELSE [AddToken(p, Token("string", p.pos + 1, end)) EXCEPT !.pos = end]

Blanks == {Tab, LineFeed, 13, Space}
Separators == Blanks \cup {Colon, Comma, CloseBracket, CloseBrace}

(* A primitive goes on to the next character that cannot be in one.          *)
jsmn_parse_primitive(js, p) ==
  LET end == PassOver(js, p.pos, (1 .. 255) \ Separators)
  IN  IF \E i \in p.pos .. end - 1 : js[i] \notin 32 .. 126 THEN Failed(p)
      ELSE [AddToken(p, Token("primitive", p.pos, end)) EXCEPT !.pos = end - 1]

(* Behind a colon values count below the key; a comma goes back to the       *)
(* container.  Before the first token, or behind the outermost container,    *)
(* the code looks at the type of tokens[-1]: whatever it finds there, no     *)
(* container is open and nothing changes.                                    *)
AfterComma(p) ==
  IF Innermost(p.tokens) = 0 \/ p.tokens[p.super].type \in {"array", "object"} THEN p
  ELSE [p EXCEPT !.super = Innermost(p.tokens)]

Step(js, p) ==
  LET c == js[p.pos]
  IN  CASE c = OpenBrace -> OpenContainer(p, "object")
        [] c = OpenBracket -> OpenContainer(p, "array")
        [] c = CloseBrace -> CloseContainer(p, "object")
        [] c = CloseBracket -> CloseContainer(p, "array")
        [] c = Quote -> jsmn_parse_string(js, p)
        [] c \in Blanks -> p
        [] c = Colon -> [p EXCEPT !.super = Len(p.tokens)]
        [] c = Comma -> AfterComma(p)
        [] OTHER -> jsmn_parse_primitive(js, p)

NextStep(js, p) ==
  IF p.error \/ p.pos > Len(js) THEN p ELSE [Step(js, p) EXCEPT !.pos = @ + 1]

(* The parser after k steps; every step passes a character.                  *)
Steps(js) ==
  LET steps[k \in 0 .. Len(js)] ==
        IF k = 0 THEN jsmn_init ELSE NextStep(js, steps[k - 1])
  IN  steps

(* The tokens, as a set of one, or nothing when the text is none.            *)
jsmn_parse(js) ==
  LET p == Steps(js)[Len(js)]
  IN  IF p.error \/ OpenOnes(p.tokens) # {} THEN {} ELSE {p.tokens}
----------------------------------------------------------------------------
(* What is expected of the tokens of any text, whoever wrote it.  A token    *)
(* stands for a part of the text: a container from its bracket to behind the *)
(* one of its kind that closes it, a string for what is between two quotes,  *)
(* a primitive for characters that separate nothing.                         *)
Stands(js, token) ==
  LET first == token.start
      last == token.end - 1
  IN  /\ first >= 1 /\ last <= Len(js)
      /\ CASE token.type = "object" ->
                first < last /\ js[first] = OpenBrace /\ js[last] = CloseBrace
           [] token.type = "array" ->
                first < last /\ js[first] = OpenBracket /\ js[last] = CloseBracket
           [] token.type = "string" ->
                first <= last + 1 /\ js[first - 1] = Quote /\ js[last + 1] = Quote
           [] token.type = "primitive" ->
                first <= last /\ \A i \in first .. last : js[i] \notin Separators

(* A token lies behind the one before it, or inside of it.                   *)
Nested(token, next) ==
  \/ token.end <= next.start
  \/ token.type \in {"object", "array"} /\ token.start < next.start /\ next.end < token.end

(* There are at most as many tokens as the caller gave, they stand for       *)
(* parts of the text that are nested as brackets are, and nothing is counted *)
(* below a token that does not follow it.                                    *)
TokensNest(js) ==
  \A tokens \in jsmn_parse(js) :
    /\ Len(tokens) <= NumTokens
    /\ \A i \in DOMAIN tokens : /\ Stands(js, tokens[i])
                                /\ tokens[i].size <= Len(tokens) - i
    /\ \A i, j \in DOMAIN tokens : i < j => Nested(tokens[i], tokens[j])
----------------------------------------------------------------------------
(* The tokens of a tree, from the tree: the item, then those below it, the   *)
(* members of an object behind the string of their name.                     *)
TypeOf(item) == IF item.type \in {"object", "array", "string"} THEN item.type
                ELSE "primitive"

(* Those of the children are "deeper".                                       *)
TokensFrom(item, deeper) ==
  LET name == IF item.type = "object" THEN <<[type |-> "string", size |-> 1]>> ELSE <<>>
  IN  <<[type |-> TypeOf(item), size |-> Len(item.child)]>>
        \o FlattenSeq([i \in DOMAIN item.child |-> name \o deeper[item.child[i]]])

TokensOf(item) ==
  LET tokens[n \in 0 .. Nesting] ==
        [i \in ItemsTo[n] |-> TokensFrom(i, IF n = 0 THEN <<>> ELSE tokens[n - 1])]
  IN  tokens[Nesting][item]

(* The tokens of a printed tree are those of the tree: the same kinds in the *)
(* same order with the same numbers below them, so that parse_fota may step  *)
(* over a flat object two tokens at a time, and the text of a container is   *)
(* where it starts and ends.                                                 *)
TokensFollow(item) ==
  \A js \in {cJSON_Print(item), cJSON_PrintUnformatted(item)} :
    Len(TokensOf(item)) <= NumTokens =>
      \E tokens \in jsmn_parse(js) :
        /\ TokensOf(item) = [i \in DOMAIN tokens |->
                               [type |-> tokens[i].type, size |-> tokens[i].size]]
        /\ \A i \in DOMAIN tokens :
             tokens[i].type = "object" => /\ js[tokens[i].start] = OpenBrace
                                          /\ js[tokens[i].end - 1] = CloseBrace
=============================================================================
