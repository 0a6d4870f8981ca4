------------------------------- MODULE Prelude -------------------------------
(***************************************************************************)
(* The request's data on its way into the template: _json_to_typst of       *)
(* app/render/renderer.py writes it as Typst source, or raises a            *)
(* StringTooLargeError that collects its path while it unwinds.             *)
(*                                                                         *)
(* Source text is a sequence of characters, in which a number or a word is  *)
(* one.  A character stands for all that are treated alike: "override" for  *)
(* the direction overrides, "control" for the control characters without    *)
(* an escape of their own.  How Typst reads the text is external.           *)
(***************************************************************************)
EXTENDS Integers, Sequences, FiniteSets, SequencesExt

CONSTANTS MaxStringBytes,   \* settings.max_string_bytes
          MaxMessage,       \* _MESSAGE_VALUE_LIMIT
          Character,        \* the characters, and what is taken for one
          Value,            \* the JSON values of requests, and their parts
          Depth             \* how deep each of them is nested

Text == Seq(Character)
Word == {"none", "true", "1", "Infinity"}

\* A JSON value: an atom and its text, a string, a list, or an object with its
\* keys in order.
Atom(word)      == <<"atom", word>>
String(text)    == <<"string", text>>
List(values)    == <<"list", values>>
Object(entries) == <<"object", entries>>   \* entries: <<key, value>>

ASSUME LimitsAssumption == MaxStringBytes \in Nat /\ MaxMessage \in Nat

\* "end" is what comes after the last character.
ASSUME CharacterAssumption ==
  /\ {"quote", "backslash", "newline", "control", "override", "surrogate", "n", "u",
      "{", "0001", "}", "(", ")", ",", ":"} \cup Word \subseteq Character
  /\ "end" \notin Character

\* Values are finite trees.
ASSUME ValueAssumption ==
  /\ Depth \in [Value -> Nat]
  /\ \A v \in Value :
       \/ v \in {"atom"} \X Word
       \/ v \in {"string"} \X Text
       \/ /\ v \in {"list"} \X Seq(Value)
          /\ \A i \in DOMAIN v[2] : Depth[v[2][i]] < Depth[v]
       \/ /\ v \in {"object"} \X Seq(Text \X Value)
          /\ \A i \in DOMAIN v[2] : Depth[v[2][i][2]] < Depth[v]

-----------------------------------------------------------------------------
(* Strings *)

\* Seeded fault: the backslash is taken for an ordinary character.
EscapesWithoutBackslash ==
  [quote |-> <<"backslash", "quote">>, newline |-> <<"backslash", "n">>,
   control |-> <<"backslash", "u", "{", "0001", "}">>,
   override |-> <<>>, surrogate |-> <<>>]

\* _TYPST_ESCAPES
TypstEscapes ==
  [quote |-> <<"backslash", "quote">>, backslash |-> <<"backslash", "backslash">>,
   newline |-> <<"backslash", "n">>,
   control |-> <<"backslash", "u", "{", "0001", "}">>,
   override |-> <<>>, surrogate |-> <<>>]

Stripped == {"override", "surrogate"}

Escaped(c) == IF c \in DOMAIN TypstEscapes THEN TypstEscapes[c] ELSE <<c>>

Translate[text \in Text] ==
  IF text = <<>> THEN <<>> ELSE Escaped(Head(text)) \o Translate[Tail(text)]

\* In UTF-8; what is stripped takes three bytes each.
ByteSize(text) ==
  Len(text) + 2 * Cardinality({i \in DOMAIN text : text[i] \in Stripped})

\* for_message: a lone surrogate becomes six characters, then the text is cut.
ForMessage(text) ==
  LET safe == FlattenSeq([i \in DOMAIN text |->
                IF text[i] = "surrogate" THEN <<"backslash", "u", "d", "8", "0", "0">>
                                         ELSE <<text[i]>>])
  IN  IF Len(safe) <= MaxMessage THEN safe
                                 ELSE Append(SubSeq(safe, 1, MaxMessage), "...")

-----------------------------------------------------------------------------
(* The walk.  A result is the text, or the error on its way up. *)

Done(text)   == [text |-> text, error |-> <<>>]
Raise(error) == [text |-> <<>>, error |-> <<error>>]

TooLarge(text, subject) ==
  Raise([path |-> <<>>, subject |-> subject, size |-> ByteSize(text)])

\* Seeded fault: what is measured is what is left of the string.
EscapeStringMeasuredLate(text, subject) ==
  IF Len(Translate[text]) > MaxStringBytes THEN TooLarge(text, subject)
                                           ELSE Done(Translate[text])

EscapeString(text, subject) ==
  IF ByteSize(text) > MaxStringBytes THEN TooLarge(text, subject)
                                     ELSE Done(Translate[text])

\* The segments of a path: indices from 0, and keys as they may be quoted.
Index(i) == <<"index", i - 1>>
Key(key) == <<"key", ForMessage(key)>>

\* Seeded fault: each frame adds its segment behind those below it.
UnderAppended(segment, r) ==
  IF r.error = <<>> THEN r ELSE Raise([r.error[1] EXCEPT !.path = Append(@, segment)])

\* A frame the error passes: exc.path.insert(0, segment).
Under(segment, r) ==
  IF r.error = <<>> THEN r ELSE Raise([r.error[1] EXCEPT !.path = <<segment>> \o @])

Quoted(text) == <<"quote">> \o text \o <<"quote">>

QuotedString(text) ==
  LET s == EscapeString(text, "value") IN
  IF s.error # <<>> THEN s ELSE Done(Quoted(s.text))

\* One entry of an object: its key is escaped first, on its own.
Part(key, value) ==
  LET k == EscapeString(key, "key") IN
  Under(Key(key), IF k.error # <<>> THEN k
                  ELSE IF value.error # <<>> THEN value
                  ELSE Done(Quoted(k.text) \o <<":">> \o value.text))

\* ", ".join
Joined[texts \in Seq(Text)] ==
  IF texts = <<>> THEN <<>>
  ELSE IF Len(texts) = 1 THEN Head(texts)
  ELSE Head(texts) \o <<",">> \o Joined[Tail(texts)]

\* Seeded fault: no comma after the last item.
ListTextBare(items) == IF items = <<>> THEN <<"(", ")">>
                                       ELSE <<"(">> \o Joined[items] \o <<")">>

ListText(items) == IF items = <<>> THEN <<"(", ")">>
                                   ELSE <<"(">> \o Joined[items] \o <<",", ")">>

ObjectText(parts) == IF parts = <<>> THEN <<"(", ":", ")">>
                                     ELSE <<"(">> \o Joined[parts] \o <<")">>

\* The walk stops at the first child that raises.
Failed(children) == {i \in DOMAIN children : children[i].error # <<>>}

Combined(children, TextOf(_)) ==
  IF Failed(children) # {} THEN children[Min(Failed(children))]
  ELSE Done(TextOf([i \in DOMAIN children |-> children[i].text]))

JsonToTypst[value \in Value] ==
  CASE value[1] = "atom"   -> Done(<<value[2]>>)
    [] value[1] = "string" -> QuotedString(value[2])
    [] value[1] = "list"   ->
         Combined([i \in DOMAIN value[2] |-> Under(Index(i), JsonToTypst[value[2][i]])],
                  ListText)
    [] OTHER ->
         Combined([i \in DOMAIN value[2] |-> Part(value[2][i][1], JsonToTypst[value[2][i][2]])],
                  ObjectText)

-----------------------------------------------------------------------------
(* How Typst reads an expression: the value, and the text behind it. *)

Error == <<"error">>

Read(value, rest) == [value |-> value, rest |-> rest]

First(src)    == IF src = <<>> THEN "end" ELSE Head(src)
After(src, n) == SubSeq(src, n + 1, Len(src))

\* A character in front of a string that was read.
InString(char, r) ==
  IF r.value = Error THEN r ELSE Read(String(<<char>> \o r.value[2]), r.rest)

\* From behind the opening quote to behind the closing one.
ReadString[src \in Text] ==
  LET c == First(src)
      e == First(After(src, 1))
  IN  IF c = "quote" THEN Read(String(<<>>), Tail(src))
      ELSE IF c = "backslash" /\ e \in {"quote", "backslash"}
           THEN InString(e, ReadString[After(src, 2)])
      ELSE IF c = "backslash" /\ e = "n" THEN InString("newline", ReadString[After(src, 2)])
      ELSE IF IsPrefix(<<"backslash", "u", "{", "0001", "}">>, src)
           THEN InString("control", ReadString[After(src, 5)])
      ELSE IF c \in {"end", "backslash", "control", "surrogate"} THEN Read(Error, src)
      ELSE InString(c, ReadString[After(src, 1)])

\* What parentheses hold: named items make a dictionary, whose keys are distinct;
\* one item without a comma is itself.
Parenthesised(items, comma) ==
  LET named == {i \in DOMAIN items : items[i].key # <<>>} IN
  IF \E i \in DOMAIN items : items[i].value = Error THEN Error
  ELSE IF named = {} THEN IF Len(items) = 1 /\ ~comma THEN items[1].value
                          ELSE List([i \in DOMAIN items |-> items[i].value])
  ELSE IF named = DOMAIN items /\ \A i, j \in named : items[i].key = items[j].key => i = j
       THEN Object([i \in DOMAIN items |-> <<items[i].key[1], items[i].value>>])
  ELSE Error

Items(items, comma, rest) == [items |-> items, comma |-> comma, rest |-> rest]

\* A value, or the items up to a closing parenthesis and whether the last has a
\* comma behind it.  Infinity is a name that Typst does not know.
Reading[p \in {"value", "items"} \X Text] ==
  LET src   == p[2]
      inner == Tail(src)
      held  == Reading[<<"items", inner>>]
      head  == Reading[<<"value", src>>]
      isKey == First(head.rest) = ":" /\ head.value[1] = "string"
      item  == IF isKey THEN Reading[<<"value", Tail(head.rest)>>] ELSE head
      entry == [key |-> IF isKey THEN <<head.value[2]>> ELSE <<>>, value |-> item.value]
      more  == Reading[<<"items", Tail(item.rest)>>]
  IN
  CASE p[1] = "value" /\ First(src) = "quote" -> ReadString[inner]
    [] p[1] = "value" /\ First(src) \in {"none", "true", "1"} -> Read(Atom(First(src)), inner)
    [] p[1] = "value" /\ IsPrefix(<<"(", ")">>, src) -> Read(List(<<>>), Tail(inner))
    [] p[1] = "value" /\ IsPrefix(<<"(", ":", ")">>, src) -> Read(Object(<<>>), After(src, 3))
    [] p[1] = "value" /\ First(src) = "(" /\ First(inner) \notin {")", ":"} ->
         Read(Parenthesised(held.items, held.comma), held.rest)
    [] p[1] = "items" /\ First(src) = ")" -> Items(<<>>, TRUE, inner)
    [] p[1] = "items" /\ First(src) # ")" ->
         CASE First(item.rest) = "," -> Items(<<entry>> \o more.items, more.comma, more.rest)
           [] First(item.rest) = ")" -> Items(<<entry>>, FALSE, Tail(item.rest))
           [] OTHER -> Items(<<[entry EXCEPT !.value = Error]>>, FALSE, item.rest)
    [] OTHER -> Read(Error, After(src, 1))

-----------------------------------------------------------------------------
(* What the data comes to *)

Kept[text \in Text] ==
  IF text = <<>> THEN <<>>
  ELSE IF Head(text) \in Stripped THEN Kept[Tail(text)]
  ELSE <<Head(text)>> \o Kept[Tail(text)]

\* The data, less the characters that are stripped.
Cleaned[value \in Value] ==
  CASE value[1] = "atom"   -> value
    [] value[1] = "string" -> String(Kept[value[2]])
    [] value[1] = "list"   -> List([i \in DOMAIN value[2] |-> Cleaned[value[2][i]]])
    [] OTHER -> Object([i \in DOMAIN value[2] |->
                                <<Kept[value[2][i][1]], Cleaned[value[2][i][2]]>>])

\* A number Typst can spell; keys that differ in more than what is stripped.
Representable[value \in Value] ==
  CASE value[1] = "atom"   -> value[2] # "Infinity"
    [] value[1] = "string" -> TRUE
    [] value[1] = "list"   -> \A i \in DOMAIN value[2] : Representable[value[2][i]]
    [] OTHER ->
         /\ \A i \in DOMAIN value[2] : Representable[value[2][i][2]]
         /\ \A i, j \in DOMAIN value[2] :
              Kept[value[2][i][1]] = Kept[value[2][j][1]] => i = j

Big(text) == ByteSize(text) > MaxStringBytes

Below(segment, found) == {[f EXCEPT !.path = <<segment>> \o @] : f \in found}

Oversized(text, path, subject) ==
  IF Big(text) THEN {[path |-> path, subject |-> subject, size |-> ByteSize(text)]} ELSE {}

OversizedIn(key, found) == Oversized(key, <<Key(key)>>, "key") \cup Below(Key(key), found)

\* The strings over the limit, each with the way to it that a caller would go.
Offending[value \in Value] ==
  CASE value[1] = "atom"   -> {}
    [] value[1] = "string" -> Oversized(value[2], <<>>, "value")
    [] value[1] = "list"   ->
         UNION {Below(Index(i), Offending[value[2][i]]) : i \in DOMAIN value[2]}
    [] OTHER ->
         UNION {OversizedIn(value[2][i][1], Offending[value[2][i][2]]) : i \in DOMAIN value[2]}

=============================================================================
