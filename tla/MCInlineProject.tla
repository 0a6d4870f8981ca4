--------------------------- MODULE MCInlineProject ---------------------------
(* Up to three keys, and one too many, over two spellings of one name and one  *)
(* other: every path of one or two names, some of three, and one key for each *)
(* reason there is to refuse it.  Contents and data vary with few keys.       *)
EXTENDS InlineProject

Names     == {"a", "A", "b"}
UnsafeSet == {"~main.typ"}
Fold      == [n \in Names \cup UnsafeSet |-> IF n = "A" THEN "a" ELSE n]

Bad  == {<<"">>, <<"", "a">>, <<"..", "a">>, <<"a", "">>, <<"a", "..", "b">>,
         <<".", "a">>, <<"~main.typ">>, <<"a", "a", "a", "a">>}
Keys == {<<m>> : m \in Names} \cup (Names \X Names) \cup Bad
          \cup {<<"a", "b", "a">>, <<"A", "b", "A">>, <<"b", "A", "b">>}

Base64(characters, pads, foreign) ==
  [encoding |-> "base64", data |-> characters, pads |-> pads, foreign |-> foreign]
Utf8(bytes, encodable) ==
  [encoding |-> "text", bytes |-> bytes, encodable |-> encodable]

\* Around a limit of four bytes.
Contents == {Base64(n, p, f) : n \in 0..8, p \in 0..2, f \in BOOLEAN}
              \cup {Utf8(n, e) : n \in 3..5, e \in BOOLEAN}

Plain == Utf8(1, TRUE)
None  == Atom("none")

\* Those of the data, of its escapes and of the prelude.
Characters == {"x", "quote", "backslash", "newline", "control", "override", "surrogate",
               "n", "u", "{", "0001", "}", "(", ")", ",", ":", "d", "8", "0", "..."}
                \cup Word \cup {"#let request =", ";", "#let data = request;", "source"}

Chars   == {"x", "quote", "backslash", "newline", "control", "override", "surrogate"}
Strings == {<<>>} \cup {<<c>> : c \in Chars} \cup (Chars \X Chars)
             \cup {<<"x", "x", "x">>, <<"x", "x", "x", "x", "x">>}
Scalars == {Atom("none"), Atom("1"), Atom("Infinity")} \cup {String(s) : s \in Strings}

Short   == {<<>>, <<"x">>, <<"x", "override">>, <<"quote">>, <<"x", "x", "x", "x", "x">>,
            <<"override", "surrogate">>}
Atoms   == {None, String(<<>>), String(<<"x">>), String(<<"x", "x", "x", "x", "x">>)}
Entries == Short \X Atoms
Flat(children) == {List(v) : v \in {<<>>} \cup {<<c>> : c \in children} \cup (children \X children)}
Objects == {Object(<<>>)} \cup {Object(<<e>>) : e \in Entries}
             \cup {Object(e) : e \in {p \in Entries \X Entries : p[1][1] # p[2][1]}}
Nested  == {List(<<v>>) : v \in Objects} \cup {List(<<None, v>>) : v \in Flat(Atoms)}
             \cup {Object(<< <<k, v>> >>) : k \in Short, v \in Flat(Atoms)}
             \cup {Object(<< <<k, List(<<None, Object(<<e>>)>>)>> >>) : k \in Short, e \in Entries}
AllData == Scalars \cup Flat(Atoms) \cup Flat({List(<<>>), Object(<<>>), None}) \cup Objects \cup Nested

\* The data and its parts, and how deep each is nested.
Parts   == {List(<<None, Object(<<e>>)>>) : e \in Entries}
Values  == AllData \cup Parts

RECURSIVE Height(_)
Height(v) ==
  LET children == CASE v[1] = "list" -> ToSet(v[2])
                    [] v[1] = "object" -> {e[2] : e \in ToSet(v[2])}
                    [] OTHER -> {}
  IN  1 + Max({0} \cup {Height(c) : c \in children})

Heights == [v \in Values |-> Height(v)]

Some(ks) == CASE ks = <<>> -> {[contents |-> <<>>, data |-> d] : d \in AllData}
              [] ks = << <<"a">> >> -> {[contents |-> <<c>>, data |-> None] : c \in Contents}
              [] ks = << <<"b">>, <<"a", "b">> >> ->
                   {[contents |-> <<c, d>>, data |-> String(<<"x">>)] : c, d \in Contents}
              [] OTHER -> {[contents |-> [i \in DOMAIN ks |-> Plain], data |-> None]}
=============================================================================
