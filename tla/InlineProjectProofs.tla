------------------------ MODULE InlineProjectProofs ------------------------
(***************************************************************************)
(* Proofs about InlineProject and the parts it is made of, for every set of *)
(* keys, every content, all data and every limit.                           *)
(*                                                                         *)
(* The first half is about the recursive functions of Prelude.  Each is     *)
(* known from its body alone: the body is named here, shown to look at       *)
(* smaller arguments only, and what fits every result is carried along        *)
(* (Recursion).  From the text that is written and how a text is read,         *)
(* by induction over the depth of the data: the data reads back.            *)
(*                                                                         *)
(* The second half is about files, and then about the steps of the module.   *)
(***************************************************************************)
EXTENDS InlineProject, SequenceTheorems, FiniteSetTheorems, TLAPS

-----------------------------------------------------------------------------
(* Text *)

\* A character in front of a text, taken off again.
LEMMA InFront ==
  ASSUME NEW c \in Character, NEW s \in Text
  PROVE  /\ <<c>> \o s \in Text /\ <<c>> \o s # <<>>
         /\ Len(<<c>> \o s) = Len(s) + 1
         /\ Head(<<c>> \o s) = c /\ Tail(<<c>> \o s) = s
         /\ First(<<c>> \o s) = c
<1>1. /\ <<c>> \o s \in Text /\ <<c>> \o s # <<>> /\ Len(<<c>> \o s) = Len(s) + 1
      /\ Head(<<c>> \o s) = c
  BY DEF Text
<1>2. Tail(<<c>> \o s) = s
  BY DEF Text
<1>3. QED
  BY <1>1, <1>2 DEF First

\* A text that is not empty, taken apart.
LEMMA InFrontOf ==
  ASSUME NEW s \in Text, s # <<>>
  PROVE  /\ Head(s) \in Character /\ Tail(s) \in Text /\ Len(Tail(s)) = Len(s) - 1
         /\ s = <<Head(s)>> \o Tail(s) /\ First(s) = Head(s)
BY DEF First, Text

\* Texts are joined to a text, as long as both.
LEMMA JoinedText ==
  ASSUME NEW s \in Text, NEW t \in Text
  PROVE  s \o t \in Text /\ Len(s \o t) = Len(s) + Len(t)
BY DEF Text

\* It does not matter which of three texts are joined first.
LEMMA Associative ==
  ASSUME NEW s \in Text, NEW t \in Text, NEW u \in Text
  PROVE  (s \o t) \o u = s \o (t \o u)
BY ConcatAssociative DEF Text

\* Nothing is added by the empty text.
LEMMA Empty ==
  ASSUME NEW s \in Text
  PROVE  <<>> \o s = s /\ s \o <<>> = s
BY DEF Text

\* What is behind the first n characters.
LEMMA AfterText ==
  ASSUME NEW s \in Text, NEW n \in Nat
  PROVE  /\ After(s, n) \in Text
         /\ Len(After(s, n)) = IF n <= Len(s) THEN Len(s) - n ELSE 0
BY DEF After, Text

\* Behind the first of two texts is the second.
LEMMA AfterConcat ==
  ASSUME NEW s \in Text, NEW t \in Text
  PROVE  After(s \o t, Len(s)) = t
BY DEF After, Text

\* A few characters, written out, are a text.
LEMMA Written ==
  ASSUME NEW a \in Character, NEW b \in Character, NEW c \in Character,
         NEW d \in Character, NEW e \in Character
  PROVE  /\ <<a>> \in Text /\ <<a, b>> \in Text /\ <<a, b, c>> \in Text
         /\ <<a, b, c, d, e>> \in Text
BY DEF Text

\* Two characters are one in front of the other,
LEMMA PairIsTwo ==
  ASSUME NEW a \in Character, NEW b \in Character
  PROVE  <<a, b>> = <<a>> \o <<b>>
<1>1. <<a>> \in Text /\ <<b>> \in Text /\ <<a, b>> \in Text
  BY Written
<1>2. Len(<<a>>) = 1 /\ Len(<<b>>) = 1 /\ Len(<<a, b>>) = 2
  OBVIOUS
<1>3. <<a>> \o <<b>> \in Text /\ Len(<<a>> \o <<b>>) = 2
  BY <1>1, <1>2, JoinedText
<1>4. (<<a>> \o <<b>>)[1] = a /\ (<<a>> \o <<b>>)[2] = b
  BY <1>1, <1>2, ConcatProperties DEF Text
<1>5. <<a, b>>[1] = a /\ <<a, b>>[2] = b
  OBVIOUS
<1>6. \A i \in 1..2 : <<a, b>>[i] = (<<a>> \o <<b>>)[i]
  BY <1>4, <1>5
<1> DEFINE t == <<a, b>>
           u == <<a>> \o <<b>>
<1>7. /\ t \in Seq(Character) /\ u \in Seq(Character) /\ Len(t) = 2 /\ Len(u) = 2
      /\ \A i \in 1..2 : t[i] = u[i]
  BY <1>1, <1>2, <1>3, <1>6 DEF Text
<1> HIDE DEF t, u
<1>8. t = u
  BY <1>7, SeqEqual
<1>9. QED
  BY <1>8 DEF t, u

\* and can be taken off a text together.
LEMMA Two ==
  ASSUME NEW a \in Character, NEW b \in Character, NEW s \in Text
  PROVE  /\ First(<<a, b>> \o s) = a
         /\ First(After(<<a, b>> \o s, 1)) = b
         /\ After(<<a, b>> \o s, 2) = s
<1>1. /\ <<a>> \in Text /\ <<b>> \in Text /\ <<a, b>> \in Text
      /\ Len(<<a, b>>) = 2 /\ <<a, b>> = <<a>> \o <<b>>
  <2>1. <<a>> \in Text /\ <<b>> \in Text /\ <<a, b>> \in Text
    BY Written
  <2>2. Len(<<a, b>>) = 2
    OBVIOUS
  <2>3. QED
    BY <2>1, <2>2, PairIsTwo
<1>2. <<a, b>> \o s = <<a>> \o (<<b>> \o s)
  BY <1>1, Associative
<1>3. /\ First(<<a>> \o (<<b>> \o s)) = a /\ First(<<b>> \o s) = b
      /\ After(<<a>> \o (<<b>> \o s), 1) = <<b>> \o s
  BY <1>1, InFront, AfterConcat
<1>4. QED
  BY <1>1, <1>2, <1>3, AfterConcat

\* The beginning of two texts that are joined.
LEMMA FirstPart ==
  ASSUME NEW w \in Text, Len(w) >= 2, NEW s \in Text
  PROVE  /\ First(w \o s) = w[1] /\ First(After(w \o s, 1)) = w[2]
         /\ IsPrefix(w, w \o s)
<1> DEFINE t == w \o s
<1>1. /\ t \in Text /\ Len(t) = Len(w) + Len(s) /\ Len(w) \in Nat /\ Len(s) \in Nat
      /\ \A i \in 1..Len(w) : t[i] = w[i]
  BY ConcatProperties DEF Text
<1> HIDE DEF t
<1>2. First(t) = w[1]
  BY <1>1 DEF First, Text
<1>3. First(After(t, 1)) = w[2]
  <2>1. After(t, 1) \in Text /\ Len(After(t, 1)) = Len(t) - 1
    <3>1. /\ After(t, 1) \in Text
          /\ Len(After(t, 1)) = IF 1 <= Len(t) THEN Len(t) - 1 ELSE 0
      BY <1>1, AfterText
    <3>2. QED
      BY <1>1, <3>1
  <2>2. After(t, 1)[1] = t[2]
    BY <1>1 DEF After, Text
  <2>3. After(t, 1) # <<>> /\ Head(After(t, 1)) = t[2]
    BY <1>1, <2>1, <2>2 DEF Text
  <2>4. QED
    BY <1>1, <2>3 DEF First
<1>4. IsPrefix(w, t)
  <2>1. SubSeq(t, 1, Len(w)) = w
    <3>1. /\ SubSeq(t, 1, Len(w)) \in Text /\ Len(SubSeq(t, 1, Len(w))) = Len(w)
          /\ \A i \in 1..Len(w) : SubSeq(t, 1, Len(w))[i] = t[i]
      BY <1>1 DEF Text
    <3>2. QED
      BY <1>1, <3>1, SeqEqual DEF Text
  <2>2. SubSeq(w, 1, Len(w)) = w
    BY SubSeqFull DEF Text
  <2>3. QED
    BY <1>1, <2>1, <2>2 DEF IsPrefix
<1>5. QED
  BY <1>2, <1>3, <1>4 DEF t

\* Five characters in front of a text: the escape of a control character.
LEMMA Five ==
  ASSUME NEW a \in Character, NEW b \in Character, NEW c \in Character,
         NEW d \in Character, NEW e \in Character, NEW s \in Text
  PROVE  /\ After(<<a, b, c, d, e>> \o s, 5) = s
         /\ First(<<a, b, c, d, e>> \o s) = a
         /\ First(After(<<a, b, c, d, e>> \o s, 1)) = b
         /\ IsPrefix(<<a, b, c, d, e>>, <<a, b, c, d, e>> \o s)
<1> DEFINE w == <<a, b, c, d, e>>
<1>1. w \in Text /\ Len(w) = 5 /\ w[1] = a /\ w[2] = b
  BY Written
<1> HIDE DEF w
<1>2. /\ After(w \o s, 5) = s /\ First(w \o s) = a
      /\ First(After(w \o s, 1)) = b /\ IsPrefix(w, w \o s)
  <2>1. After(w \o s, 5) = s
    BY <1>1, AfterConcat
  <2>2. Len(w) >= 2
    BY <1>1
  <2>3. /\ First(w \o s) = w[1] /\ First(After(w \o s, 1)) = w[2]
        /\ IsPrefix(w, w \o s)
    BY <1>1, <2>2, FirstPart
  <2>4. QED
    BY <1>1, <2>1, <2>3
<1>3. QED
  BY <1>2 DEF w

-----------------------------------------------------------------------------
(* Strings: what is escaped, and what is read *)

\* Each character, and what it is escaped to.
LEMMA EscapedIs ==
  ASSUME NEW c \in Character
  PROVE  /\ Escaped(c) \in Text
         /\ c = "quote" => Escaped(c) = <<"backslash", "quote">>
         /\ c = "backslash" => Escaped(c) = <<"backslash", "backslash">>
         /\ c = "newline" => Escaped(c) = <<"backslash", "n">>
         /\ c = "control" => Escaped(c) = <<"backslash", "u", "{", "0001", "}">>
         /\ c \in Stripped => Escaped(c) = <<>>
         /\ c \notin {"quote", "backslash", "newline", "control"} \cup Stripped =>
              Escaped(c) = <<c>>
<1>1. DOMAIN TypstEscapes =
        {"quote", "backslash", "newline", "control", "override", "surrogate"}
  BY DEF TypstEscapes
<1>2. /\ TypstEscapes["quote"] = <<"backslash", "quote">>
      /\ TypstEscapes["backslash"] = <<"backslash", "backslash">>
      /\ TypstEscapes["newline"] = <<"backslash", "n">>
      /\ TypstEscapes["control"] = <<"backslash", "u", "{", "0001", "}">>
      /\ TypstEscapes["override"] = <<>> /\ TypstEscapes["surrogate"] = <<>>
  BY DEF TypstEscapes
<1>3. /\ <<"backslash", "quote">> \in Text /\ <<"backslash", "backslash">> \in Text
      /\ <<"backslash", "n">> \in Text
      /\ <<"backslash", "u", "{", "0001", "}">> \in Text
      /\ <<>> \in Text /\ <<c>> \in Text
  <2>1. {"quote", "backslash", "n", "u", "{", "0001", "}"} \subseteq Character
    BY CharacterAssumption
  <2>2. <<>> \in Text
    BY DEF Text
  <2>3. QED
    BY <2>1, <2>2, Written
<1>4. QED
  BY <1>1, <1>2, <1>3 DEF Escaped, Stripped

Length(text) == Len(text)

AText(text, r) == r \in Text

TranslateBody(f, text) ==
  IF text = <<>> THEN <<>> ELSE Escaped(Head(text)) \o f[Tail(text)]

Translating == INSTANCE Recursion
  WITH Domain <- Text, Measure <- Length, Body <- TranslateBody, Fits <- AText

\* What Translate makes of a text, character by character.
LEMMA TranslateIs ==
  ASSUME NEW text \in Text
  PROVE  Translate[text] = TranslateBody(Translate, text) /\ Translate[text] \in Text
<1>1. Translating!Measured
  BY DEF Translating!Measured, Text, Length
<1>2. Translating!LooksDown
  <2> SUFFICES ASSUME NEW x \in Text, NEW f, NEW g, Translating!Agree(f, g, Length(x)),
                      Translating!FitsBelow(f, Length(x))
               PROVE  /\ TranslateBody(f, x) = TranslateBody(g, x)
                      /\ AText(x, TranslateBody(f, x))
    BY DEF Translating!LooksDown
  <2>1. CASE x = <<>>
    BY <2>1 DEF TranslateBody, AText, Text
  <2>2. CASE x # <<>>
    <3>1. Head(x) \in Character /\ Tail(x) \in Text /\ Length(Tail(x)) < Length(x)
      BY <2>2, InFrontOf DEF Length, Text
    <3>2. f[Tail(x)] = g[Tail(x)] /\ f[Tail(x)] \in Text
      BY <3>1 DEF Translating!Agree, Translating!FitsBelow, Translating!Upto, AText
    <3>3. QED
      BY <2>2, <3>1, <3>2, JoinedText, EscapedIs DEF TranslateBody, AText
  <2>3. QED
    BY <2>1, <2>2
<1>3. Translate = CHOOSE f : f = [x \in Text |-> TranslateBody(f, x)]
  BY DEF Translate, TranslateBody
<1>4. QED
  BY <1>1, <1>2, <1>3, Translating!Defined DEF AText

KeptBody(f, text) ==
  IF text = <<>> THEN <<>>
  ELSE IF Head(text) \in Stripped THEN f[Tail(text)]
  ELSE <<Head(text)>> \o f[Tail(text)]

Keeping == INSTANCE Recursion
  WITH Domain <- Text, Measure <- Length, Body <- KeptBody, Fits <- AText

\* What Kept leaves of a text, character by character.
LEMMA KeptIs ==
  ASSUME NEW text \in Text
  PROVE  Kept[text] = KeptBody(Kept, text) /\ Kept[text] \in Text
<1>1. Keeping!Measured
  BY DEF Keeping!Measured, Text, Length
<1>2. Keeping!LooksDown
  <2> SUFFICES ASSUME NEW x \in Text, NEW f, NEW g, Keeping!Agree(f, g, Length(x)),
                      Keeping!FitsBelow(f, Length(x))
               PROVE  KeptBody(f, x) = KeptBody(g, x) /\ AText(x, KeptBody(f, x))
    BY DEF Keeping!LooksDown
  <2>1. CASE x = <<>>
    BY <2>1 DEF KeptBody, AText, Text
  <2>2. CASE x # <<>>
    <3>1. Tail(x) \in Text /\ Length(Tail(x)) < Length(x) /\ Head(x) \in Character
      BY <2>2, InFrontOf DEF Length, Text
    <3>2. f[Tail(x)] = g[Tail(x)] /\ f[Tail(x)] \in Text
      BY <3>1 DEF Keeping!Agree, Keeping!FitsBelow, Keeping!Upto, AText
    <3>3. <<Head(x)>> \o f[Tail(x)] \in Text
      BY <3>1, <3>2, InFront
    <3>4. QED
      BY <2>2, <3>2, <3>3 DEF KeptBody, AText
  <2>3. QED
    BY <2>1, <2>2
<1>3. Kept = CHOOSE f : f = [x \in Text |-> KeptBody(f, x)]
  BY DEF Kept, KeptBody
<1>4. QED
  BY <1>1, <1>2, <1>3, Keeping!Defined DEF AText

ReadStringBody(f, src) ==
  LET c == First(src)
      e == First(After(src, 1))
  IN  IF c = "quote" THEN Read(String(<<>>), Tail(src))
      ELSE IF c = "backslash" /\ e \in {"quote", "backslash"}
           THEN InString(e, f[After(src, 2)])
      ELSE IF c = "backslash" /\ e = "n" THEN InString("newline", f[After(src, 2)])
      ELSE IF IsPrefix(<<"backslash", "u", "{", "0001", "}">>, src)
           THEN InString("control", f[After(src, 5)])
      ELSE IF c \in {"end", "backslash", "control", "surrogate"} THEN Read(Error, src)
      ELSE InString(c, f[After(src, 1)])

\* What is left to read is never longer than what there was.
Shorter(src, r) == r.rest \in Text /\ Len(r.rest) <= Len(src)

ReadingString == INSTANCE Recursion
  WITH Domain <- Text, Measure <- Length, Body <- ReadStringBody, Fits <- Shorter

\* How Typst reads a string, and that it reads on to the right.
LEMMA ReadStringIs ==
  ASSUME NEW src \in Text
  PROVE  ReadString[src] = ReadStringBody(ReadString, src) /\ Shorter(src, ReadString[src])
<1>1. ReadingString!Measured
  BY DEF ReadingString!Measured, Text, Length
<1>2. ReadingString!LooksDown
  <2> SUFFICES ASSUME NEW x \in Text, NEW f, NEW g, ReadingString!Agree(f, g, Length(x)),
                      ReadingString!FitsBelow(f, Length(x))
               PROVE  /\ ReadStringBody(f, x) = ReadStringBody(g, x)
                      /\ Shorter(x, ReadStringBody(f, x))
    BY DEF ReadingString!LooksDown
  <2>1. ASSUME x # <<>>, NEW n \in {1, 2, 5}, NEW c
        PROVE  /\ f[After(x, n)] = g[After(x, n)]
               /\ Shorter(x, InString(c, f[After(x, n)]))
    <3>1. After(x, n) \in Text /\ Len(After(x, n)) < Len(x) /\ Len(x) \in Nat
      <4>1. n \in Nat /\ n >= 1
        OBVIOUS
      <4>2. After(x, n) \in Text /\ Len(After(x, n)) = IF n <= Len(x) THEN Len(x) - n ELSE 0
        BY <4>1, AfterText
      <4>3. Len(x) \in Nat \ {0}
        BY <2>1 DEF Text
      <4>4. QED
        BY <4>1, <4>2, <4>3
    <3>2. f[After(x, n)] = g[After(x, n)] /\ Shorter(After(x, n), f[After(x, n)])
      BY <3>1 DEF ReadingString!Agree, ReadingString!FitsBelow, ReadingString!Upto, Length
    <3>3. InString(c, f[After(x, n)]).rest = f[After(x, n)].rest
      BY DEF InString, Read
    <3>4. Shorter(x, InString(c, f[After(x, n)]))
      BY <3>1, <3>2, <3>3 DEF Shorter, Text
    <3>5. QED
      BY <3>2, <3>4
  <2>2. Shorter(x, Read(Error, x))
    BY DEF Shorter, Read, Text
  <2>3. CASE x = <<>>
    <3>1. First(x) = "end" /\ ~IsPrefix(<<"backslash", "u", "{", "0001", "}">>, x)
      BY <2>3 DEF First, IsPrefix
    <3>2. ReadStringBody(f, x) = Read(Error, x) /\ ReadStringBody(g, x) = Read(Error, x)
      BY <3>1 DEF ReadStringBody
    <3>3. QED
      BY <2>2, <3>2
  <2>4. CASE x # <<>>
    <3>1. Shorter(x, Read(String(<<>>), Tail(x)))
      BY <2>4, InFrontOf DEF Shorter, Read, Text
    <3>2. /\ f[After(x, 1)] = g[After(x, 1)] /\ f[After(x, 2)] = g[After(x, 2)]
          /\ f[After(x, 5)] = g[After(x, 5)]
          /\ \A c : /\ Shorter(x, InString(c, f[After(x, 1)]))
                    /\ Shorter(x, InString(c, f[After(x, 2)]))
                    /\ Shorter(x, InString(c, f[After(x, 5)]))
      BY <2>1, <2>4
    <3>3. QED
      BY <2>2, <3>1, <3>2 DEF ReadStringBody
  <2>5. QED
    BY <2>3, <2>4
<1>3. ReadString = CHOOSE f : f = [x \in Text |-> ReadStringBody(f, x)]
  BY DEF ReadString, ReadStringBody
<1>4. QED
  BY <1>1, <1>2, <1>3, ReadingString!Defined

\* Keeps a character and its name apart until the two have to meet.
Is(c, name) == c = name

IsControl(b, u, o, d, e) ==
  b = "backslash" /\ u = "u" /\ o = "{" /\ d = "0001" /\ e = "}"

\* What is read of each of the texts a character is written as.
LEMMA ReadsQuote ==
  ASSUME NEW q \in Character, q = "quote", NEW s \in Text
  PROVE  ReadString[<<q>> \o s] = Read(String(<<>>), s)
<1>1. <<q>> \o s \in Text /\ First(<<q>> \o s) = q /\ Tail(<<q>> \o s) = s
  BY InFront
<1>2. ReadStringBody(ReadString, <<q>> \o s) = Read(String(<<>>), s)
  BY <1>1 DEF ReadStringBody
<1>3. QED
  BY <1>1, <1>2, ReadStringIs

\* An escape of two characters is read as one.
LEMMA ReadsTwo ==
  ASSUME NEW b \in Character, Is(b, "backslash"), NEW e \in Character, NEW s \in Text
  PROVE  /\ e \in {"quote", "backslash"} => ReadString[<<b, e>> \o s] = InString(e, ReadString[s])
         /\ e = "n" => ReadString[<<b, e>> \o s] = InString("newline", ReadString[s])
<1>1. PICK w : w = <<b, e>> \o s
  OBVIOUS
<1>2. /\ First(w) = b /\ First(After(w, 1)) = e /\ After(w, 2) = s
      /\ w \in Text
  <2>1. /\ First(<<b, e>> \o s) = b /\ First(After(<<b, e>> \o s, 1)) = e
        /\ After(<<b, e>> \o s, 2) = s
    BY Two
  <2>2. <<b, e>> \o s \in Text
    BY Written, JoinedText
  <2>3. QED
    BY <1>1, <2>1, <2>2
<1>3. /\ e \in {"quote", "backslash"} => ReadStringBody(ReadString, w) = InString(e, ReadString[s])
      /\ e = "n" => ReadStringBody(ReadString, w) = InString("newline", ReadString[s])
  BY <1>2 DEF ReadStringBody, Is
<1>4. QED
  BY <1>1, <1>2, <1>3, ReadStringIs

\* The escape of a control character is read as one.
LEMMA ReadsFive ==
  ASSUME NEW b \in Character, NEW u \in Character, NEW o \in Character, NEW d \in Character,
         NEW e \in Character, IsControl(b, u, o, d, e), NEW s \in Text
  PROVE  ReadString[<<b, u, o, d, e>> \o s] = InString("control", ReadString[s])
<1>1. PICK w : w = <<b, u, o, d, e>> \o s
  OBVIOUS
<1>2. /\ First(w) = b /\ First(After(w, 1)) = u /\ After(w, 5) = s
      /\ IsPrefix(<<b, u, o, d, e>>, w) /\ w \in Text
  <2>1. /\ After(<<b, u, o, d, e>> \o s, 5) = s
        /\ First(<<b, u, o, d, e>> \o s) = b
        /\ First(After(<<b, u, o, d, e>> \o s, 1)) = u
        /\ IsPrefix(<<b, u, o, d, e>>, <<b, u, o, d, e>> \o s)
    BY Five
  <2>2. <<b, u, o, d, e>> \o s \in Text
    BY Written, JoinedText
  <2>3. QED
    BY <1>1, <2>1, <2>2
<1>3. IsPrefix(<<"backslash", "u", "{", "0001", "}">>, w)
  BY <1>2 DEF IsControl
<1>4. ReadStringBody(ReadString, w) = InString("control", ReadString[s])
  BY <1>2, <1>3 DEF ReadStringBody, IsControl
<1>5. QED
  BY <1>1, <1>2, <1>4, ReadStringIs

\* A character that is not escaped is read as it is.
LEMMA ReadsPlain ==
  ASSUME NEW c \in Character, c \notin {"quote", "backslash", "control", "surrogate"},
         NEW s \in Text
  PROVE  ReadString[<<c>> \o s] = InString(c, ReadString[s])
<1> DEFINE w == <<c>> \o s
<1>1. w \in Text /\ w # <<>> /\ First(w) = c /\ Head(w) = c /\ Tail(w) = s
  BY InFront
<1>2. After(w, 1) = s
  <2>1. <<c>> \in Text /\ Len(<<c>>) = 1
    BY Written
  <2>2. QED
    BY <2>1, AfterConcat
<1> HIDE DEF w
<1>3. c # "end"
  BY CharacterAssumption
<1> DEFINE control == <<"backslash", "u", "{", "0001", "}">>
<1>4. ASSUME IsPrefix(control, w) PROVE FALSE
  <2>1. Len(control) = 5 /\ control[1] = "backslash"
    OBVIOUS
  <2> HIDE DEF control
  <2>2. 5 <= Len(w) /\ SubSeq(control, 1, 5) = SubSeq(w, 1, 5)
    BY <1>4, <2>1 DEF IsPrefix
  <2>3. SubSeq(w, 1, 5)[1] = w[1] /\ SubSeq(control, 1, 5)[1] = control[1]
    OBVIOUS
  <2>4. w[1] = c
    BY <1>1 DEF Text
  <2>5. QED
    BY <2>1, <2>2, <2>3, <2>4
<1>5. ReadStringBody(ReadString, w) = InString(c, ReadString[s])
  BY <1>1, <1>2, <1>3, <1>4 DEF ReadStringBody
<1>6. QED
  BY <1>1, <1>5, ReadStringIs DEF w

\* Each character that is kept is read back.
LEMMA ReadsEscaped ==
  ASSUME NEW c \in Character \ Stripped, NEW s \in Text
  PROVE  ReadString[Escaped(c) \o s] = InString(c, ReadString[s])
<1>1. /\ "backslash" \in Character /\ "n" \in Character
      /\ "u" \in Character /\ "{" \in Character /\ "0001" \in Character /\ "}" \in Character
  BY CharacterAssumption
<1>2. PICK b \in Character : Is(b, "backslash")
  BY <1>1 DEF Is
<1>3. CASE c \in {"quote", "backslash"}
  <2>1. Escaped(c) = <<b, c>>
    BY <1>2, <1>3, EscapedIs DEF Is
  <2>2. QED
    BY <1>2, <1>3, <2>1, ReadsTwo
<1>4. CASE c = "newline"
  <2>1. PICK n \in Character : Is(n, "n")
    BY <1>1 DEF Is
  <2>2. Escaped(c) = <<b, n>>
    BY <1>2, <1>4, <2>1, EscapedIs DEF Is
  <2>3. ReadString[<<b, n>> \o s] = InString("newline", ReadString[s])
    <3>1. n = "n"
      BY <2>1 DEF Is
    <3>2. QED
      BY <1>2, <3>1, ReadsTwo
  <2>4. QED
    BY <1>4, <2>2, <2>3
<1>5. CASE c = "control"
  <2>1. PICK u \in Character, o \in Character, d \in Character, e \in Character :
          IsControl(b, u, o, d, e)
    BY <1>1, <1>2 DEF Is, IsControl
  <2>2. Escaped(c) = <<b, u, o, d, e>>
    BY <1>5, <2>1, EscapedIs DEF IsControl
  <2>3. ReadString[<<b, u, o, d, e>> \o s] = InString("control", ReadString[s])
    BY <2>1, ReadsFive
  <2>4. QED
    BY <1>5, <2>2, <2>3
<1>6. CASE c \notin {"quote", "backslash", "newline", "control"}
  <2>1. Escaped(c) = <<c>>
    BY <1>6, EscapedIs
  <2>2. c # "surrogate"
    BY DEF Stripped
  <2>3. QED
    BY <1>6, <2>1, <2>2, ReadsPlain
<1>7. QED
  BY <1>3, <1>4, <1>5, <1>6

\* Whatever a string holds, Typst reads the quoted text as the string less what is
\* stripped, and goes on where the prelude goes on: no string ends its literal, or
\* reaches past it.
THEOREM StringsReadBack ==
  ASSUME NEW text \in Text, NEW rest \in Text
  PROVE  ReadString[Translate[text] \o <<"quote">> \o rest] = Read(String(Kept[text]), rest)
<1>q. PICK q \in Character : Is(q, "quote")
  BY CharacterAssumption DEF Is
<1> DEFINE Q(t) == Translate[t] \o <<q>> \o rest
           S == {t \in Text : ReadString[Q(t)] = Read(String(Kept[t]), rest)}
<1>0. <<q>> \in Text /\ <<q>> \o rest \in Text
  BY InFront, Written
<1>1. ASSUME NEW t \in Text, Translating!Upto(Length(t)) \subseteq S PROVE t \in S
  <2>1. CASE t = <<>>
    <3>1. Translate[t] = <<>> /\ Kept[t] = <<>>
      BY <2>1, TranslateIs, KeptIs DEF TranslateBody, KeptBody
    <3>2. Q(t) = <<q>> \o rest
      BY <1>0, <3>1, Empty
    <3>3. QED
      BY <1>q, <3>1, <3>2, ReadsQuote DEF Is
  <2>2. CASE t # <<>>
    <3> DEFINE c == Head(t)
               u == Tail(t)
    <3>1. c \in Character /\ u \in Text /\ Length(u) < Length(t)
      BY <2>2, InFrontOf DEF Length, Text
    <3>2. u \in S
      BY <1>1, <3>1 DEF Translating!Upto
    <3>3. /\ Translate[t] = Escaped(c) \o Translate[u] /\ Translate[u] \in Text
          /\ Kept[t] = IF c \in Stripped THEN Kept[u] ELSE <<c>> \o Kept[u]
          /\ Kept[u] \in Text /\ Escaped(c) \in Text
      BY <2>2, <3>1, TranslateIs, KeptIs, EscapedIs DEF TranslateBody, KeptBody
    <3>4. Q(t) = Escaped(c) \o Q(u) /\ Q(u) \in Text
      <4>1. /\ Q(u) = Translate[u] \o (<<q>> \o rest)
            /\ Q(t) = Translate[t] \o (<<q>> \o rest)
        <5>1. Translate[u] \in Text /\ Translate[t] \in Text
          BY <3>1, TranslateIs
        <5>2. ASSUME NEW a \in Text PROVE a \o <<q>> \o rest = a \o (<<q>> \o rest)
          BY <1>q, <1>0, Associative
        <5>3. QED
          BY <5>1, <5>2
      <4>2. Q(u) \in Text
        BY <1>0, <3>3, <4>1, JoinedText
      <4>3. ASSUME NEW a \in Text, NEW b \in Text, NEW d \in Text
            PROVE  (a \o b) \o d = a \o (b \o d)
        BY Associative
      <4>4. Q(t) = (Escaped(c) \o Translate[u]) \o (<<q>> \o rest)
        BY <3>3, <4>1
      <4>5. (Escaped(c) \o Translate[u]) \o (<<q>> \o rest)
              = Escaped(c) \o (Translate[u] \o (<<q>> \o rest))
        BY <1>0, <3>3, <4>3
      <4>6. QED
        BY <4>1, <4>2, <4>4, <4>5
    <3>5. ReadString[Q(u)] = Read(String(Kept[u]), rest)
      BY <3>2
    <3> HIDE DEF Q, S, c, u
    <3>6. CASE c \in Stripped
      <4>1. Q(t) = Q(u)
        BY <3>1, <3>4, <3>6, EscapedIs, Empty
      <4>2. QED
        BY <3>3, <3>5, <3>6, <4>1 DEF S
    <3>7. CASE c \notin Stripped
      <4>1. ReadString[Q(t)] = InString(c, Read(String(Kept[u]), rest))
        BY <3>1, <3>4, <3>5, <3>7, ReadsEscaped
      <4>2. String(Kept[u]) # Error /\ String(Kept[u])[2] = Kept[u]
        BY DEF String, Error
      <4>3. ReadString[Q(t)] = Read(String(<<c>> \o Kept[u]), rest)
        BY <4>1, <4>2 DEF InString, Read
      <4>4. QED
        BY <3>3, <3>7, <4>3 DEF S
    <3>8. QED
      BY <3>6, <3>7
  <2>3. QED
    BY <2>1, <2>2
<1>2. Text \subseteq S
  <2> HIDE DEF S
  <2>1. Translating!Measured
    BY DEF Translating!Measured, Text, Length
  <2>2. QED
    BY <1>1, <2>1, Translating!Induction
<1>3. QED
  BY <1>q, <1>2 DEF Is

JoinedBody(f, texts) ==
  IF texts = <<>> THEN <<>>
  ELSE IF Len(texts) = 1 THEN Head(texts)
  ELSE Head(texts) \o <<",">> \o f[Tail(texts)]

Joining == INSTANCE Recursion
  WITH Domain <- Seq(Text), Measure <- Length, Body <- JoinedBody, Fits <- AText

\* Joined looks at what is behind the first text only.
LEMMA JoiningDown == Joining!Measured /\ Joining!LooksDown
<1>1. Joining!Measured
  BY DEF Joining!Measured, Length
<1>2. Joining!LooksDown
  <2> SUFFICES ASSUME NEW x \in Seq(Text), NEW f, NEW g, Joining!Agree(f, g, Length(x)),
                      Joining!FitsBelow(f, Length(x))
               PROVE  JoinedBody(f, x) = JoinedBody(g, x) /\ AText(x, JoinedBody(f, x))
    BY DEF Joining!LooksDown
  <2>1. CASE x = <<>>
    BY <2>1 DEF JoinedBody, AText, Text
  <2>2. CASE x # <<>>
    <3>1. Head(x) \in Text /\ Tail(x) \in Seq(Text) /\ Length(Tail(x)) < Length(x)
      BY <2>2 DEF Length
    <3>2. f[Tail(x)] = g[Tail(x)] /\ f[Tail(x)] \in Text
      BY <3>1 DEF Joining!Agree, Joining!FitsBelow, Joining!Upto, AText
    <3>3. <<",">> \in Text
      <4>1. "," \in Character
        BY CharacterAssumption
      <4>2. \A c \in Character : <<c>> \in Text
        BY Written
      <4>3. QED
        BY <4>1, <4>2
    <3>4. Head(x) \o <<",">> \o f[Tail(x)] \in Text
      BY <3>1, <3>2, <3>3, JoinedText
    <3>5. QED
      BY <2>2, <3>1, <3>2, <3>4 DEF JoinedBody, AText
  <2>3. QED
    BY <2>1, <2>2
<1>3. QED
  BY <1>1, <1>2

\* What Joined makes of texts.
LEMMA JoinedIs ==
  ASSUME NEW texts \in Seq(Text)
  PROVE  Joined[texts] = JoinedBody(Joined, texts) /\ Joined[texts] \in Text
<1>1. Joined = CHOOSE f : f = [x \in Seq(Text) |-> JoinedBody(f, x)]
  BY DEF Joined, JoinedBody
<1>2. QED
  BY <1>1, JoiningDown, Joining!Defined DEF AText

-----------------------------------------------------------------------------
(* Values *)

DepthOf(v) == Depth[v]

IsAtom(v)   == v \in {"atom"} \X Word
IsString(v) == v \in {"string"} \X Text
IsList(v)   == v \in {"list"} \X Seq(Value)
IsObject(v) == v \in {"object"} \X Seq(Text \X Value)

\* One of the four, and the values in it are not as deep.
LEMMA Kinds ==
  ASSUME NEW v \in Value
  PROVE  /\ IsAtom(v) \/ IsString(v) \/ IsList(v) \/ IsObject(v)
         /\ IsAtom(v) => v[1] = "atom" /\ v[2] \in Word
         /\ IsString(v) => v[1] = "string" /\ v[2] \in Text
         /\ IsList(v) => /\ v[1] = "list" /\ v[2] \in Seq(Value)
                         /\ \A i \in DOMAIN v[2] : v[2][i] \in Value /\ DepthOf(v[2][i]) < DepthOf(v)
         /\ IsObject(v) => /\ v[1] = "object" /\ v[2] \in Seq(Text \X Value)
                           /\ \A i \in DOMAIN v[2] : /\ v[2][i][1] \in Text /\ v[2][i][2] \in Value
                                                     /\ DepthOf(v[2][i][2]) < DepthOf(v)
<1>1. \/ v \in {"atom"} \X Word
      \/ v \in {"string"} \X Text
      \/ /\ v \in {"list"} \X Seq(Value)
         /\ \A i \in DOMAIN v[2] : Depth[v[2][i]] < Depth[v]
      \/ /\ v \in {"object"} \X Seq(Text \X Value)
         /\ \A i \in DOMAIN v[2] : Depth[v[2][i][2]] < Depth[v]
  BY ValueAssumption
<1>2. IsAtom(v) \/ IsString(v) \/ IsList(v) \/ IsObject(v)
  BY <1>1 DEF IsAtom, IsString, IsList, IsObject
<1>3. ASSUME IsAtom(v) PROVE v[1] = "atom" /\ v[2] \in Word
  BY <1>3 DEF IsAtom
<1>4. ASSUME IsString(v) PROVE v[1] = "string" /\ v[2] \in Text
  BY <1>4 DEF IsString
<1>5. ASSUME IsList(v)
      PROVE  /\ v[1] = "list" /\ v[2] \in Seq(Value)
             /\ \A i \in DOMAIN v[2] : v[2][i] \in Value /\ DepthOf(v[2][i]) < DepthOf(v)
  <2>1. v[1] = "list" /\ v[2] \in Seq(Value)
    BY <1>5 DEF IsList
  <2>2. \A i \in DOMAIN v[2] : Depth[v[2][i]] < Depth[v]
    BY <1>1, <2>1
  <2>3. QED
    BY <2>1, <2>2 DEF DepthOf
<1>6. ASSUME IsObject(v)
      PROVE  /\ v[1] = "object" /\ v[2] \in Seq(Text \X Value)
             /\ \A i \in DOMAIN v[2] : /\ v[2][i][1] \in Text /\ v[2][i][2] \in Value
                                       /\ DepthOf(v[2][i][2]) < DepthOf(v)
  <2>1. v[1] = "object" /\ v[2] \in Seq(Text \X Value)
    BY <1>6 DEF IsObject
  <2>2. \A i \in DOMAIN v[2] : Depth[v[2][i][2]] < Depth[v]
    BY <1>1, <2>1
  <2>3. \A i \in DOMAIN v[2] : v[2][i] \in Text \X Value
    BY <2>1
  <2>4. QED
    BY <2>1, <2>2, <2>3 DEF DepthOf
<1>7. QED
  BY <1>2, <1>3, <1>4, <1>5, <1>6

OffendingBody(f, value) ==
  CASE value[1] = "atom"   -> {}
    [] value[1] = "string" -> Oversized(value[2], <<>>, "value")
    [] value[1] = "list"   ->
         UNION {Below(Index(i), f[value[2][i]]) : i \in DOMAIN value[2]}
    [] OTHER ->
         UNION {OversizedIn(value[2][i][1], f[value[2][i][2]]) : i \in DOMAIN value[2]}

Anything(v, r) == TRUE

Searching == INSTANCE Recursion
  WITH Domain <- Value, Measure <- DepthOf, Body <- OffendingBody, Fits <- Anything

\* The depth of a value is a number,
LEMMA DepthIsMeasure == \A v \in Value : DepthOf(v) \in Nat
BY ValueAssumption DEF DepthOf

\* What is Offending in a value, from what is in its parts.
LEMMA OffendingIs ==
  ASSUME NEW value \in Value
  PROVE  Offending[value] = OffendingBody(Offending, value)
<1>1. Searching!Measured
  BY DepthIsMeasure DEF Searching!Measured
<1>2. Searching!LooksDown
  <2> SUFFICES ASSUME NEW x \in Value, NEW f, NEW g, Searching!Agree(f, g, DepthOf(x))
               PROVE  OffendingBody(f, x) = OffendingBody(g, x)
    BY DEF Searching!LooksDown, Anything
  <2>1. \A y \in Value : DepthOf(y) < DepthOf(x) => f[y] = g[y]
    BY DEF Searching!Agree, Searching!Upto
  <2>2. CASE IsAtom(x)
    BY <2>2, Kinds DEF OffendingBody
  <2>3. CASE IsString(x)
    BY <2>3, Kinds DEF OffendingBody
  <2>4. CASE IsList(x)
    <3>1. x[1] = "list" /\ \A i \in DOMAIN x[2] : f[x[2][i]] = g[x[2][i]]
      BY <2>1, <2>4, Kinds
    <3>2. QED
      BY <3>1 DEF OffendingBody
  <2>5. CASE IsObject(x)
    <3>1. x[1] = "object" /\ \A i \in DOMAIN x[2] : f[x[2][i][2]] = g[x[2][i][2]]
      BY <2>1, <2>5, Kinds
    <3>2. QED
      BY <3>1 DEF OffendingBody
  <2>6. QED
    BY <2>2, <2>3, <2>4, <2>5, Kinds
<1>3. Offending = CHOOSE f : f = [x \in Value |-> OffendingBody(f, x)]
  BY DEF Offending, OffendingBody
<1>4. QED
  BY <1>1, <1>2, <1>3, Searching!Defined

\* The characters that the walk writes.
LEMMA Tokens ==
  \A c \in {"quote", "(", ")", ",", ":"} \cup Word : c \in Character /\ <<c>> \in Text
<1>1. \A c \in Character : <<c>> \in Text
  BY Written
<1>2. {"quote", "(", ")", ",", ":"} \cup Word \subseteq Character
  BY CharacterAssumption
<1>3. QED
  BY <1>1, <1>2

\* What begins with a character and goes on in two parts.
LEMMA Framed ==
  ASSUME NEW c \in Character, NEW s \in Text, NEW t \in Text
  PROVE  /\ <<c>> \o s \o t = <<c>> \o (s \o t)
         /\ <<c>> \o s \o t \in Text /\ <<c>> \o s \o t # <<>> /\ First(<<c>> \o s \o t) = c
<1>1. <<c>> \in Text /\ s \o t \in Text
  BY Written, JoinedText
<1>2. <<c>> \o s \o t = <<c>> \o (s \o t)
  BY <1>1, Associative
<1>3. <<c>> \o (s \o t) \in Text /\ <<c>> \o (s \o t) # <<>> /\ First(<<c>> \o (s \o t)) = c
  BY <1>1, InFront
<1>4. QED
  BY <1>2, <1>3

\* What it writes for the empty list and the empty object.
LEMMA PairsAreText ==
  /\ <<"(", ")">> \in Text /\ <<",", ")">> \in Text /\ <<"(", ":", ")">> \in Text
  /\ <<"(", ")">> # <<>> /\ <<"(", ":", ")">> # <<>>
  /\ First(<<"(", ")">>) = "(" /\ First(<<"(", ":", ")">>) = "("
<1>1. \A a, b, c \in Character : <<a, b>> \in Text /\ <<a, b, c>> \in Text
  BY Written
<1>2. "(" \in Character /\ ")" \in Character /\ "," \in Character /\ ":" \in Character
  BY Tokens
<1>3. /\ <<"(", ")">> \in Text /\ <<",", ")">> \in Text /\ <<"(", ":", ")">> \in Text
  BY <1>1, <1>2
<1>4. \A a, b, c : /\ <<a, b>> # <<>> /\ <<a, b, c>> # <<>>
                   /\ Head(<<a, b>>) = a /\ Head(<<a, b, c>>) = a
  OBVIOUS
<1>5. \A a, b, c : First(<<a, b>>) = a /\ First(<<a, b, c>>) = a
  BY <1>4 DEF First
<1>6. QED
  BY <1>3, <1>4, <1>5

\* A text in quotes begins with one.
LEMMA QuotedIs ==
  ASSUME NEW text \in Text
  PROVE  /\ Quoted(text) \in Text /\ Quoted(text) # <<>> /\ First(Quoted(text)) = "quote"
         /\ Quoted(text) = <<"quote">> \o (text \o <<"quote">>)
<1>1. PICK q \in Character : Is(q, "quote")
  BY Tokens DEF Is
<1>2. <<q>> \in Text
  BY Written
<1>3. Quoted(text) = <<q>> \o text \o <<q>>
  BY <1>1 DEF Quoted, Is
<1>4. /\ <<q>> \o text \o <<q>> = <<q>> \o (text \o <<q>>)
      /\ <<q>> \o text \o <<q>> \in Text /\ <<q>> \o text \o <<q>> # <<>>
      /\ First(<<q>> \o text \o <<q>>) = q
  BY <1>2, Framed
<1>5. QED
  BY <1>1, <1>3, <1>4 DEF Is

\* A list begins with its parenthesis,
LEMMA ListTextIs ==
  ASSUME NEW texts \in Seq(Text)
  PROVE  ListText(texts) \in Text /\ ListText(texts) # <<>> /\ First(ListText(texts)) = "("
<1>1. CASE texts = <<>>
  BY <1>1, PairsAreText DEF ListText
<1>2. CASE texts # <<>>
  <2>1. PICK p \in Character : Is(p, "(")
    BY Tokens DEF Is
  <2>2. Joined[texts] \in Text /\ <<",", ")">> \in Text
    BY JoinedIs, PairsAreText
  <2>3. PICK end \in Text : end = <<",", ")">>
    BY <2>2
  <2>4. ListText(texts) = <<p>> \o Joined[texts] \o end
    BY <1>2, <2>1, <2>3 DEF ListText, Is
  <2>5. /\ <<p>> \o Joined[texts] \o end \in Text /\ <<p>> \o Joined[texts] \o end # <<>>
        /\ First(<<p>> \o Joined[texts] \o end) = p
    BY <2>2, Framed
  <2>6. QED
    BY <2>1, <2>4, <2>5 DEF Is
<1>3. QED
  BY <1>1, <1>2

\* and so does an object.
LEMMA ObjectTextIs ==
  ASSUME NEW texts \in Seq(Text)
  PROVE  ObjectText(texts) \in Text /\ ObjectText(texts) # <<>> /\ First(ObjectText(texts)) = "("
<1>1. CASE texts = <<>>
  BY <1>1, PairsAreText DEF ObjectText
<1>2. CASE texts # <<>>
  <2>1. PICK p \in Character : Is(p, "(")
    BY Tokens DEF Is
  <2>2. Joined[texts] \in Text /\ <<")">> \in Text
    BY JoinedIs, Tokens
  <2>3. PICK end \in Text : end = <<")">>
    BY <2>2
  <2>4. ObjectText(texts) = <<p>> \o Joined[texts] \o end
    BY <1>2, <2>1, <2>3 DEF ObjectText, Is
  <2>5. /\ <<p>> \o Joined[texts] \o end \in Text /\ <<p>> \o Joined[texts] \o end # <<>>
        /\ First(<<p>> \o Joined[texts] \o end) = p
    BY <2>2, Framed
  <2>6. QED
    BY <2>1, <2>4, <2>5 DEF Is
<1>3. QED
  BY <1>1, <1>2

\* A string is escaped, or it is over the limit.
LEMMA EscapeStringIs ==
  ASSUME NEW text \in Text, NEW subject
  PROVE  /\ ~Big(text) => EscapeString(text, subject) = Done(Translate[text])
         /\ Big(text) => EscapeString(text, subject)
                           = Raise([path |-> <<>>, subject |-> subject, size |-> ByteSize(text)])
BY DEF EscapeString, Big, TooLarge

\* The child that raised, or the texts of all of them.
LEMMA CombinedIs ==
  ASSUME NEW n \in Nat, NEW c, DOMAIN c = 1..n
  PROVE  /\ \/ /\ \A i \in 1..n : c[i].error = <<>>
               /\ Combined(c, ListText) = Done(ListText([i \in 1..n |-> c[i].text]))
            \/ \E i \in 1..n : c[i].error # <<>> /\ Combined(c, ListText) = c[i]
         /\ \/ /\ \A i \in 1..n : c[i].error = <<>>
               /\ Combined(c, ObjectText) = Done(ObjectText([i \in 1..n |-> c[i].text]))
            \/ \E i \in 1..n : c[i].error # <<>> /\ Combined(c, ObjectText) = c[i]
<1>1. CASE Failed(c) = {}
  BY <1>1 DEF Failed, Combined
<1>2. CASE Failed(c) # {}
  <2>1. Failed(c) \subseteq Nat
    BY DEF Failed
  <2>2. \E x \in Failed(c) : \A y \in Failed(c) : x <= y
    BY <1>2, <2>1, Translating!LeastExists
  <2>3. Min(Failed(c)) \in Failed(c)
    BY <2>2 DEF Min
  <2>4. PICK i \in Failed(c) : i = Min(Failed(c))
    BY <2>3
  <2>5. i \in 1..n /\ c[i].error # <<>>
    BY DEF Failed
  <2>6. Combined(c, ListText) = c[i] /\ Combined(c, ObjectText) = c[i]
    BY <1>2, <2>4 DEF Combined
  <2>7. QED
    BY <2>5, <2>6
<1>3. QED
  BY <1>1, <1>2

\* A frame changes nothing but the path of an error.
LEMMA UnderIs ==
  ASSUME NEW segment, NEW r
  PROVE  /\ r.error = <<>> => Under(segment, r) = r
         /\ r.error # <<>> => /\ Under(segment, r).error # <<>>
                              /\ Under(segment, r).text = <<>>
                              /\ \A found : r.error[1] \in found =>
                                   Under(segment, r).error[1] \in Below(segment, found)
BY DEF Under, Raise, Below

JsonToTypstBody(f, value) ==
  CASE value[1] = "atom"   -> Done(<<value[2]>>)
    [] value[1] = "string" -> QuotedString(value[2])
    [] value[1] = "list"   ->
         Combined([i \in DOMAIN value[2] |-> Under(Index(i), f[value[2][i]])], ListText)
    [] OTHER ->
         Combined([i \in DOMAIN value[2] |-> Part(value[2][i][1], f[value[2][i][2]])], ObjectText)

\* An error is of a string over the limit; without one there is none, and the text
\* is that of a value.
Outcome(value, r) ==
  /\ r.text \in Text
  /\ r.error = <<>> => /\ Offending[value] = {} /\ r.text # <<>>
                       /\ First(r.text) \in Word \cup {"quote", "("}
  /\ r.error # <<>> => r.error[1] \in Offending[value]

Writing == INSTANCE Recursion
  WITH Domain <- Value, Measure <- DepthOf, Body <- JsonToTypstBody, Fits <- Outcome

\* An atom is written.
LEMMA AtomOutcome ==
  ASSUME NEW v \in Value, IsAtom(v)
  PROVE  Outcome(v, Done(<<v[2]>>))
<1>1. v[1] = "atom" /\ v[2] \in Word
  BY Kinds
<1>2. <<v[2]>> \in Text
  BY <1>1, Tokens
<1>3. Offending[v] = {}
  BY <1>1, OffendingIs DEF OffendingBody
<1>4. <<v[2]>> # <<>> /\ First(<<v[2]>>) = v[2]
  BY DEF First
<1>5. QED
  BY <1>1, <1>2, <1>3, <1>4 DEF Outcome, Done

\* A string is written in quotes, or it is the one over the limit.
LEMMA StringOutcome ==
  ASSUME NEW v \in Value, IsString(v)
  PROVE  Outcome(v, QuotedString(v[2]))
<1>1. v[1] = "string" /\ v[2] \in Text
  BY Kinds
<1>2. Offending[v] = Oversized(v[2], <<>>, "value")
  BY <1>1, OffendingIs DEF OffendingBody
<1>3. CASE Big(v[2])
  <2> DEFINE e == [path |-> <<>>, subject |-> "value", size |-> ByteSize(v[2])]
  <2>1. EscapeString(v[2], "value") = Raise(e)
    BY <1>1, <1>3, EscapeStringIs
  <2>2. e \in Offending[v]
    BY <1>2, <1>3 DEF Oversized
  <2> HIDE DEF e
  <2>3. QuotedString(v[2]) = Raise(e)
    BY <2>1 DEF QuotedString, Raise
  <2>4. <<>> \in Text
    BY DEF Text
  <2>5. QED
    BY <2>2, <2>3, <2>4 DEF Raise, Outcome
<1>4. CASE ~Big(v[2])
  <2>1. EscapeString(v[2], "value") = Done(Translate[v[2]])
    BY <1>1, <1>4, EscapeStringIs
  <2>2. QuotedString(v[2]) = Done(Quoted(Translate[v[2]]))
    BY <2>1 DEF QuotedString, Done
  <2>3. Offending[v] = {}
    BY <1>2, <1>4 DEF Oversized
  <2>4. Translate[v[2]] \in Text
    BY <1>1, TranslateIs
  <2>5. QED
    BY <2>2, <2>3, <2>4, QuotedIs DEF Done, Outcome
<1>5. QED
  BY <1>3, <1>4

\* A path of one segment.
LEMMA OneSegment == \A x : <<x>> \o <<>> = <<x>>
OBVIOUS

\* Where nothing is over the limit, nothing is below a segment.
LEMMA NothingBelow == \A segment : Below(segment, {}) = {}
BY DEF Below

\* One child, and what is found in it.
ChildOutcome(r, found) ==
  /\ r.text \in Text
  /\ r.error = <<>> => found = {}
  /\ r.error # <<>> => r.error[1] \in found

\* An error under a frame leads to what was found below it.
LEMMA UnderOutcome ==
  ASSUME NEW r, NEW found, ChildOutcome(r, found), NEW segment
  PROVE  ChildOutcome(Under(segment, r), Below(segment, found))
<1>1. CASE r.error = <<>>
  BY <1>1, UnderIs, NothingBelow DEF ChildOutcome
<1>2. CASE r.error # <<>>
  <2>1. <<>> \in Text
    BY DEF Text
  <2>2. QED
    BY <1>2, <2>1, UnderIs DEF ChildOutcome
<1>3. QED
  BY <1>1, <1>2

\* An entry begins with the quote of its key.
LEMMA PartTextIs ==
  ASSUME NEW key \in Text, NEW text \in Text
  PROVE  /\ Quoted(Translate[key]) \o <<":">> \o text \in Text
         /\ Quoted(Translate[key]) \o <<":">> \o text # <<>>
         /\ First(Quoted(Translate[key]) \o <<":">> \o text) = "quote"
<1>1. PICK q \in Text : q = Quoted(Translate[key])
  BY TranslateIs, QuotedIs
<1>2. q # <<>> /\ First(q) = "quote"
  BY <1>1, TranslateIs, QuotedIs
<1>3. PICK m \in Text : m = <<":">>
  BY Tokens
<1>4. q \o m \o text \in Text /\ q \o m \o text = q \o (m \o text) /\ m \o text \in Text
  BY JoinedText, Associative
<1>5. ASSUME NEW w \in Text PROVE q \o w # <<>> /\ First(q \o w) = First(q)
  <2>1. q \o w \in Text /\ Len(q) > 0 /\ Len(q) \in Nat /\ Len(q \o w) = Len(q) + Len(w) /\ Len(w) \in Nat
    BY <1>2, JoinedText DEF Text
  <2>2. (q \o w)[1] = q[1]
    BY <2>1, ConcatProperties DEF Text
  <2>3. q \o w # <<>>
    BY <2>1
  <2>4. Head(q \o w) = (q \o w)[1] /\ Head(q) = q[1]
    BY <1>2, <2>1, <2>3 DEF Text
  <2>5. QED
    BY <1>2, <2>2, <2>3, <2>4 DEF First
<1>6. QED
  BY <1>1, <1>2, <1>3, <1>4, <1>5

\* What Part makes of an entry: the key is looked at before the value.
LEMMA PartIs ==
  ASSUME NEW key \in Text, NEW r
  PROVE  /\ Big(key) => /\ Part(key, r).error = <<[path |-> <<Key(key)>>, subject |-> "key",
                                                    size |-> ByteSize(key)]>>
                        /\ Part(key, r).text = <<>>
         /\ ~Big(key) /\ r.error # <<>> => Part(key, r) = Under(Key(key), r)
         /\ ~Big(key) /\ r.error = <<>> =>
              Part(key, r) = Done(Quoted(Translate[key]) \o <<":">> \o r.text)
<1> DEFINE k == EscapeString(key, "key")
<1>1. CASE Big(key)
  <2>1. k = Raise([path |-> <<>>, subject |-> "key", size |-> ByteSize(key)])
    BY <1>1, EscapeStringIs
  <2>2. k.error = <<[path |-> <<>>, subject |-> "key", size |-> ByteSize(key)]>>
    BY <2>1 DEF Raise
  <2> HIDE DEF k
  <2>3. k.error # <<>> /\ k.error[1] = [path |-> <<>>, subject |-> "key", size |-> ByteSize(key)]
    BY <2>2
  <2>4. Part(key, r) = Under(Key(key), k)
    BY <2>3 DEF Part, k
  <2>5. Part(key, r) = Raise([k.error[1] EXCEPT !.path = <<Key(key)>> \o @])
    BY <2>3, <2>4 DEF Under
  <2>6. [k.error[1] EXCEPT !.path = <<Key(key)>> \o @]
          = [path |-> <<Key(key)>>, subject |-> "key", size |-> ByteSize(key)]
    BY <2>3, OneSegment
  <2>7. QED
    BY <1>1, <2>5, <2>6 DEF Raise
<1>2. CASE ~Big(key)
  <2>1. k = Done(Translate[key])
    BY <1>2, EscapeStringIs
  <2>2. k.error = <<>> /\ k.text = Translate[key]
    BY <2>1 DEF Done
  <2> HIDE DEF k
  <2>3. CASE r.error # <<>>
    BY <1>2, <2>2, <2>3 DEF Part, k
  <2>4. CASE r.error = <<>>
    <3> DEFINE d == Done(Quoted(Translate[key]) \o <<":">> \o r.text)
    <3>1. Part(key, r) = Under(Key(key), d)
      BY <2>2, <2>4 DEF Part, k
    <3>2. d.error = <<>>
      BY DEF Done
    <3> HIDE DEF d
    <3>3. Part(key, r) = d
      BY <3>1, <3>2, UnderIs
    <3>4. QED
      BY <1>2, <2>4, <3>3 DEF d
  <2>5. QED
    BY <2>3, <2>4
<1>3. QED
  BY <1>1, <1>2

\* An error of an entry leads to its key or to what was found in its value.
LEMMA PartOutcome ==
  ASSUME NEW r, NEW found, ChildOutcome(r, found), NEW key \in Text
  PROVE  ChildOutcome(Part(key, r), OversizedIn(key, found))
<1>0. <<>> \in Text
  BY DEF Text
<1>1. CASE Big(key)
  <2> DEFINE e == [path |-> <<Key(key)>>, subject |-> "key", size |-> ByteSize(key)]
  <2>1. e \in OversizedIn(key, found)
    BY <1>1 DEF OversizedIn, Oversized
  <2> HIDE DEF e
  <2>2. Part(key, r).error = <<e>> /\ Part(key, r).text = <<>>
    BY <1>1, PartIs DEF e
  <2>3. QED
    BY <1>0, <2>1, <2>2 DEF ChildOutcome
<1>2. CASE ~Big(key)
  <2>1. OversizedIn(key, found) = Below(Key(key), found)
    BY <1>2 DEF OversizedIn, Oversized
  <2>2. CASE r.error # <<>>
    BY <1>2, <2>1, <2>2, PartIs, UnderOutcome
  <2>3. CASE r.error = <<>>
    <3>1. Part(key, r) = Done(Quoted(Translate[key]) \o <<":">> \o r.text)
      BY <1>2, <2>3, PartIs
    <3>2. Quoted(Translate[key]) \o <<":">> \o r.text \in Text
      BY PartTextIs DEF ChildOutcome
    <3>3. OversizedIn(key, found) = {}
      BY <2>1, <2>3, NothingBelow DEF ChildOutcome
    <3>4. QED
      BY <3>1, <3>2, <3>3 DEF Done, ChildOutcome
  <2>4. QED
    BY <2>2, <2>3
<1>3. QED
  BY <1>1, <1>2

\* What comes of a list or an object whose children are as they should be.
LEMMA CombinedOutcome ==
  ASSUME NEW n \in Nat, NEW c, DOMAIN c = 1..n, NEW F, DOMAIN F = 1..n,
         \A i \in 1..n : ChildOutcome(c[i], F[i])
  PROVE  \A r \in {Combined(c, ListText), Combined(c, ObjectText)} :
           /\ r.text \in Text
           /\ r.error = <<>> => /\ \A i \in 1..n : F[i] = {}
                                /\ r.text # <<>> /\ First(r.text) = "("
           /\ r.error # <<>> => \E i \in 1..n : r.error[1] \in F[i]
<1> DEFINE ts == [i \in 1..n |-> c[i].text]
<1>1. ts \in Seq(Text)
  BY DEF ChildOutcome
<1> HIDE DEF ts
<1>2. /\ ListText(ts) \in Text /\ ListText(ts) # <<>> /\ First(ListText(ts)) = "("
      /\ ObjectText(ts) \in Text /\ ObjectText(ts) # <<>> /\ First(ObjectText(ts)) = "("
  BY <1>1, ListTextIs, ObjectTextIs
<1>3. ASSUME NEW i \in 1..n, c[i].error # <<>>
      PROVE  c[i].text \in Text /\ c[i].error[1] \in F[i]
  BY <1>3 DEF ChildOutcome
<1>4. ASSUME \A i \in 1..n : c[i].error = <<>>
      PROVE  \A i \in 1..n : F[i] = {}
  BY <1>4 DEF ChildOutcome
<1>5. ASSUME NEW r, NEW text \in Text, text # <<>>, First(text) = "(",
             \/ (\A i \in 1..n : c[i].error = <<>>) /\ r = Done(text)
             \/ \E i \in 1..n : c[i].error # <<>> /\ r = c[i]
      PROVE  /\ r.text \in Text
             /\ r.error = <<>> => /\ \A i \in 1..n : F[i] = {}
                                  /\ r.text # <<>> /\ First(r.text) = "("
             /\ r.error # <<>> => \E i \in 1..n : r.error[1] \in F[i]
  <2>1. CASE (\A i \in 1..n : c[i].error = <<>>) /\ r = Done(text)
    BY <1>4, <1>5, <2>1 DEF Done
  <2>2. CASE \E i \in 1..n : c[i].error # <<>> /\ r = c[i]
    BY <1>3, <2>2
  <2>3. QED
    BY <1>5, <2>1, <2>2
<1>6. /\ \/ (\A i \in 1..n : c[i].error = <<>>) /\ Combined(c, ListText) = Done(ListText(ts))
         \/ \E i \in 1..n : c[i].error # <<>> /\ Combined(c, ListText) = c[i]
      /\ \/ (\A i \in 1..n : c[i].error = <<>>) /\ Combined(c, ObjectText) = Done(ObjectText(ts))
         \/ \E i \in 1..n : c[i].error # <<>> /\ Combined(c, ObjectText) = c[i]
  BY CombinedIs DEF ts
<1>7. QED
  BY <1>2, <1>5, <1>6

\* A list is written, or its error leads to a string in one of its items;
LEMMA ListOutcome ==
  ASSUME NEW v \in Value, IsList(v), NEW f,
         \A i \in DOMAIN v[2] : Outcome(v[2][i], f[v[2][i]])
  PROVE  Outcome(v, Combined([i \in DOMAIN v[2] |-> Under(Index(i), f[v[2][i]])], ListText))
<1>1. v[1] = "list" /\ v[2] \in Seq(Value)
  BY Kinds
<1>2. PICK n \in Nat : DOMAIN v[2] = 1..n
  BY <1>1
<1> DEFINE c == [i \in 1..n |-> Under(Index(i), f[v[2][i]])]
           F == [i \in 1..n |-> Below(Index(i), Offending[v[2][i]])]
           r == Combined(c, ListText)
<1>3. \A i \in 1..n : ChildOutcome(c[i], F[i])
  <2>1. ASSUME NEW i \in 1..n PROVE ChildOutcome(f[v[2][i]], Offending[v[2][i]])
    BY <1>2 DEF Outcome, ChildOutcome
  <2>2. QED
    BY <2>1, UnderOutcome
<1>4. Offending[v] = UNION {F[i] : i \in 1..n}
  <2>1. Offending[v] = UNION {Below(Index(i), Offending[v[2][i]]) : i \in DOMAIN v[2]}
    BY <1>1, OffendingIs DEF OffendingBody
  <2>2. \A i \in 1..n : F[i] = Below(Index(i), Offending[v[2][i]])
    OBVIOUS
  <2> HIDE DEF F
  <2>3. {F[i] : i \in 1..n} = {Below(Index(i), Offending[v[2][i]]) : i \in 1..n}
    BY <2>2
  <2>4. QED
    BY <1>2, <2>1, <2>3
<1>5. DOMAIN c = 1..n /\ DOMAIN F = 1..n
  OBVIOUS
<1> HIDE DEF c, F
<1>6. /\ r.text \in Text
      /\ r.error = <<>> => /\ \A i \in 1..n : F[i] = {}
                           /\ r.text # <<>> /\ First(r.text) = "("
      /\ r.error # <<>> => \E i \in 1..n : r.error[1] \in F[i]
  BY <1>3, <1>5, CombinedOutcome
<1> HIDE DEF r
<1>7. Outcome(v, r)
  BY <1>4, <1>6 DEF Outcome
<1>8. QED
  BY <1>2, <1>7 DEF r, c

\* an object, to one of its keys or to a string in one of its values.
LEMMA ObjectOutcome ==
  ASSUME NEW v \in Value, IsObject(v), NEW f,
         \A i \in DOMAIN v[2] : Outcome(v[2][i][2], f[v[2][i][2]])
  PROVE  Outcome(v, Combined([i \in DOMAIN v[2] |-> Part(v[2][i][1], f[v[2][i][2]])], ObjectText))
<1>1. v[1] = "object" /\ v[2] \in Seq(Text \X Value)
  BY Kinds
<1>2. PICK n \in Nat : DOMAIN v[2] = 1..n
  BY <1>1
<1> DEFINE c == [i \in 1..n |-> Part(v[2][i][1], f[v[2][i][2]])]
           F == [i \in 1..n |-> OversizedIn(v[2][i][1], Offending[v[2][i][2]])]
           r == Combined(c, ObjectText)
<1>3. \A i \in 1..n : ChildOutcome(c[i], F[i])
  <2>1. ASSUME NEW i \in 1..n
        PROVE  ChildOutcome(f[v[2][i][2]], Offending[v[2][i][2]]) /\ v[2][i][1] \in Text
    BY <1>2, Kinds DEF Outcome, ChildOutcome
  <2>2. QED
    BY <2>1, PartOutcome
<1>4. Offending[v] = UNION {F[i] : i \in 1..n}
  <2>1. Offending[v] = UNION {OversizedIn(v[2][i][1], Offending[v[2][i][2]]) : i \in DOMAIN v[2]}
    BY <1>1, OffendingIs DEF OffendingBody
  <2>2. \A i \in 1..n : F[i] = OversizedIn(v[2][i][1], Offending[v[2][i][2]])
    OBVIOUS
  <2> HIDE DEF F
  <2>3. {F[i] : i \in 1..n} = {OversizedIn(v[2][i][1], Offending[v[2][i][2]]) : i \in 1..n}
    BY <2>2
  <2>4. QED
    BY <1>2, <2>1, <2>3
<1>5. DOMAIN c = 1..n /\ DOMAIN F = 1..n
  OBVIOUS
<1> HIDE DEF c, F
<1>6. /\ r.text \in Text
      /\ r.error = <<>> => /\ \A i \in 1..n : F[i] = {}
                           /\ r.text # <<>> /\ First(r.text) = "("
      /\ r.error # <<>> => \E i \in 1..n : r.error[1] \in F[i]
  BY <1>3, <1>5, CombinedOutcome
<1> HIDE DEF r
<1>7. Outcome(v, r)
  BY <1>4, <1>6 DEF Outcome
<1>8. QED
  BY <1>2, <1>7 DEF r, c

\* What the walk makes of a value, and that its error leads to a string that is
\* over the limit, while there is none in what it writes.
LEMMA JsonToTypstIs ==
  ASSUME NEW value \in Value
  PROVE  /\ JsonToTypst[value] = JsonToTypstBody(JsonToTypst, value)
         /\ Outcome(value, JsonToTypst[value])
<1>1. Writing!Measured
  BY DepthIsMeasure DEF Writing!Measured
<1>2. Writing!LooksDown
  <2> SUFFICES ASSUME NEW x \in Value, NEW f, NEW g, Writing!Agree(f, g, DepthOf(x)),
                      Writing!FitsBelow(f, DepthOf(x))
               PROVE  /\ JsonToTypstBody(f, x) = JsonToTypstBody(g, x)
                      /\ Outcome(x, JsonToTypstBody(f, x))
    BY DEF Writing!LooksDown
  <2>1. \A y \in Value : DepthOf(y) < DepthOf(x) => f[y] = g[y] /\ Outcome(y, f[y])
    BY DEF Writing!Agree, Writing!FitsBelow, Writing!Upto
  <2>2. CASE IsAtom(x)
    BY <2>2, Kinds, AtomOutcome DEF JsonToTypstBody
  <2>3. CASE IsString(x)
    BY <2>3, Kinds, StringOutcome DEF JsonToTypstBody
  <2>4. CASE IsList(x)
    <3>1. /\ x[1] = "list"
          /\ \A i \in DOMAIN x[2] : f[x[2][i]] = g[x[2][i]] /\ Outcome(x[2][i], f[x[2][i]])
      BY <2>1, <2>4, Kinds
    <3>2. [i \in DOMAIN x[2] |-> Under(Index(i), f[x[2][i]])]
            = [i \in DOMAIN x[2] |-> Under(Index(i), g[x[2][i]])]
      BY <3>1
    <3>3. /\ JsonToTypstBody(f, x)
               = Combined([i \in DOMAIN x[2] |-> Under(Index(i), f[x[2][i]])], ListText)
          /\ JsonToTypstBody(g, x)
               = Combined([i \in DOMAIN x[2] |-> Under(Index(i), g[x[2][i]])], ListText)
      BY <3>1 DEF JsonToTypstBody
    <3>4. QED
      BY <2>4, <3>1, <3>2, <3>3, ListOutcome
  <2>5. CASE IsObject(x)
    <3>1. /\ x[1] = "object"
          /\ \A i \in DOMAIN x[2] : f[x[2][i][2]] = g[x[2][i][2]] /\ Outcome(x[2][i][2], f[x[2][i][2]])
      BY <2>1, <2>5, Kinds
    <3>2. [i \in DOMAIN x[2] |-> Part(x[2][i][1], f[x[2][i][2]])]
            = [i \in DOMAIN x[2] |-> Part(x[2][i][1], g[x[2][i][2]])]
      BY <3>1
    <3>3. /\ JsonToTypstBody(f, x)
               = Combined([i \in DOMAIN x[2] |-> Part(x[2][i][1], f[x[2][i][2]])], ObjectText)
          /\ JsonToTypstBody(g, x)
               = Combined([i \in DOMAIN x[2] |-> Part(x[2][i][1], g[x[2][i][2]])], ObjectText)
      BY <3>1 DEF JsonToTypstBody
    <3>4. QED
      BY <2>5, <3>1, <3>2, <3>3, ObjectOutcome
  <2>6. QED
    BY <2>2, <2>3, <2>4, <2>5, Kinds
<1>3. JsonToTypst = CHOOSE f : f = [x \in Value |-> JsonToTypstBody(f, x)]
  BY DEF JsonToTypst, JsonToTypstBody
<1>4. QED
  BY <1>1, <1>2, <1>3, Writing!Defined

-----------------------------------------------------------------------------
(* What Typst reads *)

\* The item in front of a text, with the key it has.
Keyed(head) == First(head.rest) = ":" /\ head.value[1] = "string"

ItemIn(f, src) ==
  IF Keyed(f[<<"value", src>>]) THEN f[<<"value", Tail(f[<<"value", src>>].rest)>>]
                                ELSE f[<<"value", src>>]

EntryIn(f, src) ==
  [key |-> IF Keyed(f[<<"value", src>>]) THEN <<f[<<"value", src>>].value[2]>> ELSE <<>>,
   value |-> ItemIn(f, src).value]

ItemsIn(f, src) ==
  CASE First(ItemIn(f, src).rest) = "," ->
         Items(<<EntryIn(f, src)>> \o f[<<"items", Tail(ItemIn(f, src).rest)>>].items,
               f[<<"items", Tail(ItemIn(f, src).rest)>>].comma,
               f[<<"items", Tail(ItemIn(f, src).rest)>>].rest)
    [] First(ItemIn(f, src).rest) = ")" ->
         Items(<<EntryIn(f, src)>>, FALSE, Tail(ItemIn(f, src).rest))
    [] OTHER -> Items(<<[EntryIn(f, src) EXCEPT !.value = Error]>>, FALSE, ItemIn(f, src).rest)

HeldIn(f, src) ==
  Read(Parenthesised(f[<<"items", Tail(src)>>].items, f[<<"items", Tail(src)>>].comma),
       f[<<"items", Tail(src)>>].rest)

\* What a value may begin with, and what is read then.
IsEmptyList(src)   == IsPrefix(<<"(", ")">>, src)
IsEmptyObject(src) == IsPrefix(<<"(", ":", ")">>, src)
Opens(src)         == First(src) = "(" /\ First(Tail(src)) \notin {")", ":"}

StringAt(src)      == ReadString[Tail(src)]
AtomAt(src)        == Read(Atom(First(src)), Tail(src))
EmptyListAt(src)   == Read(List(<<>>), Tail(Tail(src)))
EmptyObjectAt(src) == Read(Object(<<>>), After(src, 3))
UnknownAt(src)     == Read(Error, After(src, 1))
NoItemsAt(src)     == Items(<<>>, TRUE, Tail(src))

ReadingBody(f, p) ==
  CASE p[1] = "value" /\ First(p[2]) = "quote" -> StringAt(p[2])
    [] p[1] = "value" /\ First(p[2]) \in {"none", "true", "1"} -> AtomAt(p[2])
    [] p[1] = "value" /\ IsEmptyList(p[2]) -> EmptyListAt(p[2])
    [] p[1] = "value" /\ IsEmptyObject(p[2]) -> EmptyObjectAt(p[2])
    [] p[1] = "value" /\ Opens(p[2]) -> HeldIn(f, p[2])
    [] p[1] = "items" /\ First(p[2]) = ")" -> NoItemsAt(p[2])
    [] p[1] = "items" /\ First(p[2]) # ")" -> ItemsIn(f, p[2])
    [] OTHER -> UnknownAt(p[2])

ToRead == {"value", "items"} \X Text

LeftToRead(p) == 2 * Len(p[2]) + (IF p[1] = "items" THEN 1 ELSE 0)

WithinText(p, r) == Shorter(p[2], r)

Parsing == INSTANCE Recursion
  WITH Domain <- ToRead, Measure <- LeftToRead, Body <- ReadingBody, Fits <- WithinText

\* What is behind a character is shorter.
LEMMA ShorterTail ==
  ASSUME NEW src \in Text, NEW r, Shorter(src, r), First(r.rest) # "end"
  PROVE  Tail(r.rest) \in Text /\ Len(Tail(r.rest)) < Len(src)
<1>1. r.rest # <<>> /\ r.rest \in Text /\ Len(r.rest) <= Len(src)
  BY DEF Shorter, First
<1>2. Tail(r.rest) \in Text /\ Len(Tail(r.rest)) = Len(r.rest) - 1
  BY <1>1, InFrontOf
<1>3. Len(src) \in Nat /\ Len(r.rest) \in Nat
  BY <1>1 DEF Text
<1>4. QED
  BY <1>1, <1>2, <1>3

\* The items of a text look at its value, and at what is shorter than the text.
LEMMA ItemsLookDown ==
  ASSUME NEW src \in Text, NEW f, NEW g,
         f[<<"value", src>>] = g[<<"value", src>>], Shorter(src, f[<<"value", src>>]),
         \A t \in Text : Len(t) < Len(src) =>
           /\ f[<<"value", t>>] = g[<<"value", t>>] /\ Shorter(t, f[<<"value", t>>])
           /\ f[<<"items", t>>] = g[<<"items", t>>] /\ Shorter(t, f[<<"items", t>>])
  PROVE  ItemsIn(f, src) = ItemsIn(g, src) /\ Shorter(src, ItemsIn(f, src))
<1>1. PICK v : v = f[<<"value", src>>] /\ v = g[<<"value", src>>] /\ Shorter(src, v)
  OBVIOUS
<1>2. PICK i : i = ItemIn(f, src) /\ i = ItemIn(g, src) /\ Shorter(src, i)
  <2>1. CASE Keyed(v)
    <3>1. First(v.rest) # "end"
      BY <2>1 DEF Keyed
    <3>2. Tail(v.rest) \in Text /\ Len(Tail(v.rest)) < Len(src)
      BY <1>1, <3>1, ShorterTail
    <3>3. /\ f[<<"value", Tail(v.rest)>>] = g[<<"value", Tail(v.rest)>>]
          /\ Shorter(Tail(v.rest), f[<<"value", Tail(v.rest)>>])
      BY <3>2
    <3>4. Shorter(src, f[<<"value", Tail(v.rest)>>])
      BY <3>2, <3>3 DEF Shorter, Text
    <3>5. QED
      BY <1>1, <2>1, <3>3, <3>4 DEF ItemIn
  <2>2. CASE ~Keyed(v)
    BY <1>1, <2>2 DEF ItemIn
  <2>3. QED
    BY <2>1, <2>2
<1>3. PICK e : e = EntryIn(f, src) /\ e = EntryIn(g, src)
  BY <1>1, <1>2 DEF EntryIn
<1>4. CASE First(i.rest) = ","
  <2>1. Tail(i.rest) \in Text /\ Len(Tail(i.rest)) < Len(src)
    BY <1>2, <1>4, ShorterTail
  <2>2. PICK m : /\ m = f[<<"items", Tail(i.rest)>>] /\ m = g[<<"items", Tail(i.rest)>>]
                 /\ Shorter(Tail(i.rest), m)
    BY <2>1
  <2>3. /\ ItemsIn(f, src) = Items(<<e>> \o m.items, m.comma, m.rest)
        /\ ItemsIn(g, src) = Items(<<e>> \o m.items, m.comma, m.rest)
    BY <1>2, <1>3, <1>4, <2>2 DEF ItemsIn
  <2>4. Shorter(src, Items(<<e>> \o m.items, m.comma, m.rest))
    BY <2>1, <2>2 DEF Shorter, Items, Text
  <2>5. QED
    BY <2>3, <2>4
<1>5. CASE First(i.rest) = ")"
  <2>1. Tail(i.rest) \in Text /\ Len(Tail(i.rest)) < Len(src)
    BY <1>2, <1>5, ShorterTail
  <2>2. /\ ItemsIn(f, src) = Items(<<e>>, FALSE, Tail(i.rest))
        /\ ItemsIn(g, src) = Items(<<e>>, FALSE, Tail(i.rest))
    BY <1>2, <1>3, <1>5 DEF ItemsIn
  <2>3. Shorter(src, Items(<<e>>, FALSE, Tail(i.rest)))
    BY <2>1 DEF Shorter, Items, Text
  <2>4. QED
    BY <2>2, <2>3
<1>6. CASE First(i.rest) \notin {",", ")"}
  <2>1. /\ ItemsIn(f, src) = Items(<<[e EXCEPT !.value = Error]>>, FALSE, i.rest)
        /\ ItemsIn(g, src) = Items(<<[e EXCEPT !.value = Error]>>, FALSE, i.rest)
    BY <1>2, <1>3, <1>6 DEF ItemsIn
  <2>2. Shorter(src, Items(<<[e EXCEPT !.value = Error]>>, FALSE, i.rest))
    BY <1>2 DEF Shorter, Items
  <2>3. QED
    BY <2>1, <2>2
<1>7. QED
  BY <1>4, <1>5, <1>6

\* What is behind each of the shapes an expression can begin with is shorter.
LEMMA ShapesAreShorter ==
  ASSUME NEW src \in Text
  PROVE  /\ First(src) = "quote" => Shorter(src, StringAt(src))
         /\ First(src) \in {"none", "true", "1"} => Shorter(src, AtomAt(src))
         /\ IsEmptyList(src) => Shorter(src, EmptyListAt(src))
         /\ Shorter(src, EmptyObjectAt(src))
         /\ Shorter(src, UnknownAt(src))
         /\ First(src) = ")" => Shorter(src, NoItemsAt(src))
<1>1. ASSUME src # <<>>
      PROVE  /\ Tail(src) \in Text /\ Len(Tail(src)) = Len(src) - 1
             /\ Len(src) \in Nat /\ Len(Tail(src)) \in Nat
  BY <1>1, InFrontOf DEF Text
<1>2. \A n \in {1, 3} : After(src, n) \in Text /\ Len(After(src, n)) <= Len(src)
  <2> SUFFICES ASSUME NEW n \in {1, 3}
               PROVE  After(src, n) \in Text /\ Len(After(src, n)) <= Len(src)
    OBVIOUS
  <2>1. n \in Nat /\ Len(src) \in Nat
    BY DEF Text
  <2>2. After(src, n) \in Text /\ Len(After(src, n)) = IF n <= Len(src) THEN Len(src) - n ELSE 0
    BY <2>1, AfterText
  <2>3. QED
    BY <2>1, <2>2
<1>3. Shorter(src, EmptyObjectAt(src)) /\ Shorter(src, UnknownAt(src))
  BY <1>2 DEF Shorter, Read, EmptyObjectAt, UnknownAt
<1>4. First(src) # "end" => src # <<>>
  BY DEF First
<1>5. ASSUME src # <<>>
      PROVE  /\ Shorter(src, StringAt(src)) /\ Shorter(src, AtomAt(src))
             /\ Shorter(src, NoItemsAt(src))
  <2>0. Tail(src) \in Text /\ Len(Tail(src)) <= Len(src)
    <3>1. /\ Tail(src) \in Text /\ Len(Tail(src)) = Len(src) - 1
          /\ Len(src) \in Nat /\ Len(Tail(src)) \in Nat
      BY <1>1, <1>5
    <3>2. QED
      BY <3>1
  <2>1. PICK t \in Text : t = Tail(src) /\ Len(t) <= Len(src)
    BY <2>0
  <2>2. PICK r : r = ReadString[t] /\ Shorter(t, r)
    BY ReadStringIs
  <2>3. Len(t) \in Nat /\ Len(src) \in Nat
    BY DEF Text
  <2>4. Shorter(src, r)
    <3>1. r.rest \in Text /\ Len(r.rest) <= Len(t) /\ Len(r.rest) \in Nat
      BY <2>2 DEF Shorter, Text
    <3>2. QED
      BY <2>1, <2>3, <3>1 DEF Shorter
  <2>5. QED
    BY <2>1, <2>2, <2>4 DEF Shorter, Read, Items, StringAt, AtomAt, NoItemsAt
<1>6. ASSUME IsEmptyList(src) PROVE Shorter(src, EmptyListAt(src))
  <2>1. Len(src) \in Nat /\ Len(src) >= 2
    <3>1. Len(<<"(", ")">>) = 2
      OBVIOUS
    <3>2. Len(src) \in Nat
      BY DEF Text
    <3>3. QED
      BY <1>6, <3>1, <3>2 DEF IsEmptyList, IsPrefix
  <2>2. src # <<>>
    BY <2>1
  <2>3. PICK t \in Text : t = Tail(src) /\ Len(t) = Len(src) - 1
    BY <1>1, <2>2
  <2>4. t # <<>>
    BY <2>1, <2>3
  <2>5. Tail(t) \in Text /\ Len(Tail(t)) = Len(t) - 1
    BY <2>4, InFrontOf
  <2>6. Len(Tail(t)) <= Len(src)
    BY <2>1, <2>3, <2>5
  <2>7. QED
    BY <2>3, <2>5, <2>6 DEF Shorter, Read, EmptyListAt
<1>7. QED
  BY <1>3, <1>4, <1>5, <1>6

\* How Typst reads an expression or the items up to a parenthesis, and that it
\* reads on to the right.
LEMMA ReadingIs ==
  ASSUME NEW p \in ToRead
  PROVE  Reading[p] = ReadingBody(Reading, p) /\ Shorter(p[2], Reading[p])
<1>1. Parsing!Measured
  BY DEF Parsing!Measured, LeftToRead, ToRead, Text
<1>2. Parsing!LooksDown
  <2> SUFFICES ASSUME NEW x \in ToRead, NEW f, NEW g, Parsing!Agree(f, g, LeftToRead(x)),
                      Parsing!FitsBelow(f, LeftToRead(x))
               PROVE  /\ ReadingBody(f, x) = ReadingBody(g, x)
                      /\ Shorter(x[2], ReadingBody(f, x))
    BY DEF Parsing!LooksDown, WithinText
  <2>1. PICK src \in Text : src = x[2]
    BY DEF ToRead
  <2>2. x[1] \in {"value", "items"} /\ x = <<x[1], src>>
    BY <2>1 DEF ToRead
  <2>3. \A y \in ToRead : LeftToRead(y) < LeftToRead(x) => f[y] = g[y] /\ Shorter(y[2], f[y])
    BY DEF Parsing!Agree, Parsing!FitsBelow, Parsing!Upto, WithinText
  <2>4. ASSUME NEW t \in Text, Len(t) < Len(src)
        PROVE  /\ f[<<"value", t>>] = g[<<"value", t>>] /\ Shorter(t, f[<<"value", t>>])
               /\ f[<<"items", t>>] = g[<<"items", t>>] /\ Shorter(t, f[<<"items", t>>])
    <3>1. /\ <<"value", t>> \in ToRead /\ <<"items", t>> \in ToRead
          /\ LeftToRead(<<"value", t>>) = 2 * Len(t)
          /\ LeftToRead(<<"items", t>>) = 2 * Len(t) + 1
      BY DEF ToRead, LeftToRead
    <3>2. LeftToRead(x) >= 2 * Len(src) /\ LeftToRead(x) \in Nat
      BY <2>1, <2>2 DEF LeftToRead, Text
    <3>3. Len(t) \in Nat /\ Len(src) \in Nat
      BY DEF Text
    <3>4. /\ LeftToRead(<<"value", t>>) < LeftToRead(x)
          /\ LeftToRead(<<"items", t>>) < LeftToRead(x)
      BY <2>4, <3>1, <3>2, <3>3
    <3>5. QED
      BY <2>3, <3>1, <3>4
  <2>5. CASE x[1] = "items"
    <3>1. f[<<"value", src>>] = g[<<"value", src>>] /\ Shorter(src, f[<<"value", src>>])
      <4>1. /\ <<"value", src>> \in ToRead /\ LeftToRead(<<"value", src>>) = 2 * Len(src)
            /\ LeftToRead(x) = 2 * Len(src) + 1 /\ Len(src) \in Nat
        BY <2>1, <2>5 DEF ToRead, LeftToRead, Text
      <4>2. LeftToRead(<<"value", src>>) < LeftToRead(x)
        BY <4>1
      <4>3. QED
        BY <2>3, <4>1, <4>2
    <3>2. ItemsIn(f, src) = ItemsIn(g, src) /\ Shorter(src, ItemsIn(f, src))
      BY <2>4, <3>1, ItemsLookDown
    <3>3. CASE First(src) = ")"
      BY <2>1, <2>5, <3>3, ShapesAreShorter DEF ReadingBody
    <3>4. CASE First(src) # ")"
      BY <2>1, <2>5, <3>2, <3>4 DEF ReadingBody
    <3>5. QED
      BY <3>3, <3>4
  <2>6. CASE x[1] = "value"
    <3>1. CASE Opens(src)
      <4>1. src # <<>>
        BY <3>1 DEF First, Opens
      <4>2. Tail(src) \in Text /\ Len(Tail(src)) < Len(src) /\ Len(src) \in Nat /\ Len(Tail(src)) \in Nat
        BY <4>1, InFrontOf DEF Text
      <4>3. PICK h : /\ h = f[<<"items", Tail(src)>>] /\ h = g[<<"items", Tail(src)>>]
                     /\ Shorter(Tail(src), h)
        BY <2>4, <4>2
      <4>4. Shorter(src, h)
        <5>1. h.rest \in Text /\ Len(h.rest) <= Len(Tail(src)) /\ Len(h.rest) \in Nat
          BY <4>3 DEF Shorter, Text
        <5>2. QED
          BY <4>2, <5>1 DEF Shorter
      <4>5. HeldIn(f, src) = HeldIn(g, src) /\ Shorter(src, HeldIn(f, src))
        BY <4>3, <4>4 DEF HeldIn, Shorter, Read
      <4>6. QED
        BY <2>1, <2>6, <4>5, ShapesAreShorter DEF ReadingBody
    <3>2. CASE ~Opens(src)
      BY <2>1, <2>6, <3>2, ShapesAreShorter DEF ReadingBody
    <3>3. QED
      BY <3>1, <3>2
  <2>7. QED
    BY <2>2, <2>5, <2>6
<1>3. Reading = CHOOSE f : f = [x \in ToRead |-> ReadingBody(f, x)]
  BY DEF Reading, ReadingBody, HeldIn, ItemsIn, EntryIn, ItemIn, Keyed, ToRead,
     IsEmptyList, IsEmptyObject, Opens, StringAt, AtomAt, EmptyListAt, EmptyObjectAt, UnknownAt, NoItemsAt
<1>4. QED
  BY <1>1, <1>2, <1>3, Parsing!Defined DEF WithinText

-----------------------------------------------------------------------------
(* What the data comes to, and what its text is read as *)

CleanedBody(f, value) ==
  CASE value[1] = "atom"   -> value
    [] value[1] = "string" -> String(Kept[value[2]])
    [] value[1] = "list"   -> List([i \in DOMAIN value[2] |-> f[value[2][i]]])
    [] OTHER -> Object([i \in DOMAIN value[2] |-> <<Kept[value[2][i][1]], f[value[2][i][2]]>>])

IsValue(value, r) == r # Error

Cleaning == INSTANCE Recursion
  WITH Domain <- Value, Measure <- DepthOf, Body <- CleanedBody, Fits <- IsValue

\* No value is taken for an error.
LEMMA ShapesAreNoError ==
  /\ \A v \in Value : IsAtom(v) => v # Error
  /\ \A x : String(x) # Error /\ List(x) # Error /\ Object(x) # Error
BY DEF Error, String, List, Object, IsAtom

\* What is Cleaned of a value, and that it is not an error.
LEMMA CleanedIs ==
  ASSUME NEW value \in Value
  PROVE  Cleaned[value] = CleanedBody(Cleaned, value) /\ Cleaned[value] # Error
<1>1. Cleaning!Measured
  BY DepthIsMeasure DEF Cleaning!Measured
<1>2. Cleaning!LooksDown
  <2> SUFFICES ASSUME NEW x \in Value, NEW f, NEW g, Cleaning!Agree(f, g, DepthOf(x))
               PROVE  CleanedBody(f, x) = CleanedBody(g, x) /\ CleanedBody(f, x) # Error
    BY DEF Cleaning!LooksDown, IsValue
  <2>1. \A y \in Value : DepthOf(y) < DepthOf(x) => f[y] = g[y]
    BY DEF Cleaning!Agree, Cleaning!Upto
  <2>2. CASE IsAtom(x)
    BY <2>2, Kinds, ShapesAreNoError DEF CleanedBody
  <2>3. CASE IsString(x)
    BY <2>3, Kinds, ShapesAreNoError DEF CleanedBody
  <2>4. CASE IsList(x)
    <3>1. x[1] = "list" /\ \A i \in DOMAIN x[2] : f[x[2][i]] = g[x[2][i]]
      BY <2>1, <2>4, Kinds
    <3>2. [i \in DOMAIN x[2] |-> f[x[2][i]]] = [i \in DOMAIN x[2] |-> g[x[2][i]]]
      BY <3>1
    <3>3. /\ CleanedBody(f, x) = List([i \in DOMAIN x[2] |-> f[x[2][i]]])
          /\ CleanedBody(g, x) = List([i \in DOMAIN x[2] |-> g[x[2][i]]])
      BY <3>1 DEF CleanedBody
    <3>4. QED
      BY <3>2, <3>3, ShapesAreNoError
  <2>5. CASE IsObject(x)
    <3>1. x[1] = "object" /\ \A i \in DOMAIN x[2] : f[x[2][i][2]] = g[x[2][i][2]]
      BY <2>1, <2>5, Kinds
    <3>2. [i \in DOMAIN x[2] |-> <<Kept[x[2][i][1]], f[x[2][i][2]]>>]
            = [i \in DOMAIN x[2] |-> <<Kept[x[2][i][1]], g[x[2][i][2]]>>]
      BY <3>1
    <3>3. /\ CleanedBody(f, x) = Object([i \in DOMAIN x[2] |-> <<Kept[x[2][i][1]], f[x[2][i][2]]>>])
          /\ CleanedBody(g, x) = Object([i \in DOMAIN x[2] |-> <<Kept[x[2][i][1]], g[x[2][i][2]]>>])
      BY <3>1 DEF CleanedBody
    <3>4. QED
      BY <3>2, <3>3, ShapesAreNoError
  <2>6. QED
    BY <2>2, <2>3, <2>4, <2>5, Kinds
<1>3. Cleaned = CHOOSE f : f = [x \in Value |-> CleanedBody(f, x)]
  BY DEF Cleaned, CleanedBody
<1>4. QED
  BY <1>1, <1>2, <1>3, Cleaning!Defined DEF IsValue

RepresentableBody(f, value) ==
  CASE value[1] = "atom"   -> value[2] # "Infinity"
    [] value[1] = "string" -> TRUE
    [] value[1] = "list"   -> \A i \in DOMAIN value[2] : f[value[2][i]]
    [] OTHER ->
         /\ \A i \in DOMAIN value[2] : f[value[2][i][2]]
         /\ \A i, j \in DOMAIN value[2] :
              Kept[value[2][i][1]] = Kept[value[2][j][1]] => i = j

Judging == INSTANCE Recursion
  WITH Domain <- Value, Measure <- DepthOf, Body <- RepresentableBody, Fits <- Anything

\* Which values are Representable.
LEMMA RepresentableIs ==
  ASSUME NEW value \in Value
  PROVE  Representable[value] = RepresentableBody(Representable, value)
<1>1. Judging!Measured
  BY DepthIsMeasure DEF Judging!Measured
<1>2. Judging!LooksDown
  <2> SUFFICES ASSUME NEW x \in Value, NEW f, NEW g, Judging!Agree(f, g, DepthOf(x))
               PROVE  RepresentableBody(f, x) = RepresentableBody(g, x)
    BY DEF Judging!LooksDown, Anything
  <2>1. \A y \in Value : DepthOf(y) < DepthOf(x) => f[y] = g[y]
    BY DEF Judging!Agree, Judging!Upto
  <2>2. CASE IsAtom(x)
    BY <2>2, Kinds DEF RepresentableBody
  <2>3. CASE IsString(x)
    BY <2>3, Kinds DEF RepresentableBody
  <2>4. CASE IsList(x)
    <3>1. x[1] = "list" /\ \A i \in DOMAIN x[2] : f[x[2][i]] = g[x[2][i]]
      BY <2>1, <2>4, Kinds
    <3>2. QED
      BY <3>1 DEF RepresentableBody
  <2>5. CASE IsObject(x)
    <3>1. x[1] = "object" /\ \A i \in DOMAIN x[2] : f[x[2][i][2]] = g[x[2][i][2]]
      BY <2>1, <2>5, Kinds
    <3>2. QED
      BY <3>1 DEF RepresentableBody
  <2>6. QED
    BY <2>2, <2>3, <2>4, <2>5, Kinds
<1>3. Representable = CHOOSE f : f = [x \in Value |-> RepresentableBody(f, x)]
  BY DEF Representable, RepresentableBody
<1>4. QED
  BY <1>1, <1>2, <1>3, Judging!Defined

\* What the data comes to, or the error of the compile.
Denoted(value) == IF Representable[value] THEN Cleaned[value] ELSE Error

\* Two texts begin as the first does.
LEMMA FirstOfConcat ==
  ASSUME NEW s \in Text, s # <<>>, NEW t \in Text
  PROVE  s \o t # <<>> /\ First(s \o t) = First(s)
<1>1. /\ s \o t \in Text /\ Len(s) > 0 /\ Len(s) \in Nat /\ Len(t) \in Nat
      /\ Len(s \o t) = Len(s) + Len(t)
  BY JoinedText DEF Text
<1>2. (s \o t)[1] = s[1]
  BY <1>1, ConcatProperties DEF Text
<1>3. s \o t # <<>>
  BY <1>1
<1>4. Head(s \o t) = (s \o t)[1] /\ Head(s) = s[1]
  BY <1>1, <1>3 DEF Text
<1>5. QED
  BY <1>2, <1>3, <1>4 DEF First

\* How items are read: the end, or one and what is behind it.
LEMMA ReadingItems ==
  ASSUME NEW src \in Text
  PROVE  /\ First(src) = ")" => Reading[<<"items", src>>] = NoItemsAt(src)
         /\ First(src) # ")" => Reading[<<"items", src>>] = ItemsIn(Reading, src)
<1>1. PICK p \in ToRead : p = <<"items", src>>
  BY DEF ToRead
<1>2. Reading[p] = ReadingBody(Reading, p)
  BY ReadingIs
<1>3. p[1] = "items" /\ p[2] = src
  BY <1>1
<1>4. QED
  BY <1>1, <1>2, <1>3 DEF ReadingBody

\* A text that begins with a character of its own begins with no parenthesis.
LEMMA PrefixesBegin ==
  ASSUME NEW src \in Text
  PROVE  /\ IsEmptyList(src) => First(src) = "(" /\ First(Tail(src)) = ")"
         /\ IsEmptyObject(src) => First(src) = "(" /\ First(Tail(src)) = ":"
<1>1. ASSUME NEW w, Len(w) \in Nat, Len(w) >= 2, IsPrefix(w, src), w \in Text
      PROVE  First(src) = w[1] /\ First(Tail(src)) = w[2]
  <2>1. Len(w) <= Len(src) /\ SubSeq(w, 1, Len(w)) = SubSeq(src, 1, Len(w)) /\ Len(src) \in Nat
    BY <1>1 DEF IsPrefix, Text
  <2>2. \A i \in 1..Len(w) : SubSeq(w, 1, Len(w))[i] = w[i] /\ SubSeq(src, 1, Len(w))[i] = src[i]
    BY <1>1, <2>1 DEF Text
  <2>3. 1 \in 1..Len(w) /\ 2 \in 1..Len(w)
    BY <1>1
  <2>4. w[1] = src[1] /\ w[2] = src[2]
    BY <2>1, <2>2, <2>3
  <2>5. src # <<>>
    BY <1>1, <2>1
  <2>6. Head(src) = src[1] /\ First(src) = src[1]
    BY <2>5 DEF First, Text
  <2>7. PICK t \in Text : t = Tail(src) /\ Len(t) = Len(src) - 1
    BY <2>5, InFrontOf
  <2>8. t # <<>> /\ t[1] = src[2]
    <3>1. Len(t) >= 1
      BY <1>1, <2>1, <2>7
    <3>2. t[1] = src[2]
      BY <2>1, <2>5, <2>7, <3>1 DEF Text
    <3>3. QED
      BY <3>1, <3>2
  <2>9. First(t) = t[1]
    BY <2>8 DEF First, Text
  <2>10. QED
    BY <2>4, <2>6, <2>7, <2>8, <2>9
<1>2. ASSUME IsEmptyList(src) PROVE First(src) = "(" /\ First(Tail(src)) = ")"
  <2>1. PICK w : w = <<"(", ")">>
    OBVIOUS
  <2>2. w \in Text
    BY <2>1, PairsAreText
  <2>3. Len(w) = 2 /\ w[1] = "(" /\ w[2] = ")"
    BY <2>1
  <2>4. Len(w) \in Nat /\ Len(w) >= 2 /\ IsPrefix(w, src)
    BY <1>2, <2>1, <2>3 DEF IsEmptyList
  <2>5. First(src) = w[1] /\ First(Tail(src)) = w[2]
    BY <1>1, <2>2, <2>4
  <2>6. QED
    BY <2>3, <2>5
<1>3. ASSUME IsEmptyObject(src) PROVE First(src) = "(" /\ First(Tail(src)) = ":"
  <2>1. PICK w : w = <<"(", ":", ")">>
    OBVIOUS
  <2>2. w \in Text
    BY <2>1, PairsAreText
  <2>3. Len(w) = 3 /\ w[1] = "(" /\ w[2] = ":"
    BY <2>1
  <2>4. Len(w) \in Nat /\ Len(w) >= 2 /\ IsPrefix(w, src)
    BY <1>3, <2>1, <2>3 DEF IsEmptyObject
  <2>5. First(src) = w[1] /\ First(Tail(src)) = w[2]
    BY <1>1, <2>2, <2>4
  <2>6. QED
    BY <2>3, <2>5
<1>4. QED
  BY <1>2, <1>3

\* How a value is read, by the character it begins with.
LEMMA ReadingValue ==
  ASSUME NEW src \in Text
  PROVE  /\ First(src) = "quote" => Reading[<<"value", src>>] = StringAt(src)
         /\ First(src) \in {"none", "true", "1"} => Reading[<<"value", src>>] = AtomAt(src)
         /\ First(src) = "(" /\ IsEmptyList(src) => Reading[<<"value", src>>] = EmptyListAt(src)
         /\ First(src) = "(" /\ ~IsEmptyList(src) /\ IsEmptyObject(src) =>
              Reading[<<"value", src>>] = EmptyObjectAt(src)
         /\ ~IsEmptyList(src) /\ ~IsEmptyObject(src) /\ Opens(src) =>
              Reading[<<"value", src>>] = HeldIn(Reading, src)
         /\ First(src) = "Infinity" => Reading[<<"value", src>>] = UnknownAt(src)
<1>1. PICK p \in ToRead : p = <<"value", src>>
  BY DEF ToRead
<1>2. Reading[p] = ReadingBody(Reading, p)
  BY ReadingIs
<1>3. p[1] = "value" /\ p[2] = src
  BY <1>1
<1>4. /\ Opens(src) => First(src) = "(" /\ First(Tail(src)) \notin {")", ":"}
      /\ IsEmptyList(src) => First(src) = "(" /\ First(Tail(src)) = ")"
      /\ IsEmptyObject(src) => First(src) = "(" /\ First(Tail(src)) = ":"
  BY PrefixesBegin DEF Opens
<1>5. Reading[<<"value", src>>] = ReadingBody(Reading, p)
  BY <1>1, <1>2
<1>6. First(src) = "quote" => ReadingBody(Reading, p) = StringAt(src)
  BY <1>3, <1>4 DEF ReadingBody
<1>7. First(src) \in {"none", "true", "1"} => ReadingBody(Reading, p) = AtomAt(src)
  BY <1>3, <1>4 DEF ReadingBody
<1>8. First(src) = "(" /\ IsEmptyList(src) => ReadingBody(Reading, p) = EmptyListAt(src)
  BY <1>3, <1>4 DEF ReadingBody
<1>9. First(src) = "(" /\ ~IsEmptyList(src) /\ IsEmptyObject(src) =>
        ReadingBody(Reading, p) = EmptyObjectAt(src)
  BY <1>3, <1>4 DEF ReadingBody
<1>10. ~IsEmptyList(src) /\ ~IsEmptyObject(src) /\ Opens(src) =>
         ReadingBody(Reading, p) = HeldIn(Reading, src)
  BY <1>3, <1>4 DEF ReadingBody
<1>11. ASSUME First(src) = "Infinity" PROVE ReadingBody(Reading, p) = UnknownAt(src)
  <2>1. /\ p[1] # "items" /\ p[2] = src /\ First(src) # "quote"
        /\ First(src) \notin {"none", "true", "1"}
        /\ ~IsEmptyList(src) /\ ~IsEmptyObject(src) /\ ~Opens(src)
    BY <1>3, <1>4, <1>11
  <2>2. QED
    BY <2>1 DEF ReadingBody
<1>12. QED
  BY <1>5, <1>6, <1>7, <1>8, <1>9, <1>10, <1>11

\* Whatever follows it, a text is read as one item, and no more of it.
ReadsAs(text, entry) ==
  /\ text \in Text /\ text # <<>> /\ First(text) \notin {")", ":"}
  /\ \A post \in Text : First(post) \in {",", ")"} =>
       /\ ItemIn(Reading, text \o post).rest = post
       /\ EntryIn(Reading, text \o post) = entry

\* An item is read with the comma or the parenthesis behind it.
LEMMA OneItem ==
  ASSUME NEW text, NEW entry, ReadsAs(text, entry), NEW post \in Text
  PROVE  /\ First(post) = "," =>
              Reading[<<"items", text \o post>>]
                = Items(<<entry>> \o Reading[<<"items", Tail(post)>>].items,
                        Reading[<<"items", Tail(post)>>].comma,
                        Reading[<<"items", Tail(post)>>].rest)
         /\ First(post) = ")" =>
              Reading[<<"items", text \o post>>] = Items(<<entry>>, FALSE, Tail(post))
<1>1. text \in Text /\ text # <<>> /\ First(text) # ")"
  BY DEF ReadsAs
<1>2. PICK src \in Text : src = text \o post
  BY <1>1, JoinedText
<1>3. First(src) # ")"
  BY <1>1, <1>2, FirstOfConcat
<1>4. Reading[<<"items", src>>] = ItemsIn(Reading, src)
  BY <1>3, ReadingItems
<1>5. First(post) \in {",", ")"} =>
        ItemIn(Reading, src).rest = post /\ EntryIn(Reading, src) = entry
  BY <1>2 DEF ReadsAs
<1>6. First(post) = "," =>
        ItemsIn(Reading, src) = Items(<<entry>> \o Reading[<<"items", Tail(post)>>].items,
                                      Reading[<<"items", Tail(post)>>].comma,
                                      Reading[<<"items", Tail(post)>>].rest)
  BY <1>5 DEF ItemsIn
<1>7. First(post) = ")" => ItemsIn(Reading, src) = Items(<<entry>>, FALSE, Tail(post))
  BY <1>5 DEF ItemsIn
<1>8. QED
  BY <1>2, <1>4, <1>6, <1>7

\* How a list and an object end.
Closing(comma) == IF comma THEN <<",", ")">> ELSE <<")">>

\* What closes a list or an object, and how it is read.
LEMMA ClosingIs ==
  ASSUME NEW post \in Text
  PROVE  /\ Closing(TRUE) \o post \in Text /\ First(Closing(TRUE) \o post) = ","
         /\ Reading[<<"items", Tail(Closing(TRUE) \o post)>>] = Items(<<>>, TRUE, post)
         /\ Closing(FALSE) \o post \in Text /\ First(Closing(FALSE) \o post) = ")"
         /\ Tail(Closing(FALSE) \o post) = post
<1>1. PICK k \in Character, p \in Character : Is(k, ",") /\ Is(p, ")")
  BY Tokens DEF Is
<1>2. Closing(TRUE) = <<k, p>> /\ Closing(FALSE) = <<p>>
  BY <1>1 DEF Closing, Is
<1>3. PICK e \in Text : e = <<p>> \o post
  BY InFront
<1>4. First(e) = p /\ Tail(e) = post /\ e # <<>>
  BY <1>3, InFront
<1>5. <<k, p>> \o post = <<k>> \o e
  <2>1. <<k, p>> = <<k>> \o <<p>>
    BY PairIsTwo
  <2>2. <<k>> \in Text /\ <<p>> \in Text
    BY Written
  <2>3. (<<k>> \o <<p>>) \o post = <<k>> \o (<<p>> \o post)
    BY <2>2, Associative
  <2>4. QED
    BY <1>3, <2>1, <2>3
<1>6. <<k>> \o e \in Text /\ First(<<k>> \o e) = k /\ Tail(<<k>> \o e) = e
  BY InFront
<1>7. Reading[<<"items", e>>] = Items(<<>>, TRUE, post)
  BY <1>1, <1>4, ReadingItems DEF NoItemsAt, Is
<1>8. /\ Closing(TRUE) \o post = <<k>> \o e
      /\ Closing(FALSE) \o post = e
  BY <1>2, <1>3, <1>5
<1>9. k = "," /\ p = ")"
  BY <1>1 DEF Is
<1>10. QED
  BY <1>4, <1>6, <1>7, <1>8, <1>9

\* A sequence that is not empty, taken apart.
LEMMA TailIs ==
  ASSUME NEW T, NEW s \in Seq(T), s # <<>>
  PROVE  /\ Head(s) \in T /\ s[1] = Head(s) /\ Tail(s) \in Seq(T) /\ Len(Tail(s)) = Len(s) - 1
         /\ s = <<s[1]>> \o Tail(s)
         /\ \A i \in 1..Len(Tail(s)) : Tail(s)[i] = s[i + 1]
OBVIOUS

\* Items joined by commas are read one by one.
LEMMA ItemsReadBack ==
  ASSUME NEW E, NEW comma \in BOOLEAN, NEW post \in Text
  PROVE  \A texts \in Seq(Text) : \A es \in Seq(E) :
           /\ texts # <<>> /\ Len(es) = Len(texts)
           /\ \A i \in 1..Len(texts) : ReadsAs(texts[i], es[i])
           => Reading[<<"items", Joined[texts] \o (Closing(comma) \o post)>>]
                = Items(es, comma, post)
<1> DEFINE Fits(texts, es) ==
             /\ texts # <<>> /\ Len(es) = Len(texts)
             /\ \A i \in 1..Len(texts) : ReadsAs(texts[i], es[i])
           End == Closing(comma) \o post
           S == {texts \in Seq(Text) : \A es \in Seq(E) : Fits(texts, es) =>
                   Reading[<<"items", Joined[texts] \o End>>] = Items(es, comma, post)}
<1>0. End \in Text
  <2>1. comma = TRUE \/ comma = FALSE
    OBVIOUS
  <2>2. QED
    BY <2>1, ClosingIs
<1>1. ASSUME NEW texts \in Seq(Text), Joining!Upto(Length(texts)) \subseteq S
      PROVE  texts \in S
  <2> SUFFICES ASSUME NEW es \in Seq(E), Fits(texts, es)
               PROVE  Reading[<<"items", Joined[texts] \o End>>] = Items(es, comma, post)
    OBVIOUS
  <2>1. /\ texts # <<>> /\ es # <<>> /\ Len(es) = Len(texts)
        /\ Len(texts) \in Nat /\ Len(texts) >= 1
        /\ \A i \in 1..Len(texts) : ReadsAs(texts[i], es[i])
    OBVIOUS
  <2> HIDE DEF Fits, End, S
  <2>2. PICK t \in Text, us \in Seq(Text) :
          /\ t = texts[1] /\ t = Head(texts) /\ us = Tail(texts) /\ Len(us) = Len(texts) - 1
          /\ \A i \in 1..Len(us) : us[i] = texts[i + 1]
    <3>1. /\ Head(texts) \in Text /\ texts[1] = Head(texts) /\ Tail(texts) \in Seq(Text)
          /\ Len(Tail(texts)) = Len(texts) - 1
          /\ \A i \in 1..Len(Tail(texts)) : Tail(texts)[i] = texts[i + 1]
      BY <2>1, TailIs
    <3>2. QED
      BY <3>1
  <2>3. PICK e \in E, ds \in Seq(E) :
          /\ e = es[1] /\ ds = Tail(es) /\ Len(ds) = Len(texts) - 1 /\ es = <<e>> \o ds
          /\ \A i \in 1..Len(ds) : ds[i] = es[i + 1]
    <3>1. /\ Head(es) \in E /\ es[1] = Head(es) /\ Tail(es) \in Seq(E)
          /\ Len(Tail(es)) = Len(es) - 1 /\ es = <<es[1]>> \o Tail(es)
          /\ \A i \in 1..Len(Tail(es)) : Tail(es)[i] = es[i + 1]
      BY <2>1, TailIs
    <3>2. QED
      BY <2>1, <3>1
  <2>4. ReadsAs(t, e)
    BY <2>1, <2>2, <2>3
  <2>5. CASE Len(texts) = 1
    <3>1. Joined[texts] = t
      BY <2>1, <2>2, <2>5, JoinedIs DEF JoinedBody
    <3>2. ds = <<>>
      BY <2>3, <2>5
    <3>3. es = <<e>> /\ <<e>> \o <<>> = <<e>>
      BY <2>3, <3>2, OneSegment
    <3>4. CASE comma = TRUE
      <4>1. First(End) = "," /\ Reading[<<"items", Tail(End)>>] = Items(<<>>, TRUE, post)
        BY <3>4, ClosingIs DEF End
      <4>2. PICK m : m = Reading[<<"items", Tail(End)>>]
        OBVIOUS
      <4>3. Reading[<<"items", t \o End>>] = Items(<<e>> \o m.items, m.comma, m.rest)
        BY <1>0, <2>4, <4>1, <4>2, OneItem
      <4>4. m.items = <<>> /\ m.comma = TRUE /\ m.rest = post
        <5>1. m = Items(<<>>, TRUE, post)
          BY <4>1, <4>2
        <5>2. QED
          BY <5>1 DEF Items
      <4>5. QED
        BY <3>1, <3>3, <3>4, <4>3, <4>4
    <3>5. CASE comma = FALSE
      <4>1. First(End) = ")" /\ Tail(End) = post
        BY <3>5, ClosingIs DEF End
      <4>2. Reading[<<"items", t \o End>>] = Items(<<e>>, FALSE, Tail(End))
        BY <1>0, <2>4, <4>1, OneItem
      <4>3. QED
        BY <3>1, <3>3, <3>5, <4>1, <4>2
    <3>6. QED
      BY <3>4, <3>5
  <2>6. CASE Len(texts) # 1
    <3>1. us # <<>> /\ Len(us) >= 1 /\ Len(us) \in Nat
      <4>1. Len(us) = Len(texts) - 1
        BY <2>2
      <4>2. Len(us) >= 1 /\ Len(us) \in Nat
        BY <2>1, <2>6, <4>1
      <4>3. QED
        BY <4>2
    <3>2. Joining!Upto(Length(texts)) \subseteq S /\ Len(us) < Len(texts)
      BY <1>1, <2>1, <2>2
    <3>3. us \in S
      BY <3>2 DEF Joining!Upto, Length
    <3>4. Fits(us, ds)
      <4>1. \A i \in 1..Len(us) : ReadsAs(us[i], ds[i])
        <5> SUFFICES ASSUME NEW i \in 1..Len(us) PROVE ReadsAs(us[i], ds[i])
          OBVIOUS
        <5>1. i + 1 \in 1..Len(texts) /\ i \in 1..Len(ds)
          BY <2>1, <2>2, <2>3, <3>1
        <5>2. QED
          BY <2>1, <2>2, <2>3, <5>1
      <4>2. QED
        BY <2>2, <2>3, <3>1, <4>1 DEF Fits
    <3>5. Reading[<<"items", Joined[us] \o End>>] = Items(ds, comma, post)
      BY <3>3, <3>4 DEF S
    <3>6. Joined[texts] = t \o <<",">> \o Joined[us]
      BY <2>1, <2>2, <2>6, JoinedIs DEF JoinedBody
    <3>7. PICK k \in Character : Is(k, ",")
      BY Tokens DEF Is
    <3>8. PICK rest \in Text : rest = Joined[us] \o End
      BY <1>0, JoinedIs, JoinedText
    <3>9. PICK more \in Text : more = <<k>> \o rest /\ First(more) = k /\ Tail(more) = rest
      BY InFront
    <3>10. Joined[texts] \o End = t \o more
      <4>1. PICK j \in Text : j = Joined[us]
        BY JoinedIs
      <4>2. PICK a \in Text : a = t \o <<k>>
        BY Written, JoinedText
      <4>3. Joined[texts] = a \o j
        BY <3>6, <3>7, <4>1, <4>2 DEF Is
      <4>4. (a \o j) \o End = a \o (j \o End)
        BY <1>0, Associative
      <4>5. (t \o <<k>>) \o rest = t \o (<<k>> \o rest)
        <5>1. <<k>> \in Text
          BY Written
        <5>2. QED
          BY <5>1, Associative
      <4>6. QED
        BY <3>8, <3>9, <4>1, <4>2, <4>3, <4>4, <4>5
    <3>11. PICK m : m = Reading[<<"items", Tail(more)>>]
      OBVIOUS
    <3>12. Reading[<<"items", t \o more>>] = Items(<<e>> \o m.items, m.comma, m.rest)
      <4>1. First(more) = ","
        BY <3>7, <3>9 DEF Is
      <4>2. QED
        BY <2>4, <3>11, <4>1, OneItem
    <3>13. m.items = ds /\ m.comma = comma /\ m.rest = post
      <4>1. m = Items(ds, comma, post)
        BY <3>5, <3>8, <3>9, <3>11
      <4>2. QED
        BY <4>1 DEF Items
    <3>14. QED
      BY <2>3, <3>10, <3>12, <3>13
  <2>7. QED
    BY <2>5, <2>6
<1>2. Seq(Text) \subseteq S
  <2> HIDE DEF S
  <2>1. QED
    BY <1>1, JoiningDown, Joining!Induction
<1>3. QED
  BY <1>2

\* Behind one character is the tail.
LEMMA AfterOne ==
  ASSUME NEW s \in Text, s # <<>>
  PROVE  After(s, 1) = Tail(s)
BY DEF After, Text

\* Texts that are joined begin as the first does.
LEMMA JoinedBegins ==
  ASSUME NEW texts \in Seq(Text), texts # <<>>, texts[1] # <<>>
  PROVE  Joined[texts] # <<>> /\ First(Joined[texts]) = First(texts[1])
<1>1. PICK t \in Text, us \in Seq(Text) : t = texts[1] /\ t = Head(texts) /\ us = Tail(texts)
  BY TailIs
<1>2. CASE Len(texts) = 1
  BY <1>1, <1>2, JoinedIs DEF JoinedBody
<1>3. CASE Len(texts) # 1
  <2>1. PICK k \in Text : k = <<",">>
    BY Tokens
  <2>2. PICK j \in Text : j = Joined[us]
    BY JoinedIs
  <2>3. Joined[texts] = t \o k \o j
    BY <1>1, <1>3, <2>1, <2>2, JoinedIs DEF JoinedBody
  <2>4. t \o k \in Text /\ t \o k # <<>> /\ First(t \o k) = First(t)
    BY <1>1, JoinedText, FirstOfConcat
  <2>5. t \o k \o j # <<>> /\ First(t \o k \o j) = First(t \o k)
    BY <2>4, FirstOfConcat
  <2>6. QED
    BY <1>1, <2>3, <2>4, <2>5
<1>4. QED
  BY <1>2, <1>3

\* An atom is read as what it is, but for one that Typst does not know.
LEMMA AtomReadsBack ==
  ASSUME NEW word \in Word, NEW post \in Text
  PROVE  Reading[<<"value", <<word>> \o post>>]
           = Read(IF word = "Infinity" THEN Error ELSE Atom(word), post)
<1>1. word \in Character
  BY Tokens
<1>2. PICK src \in Text : src = <<word>> \o post /\ First(src) = word /\ Tail(src) = post /\ src # <<>>
  BY <1>1, InFront
<1>3. CASE word = "Infinity"
  <2>1. After(src, 1) = post
    BY <1>2, AfterOne
  <2>2. QED
    BY <1>2, <1>3, <2>1, ReadingValue DEF UnknownAt
<1>4. CASE word # "Infinity"
  <2>1. word \in {"none", "true", "1"}
    BY <1>4 DEF Word
  <2>2. QED
    BY <1>2, <1>4, <2>1, ReadingValue DEF AtomAt
<1>5. QED
  BY <1>3, <1>4

\* A string in quotes is read as the string, less what is stripped.
LEMMA StringReadsBack ==
  ASSUME NEW text \in Text, NEW post \in Text
  PROVE  Reading[<<"value", Quoted(Translate[text]) \o post>>] = Read(String(Kept[text]), post)
<1>1. PICK q \in Character : Is(q, "quote")
  BY Tokens DEF Is
<1>2. PICK t \in Text : t = Translate[text]
  BY TranslateIs
<1>3. Quoted(t) = <<q>> \o (t \o <<q>>)
  BY <1>1, QuotedIs DEF Is
<1>4. <<q>> \in Text
  BY Written
<1>5. t \o <<q>> \in Text /\ t \o <<q>> \o post \in Text
  BY <1>4, JoinedText
<1>6. Quoted(t) \o post = <<q>> \o (t \o <<q>> \o post)
  BY <1>3, <1>4, <1>5, Associative
<1>7. PICK src \in Text : /\ src = Quoted(t) \o post /\ First(src) = q
                          /\ Tail(src) = t \o <<q>> \o post
  BY <1>5, <1>6, InFront
<1>8. ReadString[t \o <<q>> \o post] = Read(String(Kept[text]), post)
  BY <1>1, <1>2, StringsReadBack DEF Is
<1>9. First(src) = "quote"
  BY <1>1, <1>7 DEF Is
<1>10. Reading[<<"value", src>>] = ReadString[t \o <<q>> \o post]
  BY <1>7, <1>9, ReadingValue DEF StringAt
<1>11. QED
  BY <1>2, <1>7, <1>8, <1>10

\* The empty list and the empty object are told apart.
LEMMA EmptyReadsBack ==
  ASSUME NEW post \in Text
  PROVE  /\ Reading[<<"value", <<"(", ")">> \o post>>] = Read(List(<<>>), post)
         /\ Reading[<<"value", <<"(", ":", ")">> \o post>>] = Read(Object(<<>>), post)
<1>1. PICK w \in Text : w = <<"(", ")">>
  BY PairsAreText
<1>2. PICK z \in Text : z = <<"(", ":", ")">>
  BY PairsAreText
<1>3. Len(w) = 2 /\ w[1] = "(" /\ w[2] = ")" /\ Len(w) >= 2 /\ w # <<>>
  BY <1>1
<1>4. Len(z) = 3 /\ z[1] = "(" /\ z[2] = ":" /\ Len(z) >= 2 /\ z # <<>>
  BY <1>2
<1>5. Reading[<<"value", w \o post>>] = Read(List(<<>>), post)
  <2>1. PICK src \in Text : src = w \o post
    BY JoinedText
  <2>2. First(src) = "(" /\ IsEmptyList(src)
    BY <1>1, <1>3, <2>1, FirstPart DEF IsEmptyList
  <2>3. Tail(Tail(src)) = post
    <3>1. PICK p \in Character, e \in Character : Is(p, "(") /\ Is(e, ")")
      BY Tokens DEF Is
    <3>2. w = <<p>> \o <<e>> /\ <<p>> \in Text /\ <<e>> \in Text
      <4>1. w = <<p, e>>
        BY <1>1, <3>1 DEF Is
      <4>2. <<p, e>> = <<p>> \o <<e>>
        BY PairIsTwo
      <4>3. <<p>> \in Text /\ <<e>> \in Text
        BY Written
      <4>4. QED
        BY <4>1, <4>2, <4>3
    <3>3. src = <<p>> \o (<<e>> \o post)
      BY <2>1, <3>2, Associative
    <3>4. <<e>> \o post \in Text /\ Tail(<<e>> \o post) = post
      BY InFront
    <3>5. Tail(<<p>> \o (<<e>> \o post)) = <<e>> \o post
      BY <3>4, InFront
    <3>6. QED
      BY <3>3, <3>4, <3>5
  <2>4. QED
    BY <2>1, <2>2, <2>3, ReadingValue DEF EmptyListAt
<1>6. Reading[<<"value", z \o post>>] = Read(Object(<<>>), post)
  <2>1. PICK src \in Text : src = z \o post
    BY JoinedText
  <2>2. First(src) = "(" /\ First(After(src, 1)) = ":" /\ IsEmptyObject(src)
    BY <1>2, <1>4, <2>1, FirstPart DEF IsEmptyObject
  <2>3. After(src, 3) = post
    BY <1>4, <2>1, AfterConcat
  <2>4. ~IsEmptyList(src)
    <3>1. src # <<>>
      BY <1>4, <2>1, FirstOfConcat
    <3>2. First(Tail(src)) = ":"
      BY <2>2, <3>1, AfterOne
    <3>3. QED
      BY <3>2, PrefixesBegin
  <2>5. QED
    BY <2>1, <2>2, <2>3, <2>4, ReadingValue DEF EmptyObjectAt
<1>7. QED
  BY <1>1, <1>2, <1>5, <1>6

\* What is in parentheses, and is not empty.
LEMMA HeldReadsBack ==
  ASSUME NEW texts \in Seq(Text), texts # <<>>, NEW E, NEW es \in Seq(E),
         Len(es) = Len(texts), \A i \in 1..Len(texts) : ReadsAs(texts[i], es[i]),
         NEW comma \in BOOLEAN, NEW post \in Text
  PROVE  Reading[<<"value", (<<"(">> \o Joined[texts] \o Closing(comma)) \o post>>]
           = Read(Parenthesised(es, comma), post)
<1>1. PICK p \in Character : Is(p, "(")
  BY Tokens DEF Is
<1>2. PICK j \in Text : j = Joined[texts]
  BY JoinedIs
<1>3. PICK c \in Text : c = Closing(comma)
  <2>1. <<",", ")">> \in Text /\ <<")">> \in Text
    BY PairsAreText, Tokens
  <2>2. QED
    BY <2>1 DEF Closing
<1>4. PICK inner \in Text : inner = j \o (c \o post)
  BY JoinedText
<1>5. (<<p>> \o j \o c) \o post = <<p>> \o inner
  <2>1. <<p>> \in Text /\ <<p>> \o j \in Text
    BY Written, JoinedText
  <2>2. PICK a \in Text : a = <<p>> \o j
    BY <2>1
  <2>3. (a \o c) \o post = a \o (c \o post)
    BY Associative
  <2>4. PICK d \in Text : d = c \o post
    BY JoinedText
  <2>5. (<<p>> \o j) \o d = <<p>> \o (j \o d)
    BY <2>1, Associative
  <2>6. QED
    BY <1>4, <2>2, <2>3, <2>4, <2>5
<1>6. PICK src \in Text : src = <<p>> \o inner /\ First(src) = p /\ Tail(src) = inner
  BY InFront
<1>7. First(inner) \notin {")", ":"}
  <2>1. Len(texts) \in Nat /\ 1 \in 1..Len(texts)
    BY TailIs
  <2>2. texts[1] # <<>> /\ First(texts[1]) \notin {")", ":"}
    BY <2>1 DEF ReadsAs
  <2>3. j # <<>> /\ First(j) = First(texts[1])
    BY <1>2, <2>2, JoinedBegins
  <2>4. c \o post \in Text
    BY JoinedText
  <2>5. First(inner) = First(j)
    BY <1>4, <2>3, <2>4, FirstOfConcat
  <2>6. QED
    BY <2>2, <2>3, <2>5
<1>8. Opens(src) /\ ~IsEmptyList(src) /\ ~IsEmptyObject(src)
  BY <1>1, <1>6, <1>7, PrefixesBegin DEF Opens, Is
<1>9. Reading[<<"value", src>>] = HeldIn(Reading, src)
  BY <1>8, ReadingValue
<1>10. Reading[<<"items", inner>>] = Items(es, comma, post)
  BY <1>2, <1>3, <1>4, ItemsReadBack
<1>11. HeldIn(Reading, src) = Read(Parenthesised(es, comma), post)
  <2>1. PICK m : m = Reading[<<"items", Tail(src)>>]
    OBVIOUS
  <2>2. m = Items(es, comma, post)
    BY <1>6, <1>10, <2>1
  <2>3. m.items = es /\ m.comma = comma /\ m.rest = post
    BY <2>2 DEF Items
  <2>4. QED
    BY <2>1, <2>3 DEF HeldIn
<1>12. (<<"(">> \o Joined[texts] \o Closing(comma)) \o post = src
  BY <1>1, <1>2, <1>3, <1>5, <1>6 DEF Is
<1>13. QED
  BY <1>9, <1>11, <1>12

\* The text of a value is read as the value, and no more than that.
ReadsBack(value) ==
  JsonToTypst[value].error = <<>> =>
    \A post \in Text :
      Reading[<<"value", JsonToTypst[value].text \o post>>] = Read(Denoted(value), post)

Entry(key, value) == [key |-> key, value |-> value]

\* An item of a list is read as the value it was written for.
LEMMA ValueReadsAs ==
  ASSUME NEW v \in Value, ReadsBack(v), JsonToTypst[v].error = <<>>
  PROVE  ReadsAs(JsonToTypst[v].text, Entry(<<>>, Denoted(v)))
<1>1. PICK t \in Text : /\ t = JsonToTypst[v].text /\ t # <<>>
                        /\ First(t) \in Word \cup {"quote", "("}
  BY JsonToTypstIs DEF Outcome
<1>2. First(t) \notin {")", ":"}
  BY <1>1 DEF Word
<1>3. ASSUME NEW post \in Text, First(post) \in {",", ")"}
      PROVE  ItemIn(Reading, t \o post).rest = post
             /\ EntryIn(Reading, t \o post) = Entry(<<>>, Denoted(v))
  <2>1. PICK h : h = Reading[<<"value", t \o post>>]
    OBVIOUS
  <2>2. h = Read(Denoted(v), post)
    BY <1>1, <2>1 DEF ReadsBack
  <2>3. h.value = Denoted(v) /\ h.rest = post
    BY <2>2 DEF Read
  <2>4. ~Keyed(h)
    BY <1>3, <2>3 DEF Keyed
  <2>5. ItemIn(Reading, t \o post) = h
    BY <2>1, <2>4 DEF ItemIn
  <2>6. EntryIn(Reading, t \o post) = Entry(<<>>, Denoted(v))
    BY <2>1, <2>3, <2>4, <2>5 DEF EntryIn, Entry
  <2>7. QED
    BY <2>3, <2>5, <2>6
<1>4. QED
  BY <1>1, <1>2, <1>3 DEF ReadsAs

\* An entry of an object is read as its key and its value.
LEMMA PartReadsAs ==
  ASSUME NEW v \in Value, ReadsBack(v), JsonToTypst[v].error = <<>>, NEW key \in Text
  PROVE  ReadsAs(Quoted(Translate[key]) \o <<":">> \o JsonToTypst[v].text,
                 Entry(<<Kept[key]>>, Denoted(v)))
<1>1. PICK t \in Text : t = JsonToTypst[v].text
  BY JsonToTypstIs DEF Outcome
<1>2. PICK q \in Text : q = Quoted(Translate[key])
  BY TranslateIs, QuotedIs
<1>3. PICK k \in Character : Is(k, ":")
  BY Tokens DEF Is
<1>4. PICK w : w = q \o <<k>> \o t
  OBVIOUS
<1>5. w = Quoted(Translate[key]) \o <<":">> \o JsonToTypst[v].text
  BY <1>1, <1>2, <1>3, <1>4 DEF Is
<1>6. w \in Text /\ w # <<>> /\ First(w) \notin {")", ":"}
  BY <1>1, <1>5, PartTextIs
<1>7. ASSUME NEW post \in Text, First(post) \in {",", ")"}
      PROVE  ItemIn(Reading, w \o post).rest = post
             /\ EntryIn(Reading, w \o post) = Entry(<<Kept[key]>>, Denoted(v))
  <2>1. PICK tail \in Text : tail = t \o post
    BY JoinedText
  <2>2. PICK rest \in Text : rest = <<k>> \o tail /\ First(rest) = k /\ Tail(rest) = tail
    BY InFront
  <2>3. w \o post = q \o rest
    <3>1. <<k>> \in Text
      BY Written
    <3>2. PICK a \in Text : a = q \o <<k>>
      BY <3>1, JoinedText
    <3>3. (a \o t) \o post = a \o (t \o post)
      BY Associative
    <3>4. (q \o <<k>>) \o tail = q \o (<<k>> \o tail)
      BY <3>1, Associative
    <3>5. QED
      BY <1>4, <2>1, <2>2, <3>2, <3>3, <3>4
  <2>4. PICK h : h = Reading[<<"value", w \o post>>]
    OBVIOUS
  <2>5. h = Read(String(Kept[key]), rest)
    BY <1>2, <2>3, <2>4, StringReadsBack
  <2>6. h.rest = rest /\ h.value[1] = "string" /\ h.value[2] = Kept[key]
    BY <2>5 DEF Read, String
  <2>7. Keyed(h)
    BY <1>3, <2>2, <2>6 DEF Keyed, Is
  <2>8. ItemIn(Reading, w \o post) = Reading[<<"value", tail>>]
    BY <2>2, <2>4, <2>6, <2>7 DEF ItemIn
  <2>9. Reading[<<"value", tail>>] = Read(Denoted(v), post)
    BY <1>1, <2>1 DEF ReadsBack
  <2>10. /\ ItemIn(Reading, w \o post).rest = post
         /\ ItemIn(Reading, w \o post).value = Denoted(v)
    BY <2>8, <2>9 DEF Read
  <2>11. EntryIn(Reading, w \o post) = Entry(<<Kept[key]>>, Denoted(v))
    BY <2>4, <2>6, <2>7, <2>10 DEF EntryIn, Entry
  <2>12. QED
    BY <2>10, <2>11
<1>8. ReadsAs(w, Entry(<<Kept[key]>>, Denoted(v)))
  BY <1>6, <1>7 DEF ReadsAs
<1>9. QED
  BY <1>5, <1>8

\* Which values are no error.
LEMMA DenotedIs ==
  ASSUME NEW v \in Value
  PROVE  Denoted(v) = Error <=> ~Representable[v]
BY CleanedIs DEF Denoted

\* The items of a list come to the list, or to an error if one of them does,
LEMMA ListDenoted ==
  ASSUME NEW v \in Value, IsList(v), NEW n \in Nat, DOMAIN v[2] = 1..n,
         NEW es, es = [i \in 1..n |-> Entry(<<>>, Denoted(v[2][i]))]
  PROVE  Parenthesised(es, TRUE) = Denoted(v)
<1>1. v[1] = "list" /\ \A i \in 1..n : v[2][i] \in Value
  BY Kinds
<1>2. /\ DOMAIN es = 1..n
      /\ \A i \in 1..n : es[i].key = <<>> /\ es[i].value = Denoted(v[2][i])
  BY DEF Entry
<1>3. Representable[v] <=> \A i \in 1..n : Representable[v[2][i]]
  BY <1>1, RepresentableIs DEF RepresentableBody
<1>4. Cleaned[v] = List([i \in 1..n |-> Cleaned[v[2][i]]])
  BY <1>1, CleanedIs DEF CleanedBody
<1>5. CASE \E i \in 1..n : ~Representable[v[2][i]]
  <2>1. \E i \in DOMAIN es : es[i].value = Error
    BY <1>1, <1>2, <1>5, DenotedIs
  <2>2. Denoted(v) = Error
    BY <1>3, <1>5 DEF Denoted
  <2>3. QED
    BY <2>1, <2>2 DEF Parenthesised
<1>6. CASE \A i \in 1..n : Representable[v[2][i]]
  <2>1. \A i \in 1..n : es[i].value = Cleaned[v[2][i]] /\ es[i].value # Error
    BY <1>1, <1>2, <1>6, DenotedIs DEF Denoted
  <2>2. Denoted(v) = List([i \in 1..n |-> Cleaned[v[2][i]]])
    BY <1>3, <1>4, <1>6 DEF Denoted
  <2>3. {i \in DOMAIN es : es[i].key # <<>>} = {}
    BY <1>2
  <2>4. Parenthesised(es, TRUE) = List([i \in DOMAIN es |-> es[i].value])
    BY <1>2, <2>1, <2>3 DEF Parenthesised
  <2>5. [i \in DOMAIN es |-> es[i].value] = [i \in 1..n |-> Cleaned[v[2][i]]]
    BY <1>2, <2>1
  <2>6. QED
    BY <2>2, <2>4, <2>5
<1>7. QED
  BY <1>5, <1>6

\* and those of an object to the object, unless two keys have become one.
LEMMA ObjectDenoted ==
  ASSUME NEW v \in Value, IsObject(v), NEW n \in Nat, n # 0, DOMAIN v[2] = 1..n,
         NEW es, es = [i \in 1..n |-> Entry(<<Kept[v[2][i][1]]>>, Denoted(v[2][i][2]))]
  PROVE  Parenthesised(es, FALSE) = Denoted(v)
<1>1. v[1] = "object" /\ \A i \in 1..n : v[2][i][2] \in Value
  BY Kinds
<1>2. /\ DOMAIN es = 1..n
      /\ \A i \in 1..n : /\ es[i].key = <<Kept[v[2][i][1]]>> /\ es[i].key # <<>>
                         /\ es[i].key[1] = Kept[v[2][i][1]]
                         /\ es[i].value = Denoted(v[2][i][2])
  BY DEF Entry
<1> DEFINE distinct == \A i, j \in 1..n : Kept[v[2][i][1]] = Kept[v[2][j][1]] => i = j
<1>3. Representable[v] <=> (\A i \in 1..n : Representable[v[2][i][2]]) /\ distinct
  <2>1. Representable[v] = /\ \A i \in DOMAIN v[2] : Representable[v[2][i][2]]
                           /\ \A i, j \in DOMAIN v[2] :
                                Kept[v[2][i][1]] = Kept[v[2][j][1]] => i = j
    BY <1>1, RepresentableIs DEF RepresentableBody
  <2>2. QED
    BY <2>1
<1>4. Cleaned[v] = Object([i \in 1..n |-> <<Kept[v[2][i][1]], Cleaned[v[2][i][2]]>>])
  BY <1>1, CleanedIs DEF CleanedBody
<1>5. CASE \E i \in 1..n : ~Representable[v[2][i][2]]
  <2>1. \E i \in DOMAIN es : es[i].value = Error
    BY <1>1, <1>2, <1>5, DenotedIs
  <2>2. Denoted(v) = Error
    BY <1>3, <1>5 DEF Denoted
  <2>3. QED
    BY <2>1, <2>2 DEF Parenthesised
<1>6. CASE \A i \in 1..n : Representable[v[2][i][2]]
  <2>1. \A i \in 1..n : es[i].value = Cleaned[v[2][i][2]] /\ es[i].value # Error
    BY <1>1, <1>2, <1>6, DenotedIs DEF Denoted
  <2>2. {i \in DOMAIN es : es[i].key # <<>>} = 1..n /\ 1..n # {}
    BY <1>2
  <2>3. distinct <=> \A i, j \in 1..n : es[i].key = es[j].key => i = j
    <3>1. ASSUME NEW i \in 1..n, NEW j \in 1..n
          PROVE  es[i].key = es[j].key <=> Kept[v[2][i][1]] = Kept[v[2][j][1]]
      BY <1>2
    <3>2. QED
      BY <3>1
  <2>4. CASE ~distinct
    <3>1. Denoted(v) = Error
      BY <1>3, <2>4 DEF Denoted
    <3>2. QED
      BY <1>2, <2>1, <2>2, <2>3, <2>4, <3>1 DEF Parenthesised
  <2>5. CASE distinct
    <3>1. Denoted(v) = Object([i \in 1..n |-> <<Kept[v[2][i][1]], Cleaned[v[2][i][2]]>>])
      BY <1>3, <1>4, <1>6, <2>5 DEF Denoted
    <3> HIDE DEF distinct
    <3>2. Parenthesised(es, FALSE) = Object([i \in DOMAIN es |-> <<es[i].key[1], es[i].value>>])
      BY <1>2, <2>1, <2>2, <2>3, <2>5 DEF Parenthesised
    <3>3. [i \in DOMAIN es |-> <<es[i].key[1], es[i].value>>]
            = [i \in 1..n |-> <<Kept[v[2][i][1]], Cleaned[v[2][i][2]]>>]
      BY <1>2, <2>1
    <3>4. QED
      BY <3>1, <3>2, <3>3
  <2>6. QED
    BY <2>4, <2>5
<1>7. QED
  BY <1>5, <1>6

\* A list is read back if its items are,
LEMMA ListReadsBack ==
  ASSUME NEW v \in Value, IsList(v), \A i \in DOMAIN v[2] : ReadsBack(v[2][i])
  PROVE  ReadsBack(v)
<1> SUFFICES ASSUME JsonToTypst[v].error = <<>>, NEW post \in Text
             PROVE  Reading[<<"value", JsonToTypst[v].text \o post>>] = Read(Denoted(v), post)
  BY DEF ReadsBack
<1>1. v[1] = "list" /\ v[2] \in Seq(Value)
  BY Kinds
<1>2. PICK n \in Nat : DOMAIN v[2] = 1..n
  BY <1>1
<1>3. \A i \in 1..n : v[2][i] \in Value /\ ReadsBack(v[2][i])
  BY <1>1, <1>2
<1> DEFINE c == [i \in 1..n |-> Under(Index(i), JsonToTypst[v[2][i]])]
           texts == [i \in 1..n |-> c[i].text]
           es == [i \in 1..n |-> Entry(<<>>, Denoted(v[2][i]))]
           E == {es[i] : i \in 1..n}
<1>4. JsonToTypst[v] = Combined(c, ListText)
  BY <1>1, <1>2, JsonToTypstIs DEF JsonToTypstBody
<1>5. /\ \A i \in 1..n : c[i].error = <<>>
      /\ Combined(c, ListText) = Done(ListText(texts))
  <2>1. DOMAIN c = 1..n
    OBVIOUS
  <2> HIDE DEF c
  <2>2. \/ (\A i \in 1..n : c[i].error = <<>>) /\ Combined(c, ListText) = Done(ListText(texts))
        \/ \E i \in 1..n : c[i].error # <<>> /\ Combined(c, ListText) = c[i]
    BY <2>1, CombinedIs
  <2>3. ASSUME NEW i \in 1..n, c[i].error # <<>>, Combined(c, ListText) = c[i] PROVE FALSE
    BY <1>4, <2>3
  <2>4. QED
    BY <2>2, <2>3
<1>6. JsonToTypst[v].text = ListText(texts)
  BY <1>4, <1>5 DEF Done
<1>7. \A i \in 1..n : JsonToTypst[v[2][i]].error = <<>> /\ c[i] = JsonToTypst[v[2][i]]
  <2> SUFFICES ASSUME NEW i \in 1..n
               PROVE  JsonToTypst[v[2][i]].error = <<>> /\ c[i] = JsonToTypst[v[2][i]]
    OBVIOUS
  <2>1. PICK r : r = JsonToTypst[v[2][i]]
    OBVIOUS
  <2>2. c[i] = Under(Index(i), r) /\ c[i].error = <<>>
    BY <1>5, <2>1
  <2> HIDE DEF c
  <2>3. r.error = <<>>
    BY <2>2, UnderIs
  <2>4. Under(Index(i), r) = r
    BY <2>3, UnderIs
  <2>5. QED
    BY <2>1, <2>2, <2>3, <2>4
<1>8. \A i \in 1..n : texts[i] \in Text /\ ReadsAs(texts[i], es[i])
  <2> SUFFICES ASSUME NEW i \in 1..n PROVE texts[i] \in Text /\ ReadsAs(texts[i], es[i])
    OBVIOUS
  <2>1. texts[i] = JsonToTypst[v[2][i]].text
    BY <1>7
  <2>2. es[i] = Entry(<<>>, Denoted(v[2][i]))
    OBVIOUS
  <2> HIDE DEF texts, es
  <2>3. ReadsAs(texts[i], es[i])
    BY <1>3, <1>7, <2>1, <2>2, ValueReadsAs
  <2>4. QED
    BY <2>3 DEF ReadsAs
<1>9. /\ texts \in Seq(Text) /\ Len(texts) = n
      /\ es \in Seq(E) /\ Len(es) = n
  <2>1. \A i \in 1..n : texts[i] \in Text /\ es[i] \in E
    BY <1>8
  <2>2. texts = [i \in 1..n |-> texts[i]] /\ es = [i \in 1..n |-> es[i]]
    OBVIOUS
  <2> HIDE DEF texts, es, E
  <2>3. QED
    BY <2>1, <2>2
<1>10. Parenthesised(es, TRUE) = Denoted(v)
  BY <1>2, ListDenoted
<1> HIDE DEF c, texts, es, E
<1>11. CASE n = 0
  <2>1. texts = <<>> /\ ListText(texts) = <<"(", ")">>
    BY <1>9, <1>11 DEF ListText
  <2>2. Denoted(v) = List(<<>>)
    <3>1. es = <<>>
      BY <1>9, <1>11
    <3>2. Parenthesised(<<>>, TRUE) = List(<<>>)
      BY DEF Parenthesised
    <3>3. QED
      BY <1>10, <3>1, <3>2
  <2>3. QED
    BY <1>6, <2>1, <2>2, EmptyReadsBack
<1>12. CASE n # 0
  <2>1. texts # <<>> /\ Len(es) = Len(texts)
    BY <1>9, <1>12
  <2>2. ListText(texts) = <<"(">> \o Joined[texts] \o Closing(TRUE)
    BY <2>1 DEF ListText, Closing
  <2>3. Reading[<<"value", (<<"(">> \o Joined[texts] \o Closing(TRUE)) \o post>>]
          = Read(Parenthesised(es, TRUE), post)
    BY <1>8, <1>9, <2>1, HeldReadsBack
  <2>4. QED
    BY <1>6, <1>10, <2>2, <2>3
<1>13. QED
  BY <1>11, <1>12

\* and an object if its values are.
LEMMA ObjectReadsBack ==
  ASSUME NEW v \in Value, IsObject(v), \A i \in DOMAIN v[2] : ReadsBack(v[2][i][2])
  PROVE  ReadsBack(v)
<1> SUFFICES ASSUME JsonToTypst[v].error = <<>>, NEW post \in Text
             PROVE  Reading[<<"value", JsonToTypst[v].text \o post>>] = Read(Denoted(v), post)
  BY DEF ReadsBack
<1>1. v[1] = "object" /\ v[2] \in Seq(Text \X Value)
  BY Kinds
<1>2. PICK n \in Nat : DOMAIN v[2] = 1..n
  BY <1>1
<1>3. \A i \in 1..n : v[2][i][1] \in Text /\ v[2][i][2] \in Value /\ ReadsBack(v[2][i][2])
  BY <1>1, <1>2, Kinds
<1> DEFINE c == [i \in 1..n |-> Part(v[2][i][1], JsonToTypst[v[2][i][2]])]
           texts == [i \in 1..n |-> c[i].text]
           es == [i \in 1..n |-> Entry(<<Kept[v[2][i][1]]>>, Denoted(v[2][i][2]))]
           E == {es[i] : i \in 1..n}
<1>4. JsonToTypst[v] = Combined(c, ObjectText)
  BY <1>1, <1>2, JsonToTypstIs DEF JsonToTypstBody
<1>5. /\ \A i \in 1..n : c[i].error = <<>>
      /\ Combined(c, ObjectText) = Done(ObjectText(texts))
  <2>1. DOMAIN c = 1..n
    OBVIOUS
  <2> HIDE DEF c
  <2>2. \/ (\A i \in 1..n : c[i].error = <<>>) /\ Combined(c, ObjectText) = Done(ObjectText(texts))
        \/ \E i \in 1..n : c[i].error # <<>> /\ Combined(c, ObjectText) = c[i]
    BY <2>1, CombinedIs
  <2>3. ASSUME NEW i \in 1..n, c[i].error # <<>>, Combined(c, ObjectText) = c[i] PROVE FALSE
    BY <1>4, <2>3
  <2>4. QED
    BY <2>2, <2>3
<1>6. JsonToTypst[v].text = ObjectText(texts)
  BY <1>4, <1>5 DEF Done
<1>7. \A i \in 1..n :
        /\ JsonToTypst[v[2][i][2]].error = <<>>
        /\ c[i].text = Quoted(Translate[v[2][i][1]]) \o <<":">> \o JsonToTypst[v[2][i][2]].text
  <2> SUFFICES ASSUME NEW i \in 1..n
               PROVE  /\ JsonToTypst[v[2][i][2]].error = <<>>
                      /\ c[i].text = Quoted(Translate[v[2][i][1]]) \o <<":">>
                                       \o JsonToTypst[v[2][i][2]].text
    OBVIOUS
  <2>1. PICK r : r = JsonToTypst[v[2][i][2]]
    OBVIOUS
  <2>2. PICK key \in Text : key = v[2][i][1]
    BY <1>3
  <2>3. c[i] = Part(key, r) /\ c[i].error = <<>>
    BY <1>5, <2>1, <2>2
  <2> HIDE DEF c
  <2>4. ~Big(key)
    <3>1. ASSUME Big(key) PROVE FALSE
      <4>1. PICK e : e = [path |-> <<Key(key)>>, subject |-> "key", size |-> ByteSize(key)]
        OBVIOUS
      <4>2. Part(key, r).error = <<e>>
        BY <3>1, <4>1, PartIs
      <4>3. QED
        BY <2>3, <4>2
    <3>2. QED
      BY <3>1
  <2>5. r.error = <<>>
    <3>1. ASSUME r.error # <<>> PROVE FALSE
      <4>1. Part(key, r) = Under(Key(key), r)
        BY <2>4, <3>1, PartIs
      <4>2. QED
        BY <2>3, <3>1, <4>1, UnderIs
    <3>2. QED
      BY <3>1
  <2>6. Part(key, r) = Done(Quoted(Translate[key]) \o <<":">> \o r.text)
    BY <2>4, <2>5, PartIs
  <2>7. PICK t : t = Quoted(Translate[key]) \o <<":">> \o r.text
    OBVIOUS
  <2>8. c[i].text = t
    <3>1. c[i] = Done(t)
      BY <2>3, <2>6, <2>7
    <3>2. QED
      BY <3>1 DEF Done
  <2>9. QED
    BY <2>1, <2>2, <2>5, <2>7, <2>8
<1>8. \A i \in 1..n : texts[i] \in Text /\ ReadsAs(texts[i], es[i])
  <2> SUFFICES ASSUME NEW i \in 1..n PROVE texts[i] \in Text /\ ReadsAs(texts[i], es[i])
    OBVIOUS
  <2>1. texts[i] = Quoted(Translate[v[2][i][1]]) \o <<":">> \o JsonToTypst[v[2][i][2]].text
    BY <1>7
  <2>2. es[i] = Entry(<<Kept[v[2][i][1]]>>, Denoted(v[2][i][2]))
    OBVIOUS
  <2> HIDE DEF c, texts, es
  <2>3. ReadsAs(texts[i], es[i])
    BY <1>3, <1>7, <2>1, <2>2, PartReadsAs
  <2>4. QED
    BY <2>3 DEF ReadsAs
<1>9. /\ texts \in Seq(Text) /\ Len(texts) = n
      /\ es \in Seq(E) /\ Len(es) = n
  <2>1. \A i \in 1..n : texts[i] \in Text /\ es[i] \in E
    BY <1>8
  <2>2. texts = [i \in 1..n |-> texts[i]] /\ es = [i \in 1..n |-> es[i]]
    OBVIOUS
  <2> HIDE DEF texts, es, E
  <2>3. QED
    BY <2>1, <2>2
<1>10. n # 0 => Parenthesised(es, FALSE) = Denoted(v)
  BY <1>2, ObjectDenoted
<1> HIDE DEF c, texts, es, E
<1>11. CASE n = 0
  <2>1. texts = <<>> /\ ObjectText(texts) = <<"(", ":", ")">>
    BY <1>9, <1>11 DEF ObjectText
  <2>2. Denoted(v) = Object(<<>>)
    <3>1. DOMAIN v[2] = {}
      BY <1>2, <1>11
    <3>2. Representable[v]
      BY <1>1, <3>1, RepresentableIs DEF RepresentableBody
    <3>3. Cleaned[v] = Object([i \in {} |-> <<Kept[v[2][i][1]], Cleaned[v[2][i][2]]>>])
      BY <1>1, <3>1, CleanedIs DEF CleanedBody
    <3>4. [i \in {} |-> <<Kept[v[2][i][1]], Cleaned[v[2][i][2]]>>] = <<>>
      OBVIOUS
    <3>5. QED
      BY <3>2, <3>3, <3>4 DEF Denoted
  <2>3. QED
    BY <1>6, <2>1, <2>2, EmptyReadsBack
<1>12. CASE n # 0
  <2>1. texts # <<>> /\ Len(es) = Len(texts)
    BY <1>9, <1>12
  <2>2. ObjectText(texts) = <<"(">> \o Joined[texts] \o Closing(FALSE)
    BY <2>1 DEF ObjectText, Closing
  <2>3. Reading[<<"value", (<<"(">> \o Joined[texts] \o Closing(FALSE)) \o post>>]
          = Read(Parenthesised(es, FALSE), post)
    BY <1>8, <1>9, <2>1, HeldReadsBack
  <2>4. QED
    BY <1>6, <1>10, <1>12, <2>2, <2>3
<1>13. QED
  BY <1>11, <1>12

\* Any data that is written is read as the data less what is stripped, or, where
\* Typst has no spelling for it, as an error, and up to where the prelude goes on.
THEOREM ValuesReadBack ==
  ASSUME NEW value \in Value, JsonToTypst[value].error = <<>>, NEW rest \in Text
  PROVE  Reading[<<"value", JsonToTypst[value].text \o rest>>]
           = Read(IF Representable[value] THEN Cleaned[value] ELSE Error, rest)
<1> DEFINE S == {v \in Value : ReadsBack(v)}
<1>1. ASSUME NEW v \in Value, Writing!Upto(DepthOf(v)) \subseteq S PROVE v \in S
  <2>1. \A w \in Value : DepthOf(w) < DepthOf(v) => ReadsBack(w)
    BY <1>1 DEF Writing!Upto
  <2>2. CASE IsAtom(v)
    <3>1. v[1] = "atom" /\ v[2] \in Word /\ v = Atom(v[2])
      BY <2>2, Kinds DEF IsAtom, Atom
    <3>2. JsonToTypst[v].text = <<v[2]>>
      <4>1. JsonToTypst[v] = Done(<<v[2]>>)
        BY <3>1, JsonToTypstIs DEF JsonToTypstBody
      <4>2. QED
        BY <4>1 DEF Done
    <3>3. Denoted(v) = IF v[2] = "Infinity" THEN Error ELSE Atom(v[2])
      BY <3>1, RepresentableIs, CleanedIs DEF Denoted, RepresentableBody, CleanedBody
    <3>4. QED
      BY <3>1, <3>2, <3>3, AtomReadsBack DEF ReadsBack
  <2>3. CASE IsString(v)
    <3>1. v[1] = "string" /\ v[2] \in Text
      BY <2>3, Kinds
    <3>2. JsonToTypst[v] = QuotedString(v[2])
      BY <3>1, JsonToTypstIs DEF JsonToTypstBody
    <3>3. JsonToTypst[v].error = <<>> => JsonToTypst[v].text = Quoted(Translate[v[2]])
      <4>1. PICK s : s = EscapeString(v[2], "value")
        OBVIOUS
      <4>2. s = Done(Translate[v[2]]) \/ s.error # <<>>
        BY <3>1, <4>1, EscapeStringIs DEF Raise
      <4>3. CASE s = Done(Translate[v[2]])
        BY <3>2, <4>1, <4>3 DEF QuotedString, Done
      <4>4. CASE s.error # <<>>
        BY <3>2, <4>1, <4>4 DEF QuotedString
      <4>5. QED
        BY <4>2, <4>3, <4>4
    <3>4. Denoted(v) = String(Kept[v[2]])
      BY <3>1, RepresentableIs, CleanedIs DEF Denoted, RepresentableBody, CleanedBody
    <3>5. QED
      BY <3>1, <3>3, <3>4, StringReadsBack DEF ReadsBack
  <2>4. CASE IsList(v)
    BY <2>1, <2>4, Kinds, ListReadsBack
  <2>5. CASE IsObject(v)
    BY <2>1, <2>5, Kinds, ObjectReadsBack
  <2>6. QED
    BY <2>2, <2>3, <2>4, <2>5, Kinds
<1>2. Value \subseteq S
  <2> HIDE DEF S
  <2>1. Writing!Measured
    BY DepthIsMeasure DEF Writing!Measured
  <2>2. QED
    BY <1>1, <2>1, Writing!Induction
<1>3. QED
  BY <1>2 DEF ReadsBack, Denoted

Size(c)  == IF c.encoding = "base64" THEN DecodedSize(c) ELSE c.bytes
Sound(c) == IF c.encoding = "base64" THEN WellFormed(c) ELSE c.encodable

-----------------------------------------------------------------------------
(* What a file holds *)

\* The size worked out from the length is the size that decoding gives
\* ("this is exact for any input b64decode(validate=True) would accept"), for
\* payloads of every length.
THEOREM DecodedSizeIsExact ==
  ASSUME NEW c \in Base64Content, WellFormed(c)
  PROVE  DecodedBase64Size(c) = DecodedSize(c)
<1> DEFINE q == c.data \div 4
           r == c.data % 4
<1>1. q \in Nat /\ r \in 0..3 /\ c.data = 4 * q + r
  BY DEF Base64Content
<1>2. r # 1
  BY <1>1 DEF WellFormed
<1>3. DecodedSize(c) = 3 * q + (IF r = 2 THEN 1 ELSE IF r = 3 THEN 2 ELSE 0)
  BY DEF DecodedSize
<1>4. DecodedBase64Size(c) = (c.data * 3) \div 4
  BY DEF DecodedBase64Size
<1> HIDE DEF q, r
<1>5. /\ ((4 * q) * 3) \div 4 = 3 * q
      /\ ((4 * q + 2) * 3) \div 4 = 3 * q + 1
      /\ ((4 * q + 3) * 3) \div 4 = 3 * q + 2
  BY <1>1
<1>6. CASE r = 0
  BY <1>1, <1>3, <1>4, <1>5, <1>6
<1>7. CASE r = 2
  BY <1>1, <1>3, <1>4, <1>5, <1>7
<1>8. CASE r = 3
  BY <1>1, <1>3, <1>4, <1>5, <1>8
<1>9. QED
  BY <1>1, <1>2, <1>6, <1>7, <1>8

\* No file larger than the limit is written, and a file is refused for its size
\* only if it is larger than the limit or cannot be decoded at all.
THEOREM LimitIsOnWhatIsDecoded ==
  ASSUME NEW c \in Content, NEW limit \in Nat
  PROVE  LET d == DecodeInlineFile(c, limit) IN
         /\ d.answer \in {"none", "template_file_too_large", "invalid_file_data"}
         /\ d.answer = "none" => Sound(c) /\ d.size = Size(c) /\ d.size \in 0..limit
         /\ d.answer = "template_file_too_large" => ~Sound(c) \/ Size(c) > limit
         /\ d.answer = "invalid_file_data" => ~Sound(c)
<1> DEFINE d == DecodeInlineFile(c, limit)
           Right(x) ==
             /\ x.answer \in {"none", "template_file_too_large", "invalid_file_data"}
             /\ x.answer = "none" => Sound(c) /\ x.size = Size(c) /\ x.size \in 0..limit
             /\ x.answer = "template_file_too_large" => ~Sound(c) \/ Size(c) > limit
             /\ x.answer = "invalid_file_data" => ~Sound(c)
<1>1. ASSUME c \in Base64Content PROVE Right(d)
  <2>1. c.encoding = "base64" /\ c.data \in Nat
    BY <1>1 DEF Base64Content
  <2>2. WellFormed(c) => DecodedBase64Size(c) = DecodedSize(c)
    BY <1>1, DecodedSizeIsExact
  <2>3. DecodedBase64Size(c) \in Nat
    BY <2>1 DEF DecodedBase64Size
  <2>4. /\ d = DecodeBase64(c, limit)
        /\ Sound(c) = WellFormed(c) /\ Size(c) = DecodedSize(c)
    BY <2>1 DEF DecodeInlineFile, Sound, Size
  <2> HIDE DEF d
  <2>5. ASSUME DecodedBase64Size(c) > limit PROVE Right(d)
    BY <2>2, <2>4, <2>5 DEF DecodeBase64, Refused
  <2>6. ASSUME ~(DecodedBase64Size(c) > limit) PROVE Right(d)
    BY <2>2, <2>3, <2>4, <2>6 DEF DecodeBase64, Refused
  <2>7. QED
    BY <2>5, <2>6
<1>2. ASSUME c \in TextContent PROVE Right(d)
  <2>1. c.encoding = "text" /\ c.bytes \in Nat /\ c.encodable \in BOOLEAN
    BY <1>2 DEF TextContent
  <2>2. d = EncodeUtf8(c, limit) /\ Sound(c) = c.encodable /\ Size(c) = c.bytes
    BY <2>1 DEF DecodeInlineFile, Sound, Size
  <2> HIDE DEF d
  <2>3. ASSUME ~c.encodable PROVE Right(d)
    BY <2>2, <2>3 DEF EncodeUtf8, Refused
  <2>4. ASSUME c.encodable /\ c.bytes > limit PROVE Right(d)
    BY <2>1, <2>2, <2>4 DEF EncodeUtf8, Refused
  <2>5. ASSUME c.encodable /\ ~(c.bytes > limit) PROVE Right(d)
    BY <2>1, <2>2, <2>5 DEF EncodeUtf8
  <2>6. QED
    BY <2>1, <2>3, <2>4, <2>5
<1>3. QED
  BY <1>1, <1>2 DEF Content

-----------------------------------------------------------------------------
(* Keys *)

\* A key, name by name as it is folded.
LEMMA FoldKeyIs ==
  ASSUME NEW p \in Seq(Name)
  PROVE  /\ Files!FoldKey(p) \in Seq(Name) /\ Len(Files!FoldKey(p)) = Len(p)
         /\ \A i \in 1..Len(p) : Files!FoldKey(p)[i] = Folded[p[i]]
<1>1. \A i \in DOMAIN p : Folded[p[i]] \in Name
  BY FilesAssumption DEF Files!Assumptions
<1>2. Files!FoldKey(p) = [i \in 1..Len(p) |-> Folded[p[i]]]
  BY DEF Files!FoldKey
<1>3. QED
  BY <1>1, <1>2

\* What folds as a directory of a key folds to the beginning of it.
LEMMA ParentFolds ==
  ASSUME NEW key \in Seq(Name), NEW p \in Files!Parents(key)
  PROVE  /\ p \in Seq(Name) /\ p # <<>>
         /\ Files!IsStrictPrefix(Files!FoldKey(p), Files!FoldKey(key))
<1>1. PICK n \in 1..(Len(key) - 1) : p = SubSeq(key, 1, n)
  BY DEF Files!Parents
<1>2. /\ p \in Seq(Name) /\ Len(p) = n /\ n < Len(key)
      /\ \A i \in 1..n : p[i] = key[i]
  BY <1>1
<1> DEFINE f == Files!FoldKey(p)
           g == Files!FoldKey(key)
<1>3. /\ f \in Seq(Name) /\ g \in Seq(Name)
      /\ Len(f) = n /\ Len(g) = Len(key)
      /\ \A i \in 1..n : f[i] = g[i]
  BY <1>2, FoldKeyIs
<1> HIDE DEF f, g
<1>4. SubSeq(f, 1, Len(f)) = SubSeq(g, 1, Len(f)) /\ f # g
  BY <1>2, <1>3
<1>5. Files!IsStrictPrefix(f, g)
  BY <1>2, <1>3, <1>4 DEF Files!IsStrictPrefix, Files!IsPrefix
<1>6. QED
  BY <1>1, <1>2, <1>5 DEF f, g

\* A file system only tells paths apart that differ, and none that differ when
\* they are folded is taken for another.
LEMMA SameFolds ==
  ASSUME NEW p, NEW q, NEW ex \in BOOLEAN, Files!Same(p, q, ex)
  PROVE  Files!FoldKey(p) = Files!FoldKey(q)
BY DEF Files!Same

\* Keys of which nothing was refused.
Apart(ks) == /\ \A i \in DOMAIN ks : ks[i] \in Seq(Name) /\ ks[i] # <<>>
             /\ \A i, j \in DOMAIN ks :
                  /\ Files!FoldKey(ks[i]) = Files!FoldKey(ks[j]) => i = j
                  /\ ~Files!IsStrictPrefix(Files!FoldKey(ks[i]), Files!FoldKey(ks[j]))

\* Keys that no rule refuses are apart, and none of them leaves the project.
LEMMA AcceptedIs ==
  ASSUME keys \in Seq(Candidates), Files!Verdict = "none"
  PROVE  Apart(keys) /\ \A i \in DOMAIN keys : ~Files!Escapes(keys[i])
<1>1. /\ \A i \in DOMAIN keys : Files!ValidKey(keys[i])
      /\ ~Files!CaseCollision /\ ~Files!AncestorCollision
  BY DEF Files!Verdict
<1>2. ASSUME NEW i \in DOMAIN keys
      PROVE  keys[i] \in Seq(Name) /\ keys[i] # <<>> /\ ~Files!Escapes(keys[i])
  <2> DEFINE key == keys[i]
  <2>1. key \in Seq(Files!Segment) /\ key # <<>>
    <3>1. key \in Candidates
      OBVIOUS
    <3>2. QED
      BY <3>1, FilesAssumption DEF Files!Assumptions
  <2>2. /\ ~Files!IsAbsolute(key)
        /\ \A k \in DOMAIN key : key[k] # ".." /\ key[k] \in Name
    BY <1>1 DEF Files!ValidKey
  <2> HIDE DEF key
  <2>3. key \in Seq(Name)
    BY <2>1, <2>2
  <2>4. ASSUME NEW n \in DOMAIN key
        PROVE  ~(2 * Cardinality({k \in 1..n : key[k] = ".."})
                   > Cardinality(Files!Parts(key) \cap (1..n)))
    <3>1. {k \in 1..n : key[k] = ".."} = {}
      BY <2>2, <2>3
    <3>2. Cardinality({k \in 1..n : key[k] = ".."}) = 0
      BY <3>1, FS_EmptySet
    <3>3. IsFiniteSet(1..n)
      BY <2>3, FS_Interval
    <3>4. Cardinality(Files!Parts(key) \cap (1..n)) \in Nat
      BY <3>3, FS_Subset, FS_CardinalityType
    <3>5. QED
      BY <3>2, <3>4
  <2>5. ~Files!Escapes(key)
    BY <2>2, <2>4 DEF Files!Escapes, Cardinality, Files!Cardinality
  <2>6. QED
    BY <2>1, <2>3, <2>5 DEF key
<1>3. ASSUME NEW i \in DOMAIN keys, NEW j \in DOMAIN keys,
             Files!FoldKey(keys[i]) = Files!FoldKey(keys[j])
      PROVE  i = j
  <2>1. i \in Int /\ j \in Int
    OBVIOUS
  <2>2. ~(i < j) /\ ~(j < i)
    BY <1>1, <1>3 DEF Files!CaseCollision
  <2>3. QED
    BY <2>1, <2>2
<1>4. QED
  BY <1>1, <1>2, <1>3 DEF Apart, Files!AncestorCollision

-----------------------------------------------------------------------------
(* The disk *)

FileOf(ks, i)  == [path |-> ks[i], what |-> i]
DirsOf(ks, i)  == {[path |-> p, what |-> Files!Directory] : p \in Files!Parents(ks[i])}

\* The first n keys are on the disk with the directories they need, and no more.
DiskIs(d, ks, n) == /\ \A i \in 1..n : FileOf(ks, i) \in d
                    /\ \A e \in d : \E i \in 1..n : e = FileOf(ks, i) \/ e \in DirsOf(ks, i)

\* Of what is there, nothing is taken for another key, and only directories for
\* what a key needs for one.
LEMMA NothingInTheWay ==
  ASSUME NEW ks \in Seq(Seq(Name)), Apart(ks), NEW n \in 0..Len(ks), NEW d, DiskIs(d, ks, n),
         NEW ex \in BOOLEAN, NEW j \in DOMAIN ks
  PROVE  /\ \A e \in Files!Found(d, ks[j], ex) : j <= n /\ e = FileOf(ks, j)
         /\ \A p \in Files!Parents(ks[j]) : \A e \in Files!Found(d, p, ex) :
              e.what = Files!Directory
<1>1. ASSUME NEW e \in Files!Found(d, ks[j], ex)
      PROVE  j <= n /\ e = FileOf(ks, j)
  <2>1. e \in d /\ Files!FoldKey(e.path) = Files!FoldKey(ks[j])
    BY SameFolds DEF Files!Found
  <2>2. PICK i \in 1..n : e = FileOf(ks, i) \/ e \in DirsOf(ks, i)
    BY <2>1 DEF DiskIs
  <2>3. i \in DOMAIN ks
    OBVIOUS
  <2>4. CASE e = FileOf(ks, i)
    <3>1. Files!FoldKey(ks[i]) = Files!FoldKey(ks[j])
      BY <2>1, <2>4 DEF FileOf
    <3>2. i = j
      BY <2>3, <3>1 DEF Apart
    <3>3. QED
      BY <2>4, <3>2
  <2>5. CASE e \in DirsOf(ks, i)
    <3>1. PICK p \in Files!Parents(ks[i]) : e.path = p
      BY <2>5 DEF DirsOf
    <3>2. ks[i] \in Seq(Name)
      BY <2>3 DEF Apart
    <3>3. Files!IsStrictPrefix(Files!FoldKey(p), Files!FoldKey(ks[i]))
      BY <3>2, ParentFolds
    <3>4. QED
      BY <2>1, <2>3, <3>1, <3>3 DEF Apart
  <2>6. QED
    BY <2>2, <2>4, <2>5
<1>2. ASSUME NEW p \in Files!Parents(ks[j]), NEW e \in Files!Found(d, p, ex)
      PROVE  e.what = Files!Directory
  <2>1. e \in d /\ Files!FoldKey(e.path) = Files!FoldKey(p)
    BY SameFolds DEF Files!Found
  <2>2. PICK i \in 1..n : e = FileOf(ks, i) \/ e \in DirsOf(ks, i)
    BY <2>1 DEF DiskIs
  <2>3. i \in DOMAIN ks
    OBVIOUS
  <2>4. CASE e = FileOf(ks, i)
    <3>1. Files!FoldKey(ks[i]) = Files!FoldKey(p)
      BY <2>1, <2>4 DEF FileOf
    <3>2. ks[j] \in Seq(Name)
      BY DEF Apart
    <3>3. Files!IsStrictPrefix(Files!FoldKey(p), Files!FoldKey(ks[j]))
      BY <3>2, ParentFolds
    <3>4. QED
      BY <2>3, <3>1, <3>3 DEF Apart
  <2>5. CASE e \in DirsOf(ks, i)
    BY <2>5 DEF DirsOf
  <2>6. QED
    BY <2>2, <2>4, <2>5
<1>3. QED
  BY <1>1, <1>2

\* Nothing is in the way of the next key,
LEMMA NotBlocked ==
  ASSUME NEW ks \in Seq(Seq(Name)), Apart(ks), NEW n \in 1..Len(ks), NEW d,
         DiskIs(d, ks, n - 1), NEW ex \in BOOLEAN
  PROVE  ~Files!Blocked(d, ks[n], ex)
<1>1. n - 1 \in 0..Len(ks) /\ n \in DOMAIN ks /\ ~(n <= n - 1)
  OBVIOUS
<1>2. Files!Found(d, ks[n], ex) = {}
  BY <1>1, NothingInTheWay
<1>3. \A p \in Files!Parents(ks[n]) : \A e \in Files!Found(d, p, ex) :
        e.what = Files!Directory
  BY <1>1, NothingInTheWay
<1>4. QED
  BY <1>2, <1>3 DEF Files!Blocked

\* and when it is written, the disk holds one key more.
LEMMA NextIsWritten ==
  ASSUME NEW ks \in Seq(Seq(Name)), Apart(ks), NEW n \in 1..Len(ks), NEW d,
         DiskIs(d, ks, n - 1), NEW ex \in BOOLEAN
  PROVE  DiskIs(Files!Written(d, ks[n], n, ex), ks, n)
<1> DEFINE w == Files!Written(d, ks[n], n, ex)
<1>1. n - 1 \in 0..Len(ks) /\ n \in DOMAIN ks /\ ~(n <= n - 1)
  OBVIOUS
<1>2. Files!Found(d, ks[n], ex) = {}
  BY <1>1, NothingInTheWay
<1>3. d \subseteq w /\ FileOf(ks, n) \in w
  BY <1>2 DEF Files!Written, FileOf
<1>4. \A e \in w : e \in d \/ e \in DirsOf(ks, n) \/ e = FileOf(ks, n)
  BY DEF Files!Written, FileOf, DirsOf
<1> HIDE DEF w
<1>5. ASSUME NEW i \in 1..n PROVE FileOf(ks, i) \in w
  <2>1. i = n \/ i \in 1..(n - 1)
    OBVIOUS
  <2>2. QED
    BY <1>3, <2>1 DEF DiskIs
<1>6. ASSUME NEW e \in w
      PROVE  \E i \in 1..n : e = FileOf(ks, i) \/ e \in DirsOf(ks, i)
  <2>1. n \in 1..n /\ \A i \in 1..(n - 1) : i \in 1..n
    OBVIOUS
  <2>2. CASE e \in d
    BY <2>1, <2>2 DEF DiskIs
  <2>3. QED
    BY <1>4, <2>1, <2>2
<1>7. DiskIs(w, ks, n)
  BY <1>5, <1>6 DEF DiskIs
<1>8. QED
  BY <1>7 DEF w

WhatIsAt(d, key, ex) == {e.what : e \in Files!Found(d, key, ex)}

\* The entry point is none of the keys, nor a directory of one, however it is folded.
LEMMA EveryKeyIsKept ==
  ASSUME NEW ks \in Seq(Seq(Name)), Apart(ks), NEW d, DiskIs(d, ks, Len(ks)),
         NEW ex \in BOOLEAN, NEW i \in DOMAIN ks
  PROVE  WhatIsAt(Files!Written(d, EntryPoint, Files!Directory, ex), ks[i], ex) = {i}
<1> DEFINE w == Files!Written(d, EntryPoint, Files!Directory, ex)
<1>1. ASSUME NEW p \in Seq(Name), p # <<>>, Files!FoldKey(p) = Files!FoldKey(EntryPoint)
      PROVE  FALSE
  <2>1. 1 \in 1..Len(p) /\ p[1] \in Name
    BY <1>1
  <2>2. Files!FoldKey(p)[1] = Folded[p[1]]
    BY <2>1, FoldKeyIs
  <2>3. Files!FoldKey(EntryPoint)[1] = Folded[EntryName]
    BY DEF Files!FoldKey, EntryPoint
  <2>4. Folded[p[1]] \in Name
    BY <2>1, FilesAssumption DEF Files!Assumptions
  <2>5. QED
    BY <1>1, <2>2, <2>3, <2>4, EntryNameAssumption
<1>2. ASSUME NEW e \in d PROVE e.path \in Seq(Name) /\ e.path # <<>>
  <2>1. PICK j \in 1..Len(ks) : e = FileOf(ks, j) \/ e \in DirsOf(ks, j)
    BY DEF DiskIs
  <2>2. ks[j] \in Seq(Name) /\ ks[j] # <<>>
    BY <2>1 DEF Apart
  <2>3. CASE e = FileOf(ks, j)
    BY <2>2, <2>3 DEF FileOf
  <2>4. CASE e \in DirsOf(ks, j)
    BY <2>2, <2>4, ParentFolds DEF DirsOf
  <2>5. QED
    BY <2>1, <2>3, <2>4
<1>3. Files!Found(d, EntryPoint, ex) = {}
  BY <1>1, <1>2, SameFolds DEF Files!Found
<1>4. Files!Parents(EntryPoint) = {}
  BY DEF Files!Parents, EntryPoint
<1>5. w = d \cup {[path |-> EntryPoint, what |-> Files!Directory]}
  BY <1>3, <1>4 DEF Files!Written
<1> HIDE DEF w
<1>6. ks[i] \in Seq(Name) /\ ks[i] # <<>>
  BY DEF Apart
<1>7. ~Files!Same(EntryPoint, ks[i], ex)
  BY <1>1, <1>6, SameFolds
<1>8. Files!Found(w, ks[i], ex) = Files!Found(d, ks[i], ex)
  BY <1>5, <1>7 DEF Files!Found
<1>9. FileOf(ks, i) \in Files!Found(d, ks[i], ex)
  <2>1. FileOf(ks, i) \in d
    BY DEF DiskIs
  <2>2. FileOf(ks, i).path = ks[i]
    BY DEF FileOf
  <2>3. QED
    BY <2>1, <2>2 DEF Files!Found, Files!Same
<1>10. \A e \in Files!Found(d, ks[i], ex) : e = FileOf(ks, i)
  BY NothingInTheWay
<1>11. WhatIsAt(w, ks[i], ex) = {i}
  BY <1>8, <1>9, <1>10 DEF FileOf, WhatIsAt
<1>12. QED
  BY <1>11 DEF w

-----------------------------------------------------------------------------
(* The inductive invariant *)

TypeOK == /\ at \in {"validate", "write", "done"}
          /\ keys \in Seq(Candidates) /\ exact \in BOOLEAN
          /\ next \in 1..(Len(keys) + 1)
          /\ contents \in [DOMAIN keys -> Content]
          /\ sizes \in Seq(Nat) /\ Len(sizes) = next - 1

\* Until the end: what was written is what the first keys hold.
Progress ==
  /\ at = "validate" => answer = "none" /\ next = 1 /\ disk = {}
  /\ at = "write"    => answer = "none" /\ Files!Verdict = "none"
                        /\ DiskIs(disk, keys, next - 1)
  /\ \A i \in 1..(next - 1) : sizes[i] = Size(contents[i]) /\ sizes[i] <= MaxFileBytes

\* The answer of a rule is that of the keys, which do not change.
VerdictStands ==
  answer \in {"case_collision", "ancestor_collision"} => answer = Files!Verdict

IInv == TypeOK /\ Progress /\ VerdictStands /\ EachFileKept /\ LimitIsOnContent

\* While files are written, every key is apart from the others.
LEMMA KeysApart ==
  ASSUME TypeOK, Progress, at = "write"
  PROVE  /\ keys \in Seq(Seq(Name)) /\ Apart(keys)
         /\ \A i \in DOMAIN keys : ~Files!Escapes(keys[i])
<1>1. Apart(keys) /\ \A i \in DOMAIN keys : ~Files!Escapes(keys[i])
  BY AcceptedIs DEF TypeOK, Progress
<1>2. \A i \in DOMAIN keys : keys[i] \in Seq(Name)
  BY <1>1 DEF Apart
<1>3. keys \in Seq(Seq(Name))
  BY <1>2 DEF TypeOK
<1>4. QED
  BY <1>1, <1>3

\* The invariant holds at first, and is kept by each action.
LEMMA InitOK == Init => IInv
<1> SUFFICES ASSUME Init PROVE IInv
  OBVIOUS
<1>1. keys \in Files!Distinct /\ at = "validate" /\ exact \in BOOLEAN
      /\ disk = {} /\ next = 1 /\ answer = "none" /\ sizes = <<>>
  BY DEF Init, Files!Init
<1>2. keys \in Seq(Candidates)
  <2>1. keys \in UNION {[1..n -> Candidates] : n \in 0..(MaxKeys + 1)}
    BY <1>1 DEF Files!Distinct, Files!BoundedSeq, Files!SeqOf
  <2>2. MaxKeys \in Nat
    BY FilesAssumption DEF Files!Assumptions
  <2>3. QED
    BY <2>1, <2>2
<1>3. contents \in [DOMAIN keys -> Content]
  BY <1>1, RequestsAssumption DEF Init
<1>4. TypeOK
  BY <1>1, <1>2, <1>3 DEF TypeOK
<1>5. Progress /\ VerdictStands
  BY <1>1 DEF Progress, VerdictStands
<1>6. EachFileKept /\ LimitIsOnContent
  BY <1>1 DEF EachFileKept, Files!AcceptedIsWritable, Files!EachFileKept, LimitIsOnContent
<1>7. QED
  BY <1>4, <1>5, <1>6 DEF IInv

\* What is asked of the keys does not change with the rest.
LEMMA VerdictIsOfKeys ==
  ASSUME UNCHANGED keys
  PROVE  Files!Verdict' = Files!Verdict
BY DEF Files!Verdict, Files!TooMany, Files!CaseCollision, Files!AncestorCollision

LEMMA ValidateOK ==
  ASSUME IInv, Validate
  PROVE  IInv'
<1>1. /\ at = "validate" /\ answer' = Files!Verdict
      /\ at' = IF Files!Verdict = "none" THEN "write" ELSE "done"
      /\ UNCHANGED <<keys, exact, disk, next, contents, sizes>>
  BY DEF Validate, Files!Validate
<1>2. next = 1 /\ disk = {} /\ answer = "none"
  BY <1>1 DEF IInv, Progress
<1>3. Files!Verdict \in {"too_many_keys", "invalid_template_path", "case_collision",
                         "ancestor_collision", "none"}
  BY DEF Files!Verdict
<1>4. Files!Verdict' = Files!Verdict
  BY <1>1, VerdictIsOfKeys
<1>5. TypeOK'
  BY <1>1 DEF IInv, TypeOK
<1>6. Progress'
  BY <1>1, <1>2, <1>4 DEF Progress, DiskIs
<1>7. VerdictStands'
  BY <1>1, <1>4 DEF VerdictStands
<1>8. EachFileKept'
  BY <1>1, <1>3 DEF EachFileKept, Files!AcceptedIsWritable, Files!EachFileKept
<1>9. LimitIsOnContent'
  <2>1. DOMAIN sizes' = {}
    BY <1>1, <1>2 DEF IInv, TypeOK
  <2>2. QED
    BY <1>1, <1>3, <2>1 DEF LimitIsOnContent
<1>10. QED
  BY <1>5, <1>6, <1>7, <1>8, <1>9 DEF IInv

\* What LimitIsOnContent says of what is written follows from Progress.
LEMMA WithinTheLimit ==
  ASSUME TypeOK, Progress
  PROVE  \A i \in DOMAIN sizes : /\ sizes[i] = Size(contents[i])
                                 /\ sizes[i] <= MaxFileBytes
<1>1. DOMAIN sizes = 1..(next - 1)
  BY DEF TypeOK
<1>2. QED
  BY <1>1 DEF Progress

\* What it says of what is refused.
RefusedByContent ==
  /\ answer = "template_file_too_large" /\ Sound(contents[next]) =>
       Size(contents[next]) > MaxFileBytes
  /\ answer = "invalid_file_data" => ~Sound(contents[next])

\* So LimitIsOnContent follows, and in the next state too.
LEMMA LimitFollows == TypeOK /\ Progress /\ RefusedByContent => LimitIsOnContent
<1> SUFFICES ASSUME TypeOK, Progress, RefusedByContent PROVE LimitIsOnContent
  OBVIOUS
<1>1. \A i \in DOMAIN sizes : sizes[i] = Size(contents[i]) /\ sizes[i] <= MaxFileBytes
  BY WithinTheLimit
<1> DEFINE size(c)  == IF c.encoding = "base64" THEN DecodedSize(c) ELSE c.bytes
           sound(c) == IF c.encoding = "base64" THEN WellFormed(c) ELSE c.encodable
<1>2. \A c : size(c) = Size(c) /\ sound(c) = Sound(c)
  BY DEF Size, Sound
<1> HIDE DEF size, sound
<1>3. /\ \A i \in DOMAIN sizes : sizes[i] = size(contents[i]) /\ sizes[i] <= MaxFileBytes
      /\ answer = "template_file_too_large" /\ sound(contents[next]) =>
           size(contents[next]) > MaxFileBytes
      /\ answer = "invalid_file_data" => ~sound(contents[next])
  BY <1>1, <1>2 DEF RefusedByContent
<1>4. QED
  BY <1>3 DEF LimitIsOnContent, size, sound

LEMMA LimitFollowsNext ==
  ASSUME TypeOK', Progress', RefusedByContent'
  PROVE  LimitIsOnContent'
BY LimitFollows, PTL

LEMMA RefuseFileOK ==
  ASSUME IInv, RefuseFile
  PROVE  IInv'
<1>1. /\ at = "write" /\ next <= Len(keys)
      /\ Decoded.answer # "none" /\ at' = "done" /\ answer' = Decoded.answer
      /\ UNCHANGED <<keys, exact, disk, next, contents, sizes>>
  BY DEF RefuseFile
<1>2. next \in DOMAIN keys /\ contents[next] \in Content
  BY <1>1 DEF IInv, TypeOK
<1> DEFINE d == DecodeInlineFile(contents[next], MaxFileBytes)
<1>3. /\ d.answer \in {"none", "template_file_too_large", "invalid_file_data"}
      /\ d.answer = "template_file_too_large" =>
           ~Sound(contents[next]) \/ Size(contents[next]) > MaxFileBytes
      /\ d.answer = "invalid_file_data" => ~Sound(contents[next])
  BY <1>2, LimitIsOnWhatIsDecoded, MaxFileBytesAssumption
<1> HIDE DEF d
<1>4. answer' = d.answer /\ d.answer # "none"
  BY <1>1 DEF Decoded, d
<1>5. TypeOK'
  BY <1>1 DEF IInv, TypeOK
<1>6. Progress'
  BY <1>1 DEF IInv, Progress
<1>7. VerdictStands'
  BY <1>3, <1>4 DEF VerdictStands
<1>8. EachFileKept'
  BY <1>3, <1>4 DEF EachFileKept, Files!AcceptedIsWritable, Files!EachFileKept
<1>9. RefusedByContent'
  BY <1>1, <1>3, <1>4 DEF RefusedByContent
<1>10. LimitIsOnContent'
  BY <1>5, <1>6, <1>9, LimitFollowsNext
<1>11. QED
  BY <1>5, <1>6, <1>7, <1>8, <1>10 DEF IInv

LEMMA WriteFileOK ==
  ASSUME IInv, WriteFile
  PROVE  IInv'
<1> DEFINE d == DecodeInlineFile(contents[next], MaxFileBytes)
<1>1. /\ at = "write" /\ next \in 1..Len(keys) /\ answer = "none" /\ exact \in BOOLEAN
      /\ keys \in Seq(Candidates) /\ Files!Verdict = "none"
      /\ DiskIs(disk, keys, next - 1)
  BY DEF IInv, TypeOK, Progress, WriteFile, Files!WriteFile
<1>2. /\ keys \in Seq(Seq(Name)) /\ Apart(keys)
      /\ ~Files!Escapes(keys[next])
  BY <1>1, KeysApart DEF IInv
<1>3. ~Files!Blocked(disk, keys[next], exact)
  BY <1>1, <1>2, NotBlocked
<1>4. /\ disk' = Files!Written(disk, keys[next], next, exact)
      /\ next' = next + 1 /\ UNCHANGED <<at, answer, keys, exact, contents>>
  BY <1>2, <1>3 DEF WriteFile, Files!WriteFile
<1>5. Decoded.answer = "none" /\ sizes' = Append(sizes, Decoded.size)
  BY <1>1, <1>2, <1>4 DEF WriteFile
<1>6. contents[next] \in Content
  BY <1>1 DEF IInv, TypeOK
<1>7. d.answer = "none" => d.size = Size(contents[next]) /\ d.size \in 0..MaxFileBytes
  BY <1>6, LimitIsOnWhatIsDecoded, MaxFileBytesAssumption
<1> HIDE DEF d
<1>8. /\ sizes' = Append(sizes, d.size)
      /\ d.size = Size(contents[next]) /\ d.size \in 0..MaxFileBytes
  BY <1>5, <1>7 DEF d, Decoded
<1>9. TypeOK'
  <2>1. d.size \in Nat
    BY <1>8, MaxFileBytesAssumption
  <2>2. sizes \in Seq(Nat) /\ Len(sizes) = next - 1
    BY DEF IInv, TypeOK
  <2>3. sizes' \in Seq(Nat) /\ Len(sizes') = next
    BY <1>1, <1>8, <2>1, <2>2
  <2>4. next' \in 1..(Len(keys') + 1) /\ Len(sizes') = next' - 1
    BY <1>1, <1>4, <2>3
  <2>5. QED
    BY <1>4, <2>3, <2>4 DEF IInv, TypeOK
<1>10. Progress'
  <2>1. next' - 1 = next
    BY <1>1, <1>4
  <2>2. DiskIs(Files!Written(disk, keys[next], next, exact), keys, next)
    BY <1>1, <1>2, NextIsWritten
  <2>3. DiskIs(disk', keys', next' - 1)
    BY <1>4, <2>1, <2>2
  <2>4. at' = "write" /\ answer' = "none" /\ Files!Verdict' = "none"
    BY <1>1, <1>4, VerdictIsOfKeys
  <2>5. \A i \in 1..next : sizes'[i] = Size(contents[i]) /\ sizes'[i] <= MaxFileBytes
    <3>1. \A i \in 1..(next - 1) : sizes'[i] = sizes[i]
      BY <1>8 DEF IInv, TypeOK
    <3>2. sizes'[next] = d.size
      BY <1>8 DEF IInv, TypeOK
    <3>3. \A i \in 1..next : i = next \/ i \in 1..(next - 1)
      BY <1>1
    <3>4. d.size <= MaxFileBytes
      BY <1>8, MaxFileBytesAssumption
    <3>5. QED
      BY <1>8, <3>1, <3>2, <3>3, <3>4 DEF IInv, Progress
  <2>6. QED
    BY <1>4, <2>1, <2>3, <2>4, <2>5 DEF Progress
<1>11. VerdictStands'
  BY <1>1, <1>4 DEF VerdictStands
<1>12. EachFileKept'
  BY <1>1, <1>4 DEF EachFileKept, Files!AcceptedIsWritable, Files!EachFileKept
<1>13. RefusedByContent'
  BY <1>1, <1>4 DEF RefusedByContent
<1>14. LimitIsOnContent'
  BY <1>9, <1>10, <1>13, LimitFollowsNext
<1>15. QED
  BY <1>9, <1>10, <1>11, <1>12, <1>14 DEF IInv

LEMMA WriteBoundTemplateOK ==
  ASSUME IInv, WriteBoundTemplate
  PROVE  IInv'
<1>1. /\ at = "write" /\ next > Len(keys) /\ at' = "done"
      /\ UNCHANGED <<keys, exact, next, contents, sizes>>
      /\ \/ answer' = "string_too_large"
         \/ /\ answer' = "written"
            /\ disk' = Files!Written(disk, EntryPoint, Files!Directory, exact)
  BY DEF WriteBoundTemplate
<1>2. /\ next - 1 = Len(keys) /\ exact \in BOOLEAN
      /\ DiskIs(disk, keys, next - 1)
  BY <1>1 DEF IInv, TypeOK, Progress
<1>3. keys \in Seq(Seq(Name)) /\ Apart(keys)
  BY <1>1, KeysApart DEF IInv
<1>4. TypeOK'
  BY <1>1 DEF IInv, TypeOK
<1>5. Progress'
  BY <1>1 DEF IInv, Progress
<1>6. VerdictStands'
  BY <1>1 DEF VerdictStands
<1>7. EachFileKept'
  <2>1. CASE answer' = "string_too_large"
    BY <2>1 DEF EachFileKept, Files!AcceptedIsWritable, Files!EachFileKept
  <2>2. CASE /\ answer' = "written"
             /\ disk' = Files!Written(disk, EntryPoint, Files!Directory, exact)
    <3>1. DiskIs(disk, keys, Len(keys))
      BY <1>2
    <3>2. ASSUME NEW i \in DOMAIN keys
          PROVE  WhatIsAt(disk', keys[i], exact) = {i}
      <4> DEFINE w == Files!Written(disk, EntryPoint, Files!Directory, exact)
      <4>1. WhatIsAt(w, keys[i], exact) = {i}
        BY <1>2, <1>3, <3>1, EveryKeyIsKept
      <4> HIDE DEF w
      <4>2. disk' = w
        BY <2>2 DEF w
      <4>3. QED
        BY <4>1, <4>2
    <3>3. Files!EachFileKept'
      BY <1>1, <3>2 DEF Files!EachFileKept, WhatIsAt
    <3>4. QED
      BY <2>2, <3>3 DEF EachFileKept, Files!AcceptedIsWritable
  <2>3. QED
    BY <1>1, <2>1, <2>2
<1>8. RefusedByContent'
  BY <1>1 DEF RefusedByContent
<1>9. LimitIsOnContent'
  BY <1>4, <1>5, <1>8, LimitFollowsNext
<1>10. QED
  BY <1>4, <1>5, <1>6, <1>7, <1>9 DEF IInv

LEMMA SameOK ==
  ASSUME IInv, UNCHANGED vars
  PROVE  IInv'
<1>1. UNCHANGED <<at, keys, exact, disk, next, answer, contents, sizes>>
  BY DEF vars
<1>2. TypeOK' /\ VerdictStands'
  BY <1>1, VerdictIsOfKeys DEF IInv, TypeOK, VerdictStands
<1>3. Progress'
  BY <1>1, VerdictIsOfKeys DEF IInv, Progress
<1>4. EachFileKept'
  BY <1>1 DEF IInv, EachFileKept, Files!AcceptedIsWritable, Files!EachFileKept,
              Files!Found, Files!Same, Files!FoldKey
<1>5. LimitIsOnContent'
  BY <1>1 DEF IInv, LimitIsOnContent
<1>6. QED
  BY <1>2, <1>3, <1>4, <1>5 DEF IInv

\* What is on the disk, what was written of it, and what became of the keys stay in
\* step, for any keys, any contents and either kind of file system.
THEOREM InlineInvariance == Spec => []IInv
<1>1. Init => IInv
  BY InitOK
<1>2. IInv /\ [Next]_vars => IInv'
  <2> SUFFICES ASSUME IInv, [Next]_vars PROVE IInv'
    OBVIOUS
  <2>1. CASE Validate
    BY <2>1, ValidateOK
  <2>2. CASE RefuseFile
    BY <2>2, RefuseFileOK
  <2>3. CASE WriteFile
    BY <2>3, WriteFileOK
  <2>4. CASE WriteBoundTemplate
    BY <2>4, WriteBoundTemplateOK
  <2>5. CASE UNCHANGED vars
    BY <2>5, SameOK
  <2>6. QED
    BY <2>1, <2>2, <2>3, <2>4, <2>5 DEF Next, Finished
<1>3. QED
  BY <1>1, <1>2, PTL DEF Spec

\* Whatever the keys, keys that are accepted can be written, on a file system that
\* tells upper from lower case and on one that does not, and each finds its content.
THEOREM FilesAreKept == Spec => []EachFileKept
<1>1. IInv => EachFileKept
  BY DEF IInv
<1>2. QED
  BY <1>1, InlineInvariance, PTL

\* For any contents and any limit, a file that is written is as long as what was
\* sent and within the limit, and one that is refused is neither.
THEOREM LimitIsKept == Spec => []LimitIsOnContent
<1>1. IInv => LimitIsOnContent
  BY DEF IInv
<1>2. QED
  BY <1>1, InlineInvariance, PTL

-----------------------------------------------------------------------------
(* The data, on its way into the template *)

\* The template holds what was made of the data, and the context of an error is
\* the error that came up.
DataInv ==
  LET r == JsonToTypst[data] IN
  /\ data \in Value
  /\ bound # <<>> => r.error = <<>> /\ bound = BoundTemplate(r.text)
  /\ answer = "string_too_large" => r.error # <<>> /\ context = r.error[1]
  /\ answer = "written" => r.error = <<>>

\* At first nothing was made of the data.
LEMMA DataInit == Init => DataInv
BY RequestsAssumption DEF Init, Files!Init, DataInv

\* No step parts the data from what was made of it.
LEMMA DataStep ==
  ASSUME IInv, DataInv, [Next]_vars
  PROVE  DataInv'
<1> DEFINE r == JsonToTypst[data]
<1>1. /\ data \in Value
      /\ bound # <<>> => r.error = <<>> /\ bound = BoundTemplate(r.text)
      /\ answer = "string_too_large" => r.error # <<>> /\ context = r.error[1]
      /\ answer = "written" => r.error = <<>>
  BY DEF DataInv
<1>2. ASSUME UNCHANGED <<data, bound, context>>,
             answer' = answer \/ answer' \notin {"string_too_large", "written"}
      PROVE  DataInv'
  BY <1>1, <1>2 DEF DataInv
<1>3. CASE Validate
  BY <1>2, <1>3 DEF Validate, Files!Validate, Files!Verdict
<1>4. CASE RefuseFile
  <2>1. next \in DOMAIN keys /\ contents[next] \in Content
    BY <1>4 DEF RefuseFile, IInv, TypeOK
  <2>2. PICK d : d = DecodeInlineFile(contents[next], MaxFileBytes)
    OBVIOUS
  <2>3. d.answer \in {"none", "template_file_too_large", "invalid_file_data"}
    BY <2>1, <2>2, LimitIsOnWhatIsDecoded, MaxFileBytesAssumption
  <2>4. answer' = d.answer /\ UNCHANGED <<data, bound, context>>
    BY <1>4, <2>2 DEF RefuseFile, Decoded
  <2>5. QED
    BY <1>2, <2>3, <2>4
<1>5. CASE WriteFile
  <2>1. UNCHANGED <<data, bound, context>>
    BY <1>5 DEF WriteFile
  <2>2. answer' = answer \/ answer' \in {"escapes", "cannot_be_written"}
    BY <1>5 DEF WriteFile, Files!WriteFile
  <2>3. QED
    BY <1>2, <2>1, <2>2
<1>6. CASE WriteBoundTemplate
  <2>1. at = "write" /\ UNCHANGED data
    BY <1>6 DEF WriteBoundTemplate
  <2>2. bound' = bound \/ (r.error = <<>> /\ bound' = BoundTemplate(r.text))
    BY <1>6 DEF WriteBoundTemplate
  <2>3. \/ answer' = "string_too_large" /\ r.error # <<>> /\ context' = r.error[1]
        \/ answer' = "written" /\ r.error = <<>>
    BY <1>6 DEF WriteBoundTemplate
  <2>4. r' = r
    BY <2>1
  <2> HIDE DEF r
  <2>5. /\ bound' # <<>> => r.error = <<>> /\ bound' = BoundTemplate(r.text)
        /\ answer' = "string_too_large" => r.error # <<>> /\ context' = r.error[1]
        /\ answer' = "written" => r.error = <<>>
    BY <1>1, <2>2, <2>3
  <2>6. QED
    BY <1>1, <2>1, <2>4, <2>5 DEF DataInv, r
<1>7. CASE UNCHANGED vars
  BY <1>2, <1>7 DEF vars
<1>8. QED
  BY <1>3, <1>4, <1>5, <1>6, <1>7 DEF Next, Finished

\* What was made of the data stays with it.
LEMMA DataInvariance == Spec => []DataInv
BY DataInit, DataStep, InlineInvariance, PTL DEF Spec

\* Whatever the data, however deep and with whatever in its strings, the template
\* finds it in `request` as it was sent, less what is stripped, and the prelude goes
\* on behind it; and data that Typst has no spelling for is an error.
THEOREM DataIsReadBack == Spec => []DataReadsBack
<1>1. DataInv => DataReadsBack
  <2> SUFFICES ASSUME DataInv, bound # <<>> PROVE DataReadsBack
    BY DEF DataReadsBack
  <2>1. data \in Value
    BY DEF DataInv
  <2>2. PICK t \in Text : t = JsonToTypst[data].text
    BY <2>1, JsonToTypstIs DEF Outcome
  <2>3. JsonToTypst[data].error = <<>> /\ bound = (LetRequest \o t) \o Rest
    BY <2>2 DEF DataInv, BoundTemplate
  <2>4. PICK rest \in Text : rest = Rest
    BY PreludeAssumption
  <2>5. PICK let \in Text : let = LetRequest
    BY PreludeAssumption
  <2>6. bound = let \o (t \o rest) /\ t \o rest \in Text
    BY <2>3, <2>4, <2>5, Associative, JoinedText
  <2>7. After(bound, Len(let)) = t \o rest
    BY <2>6, AfterConcat
  <2>8. Reading[<<"value", t \o rest>>]
          = Read(IF Representable[data] THEN Cleaned[data] ELSE Error, rest)
    BY <2>1, <2>2, <2>3, ValuesReadBack
  <2> DEFINE r == Reading[<<"value", After(bound, Len(LetRequest))>>]
  <2>9. r = Read(IF Representable[data] THEN Cleaned[data] ELSE Error, Rest)
    BY <2>4, <2>5, <2>7, <2>8
  <2> HIDE DEF r
  <2>10. r.value = (IF Representable[data] THEN Cleaned[data] ELSE Error) /\ r.rest = Rest
    BY <2>9 DEF Read
  <2>11. QED
    BY <2>10 DEF DataReadsBack, r
<1>2. QED
  BY <1>1, DataInvariance, PTL

\* Whatever the data and the limit, it is refused exactly for a string that is over
\* the limit, and the path that the frames put together leads to one.
THEOREM PathIsOfString == Spec => []PathLeadsToString
<1>1. DataInv => PathLeadsToString
  <2> SUFFICES ASSUME DataInv PROVE PathLeadsToString
    OBVIOUS
  <2>1. data \in Value
    BY DEF DataInv
  <2>2. PICK r : r = JsonToTypst[data]
    OBVIOUS
  <2>3. /\ r.error = <<>> => Offending[data] = {}
        /\ r.error # <<>> => r.error[1] \in Offending[data]
    BY <2>1, <2>2, JsonToTypstIs DEF Outcome
  <2>4. /\ answer = "string_too_large" => r.error # <<>> /\ context = r.error[1]
        /\ answer = "written" => r.error = <<>>
    BY <2>2 DEF DataInv
  <2>5. QED
    BY <2>3, <2>4 DEF PathLeadsToString
<1>2. QED
  BY <1>1, DataInvariance, PTL

-----------------------------------------------------------------------------
(* The writer without the rules *)

Start == [disk |-> {}, blocked |-> FALSE]

\* What it makes of one key more.
One(s, n, ex) == IF s.blocked \/ Files!Blocked(s.disk, keys[n], ex)
                 THEN [disk |-> s.disk, blocked |-> TRUE]
                 ELSE [disk |-> Files!Written(s.disk, keys[n], n, ex), blocked |-> FALSE]

\* f[n] is what it has made of the first n.
IsRun(f, m, ex) == f = [n \in 0..m |-> IF n = 0 THEN Start ELSE One(f[n - 1], n, ex)]

\* The writer without the rules has an outcome for any number of keys,
LEMMA RunExists ==
  ASSUME NEW ex \in BOOLEAN
  PROVE  \A m \in Nat : \E f : IsRun(f, m, ex)
<1> DEFINE Bad == {m \in Nat : ~\E f : IsRun(f, m, ex)}
<1>1. SUFFICES ASSUME Bad # {} PROVE FALSE
  OBVIOUS
<1>2. PICK b \in Bad : \A c \in Bad : b <= c
  BY <1>1, Translating!LeastExists
<1>3. b \in Nat /\ ~\E f : IsRun(f, b, ex)
  OBVIOUS
<1>4. CASE b = 0
  <2> DEFINE f == [n \in 0..0 |-> Start]
  <2>1. IsRun(f, 0, ex)
    BY DEF IsRun
  <2>2. QED
    BY <1>3, <1>4, <2>1
<1>5. CASE b # 0
  <2>1. b - 1 \in Nat /\ b - 1 \notin Bad
    BY <1>2, <1>3, <1>5
  <2>2. PICK f : IsRun(f, b - 1, ex)
    BY <2>1
  <2> DEFINE g == [n \in 0..b |-> IF n = b THEN One(f[b - 1], b, ex) ELSE f[n]]
  <2>3. \A n \in 0..(b - 1) : f[n] = IF n = 0 THEN Start ELSE One(f[n - 1], n, ex)
    BY <2>2 DEF IsRun
  <2>4. \A n \in 0..b : g[n] = IF n = 0 THEN Start ELSE One(g[n - 1], n, ex)
    <3> SUFFICES ASSUME NEW n \in 0..b
                 PROVE  g[n] = IF n = 0 THEN Start ELSE One(g[n - 1], n, ex)
      OBVIOUS
    <3>1. CASE n = b
      <4>1. n - 1 \in 0..b /\ n - 1 # b /\ n # 0
        BY <1>3, <1>5, <3>1
      <4>2. g[n - 1] = f[n - 1] /\ g[n] = One(f[b - 1], b, ex)
        BY <3>1, <4>1
      <4>3. QED
        BY <3>1, <4>1, <4>2
    <3>2. CASE n # b
      <4>1. n \in 0..(b - 1) /\ (n # 0 => n - 1 \in 0..b /\ n - 1 # b)
        BY <1>3, <3>2
      <4>2. g[n] = f[n] /\ (n # 0 => g[n - 1] = f[n - 1])
        BY <3>2, <4>1
      <4>3. QED
        BY <2>3, <4>1, <4>2
    <3>3. QED
      BY <3>1, <3>2
  <2>5. g = [n \in 0..b |-> g[n]]
    OBVIOUS
  <2> HIDE DEF g
  <2>6. IsRun(g, b, ex)
    BY <2>4, <2>5 DEF IsRun
  <2>7. QED
    BY <1>3, <2>6
<1>6. QED
  BY <1>4, <1>5

\* and Outcome is what it comes to.
LEMMA OutcomeIs ==
  ASSUME NEW ex \in BOOLEAN, keys \in Seq(Candidates)
  PROVE  \E f : IsRun(f, Len(keys), ex) /\ Files!Outcome(ex) = f[Len(keys)]
<1> DEFINE run == CHOOSE f : IsRun(f, Len(keys), ex)
<1>1. IsRun(run, Len(keys), ex)
  BY RunExists
<1>2. Files!Outcome(ex) = run[Len(keys)]
  BY DEF Files!Outcome, IsRun, Start, One
<1>3. QED
  BY <1>1, <1>2

\* A directory is never written over: the writer stops instead.
LEMMA DirectoryStays ==
  ASSUME NEW d, NEW e \in d, e.what = Files!Directory, NEW key, NEW n,
         NEW ex \in BOOLEAN, ~Files!Blocked(d, key, ex)
  PROVE  e \in Files!Written(d, key, n, ex)
<1>1. e \notin Files!Found(d, key, ex)
  BY DEF Files!Blocked
<1>2. QED
  BY <1>1 DEF Files!Written

\* And the directories of a key are there when it is written.
LEMMA DirectoryIsMade ==
  ASSUME NEW d, NEW key, NEW q \in Files!Parents(key), NEW n,
         NEW ex \in BOOLEAN, ~Files!Blocked(d, key, ex)
  PROVE  \E e \in Files!Found(Files!Written(d, key, n, ex), q, ex) : e.what = Files!Directory
<1> DEFINE w == Files!Written(d, key, n, ex)
<1>1. CASE Files!Found(d, q, ex) = {}
  <2> DEFINE e == [path |-> q, what |-> Files!Directory]
  <2>1. e \in w
    BY <1>1 DEF Files!Written
  <2>2. e.path = q /\ e.what = Files!Directory
    OBVIOUS
  <2> HIDE DEF e, w
  <2>3. e \in Files!Found(w, q, ex)
    BY <2>1, <2>2 DEF Files!Found, Files!Same
  <2>4. QED
    BY <2>2, <2>3 DEF w
<1>2. CASE Files!Found(d, q, ex) # {}
  <2>1. PICK e \in Files!Found(d, q, ex) : TRUE
    BY <1>2
  <2>2. e \in d /\ Files!Same(e.path, q, ex) /\ e.what = Files!Directory
    BY <2>1 DEF Files!Found, Files!Blocked
  <2>3. e \in w
    BY <2>2, DirectoryStays
  <2> HIDE DEF w
  <2>4. e \in Files!Found(w, q, ex)
    BY <2>2, <2>3 DEF Files!Found
  <2>5. QED
    BY <2>2, <2>4 DEF w
<1>3. QED
  BY <1>1, <1>2

\* Two keys that fold to one and the same find one and the same on a file system
\* that folds.
LEMMA CaseCollisionIsCause ==
  ASSUME NEW d, NEW ex \in BOOLEAN, ~ex, NEW i \in DOMAIN keys, NEW j \in DOMAIN keys, i # j,
         Files!FoldKey(keys[i]) = Files!FoldKey(keys[j])
  PROVE  \E k \in DOMAIN keys : WhatIsAt(d, keys[k], ex) # {k}
<1>1. Files!Found(d, keys[i], ex) = Files!Found(d, keys[j], ex)
  BY DEF Files!Found, Files!Same
<1>2. WhatIsAt(d, keys[i], ex) = WhatIsAt(d, keys[j], ex)
  BY <1>1 DEF WhatIsAt
<1>3. QED
  BY <1>2

\* A key that folds to the beginning of another folds as a directory of it.
LEMMA PrefixIsParent ==
  ASSUME NEW k \in Seq(Name), k # <<>>, NEW l \in Seq(Name),
         Files!IsStrictPrefix(Files!FoldKey(k), Files!FoldKey(l))
  PROVE  \E q \in Files!Parents(l) : Files!FoldKey(q) = Files!FoldKey(k)
<1> DEFINE a == Files!FoldKey(k)
           b == Files!FoldKey(l)
           q == SubSeq(l, 1, Len(k))
           c == Files!FoldKey(q)
<1>1. /\ a \in Seq(Name) /\ Len(a) = Len(k)
      /\ b \in Seq(Name) /\ Len(b) = Len(l)
      /\ \A n \in 1..Len(l) : b[n] = Folded[l[n]]
  BY FoldKeyIs
<1> HIDE DEF a, b, c
<1>2. Len(a) <= Len(b) /\ SubSeq(a, 1, Len(a)) = SubSeq(b, 1, Len(a)) /\ a # b
  BY DEF Files!IsStrictPrefix, Files!IsPrefix, a, b
<1>3. \A n \in 1..Len(a) : a[n] = b[n]
  <2> SUFFICES ASSUME NEW n \in 1..Len(a) PROVE a[n] = b[n]
    OBVIOUS
  <2>1. SubSeq(a, 1, Len(a))[n] = a[n] /\ SubSeq(b, 1, Len(a))[n] = b[n]
    BY <1>1, <1>2
  <2>2. QED
    BY <1>2, <2>1
<1>4. Len(a) # Len(b)
  BY <1>1, <1>2, <1>3
<1>5. Len(k) \in 1..(Len(l) - 1)
  BY <1>1, <1>2, <1>4
<1>6. q \in Files!Parents(l)
  BY <1>5 DEF Files!Parents
<1>7. /\ q \in Seq(Name) /\ Len(q) = Len(k)
      /\ \A n \in 1..Len(k) : q[n] = l[n]
  BY <1>5
<1> HIDE DEF q
<1>8. /\ c \in Seq(Name) /\ Len(c) = Len(q)
      /\ \A n \in 1..Len(q) : c[n] = Folded[q[n]]
  BY <1>7, FoldKeyIs DEF c
<1>9. \A n \in 1..Len(a) : c[n] = a[n]
  <2> SUFFICES ASSUME NEW n \in 1..Len(a) PROVE c[n] = a[n]
    OBVIOUS
  <2>1. n \in 1..Len(k) /\ n \in 1..Len(l)
    BY <1>1, <1>2, <1>5
  <2>2. c[n] = Folded[q[n]] /\ q[n] = l[n] /\ b[n] = Folded[l[n]]
    BY <1>1, <1>7, <1>8, <2>1
  <2>3. QED
    BY <1>3, <2>2
<1>10. c = a
  BY <1>1, <1>7, <1>8, <1>9
<1>11. QED
  BY <1>6, <1>10 DEF a, c

\* A directory is there.
There(d, q, ex) == \E e \in Files!Found(d, q, ex) : e.what = Files!Directory

\* A key that is a directory of another finds a directory there once the other is
\* written.
LEMMA AncestorCollisionIsCause ==
  ASSUME NEW i \in DOMAIN keys, NEW j \in DOMAIN keys, keys \in Seq(Seq(Name)),
         keys[i] # <<>>, Files!IsStrictPrefix(Files!FoldKey(keys[i]), Files!FoldKey(keys[j])),
         NEW ex \in BOOLEAN, ~ex, NEW f, IsRun(f, Len(keys), ex)
  PROVE  \/ f[Len(keys)].blocked
         \/ \E k \in DOMAIN keys : WhatIsAt(f[Len(keys)].disk, keys[k], ex) # {k}
<1> DEFINE L == Len(keys)
<1>1. L \in Nat /\ i \in 1..L /\ j \in 1..L
  OBVIOUS
<1>2. PICK q \in Files!Parents(keys[j]) : Files!FoldKey(q) = Files!FoldKey(keys[i])
  BY PrefixIsParent
<1> DEFINE Bad == {n \in j..L : ~(f[n].blocked \/ There(f[n].disk, q, ex))}
<1> HIDE DEF L
<1>3. Bad = {}
  <2> HIDE DEF Bad
  <2> SUFFICES ASSUME Bad # {} PROVE FALSE
    OBVIOUS
  <2>1. PICK n \in Bad : \A m \in Bad : n <= m
    <3>1. Bad \subseteq Nat
      BY <1>1 DEF Bad
    <3>2. QED
      BY <3>1, Translating!LeastExists
  <2>2. n \in j..L /\ ~(f[n].blocked \/ There(f[n].disk, q, ex))
    BY DEF Bad
  <2>3. n \in 0..L /\ n # 0 /\ n - 1 \in 0..L
    BY <1>1, <2>2
  <2> DEFINE s == f[n - 1]
  <2>4. f[n] = One(s, n, ex)
    BY <2>3 DEF IsRun, L
  <2> HIDE DEF s
  <2>5. /\ ~s.blocked /\ ~Files!Blocked(s.disk, keys[n], ex)
        /\ f[n].disk = Files!Written(s.disk, keys[n], n, ex)
    <3>1. CASE s.blocked \/ Files!Blocked(s.disk, keys[n], ex)
      BY <2>2, <2>4, <3>1 DEF One
    <3>2. CASE ~(s.blocked \/ Files!Blocked(s.disk, keys[n], ex))
      BY <2>4, <3>2 DEF One
    <3>3. QED
      BY <3>1, <3>2
  <2>6. CASE n = j
    BY <1>2, <2>2, <2>5, <2>6, DirectoryIsMade DEF There
  <2>7. CASE n # j
    <3>1. n - 1 \in j..L /\ ~(n <= n - 1)
      BY <1>1, <2>2, <2>7
    <3>2. n - 1 \notin Bad
      BY <2>1, <3>1
    <3>3. There(s.disk, q, ex)
      BY <2>5, <3>1, <3>2 DEF s, Bad
    <3>4. PICK e \in Files!Found(s.disk, q, ex) : e.what = Files!Directory
      BY <3>3 DEF There
    <3>5. e \in s.disk /\ Files!Same(e.path, q, ex)
      BY <3>4 DEF Files!Found
    <3>6. e \in f[n].disk
      BY <2>5, <3>4, <3>5, DirectoryStays
    <3>7. There(f[n].disk, q, ex)
      BY <3>4, <3>5, <3>6 DEF There, Files!Found
    <3>8. QED
      BY <2>2, <3>7
  <2>8. QED
    BY <2>6, <2>7
<1>4. CASE f[L].blocked
  BY <1>4 DEF L
<1>5. CASE There(f[L].disk, q, ex)
  <2>1. PICK e \in Files!Found(f[L].disk, q, ex) : e.what = Files!Directory
    BY <1>5 DEF There
  <2>2. e \in Files!Found(f[L].disk, keys[i], ex)
    BY <1>2, <2>1 DEF Files!Found, Files!Same
  <2>3. 0 \in WhatIsAt(f[L].disk, keys[i], ex)
    BY <2>1, <2>2 DEF WhatIsAt, Files!Directory
  <2>4. 0 \notin {i}
    BY <1>1
  <2>5. QED
    BY <2>3, <2>4 DEF L
<1>6. L \in j..L
  BY <1>1
<1>7. QED
  BY <1>3, <1>4, <1>5, <1>6 DEF L

\* Whatever the keys, a whole-set rule refuses them only if a writer that went ahead
\* would have stopped, or lost a file, on one of the two kinds of file system.
THEOREM RulesHaveACause == Spec => []RefusedForCause
<1>1. IInv => RefusedForCause
  <2> SUFFICES ASSUME IInv, answer \in {"case_collision", "ancestor_collision"},
                      NEW ex \in BOOLEAN, ~ex
               PROVE  \/ Files!Outcome(ex).blocked
                      \/ \E k \in DOMAIN keys :
                           WhatIsAt(Files!Outcome(ex).disk, keys[k], ex) # {k}
    BY DEF RefusedForCause, Files!RefusedForCause, WhatIsAt
  <2>1. keys \in Seq(Candidates) /\ answer = Files!Verdict
    BY DEF IInv, TypeOK, VerdictStands
  <2>2. \A i \in DOMAIN keys : Files!ValidKey(keys[i])
    BY <2>1 DEF Files!Verdict
  <2>3. keys \in Seq(Seq(Name)) /\ \A i \in DOMAIN keys : keys[i] # <<>>
    <3>1. ASSUME NEW i \in DOMAIN keys PROVE keys[i] \in Seq(Name) /\ keys[i] # <<>>
      <4>1. keys[i] \in Seq(Files!Segment) /\ keys[i] # <<>>
        BY <2>1, FilesAssumption DEF Files!Assumptions
      <4>2. \A k \in DOMAIN keys[i] : keys[i][k] \in Name
        BY <2>2 DEF Files!ValidKey
      <4>3. QED
        BY <4>1, <4>2
    <3>2. QED
      BY <2>1, <3>1
  <2>4. PICK f : IsRun(f, Len(keys), ex) /\ Files!Outcome(ex) = f[Len(keys)]
    BY <2>1, OutcomeIs
  <2>5. CASE answer = "case_collision"
    <3>1. Files!CaseCollision
      BY <2>1, <2>5 DEF Files!Verdict
    <3>2. PICK i, j \in DOMAIN keys : i < j /\ Files!FoldKey(keys[i]) = Files!FoldKey(keys[j])
      BY <3>1 DEF Files!CaseCollision
    <3>3. i # j
      BY <2>1, <3>2
    <3>4. QED
      BY <3>2, <3>3, CaseCollisionIsCause
  <2>6. CASE answer = "ancestor_collision"
    <3>1. Files!AncestorCollision
      BY <2>1, <2>6 DEF Files!Verdict
    <3>2. PICK i, j \in DOMAIN keys :
            Files!IsStrictPrefix(Files!FoldKey(keys[i]), Files!FoldKey(keys[j]))
      BY <3>1 DEF Files!AncestorCollision
    <3>3. QED
      BY <2>3, <2>4, <3>2, AncestorCollisionIsCause
  <2>7. QED
    BY <2>5, <2>6
<1>2. QED
  BY <1>1, InlineInvariance, PTL

=============================================================================
