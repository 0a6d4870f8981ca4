----------------------------- MODULE FileContent -----------------------------
(***************************************************************************)
(* What one entry of a request's files holds, and what                      *)
(* _decode_inline_file of app/render/renderer.py makes of it.  The size of   *)
(* base64 is worked out from its length, so that an oversized payload is     *)
(* refused before it is decoded: that is only right if the two agree.        *)
(***************************************************************************)
EXTENDS Integers

\* Base64 is told by its characters before the padding, the "=" behind them, and
\* whether another character is among them; text by its size in UTF-8, and whether
\* it has one.
Base64Content == [encoding : {"base64"}, data : Nat, pads : Nat, foreign : BOOLEAN]
TextContent   == [encoding : {"text"}, bytes : Nat, encodable : BOOLEAN]
Content       == Base64Content \cup TextContent

-----------------------------------------------------------------------------
(* b64decode(validate=True) *)

WellFormed(c) == /\ ~c.foreign
                 /\ \/ c.data % 4 = 0 /\ c.pads = 0
                    \/ c.data % 4 = 2 /\ c.pads = 2
                    \/ c.data % 4 = 3 /\ c.pads = 1

\* Three bytes of every four characters, one or two of a last group.
DecodedSize(c) == 3 * (c.data \div 4) +
                    (IF c.data % 4 = 2 THEN 1 ELSE IF c.data % 4 = 3 THEN 2 ELSE 0)

-----------------------------------------------------------------------------
(* _decoded_base64_size, _encode_utf8 and _decode_inline_file *)

\* Seeded fault: the padding is counted.
SizeWithPadding(c) == ((c.data + c.pads) * 3) \div 4

DecodedBase64Size(c) == (c.data * 3) \div 4

Refused(answer) == [answer |-> answer, size |-> 0]

DecodeBase64(c, limit) ==
  IF DecodedBase64Size(c) > limit THEN Refused("template_file_too_large")
  ELSE IF ~WellFormed(c) THEN Refused("invalid_file_data")
  ELSE [answer |-> "none", size |-> DecodedSize(c)]

EncodeUtf8(c, limit) ==
  IF ~c.encodable THEN Refused("invalid_file_data")
  ELSE IF c.bytes > limit THEN Refused("template_file_too_large")
  ELSE [answer |-> "none", size |-> c.bytes]

DecodeInlineFile(c, limit) ==
  IF c.encoding = "base64" THEN DecodeBase64(c, limit) ELSE EncodeUtf8(c, limit)

=============================================================================
