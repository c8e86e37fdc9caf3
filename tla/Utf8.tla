-------------------------------- MODULE Utf8 --------------------------------
(***************************************************************************)
(* A Rust `&str` as the sequence of its UTF-8 bytes, and positions in it   *)
(* as the library uses them: zero-based byte offsets.  Only what the       *)
(* grammars observe of a text is here: where a character starts and ends,  *)
(* slices between two offsets, and ASCII case folding.  That texts are     *)
(* well-formed UTF-8, as the type `&str` guarantees, is assumed of those   *)
(* the program is given.                                                   *)
(***************************************************************************)
EXTENDS Integers, Sequences

Byte == 0..255

Text == Seq(Byte)

\* The bytes that continue a multi-byte character.
IsContinuation(b) == b \in 128..191

\* str::is_char_boundary: indexing a &str anywhere else panics.
IsBoundary(s, p) ==
  /\ p \in 0..Len(s)
  /\ p < Len(s) => ~IsContinuation(s[p + 1])

\* s[p..e] is exactly one character.
IsChar(s, p, e) ==
  /\ p < e
  /\ IsBoundary(s, p)
  /\ IsBoundary(s, e)
  /\ \A q \in p + 1 .. e - 1 : ~IsBoundary(s, q)

\* char::len_utf8 of the character that starts with byte b.
Utf8Len(b) ==
  IF b < 128 THEN 1 ELSE IF b < 224 THEN 2 ELSE IF b < 240 THEN 3 ELSE 4

\* Characters follow one another, as long as their first bytes say.
IsUtf8(s) ==
  /\ IsBoundary(s, 0)
  /\ \A p \in 0 .. Len(s) - 1 :
       IsBoundary(s, p) => IsChar(s, p, p + Utf8Len(s[p + 1]))

\* &s[p..e]
Slice(s, p, e) == SubSeq(s, p + 1, e)

\* char::to_ascii_lowercase and to_ascii_uppercase, on a byte: they leave
\* every byte of a non-ASCII character alone.
Lower(b) == IF b \in 65..90 THEN b + 32 ELSE b
Upper(b) == IF b \in 97..122 THEN b - 32 ELSE b

\* char::len_utf16: characters outside the Basic Multilingual Plane, the
\* ones UTF-8 writes in four bytes, take a surrogate pair.
Utf16Len(bytes) == IF bytes = 4 THEN 2 ELSE 1
=============================================================================
