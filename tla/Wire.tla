--------------------------------- MODULE Wire ---------------------------------
(***************************************************************************)
(* Lengths on the wire (mtproto_common.h, mtproto_common.cpp and           *)
(* secret_chat_encryptor.cpp): strings and big numbers are stored in 32-   *)
(* bit words behind a header that holds their length, and what is          *)
(* encrypted is padded to the blocks of the cipher.  A word is the number   *)
(* it holds without its sign.  For every length: ClientProofs.             *)
(***************************************************************************)
EXTENDS Integers

-----------------------------------------------------------------------------
(* Strings                                                                 *)

IsShort(size) == size < 254

\* out_string(): the words of a string of `size` bytes.
StringWords(size) ==
    IF IsShort(size) THEN (1 + size + 3) \div 4 ELSE (4 + size + 3) \div 4

\* The first word of the string.  The first three bytes of a short string share
\* it with the length: d is what they hold.
Header(size, d) ==
    IF IsShort(size) THEN size + 256 * d ELSE size * 256 + 254

\* tgl_serialize_bignum(): the bytes of a number of `size` bytes, in a buffer
\* that is large enough.
BignumBytes(size) ==
    LET required == IF size < 254 THEN size + 1 ELSE size + 4
    IN  4 * ((required + 3) \div 4)

\* prefetch_strlen(): the length of the string that begins with the word w when
\* n words are left, or -1.
Prefetch(w, n) ==
    LET low  == w % 256
        long == w \div 256
    IN  IF n <= 0 THEN -1
        ELSE IF low < 254 THEN IF n >= low \div 4 + 1 THEN low ELSE -1
        ELSE IF low = 254 /\ long >= 254 /\ n >= (long + 7) \div 4 THEN long
        ELSE -1

\* fetch_str(): the words it takes for a string of `size` bytes.
FetchedWords(size) ==
    IF size < 254 THEN 1 + size \div 4 ELSE (size + 7) \div 4

-----------------------------------------------------------------------------
(* Padding                                                                 *)

\* secret_chat_encryptor::end(): the words that are encrypted for a message of
\* n words, with the word of its length before them.
SealedWords(n) == CHOOSE m \in n + 1..n + 4 : m % 4 = 0

\* fetch_message(): the words of the message in what was encrypted, whose first
\* word is its length in bytes.
OpenedWords(bytes) == bytes \div 4

\* tgl_pad_aes_encrypt() and tgl_pad_rsa_encrypt(): the bytes after padding.
PaddedAes(bytes) == 16 * ((bytes + 15) \div 16)
PaddedRsa(bytes) == bytes + ((255000 - bytes - 32) % 255) + 32

-----------------------------------------------------------------------------
(* Properties                                                              *)

\* A string that out_string() wrote is read back with its length, takes the
\* same words, and is refused when the last of them is missing: the reader and
\* the writer share no code.
ReadsBack(size, d) ==
    /\ FetchedWords(size) = StringWords(size)
    /\ Prefetch(Header(size, d), StringWords(size)) = size
    /\ Prefetch(Header(size, d), StringWords(size) - 1) = -1
=============================================================================
