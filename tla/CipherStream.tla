---------------------------- MODULE CipherStream ----------------------------
(***************************************************************************)
(* The Cipher under a tunnel: encryptAndQueue turns what the client sends  *)
(* into parcels, the connection carries their bytes and cuts them anywhere, *)
(* and the peer, which uses the same Cipher, decrypts what it has read so  *)
(* far.  Bytes have W bits and sections at most M bytes (8 and 1024).      *)
(***************************************************************************)
EXTENDS Integers, Sequences, SequencesExt

CONSTANTS W,         \* bits of a byte
          M,         \* MAX_SECTION_SIZE
          PadBytes,  \* what rand() makes of a byte of padding
          Talks      \* bound: the messages a client sends, in their order

B == 2 ^ W

(* A section's length takes two bytes and a coder's id one.                *)
ASSUME CipherAssumption ==
  /\ W \in Nat \ {0, 1} /\ M \in 1 .. (B * B - 1)
  /\ PadBytes \subseteq 0 .. (B - 1)
  /\ Talks \subseteq Seq(Seq(0 .. (B - 1)) \ {<<>>})

PADDING == 1
SHIFT   == 2

MAX_ENCRYPT_SIZE       == 4 * M
SOCKS5_SHARE_BUFFER_SZ == 8 * M

VARIABLES unsent,  \* what the client still has of its message
          wire,    \* encrypted bytes the peer has not read
          buffer,  \* mDecryptBuffer
          loop,    \* onReadable's loop is running
          sent,    \* history: what encryptAndQueue took
          got,     \* history: what decrypt returned
          talk     \* messages the client has not begun to send

vars == <<unsent, wire, buffer, loop, sent, got, talk>>

From(s, i) == SubSeq(s, i, Len(s))
TwoBytes(n) == <<n \div B, n % B>>
Number(s, i) == s[i] * B + s[i + 1]

-----------------------------------------------------------------------------
(* ShiftCoder: a byte is rotated, the next one by one bit more.            *)

Left(byte, k)  == (byte * 2 ^ k + byte \div 2 ^ (W - k)) % B
Right(byte, k) == (byte \div 2 ^ k + byte * 2 ^ (W - k)) % B

shiftEncode(s, shift) ==
  <<shift>> \o [i \in 1 .. Len(s) |-> Left(s[i], (shift + i - 1) % W)]

(* Mutant: every byte is rotated back by the same number of bits.          *)
Mut_shiftDecode(s) ==
  IF s[1] >= W THEN <<>> ELSE [i \in 1 .. Len(s) - 1 |-> Right(s[i + 1], s[1])]

shiftDecode(s) ==
  IF s[1] >= W THEN <<>>
  ELSE [i \in 1 .. Len(s) - 1 |-> Right(s[i + 1], (s[1] + i - 1) % W)]

-----------------------------------------------------------------------------
(* PaddingCoder.                                                           *)

paddingRange(len) == IF len > M THEN 2 ELSE M - len

Paddings(len) ==
  LET range == paddingRange(len)
  IN  IF range = 0 THEN {<<>>} ELSE UNION {[1 .. n -> PadBytes] : n \in 1 .. range}

padEncode(s, padding) == TwoBytes(Len(padding)) \o padding \o s

padDecode(s) == From(s, Number(s, 1) + 3)

-----------------------------------------------------------------------------
(* Sections: full ones and then one that is not, which may be empty.       *)

estimatePackLen(len) == len + 2 * ((len + M) \div M) + 2

(* The first n sections of s, each behind its length.                      *)
sections(s, n) ==
  LET SizeOf(k) == IF k * M <= Len(s) THEN M ELSE Len(s) % M
  IN  FlattenSeq([k \in 1 .. n |->
        TwoBytes(SizeOf(k)) \o SubSeq(s, (k - 1) * M + 1, (k - 1) * M + SizeOf(k))])

(* Mutant: no empty section ends a parcel of full ones.                    *)
Mut_pack(s) == sections(s, (Len(s) + M - 1) \div M)

pack(s) ==
  IF estimatePackLen(Len(s)) > SOCKS5_SHARE_BUFFER_SZ THEN <<>>
  ELSE sections(s, Len(s) \div M + 1)

(* The first parcel of s and what follows it; s itself while the parcel is *)
(* not whole.                                                              *)
unpack(s) ==
  LET At(k)    == k * (M + 2)    \* bytes before section k, when those are full
      Has(k)   == Len(s) >= At(k) + 2
      Size(k)  == Number(s, At(k) + 1)
      Whole(k) == Has(k) /\ Size(k) <= M /\ Len(s) >= At(k) + 2 + Size(k)
      last     == {k \in 0 .. Len(s) \div 2 :
                     /\ Whole(k) /\ Size(k) < M
                     /\ \A j \in 0 .. k - 1 : Whole(j) /\ Size(j) = M}
      Body(k)  == SubSeq(s, At(k) + 3, At(k) + 2 + Size(k))
  IN  IF last = {} THEN [parcel |-> <<>>, rest |-> s]
      ELSE LET n == CHOOSE k \in last : TRUE
           IN  [parcel |-> FlattenSeq([k \in 1 .. n + 1 |-> Body(k - 1)]),
                rest   |-> From(s, At(n) + 3 + Size(n))]

-----------------------------------------------------------------------------
(* Cipher.                                                                 *)

estimateEncryptLen(len) ==
  LET shifted == len + 3 IN estimatePackLen(shifted + paddingRange(shifted) + 1)

(* mCodes: SHIFT first, PADDING around it; 0 says that no coder follows.   *)
shifted(s, shift) == <<SHIFT>> \o shiftEncode(<<0>> \o s, shift)
encrypt(s, padding, shift) == pack(<<PADDING>> \o padEncode(shifted(s, shift), padding))

RECURSIVE decode(_)

(* The coders of a parcel, outermost first, up to the 0 (or an unknown id); *)
(* ok is false when a coder fails.                                         *)
decode(s) ==
  LET inner == CASE Head(s) = PADDING -> padDecode(Tail(s))
                 [] Head(s) = SHIFT   -> shiftDecode(Tail(s))
                 [] OTHER             -> Tail(s)
  IN  IF Head(s) \notin {PADDING, SHIFT} THEN [ok |-> TRUE, plain |-> inner]
      ELSE IF inner = <<>> THEN [ok |-> FALSE, plain |-> <<>>]
      ELSE decode(inner)

RECURSIVE parcels(_, _)

(* The whole parcels of s, decoded, behind those in out, and the bytes     *)
(* left.  A parcel that is empty or finds no space is dropped and the last. *)
parcels(s, out) ==
  LET u == unpack(s)
      d == decode(u.parcel)
  IN  IF u.parcel = <<>> THEN [ok |-> TRUE, out |-> out, rest |-> u.rest]
      ELSE IF \/ ~d.ok \/ d.plain = <<>>
              \/ Len(out) + Len(d.plain) >= SOCKS5_SHARE_BUFFER_SZ
           THEN [ok |-> d.ok, out |-> out, rest |-> u.rest]
      ELSE parcels(u.rest, out \o d.plain)

(* When a coder fails nothing is returned and nothing consumed.            *)
decrypt(s) ==
  LET p == parcels(s, <<>>) IN IF p.ok THEN p ELSE [p EXCEPT !.out = <<>>, !.rest = s]

-----------------------------------------------------------------------------
Init ==
  /\ unsent = <<>> /\ wire = <<>> /\ buffer = <<>> /\ loop = FALSE
  /\ sent = <<>> /\ got = <<>> /\ talk \in Talks

(* The client has something to send.                                       *)
ClientSends ==
  /\ unsent = <<>> /\ talk # <<>>
  /\ unsent' = Head(talk) /\ talk' = Tail(talk)
  /\ UNCHANGED <<wire, buffer, loop, sent, got>>

(* encryptAndQueue: at most MAX_ENCRYPT_SIZE bytes become a parcel, the    *)
(* rest stays with the client.  When encrypt finds too little space it     *)
(* takes nothing.                                                          *)
encryptAndQueue ==
  LET len == IF Len(unsent) > MAX_ENCRYPT_SIZE THEN MAX_ENCRYPT_SIZE ELSE Len(unsent)
  IN  /\ len > 0 /\ estimateEncryptLen(len) <= SOCKS5_SHARE_BUFFER_SZ
      /\ \E padding \in Paddings(len + 3), shift \in 0 .. W - 1 :
           wire' = wire \o encrypt(SubSeq(unsent, 1, len), padding, shift)
      /\ sent' = sent \o SubSeq(unsent, 1, len)
      /\ unsent' = From(unsent, len + 1)
      /\ UNCHANGED <<buffer, loop, got, talk>>

(* onReadable reads some bytes, ...                                        *)
Read ==
  /\ ~loop /\ loop' = TRUE
  /\ \E k \in 1 .. Len(wire) :
       /\ k <= SOCKS5_SHARE_BUFFER_SZ
       /\ buffer' = buffer \o SubSeq(wire, 1, k) /\ wire' = From(wire, k + 1)
  /\ UNCHANGED <<unsent, sent, got, talk>>

(* ... and decrypts until a call returns nothing.                          *)
Decrypt ==
  LET window == IF Len(buffer) > SOCKS5_SHARE_BUFFER_SZ
                THEN SubSeq(buffer, 1, SOCKS5_SHARE_BUFFER_SZ) ELSE buffer
      d      == decrypt(window)
  IN  /\ loop /\ loop' = (d.out # <<>>)
      /\ got' = got \o d.out
      /\ buffer' = IF d.out = <<>> THEN buffer
                   ELSE From(buffer, Len(window) - Len(d.rest) + 1)
      /\ UNCHANGED <<unsent, wire, sent, talk>>

Next == ClientSends \/ encryptAndQueue \/ Read \/ Decrypt

Spec == Init /\ [][Next]_vars

-----------------------------------------------------------------------------
(* Properties.                                                             *)

(* decrypt never returns a byte that was not sent, nor one out of its      *)
(* turn, however the connection cuts and joins the parcels.                *)
GotWhatWasSent == IsPrefix(got, sent)

(* When everything was read and onReadable has returned, everything that   *)
(* encryptAndQueue took has come out: no parcel stays in mDecryptBuffer    *)
(* waiting for bytes that will not come, and none was lost for want of     *)
(* space.                                                                  *)
NothingStuck == wire = <<>> /\ ~loop => got = sent /\ buffer = <<>>
=============================================================================
