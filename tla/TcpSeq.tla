------------------------------- MODULE TcpSeq -------------------------------
(***************************************************************************)
(* The sequence-number arithmetic of TCPSession: numbers on the wire are   *)
(* absolute and live modulo 2^32, the session works with numbers relative  *)
(* to the two initial sequence numbers.  Half stands for 2^31, so Mod is   *)
(* the width of uint32_t; TLC uses a small Half, the proofs every Half.    *)
(***************************************************************************)
EXTENDS Integers

CONSTANT Half       \* 2^31 in the code: the size of one sign's half of int

ASSUME HalfAssumption == Half \in Nat /\ Half >= 2

Mod    == 2 * Half          \* 2^32
U32    == 0 .. (Mod - 1)    \* uint32_t
MaxInt == Half - 1          \* 0x7FFFFFFF

-----------------------------------------------------------------------------
(* What goes out: htonl(mLocalSeq + mLocalSeqBase), and the same for acks. *)
AbsoluteSeq(rel, base) == (rel + base) % Mod

(* Mutant: numbers counted from the byte after the SYN.                    *)
Mut_RelativeSeq(seq, base) ==
  IF seq > base THEN seq - base - 1 ELSE ((Mod - 1) - base + seq) % Mod

(* What comes in: the macro TCP_RELATIVE_SEQ.                              *)
RelativeSeq(seq, base) ==
  IF seq > base THEN seq - base ELSE ((Mod - 1) - base + seq) % Mod

-----------------------------------------------------------------------------
(* The conversion of a uint32_t to int.                                    *)
ToInt(u) == IF u <= MaxInt THEN u ELSE u - Mod

(* An int subtraction.  When it overflows the build may wrap the result or *)
(* compare the exact difference: both outcomes are kept.                   *)
IntSub(a, b) ==
  LET d == a - b
  IN  CASE d > MaxInt      -> {d, d - Mod}
        [] d < -(MaxInt+1) -> {d, d + Mod}
        [] OTHER           -> {d}

(* Mutant: the operands' signs ignored.                                    *)
Mut_compare_u32(s1, s2) == IF s1 = s2 THEN {0} ELSE {1}

(* The set of results compare_u32(s1, s2) can return.  Its second test,    *)
(* i1 > i2 && i1 - i2 > 0x7FFFFFFF, is false in every build: no int is     *)
(* greater than that.                                                      *)
compare_u32(s1, s2) ==
  LET i1 == ToInt(s1)
      i2 == ToInt(s2)
  IN  IF s1 = s2 THEN {0}
      ELSE {IF i1 < i2 /\ up < MaxInt THEN -1 ELSE 1 : up \in IntSub(i2, i1)}

(* TCPDatagram::compare: an unsigned difference read as an int.            *)
compareDatagram(a, b) == ToInt((a - b) % Mod)
=============================================================================
