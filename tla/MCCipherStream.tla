--------------------------- MODULE MCCipherStream ---------------------------
(***************************************************************************)
(* The Cipher for TLC: with sections of six bytes the messages give        *)
(* parcels that end in a short section or in a full one (four bytes and    *)
(* two of padding, or five and one), and one that does not fit in one      *)
(* encrypt.                                                                *)
(***************************************************************************)
EXTENDS CipherStream

Short == {<<6>>, <<3, 3>>, <<5, 1, 0, 7>>, <<0, 2, 3, 4, 1>>}
Long  == [i \in 1 .. 25 |-> (i * i) % 8]

MCTalks == {<<m, n>> : m, n \in Short} \cup {<<Long>>, <<Long, <<7>>>>}
=============================================================================
