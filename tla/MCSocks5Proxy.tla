--------------------------- MODULE MCSocks5Proxy ----------------------------
(***************************************************************************)
(* The proxy tunnel for TLC.                                               *)
(***************************************************************************)
EXTENDS Socks5Proxy
=============================================================================
