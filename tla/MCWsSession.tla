---------------------------- MODULE MCWsSession ----------------------------
(* One connection, its reader and two senders push a small and a large frame: *)
(* two frames fill the queue by number, two large ones overflow it by size.  *)
EXTENDS WsSession, TLC

CONSTANTS reader, s1, s2, small, large

MCSize == small :> 1 @@ large :> 2

=============================================================================
