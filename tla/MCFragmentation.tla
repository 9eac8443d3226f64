-------------------------- MODULE MCFragmentation ---------------------------
(* Two packets that begin with the same tile: of one window and of two, and, *)
(* for a sender that reuses its tuple at once, of one window each.          *)
EXTENDS Fragmentation

CONSTANTS h, a, b, c, d, e, x, y

PacketsTwo == <<<<h, a, b, x>>, <<h, c, d, e, y>>>>

PacketsAlike == <<<<h, a, x>>, <<h, c, y>>>>
=============================================================================
