--------------------------- MODULE MCTowerCommand ---------------------------
(* A small instance of TowerCommand: two workspaces, a file and a channel.  *)
EXTENDS TowerCommand, TLC

CONSTANTS f, c, w1, w2

HomeOne == (f :> w1) @@ (c :> w1)
=============================================================================
