-------------------------------- MODULE MCAdiv5 --------------------------------
(* Small instances of Adiv5.                                                 *)
EXTENDS Adiv5
=============================================================================
