--------------------------- MODULE MCCanLogStore ----------------------------
(* Small instance of CanLogStore: three blocks of five bytes.              *)
EXTENDS CanLogStore

MCFrameLens == {1, 3}
=============================================================================
