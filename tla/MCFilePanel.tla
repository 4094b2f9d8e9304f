---------------------------- MODULE MCFilePanel ----------------------------
(***************************************************************************)
(* A small tree of files for TLC.                                          *)
(***************************************************************************)
EXTENDS FilePanel

MCDirs == {<<>>, <<"a">>, <<"a", "b">>}
MCFiles == {<<"f">>, <<"a", "f">>}
=============================================================================
