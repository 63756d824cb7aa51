------------------------------ MODULE MCFatFs ------------------------------
(* Small instances of FatFs: the paths of the volume.                      *)
EXTENDS FatFs

MCFiles == {<<"a">>, <<"d", "long">>, <<"d", "a">>}
MCDirs  == {<<"d">>}
=============================================================================
