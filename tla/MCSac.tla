-------------------------------- MODULE MCSac --------------------------------
(* Small disks for SacProperties: files of one name in the root and in a     *)
(* directory, a directory that may take a file's name, and a name that with  *)
(* a stray byte behind it is another's.                                      *)
EXTENDS SacProperties

\* Paths that meet every branch of the search: one and two levels, the same
\* last name in two directories, the root's own node as a directory.
MCPath == {<<"d">>, <<"dx">>, <<"d", "dx">>}
MCTwoDirs == {<<"d">>, <<"e">>, <<"d", "x">>, <<"e", "x">>}
MCLonger == {<<"d", "dx">>}
MCNone == {}
=============================================================================
