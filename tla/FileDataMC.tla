------------------------------ MODULE FileDataMC ------------------------------
(* Values of the constants for checking the file data on small instances. *)
EXTENDS FileData

EmptyShortLong == {<< >>, <<1>>, <<2, 1, 2>>}
SomeSeeks == {-1, 0, 3}
=============================================================================
