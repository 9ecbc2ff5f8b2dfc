--------------------------- MODULE MCDentryTable ----------------------------
(* Small instances of DentryTable for TLC.  A name takes two bytes at most *)
(* where three fit; one of the names is the beginning of another.          *)
EXTENDS DentryTable

MCName == {<<97>>, <<97, 97>>, <<98, 99>>}
=============================================================================
