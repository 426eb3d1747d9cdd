--------------------------- MODULE MCURLTestLoop ---------------------------
(* Instances of URLTestLoop for TLC.                                        *)
EXTENDS URLTestLoop

CONSTANTS l1, l2, t1, t2

MCLoops == {l1, l2}
MCTesters == {t1, t2}
=============================================================================
