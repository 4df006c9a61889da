------------------------------- MODULE MCCarrying ------------------------------
(***************************************************************************)
(* Two terminals, one of which may be a question about the run instead.    *)
(***************************************************************************)
EXTENDS Carrying
CONSTANTS t1, t2
MCTerminals == {t1, t2}
MCAskers == {t2}
=============================================================================
