-------------------------- MODULE MCConnectionPath --------------------------
(* ConnectionPath for one device, with strengths that differ by exactly    *)
(* what counts as clearly stronger.                                        *)
EXTENDS ConnectionPath

MCRssi == {-82, -66}
=============================================================================
