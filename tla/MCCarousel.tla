------------------------------ MODULE MCCarousel ------------------------------
(* Instances of Carousel for TLC. *)
EXTENDS Carousel

CONSTANTS a, b, c, d

\* Four comics, one without a cover.  The node holds three, two of them in another
\* order, one, one beside the comic that has no cover, or it is not there.
Released == {a, b, c, d}
Editions == {<<a, b, d>>, <<d, a>>, <<b>>, <<a, c>>, <<>>}
==============================================================================
