------------------------- MODULE MCCw20Marketing -------------------------
(* Instances of Cw20Marketing for TLC: images at and beyond the cap, and   *)
(* one that does not begin as it has to.                                   *)
EXTENDS Cw20Marketing

L(kind, content, size, header) ==
  [kind |-> kind, content |-> content, size |-> size, header |-> header]
MCLogos == {L("url", "x", 9, FALSE), L("url", "y", 1, FALSE), L("svg", "v", SizeCap, TRUE),
            L("png", "p", SizeCap, TRUE), L("png", "q", SizeCap + 1, TRUE),
            L("svg", "w", 1, FALSE)}
==========================================================================
