-------------------------- MODULE MCParallelCrawl --------------------------
(***************************************************************************)
(* A small site for ParallelCrawl.                                         *)
(***************************************************************************)
EXTENDS ParallelCrawl, TLC

CONSTANTS a, b, c, d, home

\* Two pages that share a child, a repeated link, a link back and a page that
\* robots.txt excludes.
DiamondUrls == {home, a, b, c, d}
DiamondLinks ==
  home :> <<a, d, b, a>> @@ a :> <<c, home>> @@ b :> <<c>> @@ c :> <<a>> @@ d :> <<>>
DiamondAllowed == DiamondUrls \ {d}
=============================================================================
