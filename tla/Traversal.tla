----------------------------- MODULE Traversal -----------------------------
(***************************************************************************)
(* What a link-following crawl promises, whoever runs it: pages are taken  *)
(* one by one, never twice, only when a crawled page links to them within  *)
(* the depth limit; at most MaxPages of them are crawled or being crawled; *)
(* and a crawl that ends "completed" with budget left has no admissible    *)
(* link it did not follow.                                                 *)
(***************************************************************************)
EXTENDS CrawlSite

VARIABLES
  taken,   \* addresses some worker was ever sent to
  open,    \* tasks being crawled
  got,     \* tasks whose page was obtained
  phase    \* "crawling", then how the crawl ended

vars == <<taken, open, got, phase>>

\* A task the crawl may be sent to: the start, or a link of a crawled page.
Known(t) ==
  \/ t = Start
  \/ \E p \in got : LinksTo(p.url, t.url) /\ t.depth = p.depth + 1

Init ==
  /\ taken = {}
  /\ open = {}
  /\ got = {}
  /\ phase = "crawling"

Take(t) ==
  /\ phase = "crawling"
  /\ Known(t)
  /\ t.url \in Allowed \ taken
  /\ Cardinality(got) + Cardinality(open) < MaxPages
  /\ taken' = taken \cup {t.url}
  /\ open' = open \cup {t}
  /\ UNCHANGED <<got, phase>>

Obtain(t) ==
  /\ t \in open
  /\ open' = open \ {t}
  /\ got' = got \cup {t}
  /\ UNCHANGED <<taken, phase>>

GiveUp(t) ==
  /\ t \in open
  /\ open' = open \ {t}
  /\ UNCHANGED <<taken, got, phase>>

\* Nothing admissible is left to follow.
Exhausted == \A t \in Tasks : Known(t) /\ t.url \in Allowed => t.url \in taken

End(how) ==
  /\ phase = "crawling"
  /\ open = {}
  /\ how = "completed" => Cardinality(got) = MaxPages \/ Exhausted
  /\ phase' = how
  /\ UNCHANGED <<taken, open, got>>

Next ==
  \/ \E t \in Tasks : Take(t) \/ Obtain(t) \/ GiveUp(t)
  \/ \E how \in {"completed", "cancelled", "raised"} : End(how)

Spec == Init /\ [][Next]_vars
=============================================================================
