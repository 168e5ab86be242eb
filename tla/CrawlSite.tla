----------------------------- MODULE CrawlSite -----------------------------
(***************************************************************************)
(* The web site a crawl walks over and the limits it was given, shared by  *)
(* the modules of the crawler.  A page's links are a sequence: the crawler *)
(* queues them in document order.                                          *)
(***************************************************************************)
EXTENDS Integers, FiniteSets, Sequences

CONSTANTS
  Urls,       \* normalised addresses
  Base,       \* the address the crawl starts from
  Links,      \* Links[u]: the internal links of page u
  Allowed,    \* addresses that is_safe_target and robots.txt let through
  Depth,      \* --depth
  MaxPages    \* --max-pages

ASSUME SiteAssumption ==
  /\ IsFiniteSet(Urls)
  /\ Base \in Urls
  /\ Links \in [Urls -> Seq(Urls)]
  /\ Allowed \subseteq Urls
  /\ Depth \in Nat
  /\ MaxPages \in Nat \ {0}

Tasks == [url : Urls, depth : 0..Depth]
Start == [url |-> Base, depth |-> 0]

LinksTo(p, u) == \E i \in DOMAIN Links[p] : Links[p][i] = u

\* _skip_reason returns None for task t once `seen` was visited.
Admissible(t, seen) ==
  /\ t.depth <= Depth
  /\ t.url \notin seen
  /\ t.url \in Allowed

\* Off by one: the links found on the last level but one are dropped.
NextUrls_DropsLastLevel(t) ==
  IF t.depth + 1 >= Depth THEN <<>>
  ELSE [i \in DOMAIN Links[t.url] |-> [url |-> Links[t.url][i], depth |-> t.depth + 1]]

\* _next_urls: the links of t, one level deeper, in document order.  The code
\* also leaves out the links visited by now; visited only grows and Admissible
\* rejects them when they are popped, so that only keeps the queue short.
NextUrls(t) ==
  IF t.depth + 1 > Depth THEN <<>>
  ELSE [i \in DOMAIN Links[t.url] |-> [url |-> Links[t.url][i], depth |-> t.depth + 1]]
=============================================================================
