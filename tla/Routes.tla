------------------------------- MODULE Routes -------------------------------
(***************************************************************************)
(* How a path finds a function: the triggers that builder/manifest.go      *)
(* bakes into an image, the relay's path (httpapi/invoke.go,               *)
(* proxy/proxy.go) and the worker's matching (worker/src/loader.rs).       *)
(* A path is the sequence of what stands between its slashes, so that "/"  *)
(* is <<Empty>> and "/a/" is <<a, Empty>>; string prefixes that end at a   *)
(* slash are prefixes of sequences.                                        *)
(***************************************************************************)
EXTENDS Naturals, Sequences, SequencesExt

CONSTANTS Segment,  \* what may stand between two slashes of a path
          Empty,    \* nothing between them
          Dots,     \* "...": what makes a route's last place a wildcard
          Dotted,   \* the segments whose text begins with three dots
          NoSlash,  \* first element of a text that does not begin with "/"
          Fn,       \* function names; a component is called like its function
          Rank      \* their order as byte strings

ASSUME RoutesAssumption ==
    /\ Empty \in Segment \ Dotted
    /\ Dots \in Dotted /\ Dotted \subseteq Segment
    /\ NoSlash \notin Segment
    /\ Rank \in [Fn -> Nat]
    /\ \A f, g \in Fn : Rank[f] = Rank[g] => f = g

Root == <<Empty>>
Path == Seq(Segment) \ {<<>>}         \* of a caller's path, dots are text like any
Text == Seq(Segment \union {NoSlash})  \* what a client may type for a route
NoRoute == <<>>                        \* no function of that name
Table == [Fn -> Text]                  \* a table of functions, or an image
-----------------------------------------------------------------------------
\* The relay and the proxy: "" means "/", and a leading slash is added.
RelayPath(typed) ==
    IF typed = <<>> THEN Root
    ELSE IF Head(typed) = NoSlash THEN Tail(typed)
    ELSE typed

IsWildcard(route) == route # <<>> /\ route[Len(route)] = Dots
BeforeDots(route) == SubSeq(route, 1, Len(route) - 1)

\* The part of a route that match_route compares with a path.
FixedPart(route) == IF IsWildcard(route) THEN BeforeDots(route) ELSE route

\* Nothing in that part begins with dots, which prefix_of takes for its end.
DotsLast(route) == \A i \in DOMAIN FixedPart(route) : FixedPart(route)[i] \notin Dotted

\* prefix_of cuts at the first "/...", whatever follows; match_route reads
\* only a whole segment of dots, and only at the end, as a wildcard.
PrefixOf(route) ==
    IF \E i \in DOMAIN route : route[i] \in Dotted
    THEN SubSeq(route, 1, (CHOOSE i \in DOMAIN route :
                              /\ route[i] \in Dotted
                              /\ \A j \in 1..(i - 1) : route[j] \notin Dotted) - 1)
    ELSE route

\* Mutant: a wildcard needs something to stand for.
MatchesBelow(route, path) ==
    IF IsWildcard(route) THEN IsStrictPrefix(BeforeDots(route), path)
    ELSE route # NoRoute /\ route = path

Matches(route, path) ==
    IF IsWildcard(route) THEN IsPrefix(BeforeDots(route), path)
    ELSE route # NoRoute /\ route = path

\* Mutant: what is left of an exhausted path stays empty.
RestUnrooted(route, path) ==
    IF IsWildcard(route) THEN SubSeq(path, Len(route), Len(path)) ELSE Root

\* Mutant: the guest is shown the path that the caller asked for.
RestUnstripped(route, path) == path

\* What the guest is shown: the path without the prefix, "/" when nothing is left.
Rest(route, path) ==
    IF IsWildcard(route) /\ path # BeforeDots(route)
    THEN SubSeq(path, Len(route), Len(path))
    ELSE Root

\* Mutant: the shortest prefix is tried first.
ShorterFirst(image, f, g) ==
    LET len(h) == Len(PrefixOf(image[h]))
    IN  len(f) < len(g) \/ (len(f) = len(g) /\ Rank[f] < Rank[g])

\* The manifest lists the functions by name, and the sort by falling length
\* of the prefix is stable.  (The code counts bytes: of two prefixes of one
\* path the one with more segments has more.)
TriedBefore(image, f, g) ==
    LET len(h) == Len(PrefixOf(image[h]))
    IN  len(f) > len(g) \/ (len(f) = len(g) /\ Rank[f] < Rank[g])

Matching(image, path) == {f \in Fn : Matches(image[f], path)}

\* LoadedApp::resolve: the first trigger that matches.
Resolve(image, path) ==
    CHOOSE f \in Matching(image, path) :
        \A g \in Matching(image, path) \ {f} : TriedBefore(image, f, g)
-----------------------------------------------------------------------------
\* InvokePanel.svelte: the path that is offered for a function's first call.
FirstPath(route) ==
    LET bare == IF IsWildcard(route) THEN BeforeDots(route) ELSE route
    IN  IF bare = <<>> THEN Root ELSE bare

\* A route that the worker reads as it was meant: it begins with a slash, and
\* dots, if any, come last.  POST /functions asks for neither.
WellFormed(route) ==
    /\ route # NoRoute
    /\ \A i \in DOMAIN FixedPart(route) : FixedPart(route)[i] \in Segment \ Dotted

\* No two functions are offered the same first path: stronger than the
\* disjointness of routes that nothing checks, since "/a" and "/a/..." differ.
Separate(image) ==
    /\ \A f \in Fn : image[f] = NoRoute \/ WellFormed(image[f])
    /\ \A f, g \in Fn :
          image[f] # NoRoute /\ image[g] # NoRoute /\ f # g =>
              FirstPath(image[f]) # FirstPath(image[g])
=============================================================================
