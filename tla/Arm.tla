--------------------------------- MODULE Arm ---------------------------------
(* The resource part of a capability token (src/src/qasp/protocol/arm.py).    *)
(* A URI is the sequence of what parse_uri returns: the provider, then the    *)
(* segments; a wildcard is the last segment or none.                          *)
EXTENDS Integers, Sequences, SequencesExt

CONSTANT Wildcard        \* the segment "*"

\* parse_uri refuses a wildcard that is not the last segment.
WellFormed(uri) ==
    /\ uri # << >>
    /\ \A i \in 1 .. Len(uri) : uri[i] = Wildcard => i > 1 /\ i = Len(uri)

EndsWithWildcard(uri) == Last(uri) = Wildcard

\* uri_matches: the same URI; a wildcard for exactly one segment; or a prefix.
UriMatches(p, t) ==
    /\ Head(p) = Head(t)
    /\ \/ p = t
       \/ /\ EndsWithWildcard(p)
          /\ Len(t) = Len(p)
          /\ IsPrefix(Front(p), t)
       \/ /\ ~ EndsWithWildcard(p)
          /\ IsStrictPrefix(p, t)

\* is_attenuation
IsAttenuation(parent, child) == UriMatches(parent, child)

\* No URI is given.
NoUri == << >>
==============================================================================
