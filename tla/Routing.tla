-------------------------------- MODULE Routing --------------------------------
(***************************************************************************)
(* routing.py: which repository a service's errors are filed in.           *)
(*                                                                         *)
(* A pattern is known by the services it matches (fnmatch is a library),   *)
(* by whether it is a glob, and by its specificity, the length of the      *)
(* literal prefix before its first wildcard.                               *)
(***************************************************************************)
EXTENDS Integers, Sequences, FiniteSets, FiniteSetsExt

CONSTANTS
    Service,        \* service names
    Unnamed,        \* the empty name
    Rule,           \* rules that may be configured: [pattern, repo]
    Default,        \* the default repository, or NoRepo
    NoRepo

Pattern == [matches : SUBSET Service, glob : BOOLEAN, specificity : Nat]

ASSUME RoutingConstants ==
    /\ Unnamed \in Service
    /\ \A r \in Rule :
          /\ r.pattern \in Pattern
          /\ r.repo # NoRepo
          /\ ~ r.pattern.glob => Cardinality(r.pattern.matches \ {Unnamed}) <= 1

\* self._exact: the entry of a name listed twice is the last one.
Exact(rules, s) ==
    {i \in DOMAIN rules : ~ rules[i].pattern.glob /\ s \in rules[i].pattern.matches}

\* The globs that match a name.
Globs(rules, s) ==
    {i \in DOMAIN rules : rules[i].pattern.glob /\ s \in rules[i].pattern.matches}

\* A bug to be caught: globs are tried as listed.
AsListed(rules, globs) == Min(globs)

\* Which of them comes first in self._globs: the most specific, and the one
\* listed first where that ties (the sort is stable).
Foremost(rules, globs) ==
    LET most == Max({rules[i].pattern.specificity : i \in globs})
    IN  Min({i \in globs : rules[i].pattern.specificity = most})

Resolve(rules, s) ==
    IF s = Unnamed THEN Default
    ELSE IF Exact(rules, s) # {} THEN rules[Max(Exact(rules, s))].repo
    ELSE IF Globs(rules, s) # {} THEN rules[Foremost(rules, Globs(rules, s))].repo
    ELSE Default
=============================================================================
