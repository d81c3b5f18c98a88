------------------------------- MODULE Identity -------------------------------
(***************************************************************************)
(* What decides which issue an error ends up on: the fingerprint of the    *)
(* error (Fingerprint) and the repository of its service (Routing), over   *)
(* the failures of programs that run in several builds, and while the      *)
(* operator edits the routes.                                              *)
(*                                                                         *)
(* The programs and the way their runtimes print a stack are external: a   *)
(* Python traceback goes from the handler down to the raise, with source   *)
(* excerpts where the source is at hand, and prints the exception that was *)
(* being handled first; the others print the innermost frame first, and    *)
(* the cause last.                                                         *)
(***************************************************************************)
EXTENDS Routing, Fingerprint, SequencesExt

CONSTANTS
    Python,         \* the services that are Python programs
    Type,           \* exception types
    Fn,             \* functions
    Sources,        \* those whose source line, in a frame, reads as a call
    Message,        \* what messages say, their values aside
    Value,          \* the values in them
    Build,          \* builds: line numbers, paths, and whether it has sources
    MaxRules,       \* bound: rules configured
    MaxReports      \* bound: errors remembered

ASSUME IdentityConstants ==
    /\ Python \subseteq Service
    /\ Sources \subseteq Fn
    /\ Build \subseteq [id : STRING \ {Nothing}, sources : BOOLEAN]
    /\ {MaxRules, MaxReports} \subseteq Nat

VARIABLES
    rules,          \* E2I_ROUTE_MAP, in its order
    reports         \* history: errors: where they were raised, and their parts

identityVars == <<rules, reports>>

IdentityInit ==
    /\ rules = <<>>
    /\ reports = {}

(***************************************************************************)
(* Stack traces.  A stack is the sequence of its functions, the outermost  *)
(* first.                                                                  *)
(***************************************************************************)
Header(m, v) == Text("header", m, v)
Preamble == Text("preamble", Nothing, Nothing)
Blank == Text("blank", Nothing, Nothing)

Frame(f, build) ==
    <<Text("file", f, build.id)>> \o
    (IF build.sources /\ f \in Sources THEN <<Text("call", f, Nothing)>> ELSE <<>>)

Traceback(stack, build, header) ==
    <<Preamble>> \o FlattenSeq([k \in DOMAIN stack |-> Frame(stack[k], build)]) \o <<header>>

Innermost(stack, build) == Reverse([k \in DOMAIN stack |-> Text("at", stack[k], build.id)])

\* An exception was raised in base \o inner.  When under is not empty, another
\* one had been raised in base \o under and was being handled in base.
Trace(s, base, inner, under, build, header) ==
    LET handler == <<Last(base)>>
        final == base \o inner
    IN  IF s \in Python
        THEN (IF under = <<>> THEN <<>>
              ELSE Traceback(handler \o under, build, header) \o <<Blank, Preamble, Blank>>)
             \o Traceback(final, build, header)
        ELSE <<header>> \o Innermost(final, build) \o
             (IF under = <<>> THEN <<>>
              ELSE <<Preamble>> \o Innermost(under, build) \o <<Preamble>>)

(***************************************************************************)
(* Errors.                                                                 *)
(***************************************************************************)
Report(event, how, where) ==
    /\ Cardinality(reports) < MaxReports
    /\ reports' = reports \cup
          {[site |-> [service |-> event.service, type |-> event.type,
                      how |-> how, where |-> where],
            parts |-> Parts(event)]}
    /\ UNCHANGED rules

\* An exception that was raised.
Raise(s, t) ==
    \E base \in BoundedSeq(Fn, 2) \ {<<>>}, inner \in BoundedSeq(Fn, 1),
       under \in BoundedSeq(Fn, 1), build \in Build, m \in Message, v \in Value :
        LET header == Header(m, v)
        IN  Report([service |-> s, type |-> t, message |-> header,
                    trace |-> Trace(s, base, inner, under, build, header)],
                   "raised", Last(base \o inner))

\* One that was only made: Python has no frames to print for it.
LogUnraised(s, t) ==
    \E m \in Message, v \in Value :
        /\ s \in Python
        /\ Report([service |-> s, type |-> t, message |-> Header(m, v),
                   trace |-> <<Header(m, v)>>],
                  "unraised", m)

\* A message logged without an exception, or without its stack.
LogMessage(s, t) ==
    \E m \in Message, v \in Value :
        Report([service |-> s, type |-> t, message |-> Header(m, v), trace |-> <<>>],
               "logged", m)

(***************************************************************************)
(* The operator adds a rule, or takes one away.                            *)
(***************************************************************************)
AddRule(i, r) ==
    /\ Len(rules) < MaxRules
    /\ i <= Len(rules) + 1
    /\ rules' = InsertAt(rules, i, r)
    /\ UNCHANGED reports

RemoveRule(i) ==
    /\ i \in DOMAIN rules
    /\ rules' = RemoveAt(rules, i)
    /\ UNCHANGED reports

IdentityNext ==
    \/ \E s \in Service, t \in Type : Raise(s, t) \/ LogUnraised(s, t) \/ LogMessage(s, t)
    \/ \E i \in 1..MaxRules : RemoveRule(i) \/ \E r \in Rule : AddRule(i, r)

IdentitySpec == IdentityInit /\ [][IdentityNext]_identityVars

(***************************************************************************)
(* Properties.                                                             *)
(***************************************************************************)
\* fingerprint.py:3-5, "stable across releases ... and distinct across
\* genuinely different bugs": errors have the same fingerprint exactly when
\* the same type was raised in the same function of the same service (or, with
\* no stack, logged with the same message), whoever called it, whatever was
\* being handled, in whichever build.  An exception that was never raised is
\* only kept apart from others: what its header quotes is part of it.
OneFingerprintPerSite ==
    \A a, b \in reports :
        /\ a.parts = b.parts => a.site = b.site
        /\ (a.site = b.site /\ a.site.how # "unraised") => a.parts = b.parts

\* What a rule has to do with a service, and which of two rules comes first
\* whatever their order.
Concerns(r, s) == s # Unnamed /\ s \in r.pattern.matches

Outranks(r, q) ==
    \/ ~ r.pattern.glob /\ q.pattern.glob
    \/ /\ r.pattern.glob /\ q.pattern.glob
       /\ r.pattern.specificity > q.pattern.specificity

\* What one rule more, the i-th, may change.
EditMoves(more, fewer, i) ==
    /\ i \in DOMAIN more
    /\ fewer = RemoveAt(more, i)
    /\ \A s \in Service :
          LET rivals == {fewer[j] : j \in {k \in DOMAIN fewer : Concerns(fewer[k], s)}}
          IN  /\ Resolve(more, s) # Resolve(fewer, s) =>
                    Concerns(more[i], s) /\ \A q \in rivals : ~ Outranks(q, more[i])
              /\ (Concerns(more[i], s) /\ \A q \in rivals : Outranks(more[i], q)) =>
                    Resolve(more, s) = more[i].repo

\* routing.py:8-11, "most-specific-first", as an operator relies on it: editing
\* one rule moves no service to another repository (and so no error to another
\* issue) except one the rule matches and no more specific rule does; and a
\* new rule takes over every service it is the most specific for.
OneRuleMoves ==
    rules' # rules =>
        \E i \in 1..MaxRules : EditMoves(rules', rules, i) \/ EditMoves(rules, rules', i)

RouteMovesOnlyForItsRule == [][OneRuleMoves]_identityVars
=============================================================================
