---------------------------- MODULE Credentials ----------------------------
(***************************************************************************)
(* github/auth.py and GitHubClient.request of github/client.py: how the    *)
(* workers of a process obtain, share, refresh and lose the credentials of *)
(* a GitHub App while GitHub revokes tokens and people reinstall the App.  *)
(*                                                                         *)
(* A request asks for headers at each of its attempts: the installation id *)
(* of the repository (looked up and cached), a token of that installation  *)
(* (minted and cached), then the request itself.  Each is a message to     *)
(* GitHub and back, and GitHub's side may change while the answer travels: *)
(* "..ing" waits for GitHub, "..ed" for the event loop.                    *)
(*                                                                         *)
(* All repositories belong to one owner, hence to one installation.  A     *)
(* token is represented by what GitHub would say to it now: "live", or     *)
(* "dead" once revoked; every copy dies at the same time.                  *)
(***************************************************************************)
EXTENDS Integers, FiniteSets

CONSTANTS
    Worker,         \* concurrent requests
    Repo,           \* repositories of the owner
    MaxAttempts,    \* client.max_attempts
    Fixed,          \* whether an installation id is configured (it is id 1)
    MaxInstall,     \* bound: the last installation id
    MaxRevoked,     \* bound: how often GitHub revokes the tokens
    MaxTroubles     \* bound: failures of the network

ASSUME CredentialsConstants ==
    /\ IsFiniteSet(Worker)
    /\ IsFiniteSet(Repo) /\ Repo # {}
    /\ MaxAttempts \in Nat \ {0, 1}
    /\ MaxInstall \in Nat \ {0}
    /\ {MaxRevoked, MaxTroubles} \subseteq Nat
    /\ Fixed \in BOOLEAN

VARIABLES
    installed,      \* the App's installation id at GitHub
    ids,            \* _installations: repository -> id, None if not cached
    tokens,         \* _tokens: id -> token, NoToken if not cached or not usable
    job,            \* job[w]: the request of worker w
    spent,          \* how much of each bound is spent
    lost            \* history: requests that ended in a 401 since the last change, up to LostCap

vars == <<installed, ids, tokens, job, spent, lost>>

None == 0         \* no id
NoToken == "none"

Id == 1..MaxInstall

\* Bound: where lost stops counting, above what RevocationCostsFew allows.
LostCap ==
    Cardinality(Worker) * (1 + MaxInstall + 2 * Cardinality(Worker) + Cardinality(Repo))
        + MaxTroubles + 1

Idle ==
    [pc |-> "idle", repo |-> CHOOSE p \in Repo : TRUE, id |-> None, token |-> NoToken,
     attempt |-> 1, refreshed |-> FALSE]

Init ==
    /\ installed = 1
    /\ ids = [p \in Repo |-> None]
    /\ tokens = [i \in Id |-> NoToken]
    /\ job = [w \in Worker |-> Idle]
    /\ spent = [revoked |-> 0, troubles |-> 0]
    /\ lost = 0

(***************************************************************************)
(* headers_for, up to its first await or to the request.                   *)
(***************************************************************************)
WithToken(j, i) ==
    IF tokens[i] # NoToken
    THEN [j EXCEPT !.pc = "sending", !.id = i, !.token = tokens[i]]
    ELSE [j EXCEPT !.pc = "minting", !.id = i]

Headers(j) ==
    CASE Fixed                           -> WithToken(j, 1)
      [] ~ Fixed /\ ids[j.repo] # None   -> WithToken(j, ids[j.repo])
      [] ~ Fixed /\ ids[j.repo] = None   -> [j EXCEPT !.pc = "resolving"]

Become(w, j) == job' = [job EXCEPT ![w] = j]

\* The request is over, with a response or with an exception.
Finish(w) == Become(w, Idle)

Begin(w, p) ==
    /\ job[w].pc = "idle"
    /\ Become(w, Headers([Idle EXCEPT !.repo = p]))
    /\ UNCHANGED <<installed, ids, tokens, spent, lost>>

\* GitHub says which installation the repository has.
Resolve(w) ==
    /\ job[w].pc = "resolving"
    /\ Become(w, [job[w] EXCEPT !.pc = "resolved", !.id = installed])
    /\ UNCHANGED <<installed, ids, tokens, spent, lost>>

Resolved(w) ==
    /\ job[w].pc = "resolved"
    /\ ids' = [ids EXCEPT ![job[w].repo] = job[w].id]
    /\ Become(w, WithToken(job[w], job[w].id))
    /\ UNCHANGED <<installed, tokens, spent, lost>>

\* GitHub mints a token for the installation it was asked about, if that
\* still exists; a 404 raises AuthError, which nobody retries.
Mint(w) ==
    /\ job[w].pc = "minting"
    /\ IF job[w].id = installed
       THEN Become(w, [job[w] EXCEPT !.pc = "minted", !.token = "live"])
       ELSE Finish(w)
    /\ UNCHANGED <<installed, ids, tokens, spent, lost>>

Minted(w) ==
    /\ job[w].pc = "minted"
    /\ tokens' = [tokens EXCEPT ![job[w].id] = job[w].token]
    /\ Become(w, [job[w] EXCEPT !.pc = "sending"])
    /\ UNCHANGED <<installed, ids, spent, lost>>

(***************************************************************************)
(* The request and what request() does with its answer.                    *)
(***************************************************************************)
\* A response that is returned, or a 4xx that is raised: either way it is over.
Answer(w) ==
    /\ job[w].pc = "sending"
    /\ job[w].token = "live"
    /\ Finish(w)
    /\ UNCHANGED <<installed, ids, tokens, spent, lost>>

\* A 401.
Refuse(w) ==
    /\ job[w].pc = "sending"
    /\ job[w].token = "dead"
    /\ Become(w, [job[w] EXCEPT !.pc = "refused"])
    /\ UNCHANGED <<installed, ids, tokens, spent, lost>>

\* A bug to be caught: a 401 is raised like any other 4xx.
MayNotRefresh(w) == FALSE

MayRefresh(w) == ~ job[w].refreshed /\ job[w].attempt < MaxAttempts

\* A bug to be caught: the token stays cached.
RefreshIdOnly(w) ==
    /\ job[w].pc = "refused"
    /\ MayRefresh(w)
    /\ ids' = [ids EXCEPT ![job[w].repo] = None]
    /\ Become(w, [job[w] EXCEPT !.attempt = @ + 1, !.refreshed = TRUE, !.token = NoToken,
                                !.pc = "resolving"])
    /\ UNCHANGED <<installed, tokens, spent, lost>>

\* A bug to be caught: the new attempt mints without asking for the id.
RefreshUnresolved(w) ==
    /\ job[w].pc = "refused"
    /\ MayRefresh(w)
    /\ ids' = [ids EXCEPT ![job[w].repo] = None]
    /\ Become(w, [job[w] EXCEPT !.id = None, !.refreshed = TRUE, !.pc = "minting"])
    /\ UNCHANGED <<installed, tokens, spent, lost>>

\* invalidate(repo) forgets the id of this repository and the token of that
\* id, and the next attempt starts at once: nothing is cached, so it begins by
\* asking GitHub.
Refresh(w) ==
    LET p == job[w].repo
        i == IF Fixed THEN 1 ELSE ids[p]
        again == [job[w] EXCEPT !.attempt = @ + 1, !.refreshed = TRUE, !.token = NoToken,
                                !.pc = IF Fixed THEN "minting" ELSE "resolving"]
    IN  /\ job[w].pc = "refused"
        /\ MayRefresh(w)
        /\ ids' = IF Fixed THEN ids ELSE [ids EXCEPT ![p] = None]
        /\ tokens' = IF i = None THEN tokens ELSE [tokens EXCEPT ![i] = NoToken]
        /\ Become(w, again)
        /\ UNCHANGED <<installed, spent, lost>>

\* A second 401, or one at the last attempt, is raised like any other 4xx.
GiveUp(w) ==
    /\ job[w].pc = "refused"
    /\ ~ MayRefresh(w)
    /\ lost' = IF lost < LostCap THEN lost + 1 ELSE lost
    /\ Finish(w)
    /\ UNCHANGED <<installed, ids, tokens, spent>>

\* A connection error, a 5xx or a rate limit to the request itself: wait and
\* try again, unless it was the last attempt.
Trouble(w) ==
    /\ job[w].pc = "sending"
    /\ spent.troubles < MaxTroubles
    /\ spent' = [spent EXCEPT !.troubles = @ + 1]
    /\ IF job[w].attempt < MaxAttempts
       THEN Become(w, [job[w] EXCEPT !.pc = "waiting", !.token = NoToken])
       ELSE Finish(w)
    /\ UNCHANGED <<installed, ids, tokens, lost>>

Retry(w) ==
    /\ job[w].pc = "waiting"
    /\ Become(w, Headers([job[w] EXCEPT !.attempt = @ + 1]))
    /\ UNCHANGED <<installed, ids, tokens, spent, lost>>

\* The same to the requests of auth.py raises at once, whatever the attempt.
AuthTrouble(w) ==
    /\ job[w].pc \in {"resolving", "minting"}
    /\ spent.troubles < MaxTroubles
    /\ spent' = [spent EXCEPT !.troubles = @ + 1]
    /\ Finish(w)
    /\ UNCHANGED <<installed, ids, tokens, lost>>

(***************************************************************************)
(* GitHub and time.                                                        *)
(***************************************************************************)
Dead(token) == IF token = NoToken THEN NoToken ELSE "dead"

AllDie ==
    /\ tokens' = [i \in Id |-> Dead(tokens[i])]
    /\ job' = [w \in Worker |-> [job[w] EXCEPT !.token = Dead(@)]]
    /\ lost' = 0

Revoke ==
    /\ spent.revoked < MaxRevoked
    /\ spent' = [spent EXCEPT !.revoked = @ + 1]
    /\ AllDie
    /\ UNCHANGED <<installed, ids>>

\* The App is uninstalled and installed again, under a new id.
Reinstall ==
    /\ installed < MaxInstall
    /\ installed' = installed + 1
    /\ AllDie
    /\ UNCHANGED <<ids, spent>>

\* _CachedToken.usable turns false, REFRESH_MARGIN_SECONDS before GitHub
\* would stop accepting the token.
Expire(i) ==
    /\ tokens[i] # NoToken
    /\ tokens' = [tokens EXCEPT ![i] = NoToken]
    /\ UNCHANGED <<installed, ids, job, spent, lost>>

Step(w) ==
    \/ Resolve(w) \/ Resolved(w) \/ Mint(w) \/ Minted(w) \/ Answer(w)
    \/ Refuse(w) \/ Refresh(w) \/ GiveUp(w) \/ Retry(w)

Next ==
    \/ \E w \in Worker, p \in Repo : Begin(w, p)
    \/ \E w \in Worker : Step(w) \/ Trouble(w) \/ AuthTrouble(w)
    \/ Revoke \/ Reinstall
    \/ \E i \in Id : Expire(i)

Spec == Init /\ [][Next]_vars

(***************************************************************************)
(* Every request gets an answer or an error in the end, and errors keep    *)
(* arriving for every repository.  Tokens need not expire.                 *)
(***************************************************************************)
FairSpec ==
    /\ Spec
    /\ \A w \in Worker : WF_vars(Step(w))
    /\ \A p \in Repo : SF_vars(\E w \in Worker : Begin(w, p))

(***************************************************************************)
(* Properties.                                                             *)
(***************************************************************************)
Token == {NoToken, "live", "dead"}

Request ==
    [pc : {"idle", "resolving", "resolved", "minting", "minted", "sending", "refused",
           "waiting"},
     repo : Repo, id : Id \cup {None}, token : Token,
     attempt : 1..MaxAttempts, refreshed : BOOLEAN]

TypeOK ==
    /\ installed \in Id
    /\ ids \in [Repo -> Id \cup {None}]
    /\ tokens \in [Id -> Token]
    /\ job \in [Worker -> Request]
    /\ spent \in [revoked : 0..MaxRevoked, troubles : 0..MaxTroubles]
    /\ lost \in 0..LostCap
    /\ \A w \in Worker : job[w].pc \in {"resolved", "minting", "minted"} => job[w].id # None
    /\ \A w \in Worker : job[w].token # NoToken <=> job[w].pc \in {"minted", "sending", "refused"}

\* The installation a request for p would take its token from; None: it asks.
Serving(p) == IF Fixed THEN 1 ELSE ids[p]

\* client.py:110-112: a revoked token does not stop the filings, because the
\* 401 makes the worker mint another one.  No repository is served a revoked
\* token for good.
RevocationIsNoticed ==
    \A p \in Repo : []<>(Serving(p) = None \/ tokens[Serving(p)] # "dead")

\* "Refresh once, not in a loop" (client.py:112) is enough: after a revocation
\* only finitely many requests are lost.  Each worker may have used up its
\* refresh already, and may do so again for every token that is in the cache
\* dead, for what the other workers bring there afterwards (a token that was
\* being minted, an id from before the App was installed again) and for every
\* id that is out of date.  A request may lose its second attempt to the
\* network instead.
RevocationCostsFew ==
    lost <= Cardinality(Worker)
                * (1 + installed + 2 * Cardinality(Worker) + Cardinality(Repo))
            + spent.troubles

\* The same for a reinstalled App, auth.py:188-191, "a reinstalled App has a
\* new installation id, so the old one would just 404 on the next mint": the
\* old id does not stay cached.
ReinstallIsNoticed == \A p \in Repo : []<>(ids[p] \in {None, installed})
=============================================================================
