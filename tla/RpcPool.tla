------------------------------ MODULE RpcPool ------------------------------
(***************************************************************************)
(* The pool of RPC endpoints of one chain: the calls of the tasks of the   *)
(* driver, which choose an endpoint and try others when it fails, the      *)
(* resolver of the external sources and the verifier of the endpoints,     *)
(* which both work beside the calls.                                       *)
(*                                                                         *)
(* Everything here runs on the threads of one tokio runtime: an action is  *)
(* the code from one await to the next, but for the end of a verification, *)
(* which other threads may come into: see VerifyCopies.                    *)
(***************************************************************************)
EXTENDS Naturals, Sequences, FiniteSets, SequencesExt

CONSTANTS
    Callers,        \* tasks that call the chain
    NoUrl,          \* the place of an arena where no endpoint is
    StaticUrls,     \* endpoints of the configuration
    DnsUrls,        \* endpoints that the external source may list
    SkipValidation, \* endpoints that count as valid without verification
    NodeStates,     \* what the node behind each endpoint may do, see Node
    LoopCount,      \* LOOP_COUNT, how often a failed call is repeated
    Grace,          \* grace period of a removed endpoint, in intervals
    Slots,          \* bound: places of the arena in use at a time
    MaxForced       \* bound: checks forced by the user

Urls == StaticUrls \cup DnsUrls

\* A node may answer calls or not, and pass the verification or not (its
\* head may be behind, or it serves another chain).
Node == [answers : BOOLEAN, verifies : BOOLEAN]

ASSUME PoolAssumption ==
    /\ StaticUrls \cap DnsUrls = {} /\ NoUrl \notin Urls
    /\ SkipValidation \subseteq Urls
    /\ NodeStates \in [Urls -> SUBSET Node] /\ \A u \in Urls : NodeStates[u] # {}
    /\ LoopCount \in Nat /\ Grace \in Nat
    /\ IsFiniteSet(Slots) /\ Injection(StaticUrls, Slots) # {}
    /\ MaxForced \in Nat

VARIABLES
    endpoints,  \* the arena: what is in each place
    resolveDue, \* check_external_sources_interval has passed since last_check
    resolver,   \* runs of the resolver: what they do and what they were told
    verifyDue,  \* the same interval has passed since last_verify
    verifier,   \* runs of the verifier, the first one holds the mutex
    verified,   \* is_finished, a verification has ended
    check,      \* endpoints whose verification is under way
    copied,     \* what the verifier has copied and will write back
    call,       \* the call of each task
    node,       \* what the node behind each endpoint does
    dns,        \* endpoints that the external source lists
    forced      \* numbers of forced checks

checkVars == <<verifyDue, verifier, verified, check, copied>>
resolveVars == <<resolveDue, resolver>>
worldVars == <<node, dns, forced>>
vars == <<endpoints, resolveVars, checkVars, call, worldVars>>

----------------------------------------------------------------------------
(* Endpoints.                                                              *)

\* removed counts the intervals that have begun since removed_date.  What is
\* known of a removed endpoint is never asked for: allowed is FALSE then.
LongAgo == Grace + 1
NotRemoved == Grace + 2
Endpoint == [url : Urls, allowed : BOOLEAN, removed : 0..LongAgo \cup {NotRemoved}]
Nothing == [url |-> NoUrl, allowed |-> FALSE, removed |-> NotRemoved]

NewEndpoint(url) == [url |-> url, allowed |-> FALSE, removed |-> NotRemoved]

\* Where urls go, each into a place of its own.
Places(urls, free) == CHOOSE place \in Injection(urls, free) : TRUE

Present(s) == endpoints[s] # Nothing
Listed(s) == Present(s) /\ endpoints[s].removed = NotRemoved

\* is_allowed of the endpoint.
IsAllowed(s) ==
    Listed(s) /\ (endpoints[s].allowed \/ endpoints[s].url \in SkipValidation)
AllowedEndpoints == {s \in Slots : IsAllowed(s)}

\* get_score orders the endpoints by what went wrong with them, by how fast
\* they answered and how new their head was when they were verified, and by
\* who answered last: any order is possible.
ByScore(S) == SetToSeqs(S)

----------------------------------------------------------------------------
(* The external sources.                                                   *)

\* start_resolve_if_needed: whether it is needed, and the run it starts.
ResolveIfNeeded ==
    IF resolveDue THEN /\ resolveDue' = FALSE
                       /\ resolver' = Append(resolver, [at |-> "start", urls |-> {}])
                  ELSE UNCHANGED resolveVars

\* Mutant of Expired: there is no grace period.
Removed(s) == Present(s) /\ endpoints[s].removed # NotRemoved

\* cleanup_sources_after_grace_period.
Expired(s) == Present(s) /\ endpoints[s].removed = LongAgo

\* An index names one endpoint for ever: the arena counts generations.  So
\* a place is taken again only when nothing holds its old index.
Held(s) ==
    \/ \E c \in Callers : s \in Range(call[c].list) \cup call[c].copy
    \/ s \in check \/ copied[s] # Nothing

Free == {s \in Slots : ~Present(s) /\ ~Held(s)}

\* Mutant of New: add_endpoint does not look for the url.
AllOf(urls) == urls

\* add_endpoint for each listed url that no endpoint has that is not removed.
New(urls) == {u \in urls : \A s \in Slots : Listed(s) => endpoints[s].url # u}

\* Mutant of Unlisted: the sources only add.
NoneUnlisted(urls) == {}

\* Bound: new endpoints are added when the places in Slots suffice.
Room(urls) == Injection(New(urls), Free) # {}

\* The endpoints of the source that it does not list any more.
Unlisted(urls) == {s \in Slots : Listed(s) /\ endpoints[s].url \in DnsUrls \ urls}

\* A run begins with the cleanup and asks the source.
ResolveStarts(r) ==
    /\ resolver[r].at = "start"
    /\ endpoints' = [s \in Slots |-> IF Expired(s) THEN Nothing ELSE endpoints[s]]
    /\ resolver' = [resolver EXCEPT ![r] = [at |-> "asked", urls |-> dns]]
    /\ UNCHANGED <<resolveDue, checkVars, call, worldVars>>

\* What the arena is after an answer that lists urls.
WithSource(urls) ==
    LET place == Places(New(urls), Free) IN
    [s \in Slots |->
        IF s \in Range(place) THEN NewEndpoint(AntiFunction(place)[s])
        ELSE IF s \in Unlisted(urls) THEN [NewEndpoint(endpoints[s].url) EXCEPT !.removed = 0]
        ELSE endpoints[s]]

\* The answer of the source comes, which may be older than its last change.
SourceAnswers(r) ==
    /\ resolver[r].at = "asked" /\ Room(resolver[r].urls)
    /\ endpoints' = WithSource(resolver[r].urls)
    /\ resolver' = RemoveAt(resolver, r)
    /\ UNCHANGED <<resolveDue, checkVars, call, worldVars>>

\* Or it does not: the source is left out.
SourceFails(r) ==
    /\ resolver[r].at = "asked"
    /\ resolver' = RemoveAt(resolver, r)
    /\ UNCHANGED <<endpoints, resolveDue, checkVars, call, worldVars>>

Resolver == \E r \in DOMAIN resolver : ResolveStarts(r) \/ SourceAnswers(r)

----------------------------------------------------------------------------
(* The verification of the endpoints.                                      *)

\* Mutant of VerifyIfNeeded: only until a verification has ended.
VerifyOnce ==
    IF verifyDue /\ ~verified THEN /\ verifyDue' = FALSE
                                   /\ verifier' = Append(verifier, "start")
                                   /\ UNCHANGED <<verified, check, copied>>
                              ELSE UNCHANGED checkVars

\* start_verify_if_needed.
VerifyIfNeeded ==
    IF verifyDue THEN /\ verifyDue' = FALSE
                      /\ verifier' = Append(verifier, "start")
                      /\ UNCHANGED <<verified, check, copied>>
                 ELSE UNCHANGED checkVars

\* The endpoints that a run verifies: the ones that are not removed.  None
\* was verified less than verify_interval_secs ago, which is shorter than the
\* interval between the runs, or the run is forced and does not care.
ToVerify == {s \in Slots : Listed(s)}

\* A run that has the mutex asks all of them at the same time.
VerifyStarts ==
    /\ verifier # <<>> /\ Head(verifier) = "start"
    /\ verifier' = <<"run">> \o Tail(verifier)
    /\ check' = ToVerify
    /\ UNCHANGED <<endpoints, resolveVars, verifyDue, verified, copied, call, worldVars>>

\* The endpoint with what its node says, or does not within
\* max_response_time_ms; one that has left the arena stays out.
Verified(s) ==
    IF Present(s) THEN [endpoints[s] EXCEPT !.allowed = Listed(s) /\ node[endpoints[s].url].verifies]
    ELSE Nothing

\* The verifications of a run share one task, which does not wait between a
\* copy and its write: there is one copy at a time.
NoneCopied == \A s \in Slots : copied[s] = Nothing

\* The node has answered, or time is up: the endpoint is copied, and written
\* back under another lock.
VerifyAnswered(s) ==
    /\ s \in check /\ check' = check \ {s}
    /\ NoneCopied
    /\ endpoints' = [endpoints EXCEPT ![s] = Verified(s)]
    /\ UNCHANGED <<resolveVars, verifyDue, verifier, verified, copied, call, worldVars>>

\* Or runs of the resolver, on other threads, come between the copy of an
\* endpoint of the source and its write; nothing else that may come between
\* changes what has been copied.
VerifyCopies(s) ==
    /\ s \in check /\ check' = check \ {s}
    /\ NoneCopied /\ resolver # <<>> /\ endpoints[s].url \in DnsUrls
    /\ copied' = [copied EXCEPT ![s] = Verified(s)]
    /\ UNCHANGED <<endpoints, resolveVars, verifyDue, verifier, verified, call, worldVars>>

\* What they have done to the endpoint is undone then.
VerifyWrites(s) ==
    /\ copied[s] # Nothing
    /\ copied' = [copied EXCEPT ![s] = Nothing]
    /\ endpoints' = [endpoints EXCEPT ![s] = IF Present(s) THEN copied[s] ELSE Nothing]
    /\ UNCHANGED <<resolveVars, verifyDue, verifier, verified, check, call, worldVars>>

VerifyEnds ==
    /\ verifier # <<>> /\ Head(verifier) = "run"
    /\ check = {} /\ NoneCopied
    /\ verified' = TRUE
    /\ verifier' = Tail(verifier)
    /\ UNCHANGED <<endpoints, resolveVars, verifyDue, check, copied, call, worldVars>>

Verifier ==
    \/ VerifyStarts \/ VerifyEnds
    \/ \E s \in Slots : VerifyAnswered(s) \/ VerifyWrites(s)

----------------------------------------------------------------------------
(* A call, eth_generic_call.                                               *)

NoCall == [pc |-> "idle", list |-> <<>>, copy |-> {}, resolving |-> FALSE,
           loop |-> 0, event |-> "none", result |-> "none", late |-> FALSE]

\* Mutant of Chosen: one more attempt than there are times to sleep.
ChosenOnceMore(c, list, resolving) ==
    LET k == [call[c] EXCEPT !.list = list, !.copy = {}, !.resolving = FALSE,
                             !.late = FALSE] IN
    call' = [call EXCEPT ![c] =
        IF list # <<>> THEN [k EXCEPT !.pc = "try"]
        ELSE IF ~resolving THEN [NoCall EXCEPT !.result = "error"]
        ELSE IF k.loop > LoopCount THEN [NoCall EXCEPT !.pc = "send", !.event = "AllEndpointsFailed"]
        ELSE [k EXCEPT !.pc = "choose", !.loop = @ + 1]]

\* The list of choose_best_endpoints is empty, or its endpoints are tried.
Chosen(c, list, resolving) ==
    LET k == [call[c] EXCEPT !.list = list, !.copy = {}, !.resolving = FALSE,
                             !.late = FALSE] IN
    call' = [call EXCEPT ![c] =
        IF list # <<>> THEN [k EXCEPT !.pc = "try"]
        ELSE IF ~resolving THEN [NoCall EXCEPT !.result = "error"]
        ELSE IF k.loop >= LoopCount
             THEN [NoCall EXCEPT !.pc = "send", !.event = "AllEndpointsFailed"]
        ELSE [k EXCEPT !.pc = "choose", !.loop = @ + 1]]

Begin(c) ==
    /\ call[c].pc = "idle"
    /\ call' = [call EXCEPT ![c] = [NoCall EXCEPT !.pc = "choose"]]
    /\ UNCHANGED <<endpoints, resolveVars, checkVars, worldVars>>

\* choose_best_endpoints: all that are allowed, in the order of their scores.
\* resolving is whether this call has started the resolver.
Choose(c) ==
    /\ call[c].pc = "choose"
    /\ ResolveIfNeeded
    /\ VerifyIfNeeded
    /\ IF AllowedEndpoints # {}
       THEN \E list \in ByScore(AllowedEndpoints) : Chosen(c, list, resolveDue)
       ELSE call' = [call EXCEPT ![c].pc = "wait", ![c].resolving = resolveDue,
                                 ![c].copy = {s \in Slots : Present(s)}]
    /\ UNCHANGED <<endpoints, worldVars>>

\* None was allowed: wait for one of those that were there, until a
\* verification has ended, this one or an earlier one.
ChooseAfterWait(c) ==
    /\ call[c].pc = "wait"
    /\ LET allowed == {s \in call[c].copy : IsAllowed(s)} IN
        \/ \E s \in allowed : Chosen(c, <<s>>, call[c].resolving)
        \/ allowed = {} /\ verified /\ Chosen(c, <<>>, call[c].resolving)
    /\ UNCHANGED <<endpoints, resolveVars, checkVars, worldVars>>

\* The next endpoint is asked, or it is no longer in the arena and left out.
\* When all were tried the call chooses again.
TryNext(c) ==
    /\ call[c].pc = "try"
    /\ LET k == call[c] IN call' = [call EXCEPT ![c] =
        IF k.list = <<>> THEN [k EXCEPT !.pc = "choose", !.late = FALSE]
        ELSE IF Present(Head(k.list)) THEN [k EXCEPT !.pc = "asked"]
        ELSE [k EXCEPT !.list = Tail(@)]]
    /\ UNCHANGED <<endpoints, resolveVars, checkVars, worldVars>>

Asked(c) == Head(call[c].list)

\* mark_rpc_success counts for the score of the endpoint, if that is still
\* there; without it the call goes on to its event just the same.
MarkRpcSuccess == [NoCall EXCEPT !.pc = "send", !.event = "Success"]

\* mark_rpc_error counts against the score, and unwraps the endpoint that it
\* finds: a call k panics when its endpoint is gone, otherwise next becomes of it.
MarkRpcError(k, next) ==
    IF Present(Head(k.list)) THEN next ELSE [NoCall EXCEPT !.pc = "panic"]

\* A result, or an error that the caller has to deal with.
Answered(c) ==
    /\ call[c].pc = "asked"
    /\ Present(Asked(c)) => node[endpoints[Asked(c)].url].answers
    /\ call' = [call EXCEPT ![c] = MarkRpcSuccess]
    /\ UNCHANGED <<endpoints, resolveVars, checkVars, worldVars>>

\* Mutant of CallFails: failures are not counted.
CallFailsUncounted(c) ==
    /\ call[c].pc = "asked"
    /\ Present(Asked(c)) => ~node[endpoints[Asked(c)].url].answers
    /\ call' = [call EXCEPT ![c].pc = "try", ![c].list = Tail(@)]
    /\ UNCHANGED <<endpoints, resolveVars, checkVars, worldVars>>

\* No answer, or not a proper one: the next endpoint is tried after a while.
CallFails(c) ==
    /\ call[c].pc = "asked"
    /\ Present(Asked(c)) => ~node[endpoints[Asked(c)].url].answers
    /\ LET k == call[c] IN call' = [call EXCEPT ![c] = MarkRpcError(k,
            IF k.loop >= LoopCount THEN [NoCall EXCEPT !.pc = "send", !.event = "Error"]
            ELSE [k EXCEPT !.pc = "try", !.list = Tail(@), !.loop = @ + 1])]
    /\ UNCHANGED <<endpoints, resolveVars, checkVars, worldVars>>

\* The call sends its event, which waits for the channel, and returns.
Report(c) ==
    /\ call[c].pc = "send"
    /\ call' = [call EXCEPT ![c] =
                [NoCall EXCEPT !.result = IF call[c].event = "Success" THEN "ok" ELSE "error"]]
    /\ UNCHANGED <<endpoints, resolveVars, checkVars, worldVars>>

Caller(c) ==
    \/ Begin(c) \/ Choose(c) \/ ChooseAfterWait(c)
    \/ TryNext(c) \/ Answered(c) \/ CallFails(c) \/ Report(c)

----------------------------------------------------------------------------
(* The user, the world and the clock.                                      *)

\* Bound: the user forces a check so often.
MayForce == forced.resolve + forced.verify < MaxForced

\* force_check_endpoint_info, of the sources and of the endpoints.
ForceResolve ==
    /\ MayForce /\ forced' = [forced EXCEPT !.resolve = @ + 1]
    /\ resolveDue' = FALSE
    /\ resolver' = Append(resolver, [at |-> "start", urls |-> {}])
    /\ UNCHANGED <<endpoints, checkVars, call, node, dns>>

ForceVerify ==
    /\ MayForce /\ forced' = [forced EXCEPT !.verify = @ + 1]
    /\ verifyDue' = FALSE
    /\ verifier' = Append(verifier, "start")
    /\ UNCHANGED <<endpoints, resolveVars, verified, check, copied, call, node, dns>>

NodeChanges ==
    /\ \E u \in Urls : \E n \in NodeStates[u] \ {node[u]} : node' = [node EXCEPT ![u] = n]
    /\ UNCHANGED <<endpoints, resolveVars, checkVars, call, dns, forced>>

SourceChanges ==
    /\ dns' \in (SUBSET DnsUrls) \ {dns}
    /\ UNCHANGED <<endpoints, resolveVars, checkVars, call, node, forced>>

Tries(c) == call[c].pc \in {"try", "asked"}

\* An interval begins.  It is longer than a run of the resolver or of the
\* verifier, and than it takes to try the endpoints of one list.
IntervalBegins ==
    /\ resolver = <<>> /\ verifier = <<>>
    /\ \A c \in Callers : ~call[c].late
    /\ resolveDue' = TRUE /\ verifyDue' = TRUE
    /\ endpoints' = [s \in Slots |->
                        IF endpoints[s].removed < LongAgo
                        THEN [endpoints[s] EXCEPT !.removed = @ + 1] ELSE endpoints[s]]
    /\ call' = [c \in Callers |-> [call[c] EXCEPT !.late = Tries(c)]]
    /\ UNCHANGED <<resolver, verifier, verified, check, copied, worldVars>>

----------------------------------------------------------------------------
\* The pool is made with the endpoints of the configuration and, if there is
\* a source, with a run of the resolver.
Init ==
    /\ endpoints = [s \in Slots |->
            IF s \in Range(Places(StaticUrls, Slots))
            THEN NewEndpoint(AntiFunction(Places(StaticUrls, Slots))[s]) ELSE Nothing]
    /\ resolveDue = (DnsUrls = {})
    /\ resolver = IF DnsUrls = {} THEN <<>> ELSE <<[at |-> "start", urls |-> {}]>>
    /\ verifyDue = TRUE
    /\ verifier = <<>>
    /\ verified = FALSE
    /\ check = {} /\ copied = [s \in Slots |-> Nothing]
    /\ call = [c \in Callers |-> NoCall]
    /\ node \in [Urls -> Node] /\ \A u \in Urls : node[u] \in NodeStates[u]
    /\ dns = DnsUrls
    /\ forced = [resolve |-> 0, verify |-> 0]

Next ==
    \/ \E c \in Callers : Caller(c)
    \/ Resolver
    \/ \E r \in DOMAIN resolver : SourceFails(r)
    \/ Verifier
    \/ \E s \in Slots : VerifyCopies(s)
    \/ IntervalBegins
    \/ ForceResolve \/ ForceVerify
    \/ NodeChanges \/ SourceChanges

Spec == Init /\ [][Next]_vars

\* Tasks run when they can, and the tasks call again and again; time passes;
\* a source that is asked again and again answers some time, and not always
\* in the moment, without an await, between a copy and its write.
Fairness ==
    /\ \A c \in Callers : WF_vars(Caller(c))
    /\ SF_vars(\E r \in DOMAIN resolver : NoneCopied /\ ResolveStarts(r))
    /\ SF_vars(\E r \in DOMAIN resolver : NoneCopied /\ SourceAnswers(r))
    /\ WF_vars(Verifier)
    /\ WF_vars(IntervalBegins)

FairSpec == Spec /\ Fairness

----------------------------------------------------------------------------
(* Properties.                                                             *)

Run == [at : {"start", "asked"}, urls : SUBSET DnsUrls]

Call == [pc : {"idle", "choose", "wait", "try", "asked", "send", "panic"},
         list : Seq(Slots), copy : SUBSET Slots, resolving : BOOLEAN,
         loop : 0..LoopCount, late : BOOLEAN,
         event : {"none", "Success", "Error", "AllEndpointsFailed"},
         result : {"none", "ok", "error"}]

TypeOK ==
    /\ endpoints \in [Slots -> Endpoint \cup {Nothing}]
    /\ resolveDue \in BOOLEAN /\ verifyDue \in BOOLEAN /\ verified \in BOOLEAN
    /\ resolver \in Seq(Run)
    /\ verifier \in Seq({"start", "run"})
    /\ check \subseteq Slots /\ copied \in [Slots -> Endpoint \cup {Nothing}]
    /\ call \in [Callers -> Call]
    /\ node \in [Urls -> Node] /\ dns \subseteq DnsUrls
    /\ forced \in [resolve : 0..MaxForced, verify : 0..MaxForced]

\* No call unwraps an index whose endpoint the resolver has cleaned up: the
\* grace period outlasts every list of endpoints that a call works through.
NeverPanics == \A c \in Callers : call[c].pc # "panic"

\* No url is in the pool twice, however runs of the resolver, removals and
\* verifications, forced ones too, that write old copies back follow each
\* other, unless a run of the resolver was forced: then two runs may fall
\* between a copy and its write, the first removes the endpoint, the second
\* adds a new one, and the write brings the old one back.
OneEndpointPerUrl ==
    forced.resolve = 0 =>
        \A s, t \in Slots :
            Listed(s) /\ Listed(t) /\ s # t => endpoints[s].url # endpoints[t].url

\* Every call returns, although nodes fail and come back and sources change
\* while it works through its lists.
CallEnds == \A c \in Callers : call[c].pc = "choose" ~> call[c].pc = "idle"

\* When an endpoint that the configuration or the source lists works from
\* some time on, calls succeed from some time on: after an outage it is
\* verified, added and chosen again.
RecoversAfterOutage ==
    (\E u \in Urls : <>[](/\ node[u] = [answers |-> TRUE, verifies |-> TRUE]
                           /\ u \in StaticUrls \cup dns))
        => \A c \in Callers : <>[](call[c].result # "error")

\* An endpoint that the source does not list any more leaves the pool, also
\* when a verification writes it back as it was before its removal.
GoneIsDropped ==
    \A u \in DnsUrls : <>[](u \notin dns) => <>[](\A s \in Slots : endpoints[s].url # u)

=============================================================================
