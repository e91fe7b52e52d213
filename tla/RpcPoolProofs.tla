--------------------------- MODULE RpcPoolProofs ---------------------------
(* No url twice in the pool, and no call that panics, proved.              *)
EXTENDS RpcPool, SequenceTheorems, FiniteSetTheorems, TLAPS

----------------------------------------------------------------------------
(* Sequences and places.                                                   *)

(* What is left when an element is removed is a sequence. *)
LEMMA RemoveAtTyping ==
  ASSUME NEW S, NEW q \in Seq(S), NEW i \in DOMAIN q
  PROVE  RemoveAt(q, i) \in Seq(S)
<1>1. Len(q) \in Nat /\ DOMAIN q = 1..Len(q) /\ \A k \in 1..Len(q) : q[k] \in S
  BY LenProperties
<1>2. i \in 1..Len(q)
  BY <1>1
<1>3. SubSeq(q, 1, i-1) \in Seq(S)
  <2>1. i - 1 \in Int /\ \A k \in 1..(i-1) : q[k] \in S
    BY <1>1, <1>2
  <2> QED
    BY <2>1, SubSeqProperties
<1>4. SubSeq(q, i+1, Len(q)) \in Seq(S)
  <2>1. i + 1 \in Int /\ Len(q) \in Int /\ \A k \in (i+1)..Len(q) : q[k] \in S
    BY <1>1, <1>2
  <2> QED
    BY <2>1, SubSeqProperties
<1> QED
  BY <1>3, <1>4, ConcatProperties DEF RemoveAt

(* The endpoints of any order of scores are those that are allowed. *)
LEMMA ByScoreTyping ==
  ASSUME NEW S \in SUBSET Slots, NEW list \in ByScore(S)
  PROVE  list \in Seq(Slots) /\ \A i \in DOMAIN list : list[i] \in S
<1>1. IsFiniteSet(S)
  BY PoolAssumption, FS_Subset
<1>2. Cardinality(S) \in Nat
  BY <1>1, FS_CardinalityType
<1>3. list \in [1..Cardinality(S) -> S]
  BY DEF ByScore, SetToSeqs
<1> QED
  BY <1>2, <1>3, SeqDef

(* New endpoints go into free places, each into one of its own. *)
LEMMA PlacesAreDistinct ==
  ASSUME NEW U, NEW F, Injection(U, F) # {}
  PROVE  LET place == Places(U, F)
             back == AntiFunction(place) IN
         /\ Range(place) \subseteq F
         /\ \A s \in Range(place) : back[s] \in U
         /\ \A s, t \in Range(place) : back[s] = back[t] => s = t
<1> DEFINE place == Places(U, F)
           back == AntiFunction(place)
<1>1. place \in Injection(U, F)
  BY DEF Places
<1>2. place \in [U -> F] /\ DOMAIN place = U
  BY <1>1 DEF Injection
<1> HIDE DEF place
<1>3. \A s \in Range(place) : back[s] \in U /\ place[back[s]] = s
  <2> TAKE s \in Range(place)
  <2>1. \E u \in U : place[u] = s
    BY <1>2 DEF Range
  <2>2. back[s] = CHOOSE u \in U : s \in Range(place) => place[u] = s
    BY <1>2 DEF AntiFunction, Inverse
  <2> QED
    BY <2>1, <2>2
<1>4. Range(place) \subseteq F
  BY <1>2 DEF Range
<1> QED
  BY <1>3, <1>4 DEF place


----------------------------------------------------------------------------
(* The arena.                                                              *)

Arena == [Slots -> Endpoint \cup {Nothing}]

\* Present, in any arena.
In(e, s) == e[s] # Nothing

\* What becomes of the endpoint in a place where there was one: it stays, or
\* it is removed.
Remains(e, s) ==
    \/ e[s] = endpoints[s]
    \/ Listed(s) /\ e[s] = [NewEndpoint(endpoints[s].url) EXCEPT !.removed = 0]

LEMMA NewTyping ==
  ASSUME NEW u \in Urls
  PROVE  /\ NewEndpoint(u) \in Endpoint
         /\ NewEndpoint(u).url = u
         /\ [NewEndpoint(u) EXCEPT !.removed = 0] \in Endpoint
         /\ [NewEndpoint(u) EXCEPT !.removed = 0].url = u
         /\ [NewEndpoint(u) EXCEPT !.removed = 0].removed = 0
<1>1. NotRemoved \in 0..LongAgo \cup {NotRemoved} /\ 0 \in 0..LongAgo \cup {NotRemoved}
  BY PoolAssumption DEF LongAgo, NotRemoved
<1> QED
  BY <1>1 DEF NewEndpoint, Endpoint

(* An endpoint is something. *)
LEMMA EndpointIsThere == Nothing \notin Endpoint
  BY PoolAssumption DEF Nothing, Endpoint

(* The answer of a source leaves every endpoint in its place and adds those *)
(* that are new in free places.                                             *)
LEMMA SourceAdds ==
  ASSUME endpoints \in Arena, NEW urls \in SUBSET DnsUrls, Room(urls)
  PROVE  LET e == WithSource(urls) IN
         /\ e \in Arena
         /\ \A s \in Slots : Present(s) => e[s] \in Endpoint /\ Remains(e, s)
         /\ \A s \in Slots : ~Present(s) /\ In(e, s) =>
                s \in Free /\ \E u \in New(urls) : e[s] = NewEndpoint(u)
         /\ \A s, t \in Slots : /\ ~Present(s) /\ In(e, s)
                                /\ ~Present(t) /\ In(e, t) /\ s # t
                                => e[s].url # e[t].url
<1> DEFINE e == WithSource(urls)
           place == Places(New(urls), Free)
           back == AntiFunction(place)
<1>0. /\ Range(place) \subseteq Free
      /\ \A s \in Range(place) : back[s] \in New(urls)
      /\ \A s, t \in Range(place) : back[s] = back[t] => s = t
  BY PlacesAreDistinct DEF Room
<1>1. New(urls) \subseteq Urls
  BY DEF New, Urls
<1>2. \A s \in Free : s \in Slots /\ ~Present(s)
  BY DEF Free
<1>3. e = [s \in Slots |->
        IF s \in Range(place) THEN NewEndpoint(back[s])
        ELSE IF s \in Unlisted(urls) THEN [NewEndpoint(endpoints[s].url) EXCEPT !.removed = 0]
        ELSE endpoints[s]]
  BY DEF WithSource
<1>4. \A s \in Unlisted(urls) : Listed(s) /\ endpoints[s].url \in Urls
  BY DEF Unlisted, Urls
<1> HIDE DEF e, place, back
<1>5. \A s \in Range(place) : e[s] \in Endpoint /\ e[s] = NewEndpoint(back[s]) /\ e[s].url = back[s]
  BY <1>0, <1>1, <1>2, <1>3, NewTyping
<1>6. \A s \in Slots \ Range(place) :
        /\ e[s] \in Endpoint \cup {Nothing} /\ Remains(e, s)
        /\ Present(s) => e[s] \in Endpoint
        /\ ~Present(s) => e[s] = Nothing
  <2> TAKE s \in Slots \ Range(place)
  <2>1. CASE s \in Unlisted(urls)
    <3>1. e[s] = [NewEndpoint(endpoints[s].url) EXCEPT !.removed = 0] /\ Listed(s) /\ Present(s)
      BY <1>3, <1>4, <2>1 DEF Listed
    <3>2. e[s] \in Endpoint
      BY <3>1, <2>1, <1>4, NewTyping
    <3> QED
      BY <3>1, <3>2 DEF Remains
  <2>2. CASE s \notin Unlisted(urls)
    BY <1>3, <2>2 DEF Remains, Arena, Present
  <2> QED
    BY <2>1, <2>2
<1>7. e \in Arena
  <2>1. \A s \in Slots : e[s] \in Endpoint \cup {Nothing}
    BY <1>5, <1>6
  <2>2. e = [s \in Slots |-> e[s]]
    BY <1>3
  <2> QED
    BY <2>1, <2>2 DEF Arena
<1>8. \A s \in Slots : Present(s) => s \notin Range(place)
  BY <1>0, <1>2
<1>9. \A s \in Slots : ~Present(s) /\ In(e, s) => s \in Range(place)
  BY <1>6 DEF In
<1>10. \A s \in Slots : Present(s) => e[s] \in Endpoint /\ Remains(e, s)
  BY <1>6, <1>8
<1>11. \A s \in Slots : ~Present(s) /\ In(e, s) =>
                s \in Free /\ \E u \in New(urls) : e[s] = NewEndpoint(u)
  BY <1>0, <1>5, <1>9
<1>12. \A s, t \in Slots : /\ ~Present(s) /\ In(e, s)
                           /\ ~Present(t) /\ In(e, t) /\ s # t
                           => e[s].url # e[t].url
  BY <1>0, <1>5, <1>9
<1> QED
  BY <1>7, <1>10, <1>11, <1>12 DEF e

(* A verification changes nothing but allowed. *)
LEMMA VerifiedTyping ==
  ASSUME endpoints \in Arena, node \in [Urls -> Node], NEW s \in Slots
  PROVE  /\ Verified(s) \in Endpoint \cup {Nothing}
         /\ Verified(s) = Nothing <=> ~Present(s)
         /\ Present(s) => /\ Verified(s) \in Endpoint
                          /\ Verified(s).url = endpoints[s].url
                          /\ Verified(s).removed = endpoints[s].removed
<1>1. CASE Present(s)
  <2>1. endpoints[s] \in Endpoint /\ endpoints[s].url \in Urls
    BY <1>1 DEF Present, Arena, Endpoint
  <2>2. PICK b \in BOOLEAN : Verified(s) = [endpoints[s] EXCEPT !.allowed = b]
    <3>1. (Listed(s) /\ node[endpoints[s].url].verifies) \in BOOLEAN
      BY <2>1 DEF Node
    <3>2. Verified(s) = [endpoints[s] EXCEPT
                            !.allowed = Listed(s) /\ node[endpoints[s].url].verifies]
      BY <1>1 DEF Verified
    <3> QED
      BY <3>1, <3>2
  <2>3. /\ Verified(s) \in Endpoint
        /\ Verified(s).url = endpoints[s].url
        /\ Verified(s).removed = endpoints[s].removed
    BY <2>1, <2>2 DEF Endpoint
  <2> QED
    BY <1>1, <2>3, EndpointIsThere
<1>2. CASE ~Present(s)
  BY <1>2 DEF Verified
<1> QED
  BY <1>1, <1>2

----------------------------------------------------------------------------
(* Calls.                                                                  *)

LEMMA NoCallTyping == NoCall \in Call
<1>1. <<>> \in Seq(Slots) /\ 0 \in 0..LoopCount
  BY PoolAssumption, EmptySeq
<1> QED
  BY <1>1 DEF NoCall, Call

(* Whom a call asks: the list, its beginning; otherwise nobody. *)
Asks(k, list) ==
    \/ k.pc = "try" /\ k.list = list /\ k.late = FALSE
    \/ k.pc \notin {"try", "asked", "panic"}

LEMMA ChosenCall ==
  ASSUME call \in [Callers -> Call], NEW c \in Callers, NEW list \in Seq(Slots),
         NEW resolving \in BOOLEAN, Chosen(c, list, resolving)
  PROVE  /\ call' \in [Callers -> Call]
         /\ Asks(call'[c], list)
         /\ \A d \in Callers \ {c} : call'[d] = call[d]
<1> DEFINE k == [call[c] EXCEPT !.list = list, !.copy = {}, !.resolving = FALSE, !.late = FALSE]
           n == IF list # <<>> THEN [k EXCEPT !.pc = "try"]
                ELSE IF ~resolving THEN [NoCall EXCEPT !.result = "error"]
                ELSE IF k.loop >= LoopCount
                     THEN [NoCall EXCEPT !.pc = "send", !.event = "AllEndpointsFailed"]
                ELSE [k EXCEPT !.pc = "choose", !.loop = @ + 1]
<1>1. call' = [call EXCEPT ![c] = n]
  BY DEF Chosen
<1>2. k \in Call /\ k.list = list /\ k.late = FALSE /\ k.loop \in 0..LoopCount
  BY DEF Call
<1>3. n \in Call /\ Asks(n, list)
  <2> HIDE DEF k
  <2>1. CASE list # <<>>
    <3>1. n = [k EXCEPT !.pc = "try"]
      BY <2>1
    <3> QED
      BY <3>1, <1>2 DEF Asks, Call
  <2>2. CASE list = <<>> /\ ~resolving
    <3>1. n = [NoCall EXCEPT !.result = "error"]
      BY <2>2
    <3> HIDE DEF n
    <3>2. n \in Call
      BY <3>1, NoCallTyping DEF Call
    <3>3. n.pc = "idle"
      BY <3>1 DEF NoCall
    <3> QED
      BY <3>2, <3>3 DEF Asks
  <2>3. CASE list = <<>> /\ resolving /\ k.loop >= LoopCount
    <3>1. n = [NoCall EXCEPT !.pc = "send", !.event = "AllEndpointsFailed"]
      BY <2>3
    <3> HIDE DEF n
    <3>2. n \in Call
      BY <3>1, NoCallTyping DEF Call
    <3>3. n.pc = "send"
      BY <3>1 DEF NoCall
    <3> QED
      BY <3>2, <3>3 DEF Asks
  <2>4. CASE list = <<>> /\ resolving /\ ~(k.loop >= LoopCount)
    <3>1. n = [k EXCEPT !.pc = "choose", !.loop = @ + 1]
      BY <2>4
    <3>2. k.loop + 1 \in 0..LoopCount
      BY <1>2, <2>4, PoolAssumption
    <3> HIDE DEF n
    <3>3. n \in Call /\ n.pc = "choose"
      BY <1>2, <3>1, <3>2 DEF Call
    <3> QED
      BY <3>3 DEF Asks
  <2> QED
    BY <2>1, <2>2, <2>3, <2>4
<1> HIDE DEF n
<1> QED
  BY <1>1, <1>3

----------------------------------------------------------------------------
(* Type correctness.                                                       *)

LEMMA TypeInit == Init => TypeOK
<1> SUFFICES ASSUME Init PROVE TypeOK
  OBVIOUS
<1> DEFINE place == Places(StaticUrls, Slots)
<1>1. Range(place) \subseteq Slots /\ \A s \in Range(place) : AntiFunction(place)[s] \in StaticUrls
  BY PoolAssumption, PlacesAreDistinct
<1> HIDE DEF place
<1>2. endpoints \in Arena
  <2>1. \A s \in Slots : (IF s \in Range(place) THEN NewEndpoint(AntiFunction(place)[s])
                          ELSE Nothing) \in Endpoint \cup {Nothing}
    BY <1>1, NewTyping DEF Urls
  <2> QED
    BY <2>1 DEF Init, Arena, place
<1>3. resolver \in Seq(Run)
  <2>1. [at |-> "start", urls |-> {}] \in Run
    BY DEF Run
  <2> QED
    BY <2>1, EmptySeq DEF Init
<1>4. verifier \in Seq({"start", "run"})
  BY EmptySeq DEF Init
<1>5. call \in [Callers -> Call]
  BY NoCallTyping DEF Init
<1>6. /\ resolveDue \in BOOLEAN /\ verifyDue \in BOOLEAN /\ verified \in BOOLEAN
      /\ check \subseteq Slots /\ copied \in Arena
  BY DEF Init, Arena
<1>7. /\ node \in [Urls -> Node] /\ dns \subseteq DnsUrls
      /\ forced \in [resolve : 0..MaxForced, verify : 0..MaxForced]
  BY PoolAssumption DEF Init
<1> QED
  BY <1>2, <1>3, <1>4, <1>5, <1>6, <1>7 DEF TypeOK, Arena

LEMMA StartTyping ==
  ASSUME resolver \in Seq(Run)
  PROVE  Append(resolver, [at |-> "start", urls |-> {}]) \in Seq(Run)
<1>1. [at |-> "start", urls |-> {}] \in Run
  BY DEF Run
<1> QED
  BY <1>1, AppendProperties

(* A run that waits for an answer was told urls of the source. *)
LEMMA RunTyping ==
  ASSUME resolver \in Seq(Run), NEW r \in DOMAIN resolver
  PROVE  resolver[r] \in Run /\ resolver[r].urls \in SUBSET DnsUrls
<1>1. resolver[r] \in Run
  BY LenProperties
<1> QED
  BY <1>1 DEF Run

LEMMA EndpointsKeep ==
  ASSUME endpoints \in Arena, NEW s \in Slots, Present(s)
  PROVE  endpoints[s] \in Endpoint /\ endpoints[s].url \in Urls
  BY DEF Arena, Present, Endpoint

(* Who is asked is the head of the list. *)
AsksHead == \A c \in Callers : call[c].pc = "asked" => call[c].list # <<>>

LEMMA TypeStep ==
  ASSUME TypeOK, AsksHead, [Next]_vars
  PROVE  TypeOK'
<1>0. /\ endpoints \in Arena
      /\ resolveDue \in BOOLEAN /\ verifyDue \in BOOLEAN /\ verified \in BOOLEAN
      /\ resolver \in Seq(Run) /\ verifier \in Seq({"start", "run"})
      /\ check \subseteq Slots /\ copied \in Arena /\ call \in [Callers -> Call]
      /\ node \in [Urls -> Node] /\ dns \subseteq DnsUrls
      /\ forced \in [resolve : 0..MaxForced, verify : 0..MaxForced]
  BY DEF TypeOK, Arena
<1> USE DEF checkVars, resolveVars, worldVars
<1>1. ASSUME NEW r \in DOMAIN resolver, ResolveStarts(r) PROVE TypeOK'
  <2>1. endpoints' \in Arena
    BY <1>0, <1>1 DEF ResolveStarts, Arena
  <2>2. resolver' \in Seq(Run)
    <3>1. [at |-> "asked", urls |-> dns] \in Run
      BY <1>0 DEF Run
    <3>2. r \in 1..Len(resolver)
      BY <1>0, LenProperties
    <3> QED
      BY <1>0, <1>1, <3>1, <3>2, ExceptSeq DEF ResolveStarts
  <2> QED
    BY <1>0, <1>1, <2>1, <2>2 DEF ResolveStarts, TypeOK, Arena
<1>2. ASSUME NEW r \in DOMAIN resolver, SourceAnswers(r) PROVE TypeOK'
  <2>1. endpoints' \in Arena
    BY <1>0, <1>2, RunTyping, SourceAdds DEF SourceAnswers
  <2>2. resolver' \in Seq(Run)
    BY <1>0, <1>2, RemoveAtTyping DEF SourceAnswers
  <2> QED
    BY <1>0, <1>2, <2>1, <2>2 DEF SourceAnswers, TypeOK, Arena
<1>3. ASSUME NEW r \in DOMAIN resolver, SourceFails(r) PROVE TypeOK'
  <2>1. resolver' \in Seq(Run)
    BY <1>0, <1>3, RemoveAtTyping DEF SourceFails
  <2> QED
    BY <1>0, <1>3, <2>1 DEF SourceFails, TypeOK, Arena
<1>4. CASE VerifyStarts
  <2>1. verifier' \in Seq({"start", "run"})
    BY <1>0, <1>4 DEF VerifyStarts
  <2>2. check' \subseteq Slots
    BY <1>4 DEF VerifyStarts, ToVerify
  <2> QED
    BY <1>0, <1>4, <2>1, <2>2 DEF VerifyStarts, TypeOK, Arena
<1>5. CASE VerifyEnds
  <2>1. verifier' \in Seq({"start", "run"})
    BY <1>0, <1>5 DEF VerifyEnds
  <2> QED
    BY <1>0, <1>5, <2>1 DEF VerifyEnds, TypeOK, Arena
<1>6. ASSUME NEW s \in Slots, VerifyAnswered(s) PROVE TypeOK'
  <2>1. endpoints' \in Arena
    BY <1>0, <1>6, VerifiedTyping DEF VerifyAnswered, Arena
  <2> QED
    BY <1>0, <1>6, <2>1 DEF VerifyAnswered, TypeOK, Arena
<1>7. ASSUME NEW s \in Slots, VerifyCopies(s) PROVE TypeOK'
  <2>1. copied' \in Arena
    BY <1>0, <1>7, VerifiedTyping DEF VerifyCopies, Arena
  <2> QED
    BY <1>0, <1>7, <2>1 DEF VerifyCopies, TypeOK, Arena
<1>21. ASSUME NEW s \in Slots, VerifyWrites(s) PROVE TypeOK'
  <2>1. endpoints' \in Arena /\ copied' \in Arena
    BY <1>0, <1>21 DEF VerifyWrites, Arena
  <2> QED
    BY <1>0, <1>21, <2>1 DEF VerifyWrites, TypeOK, Arena
<1>8. ASSUME NEW c \in Callers, Begin(c) PROVE TypeOK'
  <2>1. [NoCall EXCEPT !.pc = "choose"] \in Call
    BY NoCallTyping DEF Call
  <2> QED
    BY <1>0, <1>8, <2>1 DEF Begin, TypeOK, Arena
<1>9. ASSUME NEW c \in Callers, Choose(c) PROVE TypeOK'
  <2>1. call' \in [Callers -> Call]
    <3>1. CASE AllowedEndpoints # {}
      <4>1. PICK list \in ByScore(AllowedEndpoints) : Chosen(c, list, resolveDue)
        BY <1>9, <3>1 DEF Choose
      <4>2. list \in Seq(Slots)
        BY ByScoreTyping DEF AllowedEndpoints
      <4> QED
        BY <1>0, <4>1, <4>2, ChosenCall
    <3>2. CASE AllowedEndpoints = {}
      <4> DEFINE there == {s \in Slots : Present(s)}
      <4>1. there \in SUBSET Slots
        OBVIOUS
      <4>2. call' = [call EXCEPT ![c] = [call[c] EXCEPT !.pc = "wait",
                            !.resolving = resolveDue, !.copy = there]]
        BY <1>0, <1>9, <3>2 DEF Choose
      <4> HIDE DEF there
      <4>3. [call[c] EXCEPT !.pc = "wait", !.resolving = resolveDue, !.copy = there] \in Call
        BY <1>0, <4>1 DEF Call
      <4> QED
        BY <1>0, <4>2, <4>3
    <3> QED
      BY <3>1, <3>2
  <2>2. resolver' \in Seq(Run) /\ resolveDue' \in BOOLEAN
    BY <1>0, <1>9, StartTyping DEF Choose, ResolveIfNeeded
  <2>3. /\ verifier' \in Seq({"start", "run"}) /\ verifyDue' \in BOOLEAN
        /\ verified' = verified /\ check' = check /\ copied' = copied
    <3>1. Append(verifier, "start") \in Seq({"start", "run"})
      BY <1>0, AppendProperties
    <3> QED
      BY <1>0, <1>9, <3>1 DEF Choose, VerifyIfNeeded
  <2> QED
    BY <1>0, <1>9, <2>1, <2>2, <2>3 DEF Choose, TypeOK, Arena
<1>10. ASSUME NEW c \in Callers, ChooseAfterWait(c) PROVE TypeOK'
  <2>1. PICK list \in Seq(Slots) : Chosen(c, list, call[c].resolving)
    <3>1. call[c].copy \subseteq Slots /\ \A s \in Slots : <<s>> \in Seq(Slots)
      BY <1>0 DEF Call
    <3> QED
      BY <1>10, <3>1, EmptySeq DEF ChooseAfterWait
  <2>2. call[c].resolving \in BOOLEAN
    BY <1>0 DEF Call
  <2>3. call' \in [Callers -> Call]
    BY <1>0, <2>1, <2>2, ChosenCall
  <2> QED
    BY <1>0, <1>10, <2>3 DEF ChooseAfterWait, TypeOK, Arena
<1>11. ASSUME NEW c \in Callers, TryNext(c) PROVE TypeOK'
  <2>1. call[c] \in Call /\ call[c].list \in Seq(Slots)
    BY <1>0 DEF Call
  <2>2. call[c].list # <<>> => Tail(call[c].list) \in Seq(Slots)
    BY <2>1
  <2>3. /\ [call[c] EXCEPT !.pc = "choose", !.late = FALSE] \in Call
        /\ [call[c] EXCEPT !.pc = "asked"] \in Call
        /\ call[c].list # <<>> => [call[c] EXCEPT !.list = Tail(@)] \in Call
    BY <2>1, <2>2 DEF Call
  <2>4. call' \in [Callers -> Call]
    <3>1. CASE call[c].list = <<>>
      <4>1. call' = [call EXCEPT ![c] = [call[c] EXCEPT !.pc = "choose", !.late = FALSE]]
        BY <1>0, <1>11, <3>1 DEF TryNext
      <4> QED
        BY <1>0, <2>3, <4>1
    <3>2. CASE call[c].list # <<>> /\ Present(Head(call[c].list))
      <4>1. call' = [call EXCEPT ![c] = [call[c] EXCEPT !.pc = "asked"]]
        BY <1>0, <1>11, <3>2 DEF TryNext
      <4> QED
        BY <1>0, <2>3, <4>1
    <3>3. CASE call[c].list # <<>> /\ ~Present(Head(call[c].list))
      <4>1. call' = [call EXCEPT ![c] = [call[c] EXCEPT !.list = Tail(call[c].list)]]
        BY <1>0, <1>11, <3>3 DEF TryNext
      <4> QED
        BY <1>0, <2>3, <3>3, <4>1
    <3> QED
      BY <3>1, <3>2, <3>3
  <2> QED
    BY <1>0, <1>11, <2>4 DEF TryNext, TypeOK, Arena
<1>12. ASSUME NEW c \in Callers, Answered(c) PROVE TypeOK'
  <2>1. [NoCall EXCEPT !.pc = "send", !.event = "Success"] \in Call
    BY NoCallTyping DEF Call
  <2> QED
    BY <1>0, <1>12, <2>1 DEF Answered, MarkRpcSuccess, TypeOK, Arena
<1>13. ASSUME NEW c \in Callers, CallFails(c) PROVE TypeOK'
  <2>1. call[c] \in Call /\ call[c].list \in Seq(Slots) /\ call[c].list # <<>>
    BY <1>0, <1>13 DEF Call, CallFails, AsksHead
  <2>2. Tail(call[c].list) \in Seq(Slots)
    BY <2>1
  <2>3. /\ [NoCall EXCEPT !.pc = "panic"] \in Call
        /\ [NoCall EXCEPT !.pc = "send", !.event = "Error"] \in Call
    BY NoCallTyping DEF Call
  <2>4. ~(call[c].loop >= LoopCount) =>
            [call[c] EXCEPT !.pc = "try", !.list = Tail(@), !.loop = @ + 1] \in Call
    <3>1. ~(call[c].loop >= LoopCount) => call[c].loop + 1 \in 0..LoopCount
      BY <2>1, PoolAssumption DEF Call
    <3> QED
      BY <2>1, <2>2, <3>1 DEF Call
  <2>5. call' \in [Callers -> Call]
    <3>1. CASE ~Present(Asked(c))
      <4>1. call' = [call EXCEPT ![c] = [NoCall EXCEPT !.pc = "panic"]]
        BY <1>0, <1>13, <3>1 DEF CallFails, MarkRpcError, Asked
      <4> QED
        BY <1>0, <2>3, <4>1
    <3>2. CASE Present(Asked(c)) /\ call[c].loop >= LoopCount
      <4>1. call' = [call EXCEPT ![c] = [NoCall EXCEPT !.pc = "send", !.event = "Error"]]
        BY <1>0, <1>13, <3>2 DEF CallFails, MarkRpcError, Asked
      <4> QED
        BY <1>0, <2>3, <4>1
    <3>3. CASE Present(Asked(c)) /\ ~(call[c].loop >= LoopCount)
      <4>1. call' = [call EXCEPT ![c] = [call[c] EXCEPT !.pc = "try",
                        !.list = Tail(call[c].list), !.loop = call[c].loop + 1]]
        BY <1>0, <1>13, <3>3 DEF CallFails, MarkRpcError, Asked
      <4> QED
        BY <1>0, <2>4, <3>3, <4>1
    <3> QED
      BY <3>1, <3>2, <3>3
  <2> QED
    BY <1>0, <1>13, <2>5 DEF CallFails, TypeOK, Arena
<1>14. ASSUME NEW c \in Callers, Report(c) PROVE TypeOK'
  <2>1. \A b \in {"ok", "error"} : [NoCall EXCEPT !.result = b] \in Call
    BY NoCallTyping DEF Call
  <2>2. call' \in [Callers -> Call]
    BY <1>0, <1>14, <2>1 DEF Report
  <2> QED
    BY <1>0, <1>14, <2>2 DEF Report, TypeOK, Arena
<1>15. CASE ForceResolve
  <2>1. resolver' \in Seq(Run)
    BY <1>0, <1>15, StartTyping DEF ForceResolve
  <2>2. forced' \in [resolve : 0..MaxForced, verify : 0..MaxForced]
    BY <1>0, <1>15, PoolAssumption DEF ForceResolve, MayForce
  <2> QED
    BY <1>0, <1>15, <2>1, <2>2 DEF ForceResolve, TypeOK, Arena
<1>16. CASE ForceVerify
  <2>1. verifier' \in Seq({"start", "run"})
    BY <1>0, <1>16, AppendProperties DEF ForceVerify
  <2>2. forced' \in [resolve : 0..MaxForced, verify : 0..MaxForced]
    BY <1>0, <1>16, PoolAssumption DEF ForceVerify, MayForce
  <2> QED
    BY <1>0, <1>16, <2>1, <2>2 DEF ForceVerify, TypeOK, Arena
<1>17. CASE NodeChanges
  <2>1. node' \in [Urls -> Node]
    <3>1. \A u \in Urls : NodeStates[u] \subseteq Node
      BY PoolAssumption
    <3> QED
      BY <1>0, <1>17, <3>1 DEF NodeChanges
  <2> QED
    BY <1>0, <1>17, <2>1 DEF NodeChanges, TypeOK, Arena
<1>18. CASE SourceChanges
  BY <1>0, <1>18 DEF SourceChanges, TypeOK, Arena
<1>19. CASE IntervalBegins
  <2>1. endpoints' \in Arena
    <3>1. ASSUME NEW s \in Slots, endpoints[s].removed < LongAgo
          PROVE  [endpoints[s] EXCEPT !.removed = @ + 1] \in Endpoint
      <4>1. Present(s)
        BY <3>1, PoolAssumption DEF Present, Nothing, LongAgo, NotRemoved
      <4>2. endpoints[s] \in Endpoint
        BY <1>0, <4>1, EndpointsKeep
      <4>3. endpoints[s].removed + 1 \in 0..LongAgo
        BY <3>1, <4>2, PoolAssumption DEF Endpoint, LongAgo, NotRemoved
      <4> QED
        BY <4>2, <4>3 DEF Endpoint
    <3> QED
      BY <1>0, <1>19, <3>1 DEF IntervalBegins, Arena
  <2>2. call' \in [Callers -> Call]
    <3>1. \A c \in Callers : Tries(c) \in BOOLEAN
      BY DEF Tries
    <3>2. \A c \in Callers : \A b \in BOOLEAN : [call[c] EXCEPT !.late = b] \in Call
      BY <1>0 DEF Call
    <3>3. \A c \in Callers : [call[c] EXCEPT !.late = Tries(c)] \in Call
      BY <3>1, <3>2
    <3> QED
      BY <1>19, <3>3 DEF IntervalBegins
  <2> QED
    BY <1>0, <1>19, <2>1, <2>2 DEF IntervalBegins, TypeOK, Arena
<1>20. CASE UNCHANGED vars
  BY <1>0, <1>20 DEF vars, TypeOK, Arena
<1> QED
  BY <1>1, <1>2, <1>3, <1>4, <1>5, <1>6, <1>7, <1>8, <1>9, <1>10, <1>11, <1>12, <1>13,
     <1>14, <1>15, <1>16, <1>17, <1>18, <1>19, <1>20, <1>21
  DEF Next, Caller, Resolver, Verifier

(* The head of a list that is asked, in every state. *)
LEMMA AsksHeadStep ==
  ASSUME TypeOK, AsksHead, [Next]_vars
  PROVE  AsksHead'
<1>0. call \in [Callers -> Call]
  BY DEF TypeOK
<1> USE DEF checkVars, resolveVars, worldVars
<1>1. ASSUME NEW c \in Callers, Caller(c) PROVE AsksHead'
  <2>1. CASE Begin(c)
    BY <1>0, <2>1 DEF Begin, AsksHead, NoCall
  <2>2. ASSUME NEW list \in Seq(Slots), NEW b \in BOOLEAN, Chosen(c, list, b) PROVE AsksHead'
    BY <1>0, <2>2, ChosenCall DEF AsksHead, Asks
  <2>3. CASE Choose(c)
    <3>1. CASE AllowedEndpoints # {}
      <4>1. PICK list \in ByScore(AllowedEndpoints) : Chosen(c, list, resolveDue)
        BY <2>3, <3>1 DEF Choose
      <4>2. list \in Seq(Slots)
        BY ByScoreTyping DEF AllowedEndpoints
      <4> QED
        BY <4>1, <4>2, <2>2 DEF TypeOK
    <3>2. CASE AllowedEndpoints = {}
      <4>1. /\ call'[c].pc = "wait"
            /\ \A d \in Callers \ {c} : call'[d] = call[d]
        BY <1>0, <2>3, <3>2 DEF Choose, Call
      <4> QED
        BY <4>1 DEF AsksHead
    <3> QED
      BY <3>1, <3>2
  <2>4. CASE ChooseAfterWait(c)
    <3>1. PICK list \in Seq(Slots) : Chosen(c, list, call[c].resolving)
      <4>1. call[c].copy \subseteq Slots /\ \A s \in Slots : <<s>> \in Seq(Slots)
        BY <1>0 DEF Call
      <4> QED
        BY <2>4, <4>1, EmptySeq DEF ChooseAfterWait
    <3>2. call[c].resolving \in BOOLEAN
      BY <1>0 DEF Call
    <3> QED
      BY <2>2, <3>1, <3>2
  <2>5. CASE TryNext(c)
    BY <1>0, <2>5 DEF TryNext, AsksHead
  <2>6. CASE Answered(c)
    BY <1>0, <2>6 DEF Answered, MarkRpcSuccess, AsksHead, NoCall
  <2>7. CASE CallFails(c)
    BY <1>0, <2>7 DEF CallFails, MarkRpcError, AsksHead, NoCall
  <2>8. CASE Report(c)
    BY <1>0, <2>8 DEF Report, AsksHead, NoCall
  <2> QED
    BY <1>1, <2>1, <2>3, <2>4, <2>5, <2>6, <2>7, <2>8 DEF Caller
<1>2. CASE IntervalBegins
  BY <1>0, <1>2 DEF IntervalBegins, AsksHead, Call
<1>3. CASE call' = call
  BY <1>3 DEF AsksHead
<1> QED
  BY <1>1, <1>2, <1>3
  DEF Next, Resolver, Verifier, ResolveStarts, SourceAnswers, SourceFails, VerifyStarts,
      VerifyAnswered, VerifyCopies, VerifyWrites, VerifyEnds, ForceResolve, ForceVerify,
      NodeChanges,
      SourceChanges, vars

(* Every value of a variable has its type: the calls, the arena with as many *)
(* endpoints as the sources list and the queues of both kinds of runs.       *)
THEOREM TypeCorrect == Spec => []TypeOK
<1>1. Init => AsksHead
  BY DEF Init, AsksHead, NoCall
<1>2. TypeOK /\ AsksHead /\ [Next]_vars => TypeOK' /\ AsksHead'
  BY TypeStep, AsksHeadStep
<1> QED
  BY TypeInit, <1>1, <1>2, PTL DEF Spec

----------------------------------------------------------------------------
(* No url is in the pool twice.                                            *)

\* While no run of the resolver was forced, one is under way at a time, and
\* it was started when one was due.
OneRun ==
    forced.resolve = 0 =>
        /\ Len(resolver) <= 1
        /\ resolver # <<>> => ~resolveDue

\* A copy is written back by the run of the verifier that made it, and
\* differs from the endpoint only where a removal has come between.
CopiesAreCurrent ==
    /\ check # {} \/ ~NoneCopied => verifier # <<>> /\ Head(verifier) = "run"
    /\ \A s \in Slots : copied[s] # Nothing /\ Present(s) =>
        /\ copied[s].url = endpoints[s].url
        /\ copied[s].removed \in {endpoints[s].removed, NotRemoved}

\* The endpoint is listed, or will be when its copy is written back.
Claimed(s) ==
    Listed(s) \/ (Present(s) /\ copied[s] # Nothing /\ copied[s].removed = NotRemoved)

\* Of two different places not both claim a url, and what only its copy
\* claims was removed by the one run of this interval, which adds nothing.
ClaimsAreApart ==
    forced.resolve = 0 =>
        /\ \A s \in Slots : Claimed(s) => Listed(s) \/ (resolver = <<>> /\ ~resolveDue)
        /\ \A s, t \in Slots :
            Claimed(s) /\ Claimed(t) /\ s # t => endpoints[s].url # endpoints[t].url

\* The pool in every state.
PoolInv == OneRun /\ CopiesAreCurrent /\ ClaimsAreApart

LEMMA PoolInit == Init => PoolInv
<1> SUFFICES ASSUME Init PROVE PoolInv
  OBVIOUS
<1> DEFINE place == Places(StaticUrls, Slots)
<1>1. /\ \A s \in Range(place) : AntiFunction(place)[s] \in StaticUrls
      /\ \A s, t \in Range(place) : AntiFunction(place)[s] = AntiFunction(place)[t] => s = t
  BY PoolAssumption, PlacesAreDistinct
<1>2. \A s \in Slots : endpoints[s] = IF s \in Range(place)
                                      THEN NewEndpoint(AntiFunction(place)[s]) ELSE Nothing
  BY DEF Init
<1> HIDE DEF place
<1>3. \A s \in Slots : Listed(s) =>
          s \in Range(place) /\ endpoints[s].url = AntiFunction(place)[s]
  BY <1>1, <1>2, NewTyping DEF Listed, Present, Urls
<1>4. OneRun
  <2>1. CASE DnsUrls = {}
    <3>1. resolver = <<>> /\ Len(resolver) = 0
      BY <2>1 DEF Init
    <3> QED
      BY <3>1 DEF OneRun
  <2>2. CASE DnsUrls # {}
    <3>1. resolver = <<[at |-> "start", urls |-> {}]>> /\ resolveDue = FALSE
      BY <2>2 DEF Init
    <3>2. Len(resolver) = 1
      BY <3>1
    <3> QED
      BY <3>1, <3>2 DEF OneRun
  <2> QED
    BY <2>1, <2>2
<1>5. NoneCopied /\ check = {}
  BY DEF Init, NoneCopied
<1> QED
  BY <1>1, <1>3, <1>4, <1>5 DEF PoolInv, CopiesAreCurrent, ClaimsAreApart, Claimed, NoneCopied

(* The runs of the resolver. *)
LEMMA OneRunStep ==
  ASSUME TypeOK, OneRun, [Next]_vars
  PROVE  OneRun'
<1>0. /\ resolver \in Seq(Run) /\ resolveDue \in BOOLEAN
      /\ forced \in [resolve : 0..MaxForced, verify : 0..MaxForced] /\ MaxForced \in Nat
  BY PoolAssumption DEF TypeOK
<1> USE DEF checkVars, resolveVars, worldVars
<1>1. ASSUME NEW r \in DOMAIN resolver, resolver' = RemoveAt(resolver, r),
             resolveDue' = resolveDue, forced' = forced
      PROVE  OneRun'
  <2>1. CASE forced.resolve = 0
    <3>0. r \in 1..Len(resolver) /\ Len(resolver) \in Nat
      BY <1>0, LenProperties
    <3>1. Len(resolver) = 1 /\ r = 1 /\ ~resolveDue
      BY <1>0, <2>1, <3>0 DEF OneRun
    <3>2. resolver' = <<>>
      BY <1>0, <1>1, <3>1 DEF RemoveAt
    <3> QED
      BY <1>1, <3>1, <3>2 DEF OneRun
  <2> QED
    BY <1>1, <2>1 DEF OneRun
<1>2. ASSUME NEW r \in DOMAIN resolver, ResolveStarts(r) PROVE OneRun'
  <2>1. Len(resolver') = Len(resolver) /\ resolver # <<>>
    BY <1>0, <1>2 DEF ResolveStarts
  <2> QED
    BY <1>2, <2>1 DEF ResolveStarts, OneRun
<1>3. ASSUME NEW c \in Callers, Choose(c) PROVE OneRun'
  <2>1. CASE resolveDue /\ forced.resolve = 0
    <3>1. resolver = <<>>
      BY <2>1 DEF OneRun
    <3>2. resolver' = <<[at |-> "start", urls |-> {}]>> /\ resolveDue' = FALSE
      BY <1>3, <2>1, <3>1 DEF Choose, ResolveIfNeeded
    <3> QED
      BY <3>2 DEF OneRun
  <2>2. CASE ~resolveDue
    BY <1>3, <2>2 DEF Choose, ResolveIfNeeded, OneRun
  <2>3. CASE forced.resolve # 0
    BY <1>3, <2>3 DEF Choose, OneRun
  <2> QED
    BY <1>0, <2>1, <2>2, <2>3
<1>4. CASE ForceResolve
  <2>1. forced'.resolve # 0
    BY <1>0, <1>4 DEF ForceResolve
  <2> QED
    BY <2>1 DEF OneRun
<1>5. CASE ForceVerify
  <2>1. forced'.resolve = forced.resolve /\ resolver' = resolver /\ resolveDue' = resolveDue
    BY <1>0, <1>5 DEF ForceVerify
  <2> QED
    BY <2>1 DEF OneRun
<1>6. CASE IntervalBegins
  BY <1>6 DEF IntervalBegins, OneRun
<1>7. CASE resolver' = resolver /\ resolveDue' = resolveDue /\ forced' = forced
  BY <1>7 DEF OneRun
<1> QED
  BY <1>1, <1>2, <1>3, <1>4, <1>5, <1>6, <1>7
  DEF Next, Caller, Resolver, Verifier, SourceAnswers, SourceFails, VerifyStarts, VerifyAnswered,
      VerifyCopies, VerifyWrites, VerifyEnds, Begin, ChooseAfterWait, TryNext, Answered,
      CallFails, Report, NodeChanges, SourceChanges, vars

(* What the answer of a source does to the places that are claimed. *)
LEMMA SourceRemains ==
  ASSUME TypeOK, NEW r \in DOMAIN resolver, SourceAnswers(r)
  PROVE  /\ \A s \in Slots : Present(s) =>
             /\ Present(s)' /\ endpoints'[s].url = endpoints[s].url
             /\ endpoints'[s].removed = endpoints[s].removed \/ (Listed(s) /\ ~Listed(s)')
         /\ \A s \in Slots : ~Present(s) /\ Present(s)' =>
             s \in Free /\ endpoints'[s].url \in New(resolver[r].urls)
         /\ \A s, t \in Slots : ~Present(s) /\ Present(s)' /\ ~Present(t) /\ Present(t)' /\ s # t
                                => endpoints'[s].url # endpoints'[t].url
<1>0. endpoints \in Arena /\ resolver \in Seq(Run)
  BY DEF TypeOK, Arena
<1>1. resolver[r].urls \in SUBSET DnsUrls /\ Room(resolver[r].urls)
  BY <1>0, RunTyping DEF SourceAnswers
<1> DEFINE e == WithSource(resolver[r].urls)
<1>2. endpoints' = e
  BY DEF SourceAnswers
<1>3. /\ \A s \in Slots : Present(s) => e[s] \in Endpoint /\ Remains(e, s)
      /\ \A s \in Slots : ~Present(s) /\ In(e, s) =>
             s \in Free /\ \E u \in New(resolver[r].urls) : e[s] = NewEndpoint(u)
      /\ \A s, t \in Slots : ~Present(s) /\ In(e, s) /\ ~Present(t) /\ In(e, t) /\ s # t
                             => e[s].url # e[t].url
  BY <1>0, <1>1, SourceAdds
<1>4. \A s \in Slots : Present(s)' <=> In(e, s)
  BY <1>2 DEF Present, In
<1> HIDE DEF e
<1>5. ASSUME NEW s \in Slots, Present(s)
      PROVE  /\ Present(s)' /\ e[s].url = endpoints[s].url
             /\ e[s].removed = endpoints[s].removed \/ (Listed(s) /\ ~Listed(s)')
  <2>1. Present(s)' /\ endpoints[s].url \in Urls
    BY <1>0, <1>3, <1>4, <1>5, EndpointIsThere, EndpointsKeep DEF In
  <2>2. CASE e[s] = [NewEndpoint(endpoints[s].url) EXCEPT !.removed = 0] /\ Listed(s)
    <3>1. e[s].url = endpoints[s].url /\ e[s].removed = 0 /\ 0 # NotRemoved
      BY <2>1, <2>2, NewTyping, PoolAssumption DEF NotRemoved
    <3> QED
      BY <1>2, <2>1, <2>2, <3>1 DEF Listed
  <2>3. CASE e[s] = endpoints[s]
    BY <2>1, <2>3
  <2> QED
    BY <1>3, <1>5, <2>1, <2>2, <2>3 DEF Remains
<1>6. ASSUME NEW s \in Slots, ~Present(s), In(e, s)
      PROVE  s \in Free /\ e[s].url \in New(resolver[r].urls)
  <2>1. PICK u \in New(resolver[r].urls) : e[s] = NewEndpoint(u)
    BY <1>3, <1>6
  <2>2. u \in Urls
    BY <1>1 DEF New, Urls
  <2> QED
    BY <1>3, <1>6, <2>1, <2>2, NewTyping
<1> QED
  BY <1>2, <1>3, <1>4, <1>5, <1>6

(* When an interval begins, what is removed stays so. *)
LEMMA IntervalRemains ==
  ASSUME TypeOK, IntervalBegins, NEW s \in Slots, Listed(s)'
  PROVE  Listed(s) /\ endpoints'[s].url = endpoints[s].url
<1>0. endpoints \in Arena
  BY DEF TypeOK, Arena
<1>1. CASE endpoints[s].removed < LongAgo
  <2>1. Present(s)
    BY <1>1, PoolAssumption DEF Present, Nothing, LongAgo, NotRemoved
  <2>2. endpoints[s] \in Endpoint
    BY <1>0, <2>1, EndpointsKeep
  <2>3. endpoints'[s] = [endpoints[s] EXCEPT !.removed = @ + 1]
    BY <1>1 DEF IntervalBegins
  <2>4. endpoints'[s].removed = endpoints[s].removed + 1
    BY <2>2, <2>3 DEF Endpoint
  <2>5. endpoints[s].removed + 1 # NotRemoved
    BY <1>1, <2>2, PoolAssumption DEF Endpoint, LongAgo, NotRemoved
  <2> QED
    BY <2>4, <2>5 DEF Listed
<1>2. CASE ~(endpoints[s].removed < LongAgo)
  BY <1>2 DEF IntervalBegins, Listed, Present
<1> QED
  BY <1>1, <1>2

(* The copies of the verifier. *)
LEMMA CopiesStep ==
  ASSUME TypeOK, CopiesAreCurrent, [Next]_vars
  PROVE  CopiesAreCurrent'
<1>0. /\ endpoints \in Arena /\ node \in [Urls -> Node] /\ check \subseteq Slots
      /\ resolver \in Seq(Run) /\ verifier \in Seq({"start", "run"}) /\ copied \in Arena
  BY DEF TypeOK, Arena
<1> USE DEF checkVars, resolveVars, worldVars
<1> DEFINE Same(s) == /\ copied[s].url = endpoints[s].url
                      /\ copied[s].removed \in {endpoints[s].removed, NotRemoved}
<1>1. ASSUME copied' = copied, check' = check,
             verifier' = verifier \/ verifier' = Append(verifier, "start"),
             \A s \in Slots : copied[s] # Nothing /\ Present(s)' =>
                /\ Present(s) /\ endpoints'[s].url = endpoints[s].url
                /\ endpoints'[s].removed = endpoints[s].removed \/ Listed(s)
      PROVE  CopiesAreCurrent'
  <2>1. verifier # <<>> => verifier' # <<>> /\ Head(verifier') = Head(verifier)
    BY <1>0, <1>1
  <2>2. \A s \in Slots : copied[s] # Nothing /\ Present(s)' =>
            /\ copied[s].url = endpoints'[s].url
            /\ copied[s].removed \in {endpoints'[s].removed, NotRemoved}
    BY <1>1 DEF CopiesAreCurrent, Listed
  <2>3. NoneCopied' <=> NoneCopied
    BY <1>1 DEF NoneCopied
  <2> QED
    BY <1>1, <2>1, <2>2, <2>3 DEF CopiesAreCurrent
<1>2. ASSUME NEW r \in DOMAIN resolver, ResolveStarts(r) PROVE CopiesAreCurrent'
  <2>1. \A s \in Slots : Present(s)' => Present(s) /\ endpoints'[s] = endpoints[s]
    BY <1>2 DEF ResolveStarts, Present
  <2> QED
    BY <1>1, <1>2, <2>1 DEF ResolveStarts
<1>3. ASSUME NEW r \in DOMAIN resolver, SourceAnswers(r) PROVE CopiesAreCurrent'
  <2>1. \A s \in Slots : copied[s] # Nothing /\ Present(s)' => Present(s)
    BY <1>3, SourceRemains DEF Free, Held
  <2> QED
    BY <1>1, <1>3, <2>1, SourceRemains DEF SourceAnswers
<1>4. CASE VerifyStarts
  <2>1. check = {} /\ NoneCopied
    BY <1>4 DEF VerifyStarts, CopiesAreCurrent
  <2>2. verifier' # <<>> /\ Head(verifier') = "run"
    BY <1>0, <1>4 DEF VerifyStarts
  <2> QED
    BY <1>4, <2>1, <2>2 DEF VerifyStarts, CopiesAreCurrent, NoneCopied
<1>5. ASSUME NEW s \in Slots, VerifyAnswered(s) PROVE CopiesAreCurrent'
  <2>1. NoneCopied' /\ check # {} /\ verifier' = verifier
    BY <1>5 DEF VerifyAnswered, NoneCopied
  <2> QED
    BY <2>1 DEF CopiesAreCurrent, NoneCopied
<1>6. ASSUME NEW s \in Slots, VerifyCopies(s) PROVE CopiesAreCurrent'
  <2>1. check # {} /\ verifier' = verifier /\ endpoints' = endpoints
    BY <1>6 DEF VerifyCopies
  <2>2. ASSUME NEW t \in Slots, copied'[t] # Nothing, Present(t)
        PROVE  /\ copied'[t].url = endpoints[t].url
               /\ copied'[t].removed = endpoints[t].removed
    <3>1. t = s
      BY <1>0, <1>6, <2>2 DEF VerifyCopies, NoneCopied, Arena
    <3>2. copied'[t] = Verified(t)
      BY <1>0, <1>6, <3>1 DEF VerifyCopies, Arena
    <3> QED
      BY <1>0, <2>2, <3>2, VerifiedTyping
  <2> QED
    BY <2>1, <2>2 DEF CopiesAreCurrent, Present
<1>7. ASSUME NEW s \in Slots, VerifyWrites(s) PROVE CopiesAreCurrent'
  <2>1. ~NoneCopied /\ verifier' = verifier
    BY <1>7 DEF VerifyWrites, NoneCopied
  <2>2. \A t \in Slots : copied'[t] # Nothing =>
            copied'[t] = copied[t] /\ endpoints'[t] = endpoints[t]
    BY <1>0, <1>7 DEF VerifyWrites, Arena
  <2> QED
    BY <2>1, <2>2 DEF CopiesAreCurrent, Present
<1>8. CASE VerifyEnds
  BY <1>8 DEF VerifyEnds, CopiesAreCurrent, NoneCopied
<1>9. CASE IntervalBegins
  <2>1. check = {} /\ NoneCopied
    BY <1>9 DEF IntervalBegins, CopiesAreCurrent
  <2> QED
    BY <1>9, <2>1 DEF IntervalBegins, CopiesAreCurrent, NoneCopied
<1>10. CASE /\ copied' = copied /\ check' = check /\ endpoints' = endpoints
            /\ verifier' = verifier \/ verifier' = Append(verifier, "start")
  BY <1>1, <1>10 DEF Present
<1> QED
  BY <1>2, <1>3, <1>4, <1>5, <1>6, <1>7, <1>8, <1>9, <1>10
  DEF Next, Caller, Resolver, Verifier, SourceFails, Begin, Choose, VerifyIfNeeded,
      ChooseAfterWait, TryNext, Answered, CallFails, Report, ForceResolve, ForceVerify,
      NodeChanges, SourceChanges, vars

(* The urls that are claimed. *)
LEMMA ClaimsStep ==
  ASSUME TypeOK, PoolInv, [Next]_vars
  PROVE  ClaimsAreApart'
<1>0. /\ endpoints \in Arena /\ node \in [Urls -> Node] /\ check \subseteq Slots
      /\ resolver \in Seq(Run) /\ copied \in Arena /\ resolveDue \in BOOLEAN
      /\ forced \in [resolve : 0..MaxForced, verify : 0..MaxForced] /\ MaxForced \in Nat
  BY PoolAssumption DEF TypeOK, Arena
<1> USE DEF checkVars, resolveVars, worldVars
<1> SUFFICES ASSUME forced'.resolve = 0 PROVE ClaimsAreApart'
  BY DEF ClaimsAreApart
<1>1. forced.resolve = 0
  <2>1. forced' = forced \/ ForceResolve \/ ForceVerify
    BY DEF Next, Caller, Resolver, Verifier, ResolveStarts, SourceAnswers, SourceFails,
      VerifyStarts, VerifyAnswered, VerifyCopies, VerifyWrites, VerifyEnds, Begin, Choose,
      ChooseAfterWait, TryNext, Answered, CallFails, Report, NodeChanges, SourceChanges,
      IntervalBegins, vars
  <2> QED
    BY <1>0, <2>1 DEF ForceResolve, ForceVerify
<1>2. /\ \A s \in Slots : Claimed(s) => Listed(s) \/ (resolver = <<>> /\ ~resolveDue)
      /\ \A s, t \in Slots :
            Claimed(s) /\ Claimed(t) /\ s # t => endpoints[s].url # endpoints[t].url
      /\ Len(resolver) <= 1 /\ (resolver # <<>> => ~resolveDue)
  BY <1>1 DEF PoolInv, ClaimsAreApart, OneRun
<1>3. ASSUME \A s \in Slots : Claimed(s)' =>
                /\ Claimed(s) /\ endpoints'[s].url = endpoints[s].url
                /\ Listed(s)' \/ (resolver' = <<>> /\ ~resolveDue')
      PROVE  ClaimsAreApart'
  BY <1>2, <1>3 DEF ClaimsAreApart
<1>4. ASSUME NEW r \in DOMAIN resolver, ResolveStarts(r) PROVE ClaimsAreApart'
  <2>1. \A s \in Slots : Present(s)' => Present(s) /\ endpoints'[s] = endpoints[s]
    BY <1>4 DEF ResolveStarts, Present
  <2>2. resolver # <<>>
    BY <1>0
  <2>3. \A s \in Slots : Claimed(s)' =>
            Claimed(s) /\ endpoints'[s].url = endpoints[s].url /\ Listed(s)'
    BY <1>2, <1>4, <2>1, <2>2 DEF ResolveStarts, Claimed, Listed
  <2> QED
    BY <1>3, <2>3
<1>5. ASSUME NEW r \in DOMAIN resolver, SourceAnswers(r) PROVE ClaimsAreApart'
  <2>1. resolver # <<>> /\ resolver' = <<>> /\ ~resolveDue'
    <3>0. r \in 1..Len(resolver) /\ Len(resolver) \in Nat
      BY <1>0, LenProperties
    <3>1. Len(resolver) <= 1
      BY <1>1 DEF PoolInv, OneRun
    <3>2. Len(resolver) = 1 /\ r = 1
      <4>1. \A n \in Nat : \A k \in 1..n : n <= 1 => n = 1 /\ k = 1
        OBVIOUS
      <4> QED
        BY <3>0, <3>1, <4>1
    <3>3. resolver # <<>>
      BY <3>2
    <3>4. resolver' = <<>>
      BY <1>0, <1>5, <3>2 DEF SourceAnswers, RemoveAt
    <3> QED
      BY <1>2, <1>5, <3>3, <3>4 DEF SourceAnswers
  <2>2. ASSUME NEW s \in Slots, Claimed(s)', Present(s)
        PROVE  Listed(s) /\ Claimed(s) /\ endpoints'[s].url = endpoints[s].url
    <3>1. endpoints'[s].url = endpoints[s].url /\ (Listed(s)' => Listed(s))
      BY <1>5, <2>2, SourceRemains DEF Listed
    <3>2. Claimed(s)
      BY <1>5, <2>2, <3>1 DEF Claimed, SourceAnswers
    <3> QED
      BY <1>2, <2>1, <3>1, <3>2
  <2>3. ASSUME NEW s \in Slots, Claimed(s)', ~Present(s)
        PROVE  Present(s)' /\ endpoints'[s].url \in New(resolver[r].urls)
    <3>1. Present(s)'
      BY <2>3 DEF Claimed, Listed
    <3> QED
      BY <1>5, <2>3, <3>1, SourceRemains
  <2>4. ASSUME NEW s \in Slots, NEW t \in Slots, Claimed(s)', Claimed(t)', s # t
        PROVE  endpoints'[s].url # endpoints'[t].url
    <3>1. CASE Present(s) /\ Present(t)
      BY <1>2, <2>2, <2>4, <3>1
    <3>2. CASE Present(s) /\ ~Present(t)
      BY <2>2, <2>3, <2>4, <3>2 DEF New
    <3>3. CASE ~Present(s) /\ Present(t)
      BY <2>2, <2>3, <2>4, <3>3 DEF New
    <3>4. CASE ~Present(s) /\ ~Present(t)
      BY <1>5, <2>3, <2>4, <3>4, SourceRemains
    <3> QED
      BY <3>1, <3>2, <3>3, <3>4
  <2> QED
    BY <2>1, <2>4 DEF ClaimsAreApart
<1>6. ASSUME NEW r \in DOMAIN resolver, SourceFails(r) PROVE ClaimsAreApart'
  <2>1. resolver # <<>>
    BY <1>0
  <2> QED
    BY <1>2, <1>3, <1>6, <2>1 DEF SourceFails, Claimed, Listed, Present
<1>7. ASSUME NEW s \in Slots, VerifyAnswered(s) PROVE ClaimsAreApart'
  <2>1. ASSUME NEW t \in Slots, Claimed(t)'
        PROVE  Claimed(t) /\ endpoints'[t].url = endpoints[t].url /\ Listed(t)'
    <3>1. Listed(t)'
      BY <1>7, <2>1 DEF VerifyAnswered, NoneCopied, Claimed
    <3>2. CASE t = s
      <4>1. endpoints'[t] = Verified(t)
        BY <1>0, <1>7, <3>2 DEF VerifyAnswered, Arena
      <4>2. Present(t)
        BY <1>0, <3>1, <4>1, VerifiedTyping DEF Listed, Present
      <4> QED
        BY <1>0, <3>1, <4>1, <4>2, VerifiedTyping DEF Listed, Claimed
    <3>3. CASE t # s
      <4>1. endpoints'[t] = endpoints[t]
        BY <1>0, <1>7, <3>3 DEF VerifyAnswered, Arena
      <4> QED
        BY <3>1, <4>1 DEF Listed, Present, Claimed
    <3> QED
      BY <3>2, <3>3
  <2> QED
    BY <1>3, <2>1
<1>8. ASSUME NEW s \in Slots, VerifyCopies(s) PROVE ClaimsAreApart'
  <2>1. endpoints' = endpoints
    BY <1>8 DEF VerifyCopies
  <2>2. ASSUME NEW t \in Slots, Claimed(t)' PROVE Listed(t)
    <3>1. CASE t = s /\ ~Listed(t)
      <4>1. copied'[t] = Verified(t)
        BY <1>0, <1>8, <3>1 DEF VerifyCopies, Arena
      <4>2. Present(t) /\ copied'[t].removed = NotRemoved
        BY <2>1, <2>2, <3>1 DEF Claimed, Listed, Present
      <4>3. endpoints[t].removed = NotRemoved
        BY <1>0, <4>1, <4>2, VerifiedTyping
      <4> QED
        BY <3>1, <4>2, <4>3 DEF Listed
    <3>2. CASE t # s
      BY <1>0, <1>8, <2>1, <2>2, <3>2 DEF VerifyCopies, NoneCopied, Claimed, Listed, Present, Arena
    <3> QED
      BY <3>1, <3>2
  <2> QED
    BY <1>3, <2>1, <2>2 DEF Claimed, Listed, Present
<1>9. ASSUME NEW s \in Slots, VerifyWrites(s) PROVE ClaimsAreApart'
  <2>1. resolver' = resolver /\ resolveDue' = resolveDue
    BY <1>9 DEF VerifyWrites
  <2>2. ASSUME NEW t \in Slots, Claimed(t)'
        PROVE  /\ Claimed(t) /\ endpoints'[t].url = endpoints[t].url
               /\ Listed(t)' \/ (resolver = <<>> /\ ~resolveDue)
    <3>1. CASE t = s
      <4>1. copied'[t] = Nothing /\ Listed(t)'
        BY <1>0, <1>9, <2>2, <3>1 DEF VerifyWrites, Claimed, Arena
      <4>2. Present(t) /\ endpoints'[t] = copied[t]
        BY <1>0, <1>9, <3>1, <4>1 DEF VerifyWrites, Listed, Present, Arena
      <4>3. copied[t] # Nothing
        BY <1>9, <3>1 DEF VerifyWrites
      <4> QED
        BY <4>1, <4>2, <4>3 DEF Claimed, Listed, PoolInv, CopiesAreCurrent
    <3>2. CASE t # s
      <4>1. endpoints'[t] = endpoints[t] /\ copied'[t] = copied[t]
        BY <1>0, <1>9, <3>2 DEF VerifyWrites, Arena
      <4>2. Claimed(t) /\ (Listed(t)' <=> Listed(t))
        BY <2>2, <4>1 DEF Claimed, Listed, Present
      <4> QED
        BY <1>2, <4>1, <4>2
    <3> QED
      BY <3>1, <3>2
  <2> QED
    BY <1>3, <2>1, <2>2
<1>10. CASE IntervalBegins
  <2>1. NoneCopied /\ copied' = copied
    BY <1>10 DEF IntervalBegins, PoolInv, CopiesAreCurrent
  <2>2. \A s \in Slots : Claimed(s)' => Listed(s)'
    BY <2>1 DEF NoneCopied, Claimed
  <2> QED
    BY <1>3, <1>10, <2>2, IntervalRemains DEF Claimed
<1>11. ASSUME NEW c \in Callers, Choose(c) PROVE ClaimsAreApart'
  <2>1. endpoints' = endpoints /\ copied' = copied
    BY <1>11 DEF Choose, VerifyIfNeeded
  <2>2. ~resolveDue => resolver' = resolver /\ resolveDue' = resolveDue
    BY <1>11 DEF Choose, ResolveIfNeeded
  <2> QED
    BY <1>2, <1>3, <2>1, <2>2 DEF Claimed, Listed, Present
<1>12. CASE ForceResolve
  BY <1>0, <1>12 DEF ForceResolve
<1>13. CASE /\ endpoints' = endpoints /\ copied' = copied
            /\ resolver' = resolver /\ resolveDue' = resolveDue
  BY <1>2, <1>3, <1>13 DEF Claimed, Listed, Present
<1> QED
  BY <1>4, <1>5, <1>6, <1>7, <1>8, <1>9, <1>10, <1>11, <1>12, <1>13
  DEF Next, Caller, Resolver, Verifier, VerifyStarts, VerifyEnds, Begin,
      ChooseAfterWait, TryNext, Answered, CallFails, Report, ForceVerify,
      NodeChanges, SourceChanges, vars

LEMMA PoolCorrect == Spec => []PoolInv
<1>1. TypeOK /\ PoolInv /\ [Next]_vars => PoolInv'
  <2> SUFFICES ASSUME TypeOK, PoolInv, [Next]_vars PROVE PoolInv'
    OBVIOUS
  <2>1. OneRun'
    BY OneRunStep DEF PoolInv
  <2>2. CopiesAreCurrent'
    BY CopiesStep DEF PoolInv
  <2> QED
    BY <2>1, <2>2, ClaimsStep DEF PoolInv
<1> QED
  BY <1>1, PoolInit, TypeCorrect, PTL DEF Spec

(* However runs of the resolver and of the verifier overlap, whatever the    *)
(* source lists and however many verifications are forced: no url is twice   *)
(* in the pool, as long as no run of the resolver was forced, because what   *)
(* comes back with a copy was removed by the only run that could have added  *)
(* it again.                                                                 *)
THEOREM UrlsAreDistinct == Spec => []OneEndpointPerUrl
<1>1. PoolInv => OneEndpointPerUrl
  BY DEF PoolInv, ClaimsAreApart, Claimed, OneEndpointPerUrl
<1> QED
  BY <1>1, PoolCorrect, PTL

----------------------------------------------------------------------------
(* No call panics.                                                         *)

\* An endpoint that a call may still ask: it has not left the arena, and if
\* it is removed then since the last interval began, or the one before when
\* the call is late.
Kept(e, s, late) ==
    /\ In(e, s)
    /\ e[s].removed = NotRemoved \/ e[s].removed <= (IF late THEN 1 ELSE 0)

\* The endpoints of the lists that calls work through are there.
ListsAreKept ==
    \A c \in Callers : call[c].pc \in {"try", "asked"} =>
        \A i \in DOMAIN call[c].list : Kept(endpoints, call[c].list[i], call[c].late)

(* What the resolver and the verifier do leaves the endpoints in the lists: *)
(* they clean up only what was removed a grace period ago.                  *)
LEMMA KeptByPool ==
  ASSUME TypeOK, CopiesAreCurrent, [Next]_vars, ~IntervalBegins, Grace > 0,
         NEW s \in Slots, NEW late \in BOOLEAN, Kept(endpoints, s, late)
  PROVE  Kept(endpoints', s, late)
<1>0. /\ endpoints \in Arena /\ node \in [Urls -> Node] /\ check \subseteq Slots
      /\ resolver \in Seq(Run) /\ copied \in Arena
  BY DEF TypeOK, Arena
<1>1. Present(s) /\ endpoints[s] \in Endpoint
  BY <1>0, EndpointsKeep DEF Kept, In, Present
<1>2. endpoints[s].removed # LongAgo /\ 0 <= (IF late THEN 1 ELSE 0)
  BY PoolAssumption DEF Kept, LongAgo, NotRemoved
<1> USE DEF checkVars, resolveVars, worldVars
<1>3. ASSUME NEW e \in Arena, Remains(e, s), e[s] \in Endpoint
      PROVE  Kept(e, s, late)
  <2>1. CASE e[s] = endpoints[s]
    BY <2>1 DEF Kept, In
  <2>2. CASE e[s] = [NewEndpoint(endpoints[s].url) EXCEPT !.removed = 0]
    <3>1. e[s].removed = 0
      BY <1>0, <1>1, <2>2, EndpointsKeep, NewTyping
    <3> QED
      BY <1>2, <1>3, <3>1, EndpointIsThere DEF Kept, In
  <2> QED
    BY <1>3, <2>1, <2>2 DEF Remains
<1>5. ASSUME NEW r \in DOMAIN resolver, ResolveStarts(r) PROVE Kept(endpoints', s, late)
  <2>1. endpoints'[s] = endpoints[s]
    BY <1>2, <1>5 DEF ResolveStarts, Expired
  <2> QED
    BY <2>1 DEF Kept, In
<1>6. ASSUME NEW r \in DOMAIN resolver, SourceAnswers(r) PROVE Kept(endpoints', s, late)
  <2> DEFINE w == WithSource(resolver[r].urls)
  <2>1. w \in Arena /\ w[s] \in Endpoint /\ Remains(w, s)
    BY <1>0, <1>1, <1>6, RunTyping, SourceAdds DEF SourceAnswers
  <2>2. Kept(w, s, late)
    BY <1>3, <2>1
  <2> QED
    BY <1>6, <2>2 DEF SourceAnswers
<1>7. ASSUME NEW t \in Slots, VerifyAnswered(t) PROVE Kept(endpoints', s, late)
  <2>1. CASE endpoints'[s] = endpoints[s]
    BY <2>1 DEF Kept, In
  <2>2. CASE endpoints'[s] = Verified(s)
    BY <1>0, <1>1, <2>2, VerifiedTyping, EndpointIsThere DEF Kept, In
  <2> QED
    BY <1>0, <1>7, <2>1, <2>2 DEF VerifyAnswered, Arena
<1>8. ASSUME NEW t \in Slots, VerifyWrites(t) PROVE Kept(endpoints', s, late)
  <2>1. CASE s = t
    <3>1. endpoints'[s] = copied[s] /\ copied[s] # Nothing
      BY <1>0, <1>1, <1>8, <2>1 DEF VerifyWrites, Arena
    <3>2. copied[s].removed \in {endpoints[s].removed, NotRemoved}
      BY <1>1, <3>1 DEF CopiesAreCurrent
    <3> QED
      BY <3>1, <3>2 DEF Kept, In
  <2>2. CASE s # t
    BY <1>0, <1>8, <2>2 DEF VerifyWrites, Kept, In, Arena
  <2> QED
    BY <2>1, <2>2
<1>9. CASE endpoints' = endpoints
  BY <1>9
<1> QED
  BY <1>5, <1>6, <1>7, <1>8, <1>9
  DEF Next, Caller, Resolver, Verifier, SourceFails, VerifyStarts, VerifyCopies, VerifyEnds,
    Begin, Choose,
      ChooseAfterWait, TryNext, Answered, CallFails, Report, ForceResolve, ForceVerify,
      NodeChanges, SourceChanges, vars


(* A list is chosen among the endpoints that are listed. *)
LEMMA AllowedIsKept ==
  ASSUME NEW s \in Slots, IsAllowed(s), NEW late \in BOOLEAN
  PROVE  Kept(endpoints, s, late)
  BY DEF IsAllowed, Listed, Present, Kept, In

LEMMA ListsStep ==
  ASSUME TypeOK, AsksHead, CopiesAreCurrent, ListsAreKept, NeverPanics,
         [Next]_vars, Grace > 0
  PROVE  ListsAreKept' /\ NeverPanics'
<1>0. /\ call \in [Callers -> Call] /\ endpoints \in Arena /\ resolveDue \in BOOLEAN
      /\ \A c \in Callers : call[c].late \in BOOLEAN /\ call[c].list \in Seq(Slots)
  BY DEF TypeOK, Arena, Call
<1> USE DEF checkVars, resolveVars, worldVars
<1>1. ASSUME NEW c \in Callers, endpoints' = endpoints,
             \A d \in Callers \ {c} : call'[d] = call[d],
             call'[c].pc # "panic",
             call'[c].pc \in {"try", "asked"} =>
                \A i \in DOMAIN call'[c].list :
                    Kept(endpoints, call'[c].list[i], call'[c].late)
      PROVE  ListsAreKept' /\ NeverPanics'
  BY <1>1 DEF ListsAreKept, NeverPanics
<1>2. ASSUME NEW c \in Callers, NEW list \in Seq(Slots), NEW b \in BOOLEAN,
             Chosen(c, list, b), endpoints' = endpoints,
             \A i \in DOMAIN list : IsAllowed(list[i])
      PROVE  ListsAreKept' /\ NeverPanics'
  <2>1. Asks(call'[c], list) /\ \A d \in Callers \ {c} : call'[d] = call[d]
    BY <1>0, <1>2, ChosenCall
  <2>2. \A i \in DOMAIN list : list[i] \in Slots
    BY LenProperties
  <2>3. call'[c].pc \in {"try", "asked"} => call'[c].list = list /\ call'[c].late = FALSE
    BY <2>1 DEF Asks
  <2>4. \A i \in DOMAIN list : Kept(endpoints, list[i], FALSE)
    BY <1>2, <2>2, AllowedIsKept
  <2> QED
    BY <1>1, <1>2, <2>1, <2>3, <2>4 DEF Asks
<1>3. ASSUME NEW c \in Callers, Caller(c) PROVE ListsAreKept' /\ NeverPanics'
  <2>1. CASE Begin(c)
    <3>1. call'[c].pc = "choose" /\ \A d \in Callers \ {c} : call'[d] = call[d]
      BY <1>0, <2>1 DEF Begin, NoCall
    <3> QED
      BY <1>1, <2>1, <3>1 DEF Begin
  <2>2. CASE Choose(c)
    <3>1. CASE AllowedEndpoints # {}
      <4>1. PICK list \in ByScore(AllowedEndpoints) : Chosen(c, list, resolveDue)
        BY <2>2, <3>1 DEF Choose
      <4>2. list \in Seq(Slots) /\ \A i \in DOMAIN list : IsAllowed(list[i])
        BY ByScoreTyping DEF AllowedEndpoints
      <4> QED
        BY <1>0, <1>2, <2>2, <4>1, <4>2 DEF Choose
    <3>2. CASE AllowedEndpoints = {}
      <4>1. call'[c].pc = "wait" /\ \A d \in Callers \ {c} : call'[d] = call[d]
        BY <1>0, <2>2, <3>2 DEF Choose, Call
      <4> QED
        BY <1>1, <2>2, <4>1 DEF Choose
    <3> QED
      BY <3>1, <3>2
  <2>3. CASE ChooseAfterWait(c)
    <3>1. call[c].copy \subseteq Slots /\ call[c].resolving \in BOOLEAN
      BY <1>0 DEF Call
    <3>2. PICK list \in Seq(Slots) : /\ Chosen(c, list, call[c].resolving)
                                     /\ \A i \in DOMAIN list : IsAllowed(list[i])
      <4>1. CASE \E s \in call[c].copy : IsAllowed(s) /\ Chosen(c, <<s>>, call[c].resolving)
        <5>1. PICK s \in call[c].copy : IsAllowed(s) /\ Chosen(c, <<s>>, call[c].resolving)
          BY <4>1
        <5>2. <<s>> \in Seq(Slots) /\ \A i \in DOMAIN <<s>> : <<s>>[i] = s
          BY <3>1
        <5> QED
          BY <5>1, <5>2
      <4>2. CASE Chosen(c, <<>>, call[c].resolving)
        <5>1. <<>> \in Seq(Slots) /\ DOMAIN <<>> = {}
          BY EmptySeq
        <5> QED
          BY <4>2, <5>1
      <4> QED
        BY <2>3, <4>1, <4>2 DEF ChooseAfterWait
    <3> QED
      BY <1>2, <2>3, <3>1, <3>2 DEF ChooseAfterWait
  <2>4. ASSUME call'[c].pc \in {"try", "asked"}, call[c].pc \in {"try", "asked"},
               call[c].list # <<>>,
               call'[c].list \in {call[c].list, Tail(call[c].list)},
               call'[c].late = call[c].late
        PROVE  \A i \in DOMAIN call'[c].list : Kept(endpoints, call'[c].list[i], call'[c].late)
    <3>1. \A i \in DOMAIN call[c].list : Kept(endpoints, call[c].list[i], call[c].late)
      BY <2>4 DEF ListsAreKept
    <3>2. \A i \in DOMAIN Tail(call[c].list) :
              i + 1 \in DOMAIN call[c].list /\ Tail(call[c].list)[i] = call[c].list[i + 1]
      BY <1>0, <2>4
    <3> QED
      BY <2>4, <3>1, <3>2
  <2>5. CASE TryNext(c)
    <3>1. /\ endpoints' = endpoints /\ \A d \in Callers \ {c} : call'[d] = call[d]
          /\ call[c].pc = "try" /\ call'[c].pc \in {"choose", "asked", "try"}
          /\ call'[c].pc \in {"try", "asked"} =>
                /\ call[c].list # <<>> /\ call'[c].late = call[c].late
                /\ call'[c].list \in {call[c].list, Tail(call[c].list)}
      BY <1>0, <2>5 DEF TryNext, Call
    <3> QED
      BY <1>1, <2>4, <3>1
  <2>6. CASE Answered(c)
    <3>1. call'[c].pc = "send" /\ \A d \in Callers \ {c} : call'[d] = call[d]
      BY <1>0, <2>6 DEF Answered, MarkRpcSuccess, NoCall
    <3> QED
      BY <1>1, <2>6, <3>1 DEF Answered
  <2>7. CASE CallFails(c)
    <3>1. call[c].pc = "asked" /\ call[c].list # <<>> /\ Asked(c) = call[c].list[1]
      BY <1>0, <2>7 DEF CallFails, AsksHead, Asked
    <3>2. Present(Asked(c))
      <4>1. 1 \in DOMAIN call[c].list
        BY <1>0, <3>1
      <4> QED
        BY <3>1, <4>1 DEF ListsAreKept, Kept, In, Present
    <3>3. /\ endpoints' = endpoints /\ \A d \in Callers \ {c} : call'[d] = call[d]
          /\ call'[c].pc \in {"send", "try"}
          /\ call'[c].pc = "try" => /\ call'[c].late = call[c].late
                                    /\ call'[c].list = Tail(call[c].list)
      BY <1>0, <2>7, <3>2 DEF CallFails, MarkRpcError, Asked, Call, NoCall
    <3> QED
      BY <1>1, <2>4, <3>1, <3>3
  <2>8. CASE Report(c)
    <3>1. call'[c].pc = "idle" /\ \A d \in Callers \ {c} : call'[d] = call[d]
      BY <1>0, <2>8 DEF Report, NoCall
    <3> QED
      BY <1>1, <2>8, <3>1 DEF Report
  <2> QED
    BY <1>3, <2>1, <2>2, <2>3, <2>5, <2>6, <2>7, <2>8 DEF Caller
<1>4. CASE IntervalBegins
  <2>1. \A c \in Callers : /\ call'[c].pc = call[c].pc /\ call'[c].list = call[c].list
                           /\ call[c].late = FALSE
                           /\ call[c].pc \in {"try", "asked"} => call'[c].late = TRUE
    BY <1>0, <1>4 DEF IntervalBegins, Call, Tries
  <2>2. ASSUME NEW s \in Slots, Kept(endpoints, s, FALSE) PROVE Kept(endpoints', s, TRUE)
    <3>1. endpoints[s] \in Endpoint
      BY <1>0, <2>2, EndpointsKeep DEF Kept, In, Present
    <3>2. CASE endpoints[s].removed = NotRemoved
      <4>1. ~(endpoints[s].removed < LongAgo)
        BY <3>2, PoolAssumption DEF LongAgo, NotRemoved
      <4>2. endpoints'[s] = endpoints[s]
        BY <1>4, <4>1 DEF IntervalBegins
      <4> QED
        BY <2>2, <3>2, <4>2 DEF Kept, In
    <3>3. CASE endpoints[s].removed # NotRemoved
      <4>1. endpoints[s].removed = 0 /\ 0 < LongAgo
        BY <2>2, <3>1, <3>3, PoolAssumption DEF Kept, Endpoint, LongAgo
      <4>2. endpoints'[s] = [endpoints[s] EXCEPT !.removed = @ + 1]
        BY <1>4, <4>1 DEF IntervalBegins
      <4>3. endpoints'[s].removed = 1
        BY <3>1, <4>1, <4>2 DEF Endpoint
      <4>4. endpoints'[s] \in Endpoint
        <5>1. 1 \in 0..LongAgo
          BY PoolAssumption DEF LongAgo
        <5> QED
          BY <3>1, <4>1, <4>2, <5>1 DEF Endpoint
      <4> QED
        BY <4>3, <4>4, EndpointIsThere DEF Kept, In
    <3> QED
      BY <3>2, <3>3
  <2>3. ASSUME NEW c \in Callers, call[c].pc \in {"try", "asked"},
               NEW i \in DOMAIN call[c].list
        PROVE  Kept(endpoints', call[c].list[i], TRUE)
    <3>1. call[c].list[i] \in Slots
      BY <1>0, <2>3, LenProperties
    <3>2. Kept(endpoints, call[c].list[i], FALSE)
      BY <2>1, <2>3 DEF ListsAreKept
    <3> QED
      BY <2>2, <3>1, <3>2
  <2>4. ListsAreKept'
    BY <2>1, <2>3 DEF ListsAreKept
  <2>5. NeverPanics'
    BY <2>1 DEF NeverPanics
  <2> QED
    BY <2>4, <2>5
<1>5. CASE call' = call /\ ~IntervalBegins
  <2>1. ASSUME NEW c \in Callers, call[c].pc \in {"try", "asked"},
               NEW i \in DOMAIN call[c].list
        PROVE  Kept(endpoints', call[c].list[i], call[c].late)
    <3>1. call[c].list[i] \in Slots
      BY <1>0, <2>1, LenProperties
    <3>2. Kept(endpoints, call[c].list[i], call[c].late)
      BY <2>1 DEF ListsAreKept
    <3> QED
      BY <1>0, <1>5, <3>1, <3>2, KeptByPool
  <2>2. ListsAreKept'
    BY <1>5, <2>1 DEF ListsAreKept
  <2> QED
    BY <1>5, <2>2 DEF NeverPanics
<1> QED
  BY <1>3, <1>4, <1>5
  DEF Next, Resolver, Verifier, ResolveStarts, SourceAnswers, SourceFails, VerifyStarts,
      VerifyAnswered, VerifyCopies, VerifyWrites, VerifyEnds, ForceResolve, ForceVerify,
      NodeChanges,
      SourceChanges, vars

(* With a grace period of an interval or more, no call unwraps an endpoint  *)
(* that is gone: a list is worked through before the second interval after  *)
(* it was chosen begins, and what is removed meanwhile is still in the      *)
(* arena then.                                                              *)
THEOREM NoCallPanics == ASSUME Grace > 0 PROVE Spec => []NeverPanics
<1>1. Init => AsksHead /\ ListsAreKept /\ NeverPanics
  BY DEF Init, AsksHead, ListsAreKept, NeverPanics, NoCall
<1>2. TypeOK /\ AsksHead /\ [Next]_vars => AsksHead'
  BY AsksHeadStep
<1>3. /\ TypeOK /\ AsksHead /\ PoolInv /\ ListsAreKept /\ NeverPanics
      /\ [Next]_vars
      => ListsAreKept' /\ NeverPanics'
  BY ListsStep DEF PoolInv
<1> QED
  BY <1>1, <1>2, <1>3, TypeCorrect, PoolCorrect, PTL DEF Spec

=============================================================================
