------------------------ MODULE StatusTrackerProofs ------------------------
(***************************************************************************)
(* For any number of chains, any errors and any capacity of the channels:  *)
(* the user who has received everything that was sent knows the status.    *)
(***************************************************************************)
EXTENDS StatusTracker, TLAPS

\* The next message but those in the user's channel is the status itself.
NewsPending == sending # <<>> /\ sending[Len(sending)] = StatusNews

IsNews(i) == inbox[i].kind = "StatusChanged"

\* The last news in the user's channel, or else the one that the user has
\* received, is the status.
Known ==
    \/ told = status /\ \A i \in 1..Len(inbox) : ~IsNews(i)
    \/ \E i \in 1..Len(inbox) :
        /\ IsNews(i) /\ inbox[i].status = status
        /\ \A j \in 1..Len(inbox) : j > i => ~IsNews(j)

\* What the tracker sends: the event, and perhaps the status.
SendingShape ==
    \/ sending = <<>> \/ sending = <<StatusNews>>
    \/ \E e \in DriverEvent : sending = <<e>> \/ sending = <<e, StatusNews>>

StatusInv == StatusTypeOK /\ SendingShape /\ (Known \/ NewsPending)

----------------------------------------------------------------------------
\* An event of the driver says what it is, and only one with the kind of a
\* property is a property.
LEMMA EventKinds ==
    ASSUME NEW e \in DriverEvent
    PROVE  /\ e.kind # "StatusChanged" /\ e # StatusNews
           /\ e.kind \in StatusKinds => e \in StatusProperty
<1>1. CASE e \in StatusProperty
  <2>1. PICK k \in StatusKinds : e \in [kind : {k}, chain : Chains, detail : Detail(k)]
    BY <1>1 DEF StatusProperty
  <2>2. e.kind = k /\ k # "StatusChanged"
    BY <2>1 DEF StatusKinds
  <2>3. e # StatusNews
    BY <2>2 DEF StatusNews
  <2> QED BY <1>1, <2>2, <2>3
<1>2. CASE e \notin StatusProperty
  <2>1. e.kind \in {"TransferFinished", "Success", "Other"}
    BY <1>2 DEF DriverEvent, Finished, Success, Other, Event
  <2> QED BY <2>1 DEF StatusKinds, StatusNews
<1> QED BY <1>1, <1>2

\* The status stays a set of properties.
LEMMA AfterType ==
    ASSUME status \subseteq StatusProperty, NEW e \in DriverEvent
    PROVE  After(e) \subseteq StatusProperty
BY EventKinds DEF After, Updated, Cleared

\* Without a change that is told the status is what it was.
LEMMA NoChange ==
    ASSUME NEW e \in DriverEvent, e.kind = "Success" \/ ~Changes(e)
    PROVE  After(e) = status
BY DEF Changes, After, StatusKinds

----------------------------------------------------------------------------
(* One lemma for each step.                                                *)

LEMMA StatusInitially == StatusInit => StatusInv
<1> SUFFICES ASSUME StatusInit PROVE StatusInv
  OBVIOUS
<1>1. StatusTypeOK
  <2>1. \A S : <<>> \in Seq(S) /\ Len(<<>>) = 0
    OBVIOUS
  <2>2. raw \in Seq(DriverEvent) /\ sending \in Seq(DriverEvent \cup {StatusNews})
        /\ inbox \in Seq(DriverEvent \cup StatusChanged) /\ Len(raw) = 0 /\ Len(inbox) = 0
    BY <2>1 DEF StatusInit
  <2>3. status \subseteq StatusProperty /\ told \subseteq StatusProperty /\ asking \in BOOLEAN
    BY DEF StatusInit
  <2> QED BY <2>2, <2>3, StatusAssumption DEF StatusTypeOK, RawRoom
<1>2. SendingShape
  BY DEF StatusInit, SendingShape
<1>3. told = status /\ 1..Len(inbox) = {}
  BY DEF StatusInit
<1> QED BY <1>1, <1>2, <1>3 DEF StatusInv, Known

\* Only what the tasks have sent, or only asking changes.
LEMMA AsideStep ==
    ASSUME StatusInv,
           (\E e \in DriverEvent : SendEvent(e)) \/ Ask \/ GetStatus \/ UNCHANGED statusVars
    PROVE  StatusInv'
<1>1. UNCHANGED <<status, sending, inbox, told>>
  BY DEF SendEvent, Ask, GetStatus, statusVars, trackerVars, userVars
<1>2. SendingShape' /\ (Known \/ NewsPending)'
  BY <1>1 DEF StatusInv, SendingShape, Known, NewsPending, IsNews
<1>3. raw' \in Seq(DriverEvent) /\ Len(raw') <= RawRoom /\ asking' \in BOOLEAN
  <2>1. CASE \E e \in DriverEvent : SendEvent(e)
    <3>1. PICK e \in DriverEvent : SendEvent(e) BY <2>1
    <3>2. raw' = Append(raw, e) /\ Len(raw) < RawRoom /\ asking' = asking
      BY <3>1 DEF SendEvent, userVars
    <3> QED BY <3>2 DEF StatusInv, StatusTypeOK, RawRoom
  <2>2. CASE Ask \/ GetStatus \/ UNCHANGED statusVars
    <3>1. raw' = raw /\ asking' \in {asking, TRUE, FALSE}
      BY <2>2 DEF Ask, GetStatus, statusVars, userVars
    <3> QED BY <3>1 DEF StatusInv, StatusTypeOK
  <2> QED BY <2>1, <2>2
<1> QED BY <1>1, <1>2, <1>3 DEF StatusInv, StatusTypeOK

LEMMA TrackStep ==
    ASSUME StatusInv, Track
    PROVE  StatusInv'
<1> DEFINE e == Head(raw)
<1>1. e \in DriverEvent /\ raw' \in Seq(DriverEvent) /\ Len(raw') <= RawRoom
  BY DEF StatusInv, StatusTypeOK, Track, RawRoom
<1>2. UNCHANGED <<inbox, told, asking>> /\ sending = <<>>
  BY DEF Track, userVars
<1>3. status' = After(e) /\ status' \subseteq StatusProperty
  BY <1>1, AfterType DEF StatusInv, StatusTypeOK, Track
<1>4. Known
  BY <1>2 DEF StatusInv, NewsPending
<1>5. CASE e.kind = "Success"
  <2>1. sending' = <<>> BY <1>5 DEF Track
  <2>2. status' = status BY <1>1, <1>3, <1>5, NoChange
  <2>3. Known' BY <1>2, <1>4, <2>2 DEF Known, IsNews
  <2> QED BY <1>1, <1>2, <1>3, <2>1, <2>3 DEF StatusInv, StatusTypeOK, SendingShape
<1>6. CASE e.kind # "Success" /\ Changes(e)
  <2>1. sending' = <<e, StatusNews>> BY <1>6 DEF Track
  <2>2. sending' \in Seq(DriverEvent \cup {StatusNews}) BY <1>1, <2>1
  <2>3. NewsPending' BY <2>1 DEF NewsPending
  <2> QED BY <1>1, <1>2, <1>3, <2>1, <2>2, <2>3 DEF StatusInv, StatusTypeOK, SendingShape
<1>7. CASE e.kind # "Success" /\ ~Changes(e)
  <2>1. sending' = <<e>> BY <1>7 DEF Track
  <2>2. status' = status BY <1>1, <1>3, <1>7, NoChange
  <2>3. Known' BY <1>2, <1>4, <2>2 DEF Known, IsNews
  <2>4. sending' \in Seq(DriverEvent \cup {StatusNews}) BY <1>1, <2>1
  <2> QED BY <1>1, <1>2, <1>3, <2>1, <2>3, <2>4 DEF StatusInv, StatusTypeOK, SendingShape
<1> QED BY <1>5, <1>6, <1>7

LEMMA PassEventStep ==
    ASSUME StatusInv, PassEvent
    PROVE  StatusInv'
<1>1. PICK e \in DriverEvent : sending = <<e>> \/ sending = <<e, StatusNews>>
  BY DEF StatusInv, PassEvent, SendingShape
<1>2. UNCHANGED <<raw, status, told, asking>> /\ inbox' = Append(inbox, e)
  BY <1>1 DEF PassEvent, userVars
<1>3. inbox' \in Seq(DriverEvent \cup StatusChanged) /\ Len(inbox') <= UserRoom
  BY <1>2, StatusAssumption DEF StatusInv, StatusTypeOK, PassEvent
<1>4. CASE sending = <<e, StatusNews>>
  <2>1. sending' = <<StatusNews>> BY <1>4 DEF PassEvent
  <2> QED BY <1>2, <1>3, <2>1 DEF StatusInv, StatusTypeOK, SendingShape, NewsPending
<1>5. CASE sending = <<e>>
  <2>1. sending' = <<>> BY <1>5 DEF PassEvent
  <2>2. Known
    BY <1>1, <1>5, EventKinds DEF StatusInv, NewsPending
  <2>3. /\ Len(inbox') = Len(inbox) + 1 /\ inbox'[Len(inbox) + 1] = e
        /\ \A i \in 1..Len(inbox) : inbox'[i] = inbox[i]
        /\ Len(inbox) \in Nat
    BY <1>2 DEF StatusInv, StatusTypeOK
  <2>4. /\ inbox'[Len(inbox) + 1].kind # "StatusChanged"
        /\ \A i \in 1..Len(inbox) : inbox'[i] = inbox[i]
        /\ \A i \in 1..Len(inbox') : i \in 1..Len(inbox) \/ i = Len(inbox) + 1
    BY <2>3, EventKinds
  <2>5. Known'
    BY <1>2, <2>2, <2>3, <2>4 DEF Known, IsNews
  <2> QED BY <1>2, <1>3, <2>1, <2>5 DEF StatusInv, StatusTypeOK, SendingShape
<1> QED BY <1>1, <1>4, <1>5

LEMMA PassStatusStep ==
    ASSUME StatusInv, PassStatus
    PROVE  StatusInv'
<1> DEFINE news == [kind |-> "StatusChanged", status |-> status]
<1>1. sending = <<StatusNews>> /\ sending' = <<>>
  <2>1. ASSUME NEW e \in DriverEvent, sending = <<e>> \/ sending = <<e, StatusNews>>
        PROVE  FALSE
    <3>1. Head(sending) = e BY <2>1
    <3> QED BY <3>1, EventKinds DEF PassStatus
  <2>2. sending = <<StatusNews>> BY <2>1 DEF StatusInv, PassStatus, SendingShape
  <2> QED BY <2>2 DEF PassStatus
<1>2. UNCHANGED <<raw, status, told, asking>> /\ inbox' = Append(inbox, news)
  BY DEF PassStatus, userVars
<1>3. news \in StatusChanged
  BY DEF StatusInv, StatusTypeOK, StatusChanged
<1>4. inbox' \in Seq(DriverEvent \cup StatusChanged) /\ Len(inbox') <= UserRoom
  BY <1>2, <1>3, StatusAssumption DEF StatusInv, StatusTypeOK, PassStatus
<1>5. Known'
  <2>1. Len(inbox') = Len(inbox) + 1 /\ inbox'[Len(inbox) + 1] = news /\ Len(inbox) \in Nat
    BY <1>2 DEF StatusInv, StatusTypeOK
  <2> QED BY <1>2, <2>1 DEF Known, IsNews
<1> QED BY <1>1, <1>2, <1>4, <1>5 DEF StatusInv, StatusTypeOK, SendingShape

LEMMA ReceiveStep ==
    ASSUME StatusInv, Receive
    PROVE  StatusInv'
<1>1. UNCHANGED <<raw, status, sending, asking>> /\ inbox' = Tail(inbox) /\ inbox # <<>>
  BY DEF Receive, trackerVars
<1>2. told' = IF IsNews(1) THEN inbox[1].status ELSE told
  BY DEF Receive, IsNews, StatusInv, StatusTypeOK
<1>3. /\ Len(inbox) \in Nat \ {0} /\ Len(inbox') = Len(inbox) - 1
      /\ \A i \in 1..Len(inbox') : inbox'[i] = inbox[i + 1]
      /\ inbox' \in Seq(DriverEvent \cup StatusChanged)
      /\ inbox[1] \in DriverEvent \cup StatusChanged
  BY <1>1 DEF StatusInv, StatusTypeOK
<1>4. told' \subseteq StatusProperty
  BY <1>2, <1>3, EventKinds DEF StatusInv, StatusTypeOK, IsNews, StatusChanged
<1>5. \A i \in 1..Len(inbox') : IsNews(i)' <=> IsNews(i + 1)
  BY <1>3 DEF IsNews
<1>6. Known => Known'
  <2>1. CASE told = status /\ \A i \in 1..Len(inbox) : ~IsNews(i)
    BY <1>1, <1>2, <1>3, <1>5, <2>1 DEF Known
  <2>2. ASSUME NEW i \in 1..Len(inbox), IsNews(i), inbox[i].status = status,
               \A j \in 1..Len(inbox) : j > i => ~IsNews(j)
        PROVE  Known'
    <3>1. CASE i = 1
      BY <1>1, <1>2, <1>3, <1>5, <2>2, <3>1 DEF Known
    <3>2. CASE i > 1
      <4>1. i - 1 \in 1..Len(inbox') /\ IsNews(i - 1)' /\ inbox'[i - 1].status = status'
        BY <1>1, <1>3, <1>5, <2>2, <3>2
      <4>2. \A j \in 1..Len(inbox') : j > i - 1 => ~IsNews(j)'
        BY <1>3, <1>5, <2>2
      <4> QED BY <4>1, <4>2 DEF Known
    <3> QED BY <2>2, <3>1, <3>2
  <2> QED BY <2>1, <2>2 DEF Known
<1>7. (Known \/ NewsPending)' /\ SendingShape'
  BY <1>1, <1>6 DEF StatusInv, NewsPending, SendingShape
<1>8. Len(inbox') <= UserRoom
  BY <1>3, StatusAssumption DEF StatusInv, StatusTypeOK
<1> QED BY <1>1, <1>3, <1>4, <1>7, <1>8 DEF StatusInv, StatusTypeOK

LEMMA StatusStep == StatusInv /\ [StatusNext]_statusVars => StatusInv'
BY AsideStep, TrackStep, PassEventStep, PassStatusStep, ReceiveStep
   DEF StatusNext, Tracker, User

----------------------------------------------------------------------------
\* The invariant of the tracker: each channel holds what it may, and the
\* last news on their way are the status.
THEOREM TrackerInvariant == StatusSpec => []StatusInv
BY StatusInitially, StatusStep, PTL DEF StatusSpec

\* Whatever is sent by whom and however slow the user is: when everything
\* has arrived the user knows the status that StatusTracker keeps.
THEOREM UserKnows == StatusSpec => []UserKnowsStatus
<1>1. StatusInv => UserKnowsStatus
  <2> SUFFICES ASSUME StatusInv, Delivered PROVE told = status
    BY DEF UserKnowsStatus
  <2>1. Known BY DEF StatusInv, NewsPending, Delivered
  <2>2. 1..Len(inbox) = {} BY DEF Delivered
  <2> QED BY <2>1, <2>2 DEF Known
<1> QED BY <1>1, TrackerInvariant, PTL

=============================================================================
