--------------------------- MODULE StatusTracker ---------------------------
(***************************************************************************)
(* The way of a driver event from the task that sends it to the user: a    *)
(* channel with room for one event, the task of the status tracker, which  *)
(* derives the status of the driver from the events, and the channel of    *)
(* the user.  Both channels make their senders wait while they are full.   *)
(***************************************************************************)
EXTENDS Naturals, Sequences, FiniteSets

CONSTANTS
    Chains,         \* chains of the driver, one account on each
    Missing,        \* how much gas or token can be missing
    Errors,         \* what an RPC error may say
    AllFailed,      \* "All endpoints failed"
    UserRoom,       \* capacity of the user's channel
    OneTask         \* the task that empties the channel is the one that asks

ASSUME StatusAssumption ==
    /\ AllFailed \notin Errors
    /\ UserRoom \in Nat \ {0}
    /\ OneTask \in BOOLEAN

VARIABLES
    raw,        \* channel from the tasks of the driver to the tracker
    status,     \* properties of the driver that the tracker knows of
    sending,    \* what the tracker has still to send for the last event
    inbox,      \* channel to the user
    told,       \* the status that the user was told last
    asking      \* the user waits for get_status

trackerVars == <<status, sending>>
userVars == <<told, asking>>
statusVars == <<raw, trackerVars, inbox, userVars>>

RawRoom == 1

\* StatusProperty: what it says beside its kind and chain.  There is one
\* account on each chain, so that the address adds nothing.
Detail(kind) ==
    CASE kind \in {"CantSign", "TxStuck"} -> {0}
      [] kind \in {"NoGas", "NoToken"} -> Missing
      [] kind = "Web3RpcError" -> Errors \cup {AllFailed}

StatusKinds == {"CantSign", "NoGas", "NoToken", "TxStuck", "Web3RpcError"}
StatusProperty ==
    UNION {[kind : {k}, chain : Chains, detail : Detail(k)] : k \in StatusKinds}

\* DriverEventContent.  An event with the kind of a property is the one that
\* the tracker derives this property from, Other any that it only passes on.
Event(kind, chain, detail) == [kind |-> kind, chain |-> chain, detail |-> detail]
Finished(chain) == Event("TransferFinished", chain, 0)
Success(chain) == Event("Success", chain, 0)
Other(chain) == Event("Other", chain, 0)
RpcError(chain, error) == Event("Web3RpcError", chain, error)

DriverEvent ==
    StatusProperty
        \cup {Finished(c) : c \in Chains} \cup {Success(c) : c \in Chains}
        \cup {Other(c) : c \in Chains}

StatusNews == [kind |-> "StatusChanged"]
StatusChanged == [kind : {"StatusChanged"}, status : SUBSET StatusProperty]

\* A property that is there is replaced; one without a detail is not news.
Updated(e) ==
    {p \in status : p.kind # e.kind \/ p.chain # e.chain} \cup {e}

\* A transfer that is finished shows that its chain has no issue.
Cleared(chain) == {p \in status : p.chain # chain}

\* Mutant of After: the success of an RPC call clears the issues, too.
AfterAnySuccess(e) ==
    CASE e.kind \in StatusKinds -> Updated(e)
      [] e.kind \in {"TransferFinished", "Success"} -> Cleared(e.chain)
      [] OTHER -> status

After(e) ==
    CASE e.kind \in StatusKinds -> Updated(e)
      [] e.kind = "TransferFinished" -> Cleared(e.chain)
      [] OTHER -> status

\* Mutant of Changes: a replaced property is not a change.
ChangesSize(e) == Cardinality(After(e)) # Cardinality(status)

\* The tracker tells the user of a change, and always of an update that
\* carries an amount or an error.
Changes(e) ==
    \/ After(e) # status
    \/ e.kind \in {"NoGas", "NoToken", "Web3RpcError"}

----------------------------------------------------------------------------
(* Tasks of the driver.                                                    *)

\* event_sender.send: the sender waits while there is no room.
SendEvent(e) ==
    /\ Len(raw) < RawRoom
    /\ raw' = Append(raw, e)
    /\ UNCHANGED <<trackerVars, inbox, userVars>>

----------------------------------------------------------------------------
(* The task of the tracker.                                                *)

\* It receives an event and updates the status; the success of an RPC call
\* is not passed on.
Track ==
    /\ sending = <<>> /\ raw # <<>>
    /\ raw' = Tail(raw)
    /\ LET e == Head(raw) IN
        /\ status' = After(e)
        /\ sending' = IF e.kind = "Success" THEN <<>>
                      ELSE IF Changes(e) THEN <<e, StatusNews>> ELSE <<e>>
    /\ UNCHANGED <<inbox, userVars>>

PassEvent ==
    /\ sending # <<>> /\ Head(sending) # StatusNews
    /\ Len(inbox) < UserRoom
    /\ inbox' = Append(inbox, Head(sending))
    /\ sending' = Tail(sending)
    /\ UNCHANGED <<raw, status, userVars>>

\* While it waits for room it holds the lock of the status.
PassStatus ==
    /\ sending # <<>> /\ Head(sending) = StatusNews
    /\ Len(inbox) < UserRoom
    /\ inbox' = Append(inbox, [kind |-> "StatusChanged", status |-> status])
    /\ sending' = Tail(sending)
    /\ UNCHANGED <<raw, status, userVars>>

\* Mutant of LockHeld: the tracker keeps the lock while it waits for events.
LockHeldByReceiver == sending = <<>> \/ Head(sending) = StatusNews

LockHeld == sending # <<>> /\ Head(sending) = StatusNews

Tracker == Track \/ PassEvent \/ PassStatus

----------------------------------------------------------------------------
(* The user.                                                               *)

Receive ==
    /\ inbox # <<>> /\ ~(OneTask /\ asking)
    /\ inbox' = Tail(inbox)
    /\ told' = IF Head(inbox).kind = "StatusChanged" THEN Head(inbox).status ELSE told
    /\ UNCHANGED <<raw, trackerVars, asking>>

Ask ==
    /\ ~asking
    /\ asking' = TRUE
    /\ UNCHANGED <<raw, trackerVars, inbox, told>>

GetStatus ==
    /\ asking /\ ~LockHeld
    /\ asking' = FALSE
    /\ UNCHANGED <<raw, trackerVars, inbox, told>>

User == Receive \/ GetStatus

\* Nothing is on its way.
Delivered == raw = <<>> /\ sending = <<>> /\ inbox = <<>>

----------------------------------------------------------------------------
StatusInit ==
    /\ raw = <<>>
    /\ status = {}
    /\ sending = <<>>
    /\ inbox = <<>>
    /\ told = {}
    /\ asking = FALSE

\* Tasks may send any event at any time.
StatusNext == (\E e \in DriverEvent : SendEvent(e)) \/ Tracker \/ User \/ Ask

StatusSpec == StatusInit /\ [][StatusNext]_statusVars

StatusTypeOK ==
    /\ raw \in Seq(DriverEvent) /\ Len(raw) <= RawRoom
    /\ status \subseteq StatusProperty
    /\ sending \in Seq(DriverEvent \cup {StatusNews})
    /\ inbox \in Seq(DriverEvent \cup StatusChanged) /\ Len(inbox) <= UserRoom
    /\ told \subseteq StatusProperty
    /\ asking \in BOOLEAN

\* When everything that was sent has arrived, the user knows the status: no
\* change is kept from the user, whatever the events and however late the
\* user receives them.
UserKnowsStatus == Delivered => told = status

=============================================================================
