------------------------------- MODULE FirstRaid -------------------------------
(***************************************************************************)
(* The first raid end to end: the creation panel (ui/MeaningPath.tsx) and  *)
(* the transport under it on the one side, the handlers of PalaceRoom on   *)
(* the other, with a view that lags behind the room state and messages     *)
(* that are in flight or lost. A panel outlives its sessions: when a token *)
(* is refused, the transport joins afresh beneath it.                      *)
(*                                                                         *)
(* Panels send no invalid messages here and the ledger has no other        *)
(* writer; PalaceRoom and PalaceTransport have those. A drop is noticed by *)
(* both sides at once: what the room hears after the client's drop it      *)
(* might as well have heard before.                                        *)
(***************************************************************************)
EXTENDS PalaceRoom

CONSTANTS
    Panel,        \* players in the street
    MaxInFlight,  \* bound: messages on their way from a panel
    NoSession

ASSUME PanelAssumption ==
    /\ MaxInFlight \in Nat
    /\ NoSession \notin Session

VARIABLES
    session,   \* session[p]: the session of p's transport
    online,    \* online[p]: status "connected" of the published view
    view,      \* view[p]: the authors of its shipModules
    channel,   \* channel[p]: sent to the room and not yet heard
    invite,    \* invite[p]: inviteState
    copying,   \* copying[p]: the clipboard has not answered copyInvite yet
    reported,  \* reported[p]: the raidReported ref
    used,      \* used[p]: all sessions since the panel was mounted (history)
    others     \* sessions of players whose panels are left open: they do what the room allows

roomVars == <<activeRoom, room, link, guard, modules, completed, log>>
panelVars == <<session, online, view, channel, invite, copying, reported, used>>
runVars == <<roomVars, panelVars, others>>

RunInit ==
    /\ Init
    /\ session = [p \in Panel |-> NoSession]
    /\ online = [p \in Panel |-> FALSE]
    /\ view = [p \in Panel |-> {}]
    /\ channel = [p \in Panel |-> <<>>]
    /\ invite = [p \in Panel |-> "idle"]
    /\ copying = [p \in Panel |-> FALSE]
    /\ reported = [p \in Panel |-> FALSE]
    /\ used = [p \in Panel |-> {}]
    /\ others = {}
-----------------------------------------------------------------------------
\* A session id that was not used yet; which of them makes no difference.
New == {s \in Session : link[s] = "new"}
Fresh == CHOOSE s \in New : TRUE

\* The transport joins: at first, and afresh once the room has given the session up.
Enter(p) ==
    LET s == Fresh IN
    /\ New # {}
    /\ session[p] # NoSession => link[session[p]] \in {"leaving", "gone"}
    /\ Join(s)
    /\ session' = [session EXCEPT ![p] = s]
    /\ used' = [used EXCEPT ![p] = @ \union {s}]
    /\ UNCHANGED <<online, view, channel, invite, copying, reported, others>>

\* A state patch is published: status connected, with the authors of that moment.
Patch(p) ==
    /\ session[p] # NoSession /\ link[session[p]] = "connected"
    /\ online' = [online EXCEPT ![p] = TRUE]
    /\ view' = [view EXCEPT ![p] = Authors]
    /\ UNCHANGED <<roomVars, session, channel, invite, copying, reported, used, others>>

\* The connection breaks: the parts on show go with it, and what was on its way.
Lose(p) ==
    /\ session[p] # NoSession
    /\ Drop(session[p])
    /\ online' = [online EXCEPT ![p] = FALSE]
    /\ view' = [view EXCEPT ![p] = {}]
    /\ channel' = [channel EXCEPT ![p] = <<>>]
    /\ UNCHANGED <<session, invite, copying, reported, used, others>>

\* The server keeps nothing but the ledger.
RestartServer ==
    /\ Restart
    /\ online' = [p \in Panel |-> FALSE]
    /\ view' = [p \in Panel |-> {}]
    /\ channel' = [p \in Panel |-> <<>>]
    /\ UNCHANGED <<session, invite, copying, reported, used, others>>

\* The player leaves the street: transport.leave(), and the panel is unmounted.
LeaveStreet(p) ==
    /\ session[p] # NoSession
    /\ IF link[session[p]] = "connected" THEN Leave(session[p]) ELSE UNCHANGED roomVars
    /\ session' = [session EXCEPT ![p] = NoSession]
    /\ online' = [online EXCEPT ![p] = FALSE]
    /\ view' = [view EXCEPT ![p] = {}]
    /\ channel' = [channel EXCEPT ![p] = <<>>]
    /\ invite' = [invite EXCEPT ![p] = "idle"]
    /\ copying' = [copying EXCEPT ![p] = FALSE]
    /\ reported' = [reported EXCEPT ![p] = FALSE]
    /\ used' = [used EXCEPT ![p] = {}]
    /\ UNCHANGED others

\* Players whose panels are not followed.
OtherJoins ==
    /\ New # {}
    /\ Join(Fresh)
    /\ others' = others \union {Fresh}
    /\ UNCHANGED panelVars

OtherPlays(s) ==
    /\ s \in others
    /\ Drop(s) \/ Reconnect(s) \/ Leave(s) \/ PlaceModule(s) \/ RaidComplete(s)
    /\ UNCHANGED <<panelVars, others>>

\* What the room does by itself.
RoomGoesOn ==
    /\ \/ \E r \in RoomId : Create(r) \/ Dispose(r)
       \/ \E s \in Session : ReconnectTimeout(s) \/ (link[s] = "leaving" /\ Leave(s))
    /\ UNCHANGED <<panelVars, others>>

\* The token is accepted.
Resume(p) ==
    /\ session[p] # NoSession
    /\ Reconnect(session[p])
    /\ UNCHANGED <<panelVars, others>>
-----------------------------------------------------------------------------
Sends(p, message) ==
    /\ online[p]
    /\ Len(channel[p]) < MaxInFlight
    /\ channel' = [channel EXCEPT ![p] = Append(@, message)]

\* ownModule
HasOwn(p) == session[p] \in view[p]

\* submit: the form is there while the view shows neither an own part nor a full ship, so it
\* may be sent twice before the first is confirmed.
Submit(p) ==
    /\ ~HasOwn(p)
    /\ Sends(p, "place")
    /\ Cardinality(view[p]) < MaxModules
    /\ UNCHANGED <<roomVars, session, online, view, invite, copying, reported, used, others>>

\* The invite button beside the own part: a link that was only shown has to be confirmed,
\* any other click asks the clipboard. Clicks while it has not answered are left out.
Invite(p) ==
    /\ HasOwn(p) /\ ~copying[p]
    /\ IF invite[p] = "shown"
       THEN invite' = [invite EXCEPT ![p] = "confirmed"] /\ UNCHANGED copying
       ELSE copying' = [copying EXCEPT ![p] = TRUE] /\ UNCHANGED invite
    /\ UNCHANGED <<roomVars, session, online, view, channel, reported, used, others>>

\* The clipboard answers, whatever has become of the part since: the link is copied, or else
\* shown in a prompt, which the player may dismiss.
Copied(p) ==
    /\ copying[p]
    /\ copying' = [copying EXCEPT ![p] = FALSE]
    /\ \E outcome \in {"copied", "shown", "idle"} : invite' = [invite EXCEPT ![p] = outcome]
    /\ UNCHANGED <<roomVars, session, online, view, channel, reported, used, others>>

\* A bug: two authors are enough, whoever they are.
CoCreatedByAnyone(p) == Cardinality(view[p]) >= 2

\* hasCoCreated
CoCreated(p) == HasOwn(p) /\ Cardinality(view[p]) >= 2

\* raidCompleteFor
Complete(p) == invite[p] \in {"copied", "confirmed"} /\ CoCreated(p)

\* A bug: a report that could not be sent counts as one.
ReportUnsent(p) ==
    /\ Complete(p) /\ ~reported[p]
    /\ reported' = [reported EXCEPT ![p] = TRUE]
    /\ UNCHANGED <<roomVars, session, online, view, channel, invite, copying, used, others>>

\* The effect that reports a completed run, once per panel: neither a new connection nor a
\* new session makes it report again.
Report(p) ==
    /\ Complete(p) /\ ~reported[p]
    /\ Sends(p, "raid")
    /\ reported' = [reported EXCEPT ![p] = TRUE]
    /\ UNCHANGED <<roomVars, session, online, view, invite, copying, used, others>>

\* The room refuses a second part of a session, and every part when the ship is full.
NoPlace(s) == guard[s].hasModule \/ Cardinality(modules) >= MaxModules

\* The room hears the first message: the part is placed or refused, the run is judged, and a
\* ledger that fails is no reason to judge it again.
Deliver(p) ==
    LET s == session[p] IN
    /\ channel[p] # <<>>
    /\ \/ Head(channel[p]) = "place" /\ PlaceModule(s)
       \/ Head(channel[p]) = "place" /\ NoPlace(s) /\ UNCHANGED roomVars
       \/ Head(channel[p]) = "raid" /\ (RaidComplete(s) \/ RaidRecordFails(s))
       \/ Head(channel[p]) = "raid" /\ ~Verified(s) /\ UNCHANGED roomVars
    /\ channel' = [channel EXCEPT ![p] = Tail(@)]
    /\ UNCHANGED <<session, online, view, invite, copying, reported, used, others>>

RunNext ==
    \/ \E p \in Panel :
        \/ Enter(p) \/ Patch(p) \/ Lose(p) \/ Resume(p) \/ LeaveStreet(p)
        \/ Submit(p) \/ Invite(p) \/ Copied(p) \/ Report(p) \/ Deliver(p)
    \/ OtherJoins
    \/ \E s \in Session : OtherPlays(s)
    \/ RoomGoesOn
    \/ RestartServer

\* React runs the effect of a render, and an open connection delivers.
RunFairness == \A p \in Panel : WF_runVars(Report(p)) /\ WF_runVars(Deliver(p))

RunSpec == RunInit /\ [][RunNext]_runVars /\ RunFairness
-----------------------------------------------------------------------------
\* No panel claims a run the room would refuse: while the report is on its way, its session
\* is there, has its part in the ship, is not the only author and was not counted before,
\* although the panel judges by a view that may be old and the room by what is true.
ClaimsAreTrue ==
    \A p \in Panel : \A i \in DOMAIN channel[p] :
        channel[p][i] = "raid" => Verified(session[p])

\* However many sessions a panel goes through, the foundation grows by one run of it at most.
OneRunPerPanel ==
    \A p \in Panel : Cardinality({i \in DOMAIN log : log[i].by \in used[p]}) <= 1

\* What the panels show and send agrees with what the room holds.
ReportsAreHonest == ClaimsAreTrue /\ OneRunPerPanel

\* A run that completes on the screen is judged by the room, unless the connection breaks
\* before, or a second click on the invite takes it back.
RunsAreJudged ==
    \A p \in Panel :
        Complete(p) /\ ~reported[p] ~>
            ~Complete(p) \/ guard[session[p]].raidCounted
===============================================================================
