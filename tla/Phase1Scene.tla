------------------------------ MODULE Phase1Scene ------------------------------
(* The Phase 1 relay between devices: the wiring of PalaceScene.tsx and the   *)
(* transport of phase1RelayTransport.ts.  Whoever opens an invite may answer  *)
(* with a signed witness, and the witness with a lens; every device learns of *)
(* both from the nostr relays.                                                *)
(*                                                                            *)
(* What makes it hard is that nothing here is one step.  An attempt to sign   *)
(* is a chain of promises that outlives its cancellation and even its scene.  *)
(* Evidence is judged against the state of the last render, so what is        *)
(* dispatched and not yet rendered is invisible to it.  The relays lose,      *)
(* repeat and reorder, and an event is refused once it is old.                *)
(*                                                                            *)
(* The signer and the relays are outside the repository: a signer answers,    *)
(* refuses or never answers; a relay hands out what was published.            *)
EXTENDS Phase1Relay, FiniteSets

CONSTANTS
    Device,        \* scenes, each with a signer key of its own
    Outsider,      \* keys of guests on devices that are not modelled
    Invited,       \* invites made elsewhere at the start, activation ids
    LiveAge,       \* ticks evidence is fresh for (300 s)
    InviteAge,     \* ticks an activation is fresh for (900 s)
    RateWindow,    \* ticks of the rate window (60 s)
    PerKey,        \* authorised events per key and window
    Global,        \* authorised events per window
    DedupMax,      \* event ids a subscription remembers
    MaxTime,       \* bound: the clock
    MaxMoves       \* bound: scenes opened and consents given by a device

ASSUME Phase1Assumption ==
    /\ Device \cap Outsider = {}
    /\ Invited \subseteq [by : Outsider, at : {0}, nth : {0}]
    /\ {LiveAge, InviteAge, RateWindow, PerKey, Global, DedupMax} \subseteq Nat
    /\ MaxTime \in Nat /\ MaxMoves \in Nat \ {0}

VARIABLES
    now,       \* the clock, the same on every device
    invites,   \* activations whose invite link a scene has shown
    relay,     \* evidence the nostr relays hold
    page,      \* the invite in each page's address, or None
    visits,    \* scenes each device has opened: a bound
    state,     \* phase1RelayStateRef: the reducer's state as last rendered
    next,      \* the same with what was dispatched since
    sub,       \* the open subscription, with what its guard authorised, or None
    due,       \* the next render raises the receive epoch
    pulse,     \* pulsePresentationRef.pulse
    shown,     \* signedPulseDelta: the pulse on screen
    ui,        \* inviteState, witnessState, lensState
    flights,   \* attempts with a promise still open
    attempts   \* attempts begun: a bound, and what tells events apart

network == <<now, invites, relay>>
scene == <<state, next, sub, due, pulse, shown>>
signing == <<ui, flights, attempts>>
vars == <<network, page, visits, scene, signing>>

Key == Device \union Outsider

Kind == {"invite", "witness", "lens"}

(* nostr events of kind 9127: an activation is its signer and its moment, the *)
(* evidence names an activation and, if it is a lens, a witness.              *)
ActivationId == [by : Key, at : 0..MaxTime, nth : 0..MaxMoves]

Witness == [act : {"witness"}, by : Key, e : ActivationId, w : {None},
            at : 0..MaxTime, nth : 0..MaxMoves]
Lens == [act : {"lens"}, by : Key, e : ActivationId, w : Witness,
         at : 0..MaxTime, nth : 0..MaxMoves]

(* Authorised evidence, and when.                                             *)
Receipt == [ev : Witness \union Lens, at : 0..MaxTime]
Subscription == [authorised : SUBSET Receipt]

ASSUME NoneAssumption == None \notin Subscription

Evidence(k, key, id, w, n) ==
    [act |-> k, by |-> key, e |-> id, w |-> w, at |-> now, nth |-> n]

Fresh(event, age) == now <= event.at + age

(******************************** Rendering *********************************)

\* A bug: the baseline is not looked at.
DeltaNoBaseline(s, t) ==
    IF t.witness # None THEN t.witness ELSE t.lens

(* diffPhase1AcceptedEvidence against the baseline, which is the evidence of  *)
(* the last render: a lens is told before a witness.                          *)
Delta(s, t) ==
    IF t.lens # None /\ t.lens # s.lens THEN t.lens
    ELSE IF t.witness # None /\ t.witness # s.witness THEN t.witness
    ELSE None

(* advancePhase1PulsePresentation: a new receive epoch is silent.             *)
Advance(d, t) ==
    LET delta == Delta(state[d], t)
    IN  IF due[d] THEN None
        ELSE IF delta # None /\ delta.act = "witness" THEN delta
        ELSE pulse[d]

(* What was dispatched is rendered.  Its effects, in order: the pulse, and a  *)
(* new subscription when the activation is another one, which asks for a new  *)
(* receive epoch.                                                             *)
Render(d) ==
    LET p == Advance(d, next[d])
        reopened == next[d].activation # state[d].activation
    IN  /\ next[d] # state[d] \/ due[d]
        /\ state' = [state EXCEPT ![d] = next[d]]
        /\ pulse' = [pulse EXCEPT ![d] = p]
        /\ shown' = [shown EXCEPT ![d] = IF p # pulse[d] THEN p ELSE @]
        /\ sub' = [sub EXCEPT ![d] = IF reopened THEN [authorised |-> {}] ELSE @]
        /\ due' = [due EXCEPT ![d] = reopened]
        /\ UNCHANGED <<network, page, visits, next, signing>>

Dispatch(d, action) == next' = [next EXCEPT ![d] = Reduce(@, action)]

(* Nine hundred milliseconds later.                                           *)
PulseFades(d) ==
    /\ shown[d] # None
    /\ shown' = [shown EXCEPT ![d] = None]
    /\ UNCHANGED <<network, page, visits, state, next, sub, due, pulse, signing>>

(********************************** Scenes **********************************)

\* A bug: the effect has no cleanup, the subscription outlives the scene.
FreshSceneLeaks(d) ==
    /\ visits[d] + attempts[d] < MaxMoves
    /\ visits' = [visits EXCEPT ![d] = @ + 1]
    /\ state' = [state EXCEPT ![d] = CreateState]
    /\ next' = [next EXCEPT ![d] = CreateState]
    /\ due' = [due EXCEPT ![d] = FALSE]
    /\ pulse' = [pulse EXCEPT ![d] = None]
    /\ shown' = [shown EXCEPT ![d] = None]
    /\ ui' = [ui EXCEPT ![d] = [k \in Kind |-> "idle"]]
    /\ UNCHANGED <<network, sub, attempts>>

FreshScene(d) ==
    /\ visits[d] + attempts[d] < MaxMoves
    /\ visits' = [visits EXCEPT ![d] = @ + 1]
    /\ state' = [state EXCEPT ![d] = CreateState]
    /\ next' = [next EXCEPT ![d] = CreateState]
    /\ sub' = [sub EXCEPT ![d] = None]
    /\ due' = [due EXCEPT ![d] = FALSE]
    /\ pulse' = [pulse EXCEPT ![d] = None]
    /\ shown' = [shown EXCEPT ![d] = None]
    /\ ui' = [ui EXCEPT ![d] = [k \in Kind |-> "idle"]]
    /\ UNCHANGED <<network, attempts>>

(* The scene unmounts and a new one mounts: the reducer starts over, and the  *)
(* promises of the old one go on with tokens nobody will ever take away.      *)
ReenterScene(d) ==
    /\ FreshScene(d)
    /\ flights' = [flights EXCEPT ![d] = {[f EXCEPT !.live = FALSE] : f \in @}]
    /\ UNCHANGED page

(* The page is loaded, from an invite or without one.                         *)
LoadPage(d, invite) ==
    /\ FreshScene(d)
    /\ page' = [page EXCEPT ![d] = invite]
    /\ flights' = [flights EXCEPT ![d] = {}]

(* The effect of entering the street.                                         *)
EnterStreet(d) ==
    /\ page[d] # None
    /\ Fresh(page[d], InviteAge)
    /\ Dispatch(d, [type |-> "activation_imported", fact |-> page[d]])
    /\ next' # next
    /\ UNCHANGED <<network, page, visits, state, sub, due, pulse, shown, signing>>

(************************** Attempts to sign ********************************)

Show(d, k, status) == ui' = [ui EXCEPT ![d][k] = status]

(* What the rest of a promise chain tells the scene, if it is still there.    *)
Tell(d, f, status) ==
    IF f.live THEN Show(d, f.kind, status) ELSE UNCHANGED ui

Drop(d, f) == flights' = [flights EXCEPT ![d] = @ \ {f}]

Advanced(d, f, g) == flights' = [flights EXCEPT ![d] = (@ \ {f}) \union {g}]

(* The token of a kind is one ref: taking it makes every other attempt of     *)
(* this scene stale.                                                          *)
Superseded(d, k) ==
    {IF f.kind = k /\ f.live THEN [f EXCEPT !.current = FALSE] ELSE f :
         f \in flights[d]}

(* When the overlay offers the kind.                                          *)
Offered(d, k) ==
    LET s == state[d]
    IN  /\ s.accepted
        /\ k = "witness" => /\ s.activation # None
                            /\ s.activation.source = "verified-invite-capability"
                            /\ s.witness = None
        /\ k = "lens" => s.witness # None /\ s.lens = None

Consent(d, k) ==
    /\ Offered(d, k)
    /\ k = "invite" \/ ui[d][k] \notin {"signer_pending", "waiting"}
    /\ visits[d] + attempts[d] < MaxMoves
    /\ attempts' = [attempts EXCEPT ![d] = @ + 1]
    /\ LET s == state[d]
           f == [kind |-> k, nth |-> attempts[d] + 1, stage |-> "key",
                 e |-> IF k = "invite" THEN None ELSE s.activation.id,
                 w |-> IF k = "lens" THEN s.witness ELSE None,
                 ev |-> None, current |-> TRUE, live |-> TRUE]
       IN  flights' = [flights EXCEPT ![d] = Superseded(d, k) \union {f}]
    /\ Show(d, k, "signer_pending")
    /\ UNCHANGED <<network, page, visits, scene>>

(* There is no signer in the browser.                                         *)
NoSigner(d, k) ==
    /\ Offered(d, k)
    /\ k = "invite" \/ ui[d][k] \notin {"signer_pending", "waiting"}
    /\ visits[d] + attempts[d] < MaxMoves
    /\ attempts' = [attempts EXCEPT ![d] = @ + 1]
    /\ Show(d, k, "failed")
    /\ UNCHANGED <<network, page, visits, scene, flights>>

Cancel(d, k) ==
    /\ Offered(d, k)
    /\ attempts[d] > 0
    /\ flights' = [flights EXCEPT ![d] = Superseded(d, k)]
    /\ Show(d, k, "cancelled")
    /\ UNCHANGED <<network, page, visits, scene, attempts>>

(* The templates refuse a creator's witness and another key's lens.           *)
Template(d, f) ==
    CASE f.kind = "invite"  -> [by |-> d, at |-> now, nth |-> f.nth]
      [] f.kind = "witness" -> IF f.e.by = d THEN None
                               ELSE Evidence("witness", d, f.e, None, f.nth)
      [] f.kind = "lens"    -> IF f.w.by # d THEN None
                               ELSE Evidence("lens", d, f.e, f.w, f.nth)

(* getPublicKey() answers.                                                    *)
KeyAnswered(d, f) ==
    LET ev == Template(d, f)
    IN  /\ f.stage = "key"
        /\ \/ /\ ~f.current
              /\ Drop(d, f)
              /\ UNCHANGED ui
           \/ /\ f.current /\ ev = None
              /\ Drop(d, f)
              /\ Tell(d, f, "failed")
           \/ /\ f.current /\ ev # None
              /\ Advanced(d, f, [f EXCEPT !.stage = "sign", !.ev = ev])
              /\ UNCHANGED ui
        /\ UNCHANGED <<network, page, visits, scene, attempts>>

Signable(f) ==
    Fresh(f.ev, IF f.kind = "invite" THEN InviteAge ELSE LiveAge)

(* The signer refuses, or its answer comes when the event is no longer fresh: *)
(* that one ends the attempt without a word.                                  *)
SignerFails(d, f) ==
    /\ f.stage = "sign"
    /\ Drop(d, f)
    /\ \/ ~f.current /\ UNCHANGED ui
       \/ f.current /\ Tell(d, f, "failed")
       \/ f.current /\ ~Signable(f) /\ UNCHANGED ui
    /\ UNCHANGED <<network, page, visits, scene, attempts>>

(* An activation is dispatched and its link is shown, whether or not the      *)
(* reducer takes it; it is never published.                                   *)
InviteSigned(d, f) ==
    /\ f.stage = "sign" /\ f.kind = "invite" /\ f.current /\ Signable(f)
    /\ Drop(d, f)
    /\ Tell(d, f, "manual")
    /\ IF f.live
       THEN /\ Dispatch(d, [type |-> "activation_signed", fact |-> f.ev])
            /\ invites' = invites \union {f.ev}
       ELSE UNCHANGED <<next, invites>>
    /\ UNCHANGED <<now, relay, page, visits, state, sub, due, pulse, shown,
                   attempts>>

EvidenceSigned(d, f) ==
    /\ f.stage = "sign" /\ f.kind # "invite" /\ f.current /\ Signable(f)
    /\ Advanced(d, f, [f EXCEPT !.stage = "publish"])
    /\ UNCHANGED <<network, page, visits, scene, ui, attempts>>

(* A relay takes the event being published ...                                *)
ReachRelay(d, f) ==
    /\ f.stage = "publish"
    /\ f.ev \notin relay
    /\ relay' = relay \union {f.ev}
    /\ UNCHANGED <<now, invites, page, visits, scene, signing>>

\* A bug: a publish without any relay counts as acknowledged.
PublishSettledAnyway(d, f, acknowledged) ==
    /\ f.stage = "publish"
    /\ Drop(d, f)
    /\ Tell(d, f, IF ~acknowledged \/ ~f.current THEN "failed" ELSE "waiting")
    /\ UNCHANGED <<network, page, visits, scene, attempts>>

(* ... and acknowledges it in time, or does not.                              *)
PublishSettled(d, f, acknowledged) ==
    /\ f.stage = "publish"
    /\ acknowledged => f.ev \in relay
    /\ Drop(d, f)
    /\ Tell(d, f, IF ~acknowledged \/ ~f.current THEN "failed" ELSE "waiting")
    /\ UNCHANGED <<network, page, visits, scene, attempts>>

(* Someone else with the link does the same on a device of their own.         *)
OutsiderAnswers(k, id) ==
    /\ k # id.by
    /\ \A e \in relay : e.by # k
    /\ relay' = relay \union {Evidence("witness", k, id, None, 1)}
    /\ UNCHANGED <<now, invites, page, visits, scene, signing>>

OutsiderAddsLens(w) ==
    /\ w.act = "witness" /\ w.by \in Outsider
    /\ \A e \in relay : e.by = w.by => e = w
    /\ relay' = relay \union {Evidence("lens", w.by, w.e, w, 1)}
    /\ UNCHANGED <<now, invites, page, visits, scene, signing>>

(******************************** Receiving *********************************)

Binding(s, e) ==
    /\ e.e = s.activation.id
    /\ \/ /\ e.act = "witness"
          /\ s.witness = None
          /\ e.by # s.activation.id.by
       \/ /\ e.act = "lens"
          /\ s.witness # None
          /\ s.lens = None
          /\ e.by = s.witness.by
          /\ e.w = s.witness

\* A bug: one event too few.
CanAcceptTooFew(guard, e) ==
    LET recent == {r \in guard : now <= r.at + RateWindow}
    IN  /\ \A r \in guard : r.ev # e
        /\ Cardinality(guard) < DedupMax
        /\ Cardinality({r \in recent : r.ev.by = e.by}) + 1 < PerKey
        /\ Cardinality(recent) < Global

(* Phase1RelayEvidenceGuard: what it authorised, and when.                    *)
CanAccept(guard, e) ==
    LET recent == {r \in guard : now <= r.at + RateWindow}
    IN  /\ \A r \in guard : r.ev # e
        /\ Cardinality(guard) < DedupMax
        /\ Cardinality({r \in recent : r.ev.by = e.by}) < PerKey
        /\ Cardinality(recent) < Global

DeltaType(e) ==
    IF e.act = "witness" THEN "accepted_witness_delta" ELSE "accepted_lens_delta"

(* An event from a relay, judged against the last render.                     *)
Receive(d, e) ==
    /\ sub[d] # None
    /\ e \in relay
    /\ Fresh(e, LiveAge)
    /\ Binding(state[d], e)
    /\ CanAccept(sub[d].authorised, e)
    /\ sub' = [sub EXCEPT ![d].authorised = @ \union {[ev |-> e, at |-> now]}]
    /\ Dispatch(d, [type |-> DeltaType(e), fact |-> e])
    /\ UNCHANGED <<network, page, visits, state, due, pulse, shown, signing>>

Tick ==
    /\ now < MaxTime
    /\ now' = now + 1
    /\ UNCHANGED <<invites, relay, page, visits, scene, signing>>

Init ==
    /\ now = 0 /\ invites = Invited /\ relay = {}
    /\ page \in [Device -> {None} \union Invited]
    /\ visits = [d \in Device |-> 1]
    /\ state = [d \in Device |-> CreateState]
    /\ next = state
    /\ sub = [d \in Device |-> None]
    /\ due = [d \in Device |-> FALSE]
    /\ pulse = [d \in Device |-> None]
    /\ shown = [d \in Device |-> None]
    /\ ui = [d \in Device |-> [k \in Kind |-> "idle"]]
    /\ flights = [d \in Device |-> {}]
    /\ attempts = [d \in Device |-> 0]

Next ==
    \/ Tick
    \/ \E k \in Outsider, id \in Invited : OutsiderAnswers(k, id)
    \/ \E w \in relay : OutsiderAddsLens(w)
    \/ \E d \in Device :
          \/ Render(d) \/ PulseFades(d)
          \/ ReenterScene(d) \/ EnterStreet(d)
          \/ \E invite \in invites : LoadPage(d, invite)
          \/ \E k \in Kind : Consent(d, k) \/ NoSigner(d, k) \/ Cancel(d, k)
          \/ \E f \in flights[d] :
                \/ KeyAnswered(d, f) \/ SignerFails(d, f)
                \/ InviteSigned(d, f) \/ EvidenceSigned(d, f)
                \/ ReachRelay(d, f)
                \/ \E ack \in BOOLEAN : PublishSettled(d, f, ack)
          \/ \E e \in relay : Receive(d, e)

(* React renders what is dispatched, and a subscription hands out what its    *)
(* relays hold.                                                               *)
Fairness ==
    \A d \in Device :
        /\ WF_vars(Render(d))
        /\ WF_vars(\E e \in relay : Receive(d, e))

Spec == Init /\ [][Next]_vars /\ Fairness

(******************************** Properties ********************************)

RelayState ==
    [accepted : BOOLEAN,
     activation : {None} \union
         [id : ActivationId, source : {"verified-invite-capability",
                                       "local-signed-activation"}],
     creator : {None} \union Key,
     witness : {None} \union relay,
     lens : {None} \union relay]

(* Type invariant of the devices; each subscribes exactly while it renders an *)
(* activation.                                                                *)
TypeOK ==
    /\ now \in 0..MaxTime
    /\ invites \subseteq ActivationId
    /\ relay \subseteq Witness \union Lens
    /\ page \in [Device -> {None} \union invites]
    /\ visits \in [Device -> 1..MaxMoves]
    /\ state \in [Device -> RelayState]
    /\ next \in [Device -> RelayState]
    /\ sub \in [Device -> {None} \union Subscription]
    /\ \A d \in Device : (sub[d] # None) = (state[d].activation # None)
    /\ due \in [Device -> BOOLEAN]
    /\ shown \in [Device -> {None} \union relay]
    /\ ui \in [Device -> [Kind -> {"idle", "signer_pending", "manual",
                                   "waiting", "failed", "cancelled"}]]
    /\ attempts \in [Device -> 0..MaxMoves]

(* Whatever order the relays use and however stale the state it was judged    *)
(* by, the evidence a device holds is evidence a relay gave it, bound to the  *)
(* activation it holds: the witness is not the creator, and the lens is the   *)
(* same guest's and sits on that very witness.                                *)
EvidenceIsBound ==
    \A d \in Device :
        LET s == next[d]
        IN  /\ s.witness # None =>
                 /\ s.witness \in relay /\ s.witness.act = "witness"
                 /\ s.activation # None
                 /\ s.witness.e = s.activation.id
                 /\ s.witness.by # s.activation.id.by
            /\ s.lens # None =>
                 /\ s.lens \in relay /\ s.lens.act = "lens"
                 /\ s.witness # None
                 /\ s.lens.e = s.activation.id
                 /\ s.lens.by = s.witness.by
                 /\ s.lens.w = s.witness

(* "Waiting for relay-backed confirmation" is only said where a relay holds   *)
(* an answer of this device, also after attempts overlapped.                  *)
WaitingMeansSent ==
    \A d \in Device : \A k \in {"witness", "lens"} :
        ui[d][k] = "waiting" => \E e \in relay : e.by = d /\ e.act = k

(* What a device holds and what it says it waits for is what a relay has.     *)
EvidenceIsSound == EvidenceIsBound /\ WaitingMeansSent

(* While a scene stands, the first activation, the first witness and the      *)
(* first lens are the ones it keeps, its creator is never renamed and a relay *)
(* that stands does not fall, whatever is imported, signed or received later. *)
AnswersStand ==
    [][\A d \in Device :
          LET s == next[d] t == next'[d]
          IN  visits'[d] = visits[d] =>
                 /\ s.accepted => t.accepted
                 /\ s.activation # None => t.activation = s.activation
                 /\ s.creator # None => t.creator = s.creator
                 /\ s.witness # None => t.witness = s.witness
                 /\ s.lens # None => t.lens = s.lens]_vars

(* While a scene stands, a pulse starts in the render that first has its      *)
(* witness and in no other: a lens, a duplicate or a new receive epoch does   *)
(* not start it again. A scene entered afresh holds no witness yet;           *)
(* ReplayedPulse shows what it makes of an old one.                           *)
PulseIsNews ==
    [][\A d \in Device :
          shown'[d] # shown[d] /\ shown'[d] # None =>
              /\ state[d].witness = None
              /\ state'[d].witness = shown'[d]]_vars

(* What a scene was told stays answered, and is announced once by it.         *)
NewsStands == AnswersStand /\ PulseIsNews

(* A fresh witness for the activation a device holds is not lost between the  *)
(* guard, which never lets an id through twice, and the reducer, which may    *)
(* refuse what the guard let through: some witness comes to stand there, or   *)
(* the event grows old or the scene is left first.                            *)
Unanswered(d) ==
    /\ state[d].activation # None /\ state[d].witness = None
    /\ \E e \in relay :
          /\ e.act = "witness" /\ e.e = state[d].activation.id
          /\ e.by # state[d].activation.id.by
          /\ Fresh(e, LiveAge)

WitnessArrives == \A d \in Device : Unanswered(d) ~> ~Unanswered(d)

================================================================================
