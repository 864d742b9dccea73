--------------------------- MODULE Phase1SceneProofs ---------------------------
(* What holds of the Phase 1 relay for every number of devices, outsiders,    *)
(* attempts and ticks: evidence is bound, and what was answered stands.       *)
EXTENDS Phase1Scene, TLAPS

(***************************** The invariant ********************************)

(* States of the reducer when the relays hold the events of R.                *)
StateIn(R) ==
    [accepted : BOOLEAN,
     activation : {None} \union
         [id : ActivationId, source : {"verified-invite-capability",
                                       "local-signed-activation"}],
     creator : {None} \union Key,
     witness : {None} \union R,
     lens : {None} \union R]

(* The evidence a reducer's state holds is bound to its activation.           *)
BoundIn(R, s) ==
    /\ s.witness # None =>
         /\ s.witness \in R /\ s.witness.act = "witness"
         /\ s.activation # None
         /\ s.witness.e = s.activation.id
         /\ s.witness.by # s.activation.id.by
    /\ s.lens # None =>
         /\ s.lens \in R /\ s.lens.act = "lens"
         /\ s.witness # None
         /\ s.lens.e = s.activation.id
         /\ s.lens.by = s.witness.by
         /\ s.lens.w = s.witness

(* t is a state of the reducer that may come after s in the same scene.       *)
Keeps(s, t) ==
    /\ s.accepted => t.accepted
    /\ s.activation # None => t.activation = s.activation
    /\ s.creator # None => t.creator = s.creator
    /\ s.witness # None => t.witness = s.witness
    /\ s.lens # None => t.lens = s.lens

(* What is dispatched and not yet rendered builds on what was rendered.       *)
ReducerInv ==
    \A d \in Device :
        /\ BoundIn(relay, state[d]) /\ BoundIn(relay, next[d])
        /\ Keeps(state[d], next[d])

Flight == [kind : Kind, nth : 1..MaxMoves, stage : {"key", "sign", "publish"},
           e : {None} \union ActivationId, w : {None} \union Witness,
           ev : {None} \union ActivationId \union Witness \union Lens,
           current : BOOLEAN, live : BOOLEAN]

(* An attempt signs what it was begun for, with its device's key.             *)
SignsItsOwn(d, f) ==
    /\ f \in Flight
    /\ f.kind # "invite" => f.e \in ActivationId
    /\ f.kind = "lens" => f.w \in Witness
    /\ f.stage # "key" =>
         /\ f.ev.by = d
         /\ f.kind = "invite" => f.ev \in ActivationId /\ f.ev.nth = f.nth
         /\ f.kind # "invite" => f.ev \in Witness \union Lens /\ f.ev.act = f.kind
    /\ f.stage = "publish" => f.kind # "invite"

(* Attempts are numbered once for all scenes of a device, so that an          *)
(* activation still to be signed is none that is known already.               *)
NumbersInv ==
    /\ flights \in [Device -> SUBSET Flight]
    /\ \A d \in Device :
         /\ \A f \in flights[d] : SignsItsOwn(d, f) /\ f.nth <= attempts[d]
         /\ \A f, g \in flights[d] : f.nth = g.nth => f = g
         /\ \A id \in invites : id.by = d => id.nth <= attempts[d]

(* An activation that is known on a device, from its address or its reducer.  *)
Known(d, id) ==
    \/ page[d] # None /\ page[d] = id
    \/ next[d].activation # None /\ next[d].activation.id = id

OriginsInv ==
    \A d \in Device :
        /\ \A id \in ActivationId : Known(d, id) /\ id.by = d =>
             /\ id.nth <= attempts[d]
             /\ \A f \in flights[d] : f.nth # id.nth
        /\ page[d] # None /\ next[d].activation # None /\ next[d].activation.id = page[d] =>
             next[d].activation.source = "verified-invite-capability"

SceneInv ==
    /\ TypeOK
    /\ ReducerInv
    /\ WaitingMeansSent
    /\ NumbersInv
    /\ OriginsInv

(****************************** The reducer *********************************)

LEMMA KeepsReflexive == ASSUME NEW s PROVE Keeps(s, s)
BY DEF Keeps

LEMMA KeepsTransitive ==
    ASSUME NEW s, NEW t, NEW u, Keeps(s, t), Keeps(t, u)
    PROVE  Keeps(s, u)
BY DEF Keeps

LEMMA RelaysGrow ==
    ASSUME NEW R, NEW S, R \subseteq S
    PROVE  /\ StateIn(R) \subseteq StateIn(S)
           /\ \A s : BoundIn(R, s) => BoundIn(S, s)
BY DEF StateIn, BoundIn

LEMMA RelayStates == RelayState = StateIn(relay) /\ RelayState' = StateIn(relay')
BY DEF RelayState, StateIn

LEMMA FreshReducer == ASSUME NEW R PROVE CreateState \in StateIn(R) /\ BoundIn(R, CreateState)
BY DEF CreateState, StateIn, BoundIn

(* Holding an activation, where none or the very same one is held.            *)
LEMMA HoldKeeps ==
    ASSUME NEW R, NEW s \in StateIn(R), BoundIn(R, s), NEW id \in ActivationId,
           NEW source \in {"verified-invite-capability", "local-signed-activation"},
           s.activation # None => s.activation = [id |-> id, source |-> source]
    PROVE  LET t == Hold(s, id, source)
           IN  /\ t \in StateIn(R) /\ BoundIn(R, t) /\ Keeps(s, t)
               /\ t.activation = [id |-> id, source |-> source]
               /\ t.accepted = s.accepted
<1> DEFINE t == Hold(s, id, source)
           a == [id |-> id, source |-> source]
<1>1. a \in [id : ActivationId, source : {"verified-invite-capability",
                                          "local-signed-activation"}]
  OBVIOUS
<1>2. id.by \in Key
  BY DEF ActivationId
<1> HIDE DEF a
<1>3. t = [s EXCEPT !.activation = a, !.creator = IF @ = None THEN id.by ELSE @]
  BY DEF Hold, a
<1>4. /\ t.activation = a /\ t.witness = s.witness /\ t.lens = s.lens /\ t.accepted = s.accepted
      /\ t.creator = IF s.creator = None THEN id.by ELSE s.creator
  BY <1>3 DEF StateIn
<1>5. t \in StateIn(R)
  BY <1>1, <1>2, <1>3 DEF StateIn
<1>6. BoundIn(R, t) /\ Keeps(s, t)
  <2> HIDE DEF t
  <2> QED
    BY <1>4 DEF BoundIn, Keeps, a
<1> QED
  BY <1>4, <1>5, <1>6 DEF a

LEMMA ImportKeeps ==
    ASSUME NEW R, NEW s \in StateIn(R), BoundIn(R, s), NEW id \in ActivationId,
           s.activation # None /\ s.activation.id = id =>
               s.activation.source = "verified-invite-capability"
    PROVE  LET t == Reduce(s, [type |-> "activation_imported", fact |-> id])
           IN  /\ t \in StateIn(R) /\ BoundIn(R, t) /\ Keeps(s, t)
               /\ \/ t.activation = s.activation
                  \/ t.activation = [id |-> id, source |-> "verified-invite-capability"]
<1> DEFINE t == ImportActivation(s, id)
           h == Hold(s, id, "verified-invite-capability")
<1>1. Reduce(s, [type |-> "activation_imported", fact |-> id]) = t
  BY DEF Reduce
<1>2. CASE ~MayHold(s, id)
  <2>1. t = s
    BY <1>2 DEF ImportActivation
  <2> QED
    BY <1>1, <2>1, KeepsReflexive
<1>3. CASE MayHold(s, id)
  <2>1. t = [h EXCEPT !.accepted = TRUE]
    BY <1>3 DEF ImportActivation
  <2>2. s.activation # None =>
            s.activation = [id |-> id, source |-> "verified-invite-capability"]
    BY <1>3 DEF MayHold, StateIn
  <2>3. /\ h \in StateIn(R) /\ BoundIn(R, h) /\ Keeps(s, h)
        /\ h.activation = [id |-> id, source |-> "verified-invite-capability"]
    BY <2>2, HoldKeeps
  <2> HIDE DEF h
  <2>4. /\ t \in StateIn(R) /\ t.accepted = TRUE /\ t.activation = h.activation
        /\ t.creator = h.creator /\ t.witness = h.witness /\ t.lens = h.lens
    BY <2>1, <2>3 DEF StateIn
  <2> HIDE DEF t
  <2>5. BoundIn(R, t) /\ Keeps(s, t)
    BY <2>3, <2>4 DEF BoundIn, Keeps
  <2> QED
    BY <1>1, <2>3, <2>4, <2>5
<1> QED
  BY <1>2, <1>3

LEMMA LocalKeeps ==
    ASSUME NEW R, NEW s \in StateIn(R), BoundIn(R, s), NEW id \in ActivationId,
           s.activation # None => s.activation.id # id
    PROVE  LET t == Reduce(s, [type |-> "activation_signed", fact |-> id])
           IN  /\ t \in StateIn(R) /\ BoundIn(R, t) /\ Keeps(s, t)
               /\ \/ t.activation = s.activation
                  \/ t.activation = [id |-> id, source |-> "local-signed-activation"]
<1> DEFINE t == AcceptLocalActivation(s, id)
           h == Hold(s, id, "local-signed-activation")
<1>1. Reduce(s, [type |-> "activation_signed", fact |-> id]) = t
  BY DEF Reduce
<1>2. CASE ~(s.accepted /\ MayHold(s, id))
  <2>1. t = s
    BY <1>2 DEF AcceptLocalActivation
  <2> QED
    BY <1>1, <2>1, KeepsReflexive
<1>3. CASE s.accepted /\ MayHold(s, id)
  <2>1. t = h
    BY <1>3 DEF AcceptLocalActivation
  <2>2. s.activation = None
    BY <1>3 DEF MayHold
  <2>3. /\ h \in StateIn(R) /\ BoundIn(R, h) /\ Keeps(s, h)
        /\ h.activation = [id |-> id, source |-> "local-signed-activation"]
    BY <2>2, HoldKeeps
  <2> QED
    BY <1>1, <2>1, <2>3
<1> QED
  BY <1>2, <1>3

LEMMA EvidenceKeeps ==
    ASSUME NEW R, NEW s \in StateIn(R), BoundIn(R, s), NEW e \in R,
           e.act \in {"witness", "lens"},
           s.activation # None => e.e = s.activation.id
    PROVE  LET t == Reduce(s, [type |-> DeltaType(e), fact |-> e])
           IN  /\ t \in StateIn(R) /\ BoundIn(R, t) /\ Keeps(s, t)
               /\ t.activation = s.activation
<1> DEFINE u == Reduce(s, [type |-> DeltaType(e), fact |-> e])
<1>1. CASE e.act = "witness"
  <2>1. u = AcceptWitness(s, e)
    BY <1>1 DEF Reduce, DeltaType
  <2>2. CASE u = s
    BY <2>2, KeepsReflexive
  <2>3. CASE s.activation # None /\ s.witness = None /\ e.by # s.activation.id.by
    <3>1. u = [s EXCEPT !.witness = e]
      BY <2>1, <2>3 DEF AcceptWitness
    <3> HIDE DEF u
    <3>2. /\ u \in StateIn(R) /\ u.accepted = s.accepted /\ u.activation = s.activation
          /\ u.creator = s.creator /\ u.witness = e /\ u.lens = s.lens
      BY <3>1 DEF StateIn
    <3>3. BoundIn(R, u) /\ Keeps(s, u)
      BY <1>1, <2>3, <3>2 DEF BoundIn, Keeps
    <3> QED
      BY <3>2, <3>3 DEF u
  <2> QED
    BY <2>1, <2>2, <2>3 DEF AcceptWitness
<1>2. CASE e.act = "lens"
  <2>1. u = AcceptLens(s, e)
    BY <1>2 DEF Reduce, DeltaType
  <2>2. CASE u = s
    BY <2>2, KeepsReflexive
  <2>3. CASE /\ s.activation # None /\ s.witness # None /\ s.lens = None
             /\ e.w = s.witness /\ e.by = s.witness.by
    <3>1. u = [s EXCEPT !.lens = e]
      BY <2>1, <2>3 DEF AcceptLens
    <3> HIDE DEF u
    <3>2. /\ u \in StateIn(R) /\ u.accepted = s.accepted /\ u.activation = s.activation
          /\ u.creator = s.creator /\ u.witness = s.witness /\ u.lens = e
      BY <3>1 DEF StateIn
    <3>3. BoundIn(R, u) /\ Keeps(s, u)
      BY <1>2, <2>3, <3>2 DEF BoundIn, Keeps
    <3> QED
      BY <3>2, <3>3 DEF u
  <2> QED
    BY <2>1, <2>2, <2>3 DEF AcceptLens
<1> QED
  BY <1>1, <1>2

(*************************** The invariant, by part *************************)

Status == {"idle", "signer_pending", "manual", "waiting", "failed", "cancelled"}

(* The steps NewsStands allows.                                               *)
AnswersStep ==
    \A d \in Device : visits'[d] = visits[d] => Keeps(next[d], next'[d])

PulseStep ==
    \A d \in Device :
        shown'[d] # shown[d] /\ shown'[d] # None =>
            /\ state[d].witness = None
            /\ state'[d].witness = shown'[d]

LEMMA TypedParts ==
    ASSUME TypeOK
    PROVE  /\ now \in 0..MaxTime /\ invites \subseteq ActivationId
           /\ relay \subseteq Witness \union Lens
           /\ page \in [Device -> {None} \union invites] /\ visits \in [Device -> 1..MaxMoves]
           /\ state \in [Device -> StateIn(relay)] /\ next \in [Device -> StateIn(relay)]
           /\ sub \in [Device -> {None} \union Subscription]
           /\ \A d \in Device : (sub[d] # None) = (state[d].activation # None)
           /\ due \in [Device -> BOOLEAN] /\ shown \in [Device -> {None} \union relay]
           /\ ui \in [Device -> [Kind -> Status]] /\ attempts \in [Device -> 0..MaxMoves]
BY RelayStates DEF TypeOK, Status

LEMMA PartsTyped ==
    ASSUME now' \in 0..MaxTime, invites' \subseteq ActivationId,
           relay' \subseteq Witness \union Lens,
           page' \in [Device -> {None} \union invites'], visits' \in [Device -> 1..MaxMoves],
           state' \in [Device -> StateIn(relay')], next' \in [Device -> StateIn(relay')],
           sub' \in [Device -> {None} \union Subscription],
           \A d \in Device : (sub'[d] # None) = (state'[d].activation # None),
           due' \in [Device -> BOOLEAN], shown' \in [Device -> {None} \union relay'],
           ui' \in [Device -> [Kind -> Status]], attempts' \in [Device -> 0..MaxMoves]
    PROVE  TypeOK'
BY RelayStates DEF TypeOK, Status

(* The relays learn something, or time passes.                                *)
LEMMA NetworkStep ==
    ASSUME SceneInv, now' \in 0..MaxTime, relay \subseteq relay',
           relay' \subseteq Witness \union Lens, UNCHANGED <<invites, page, visits, scene, signing>>
    PROVE  SceneInv' /\ AnswersStep /\ PulseStep
<1>1. /\ TypeOK /\ ReducerInv /\ WaitingMeansSent /\ NumbersInv /\ OriginsInv
      /\ UNCHANGED <<invites, page, visits, state, next, sub, due, shown, ui, flights, attempts>>
  BY DEF SceneInv, scene, signing
<1>2. TypeOK'
  <2>1. StateIn(relay) \subseteq StateIn(relay')
    BY RelaysGrow
  <2>2. state' \in [Device -> StateIn(relay')] /\ next' \in [Device -> StateIn(relay')]
        /\ shown' \in [Device -> {None} \union relay']
    BY <1>1, <2>1, TypedParts
  <2> QED
    BY <1>1, <2>2, TypedParts, PartsTyped
<1>3. ReducerInv'
  BY <1>1, RelaysGrow DEF ReducerInv
<1>4. WaitingMeansSent'
  BY <1>1 DEF WaitingMeansSent
<1>5. NumbersInv' /\ OriginsInv'
  BY <1>1 DEF NumbersInv, OriginsInv, Known
<1>6. AnswersStep /\ PulseStep
  BY <1>1, KeepsReflexive DEF AnswersStep, PulseStep
<1> QED
  BY <1>2, <1>3, <1>4, <1>5, <1>6 DEF SceneInv

(* The signing of a device goes on, its scene stays as it is.                 *)
LEMMA SigningStep ==
    ASSUME SceneInv, UNCHANGED <<network, page, visits, scene>>,
           ui' \in [Device -> [Kind -> Status]], attempts' \in [Device -> 0..MaxMoves],
           \A d \in Device : attempts[d] <= attempts'[d],
           WaitingMeansSent', flights' \in [Device -> SUBSET Flight],
           \A d \in Device : \A f \in flights'[d] :
               /\ SignsItsOwn(d, f) /\ f.nth <= attempts'[d]
               /\ f.nth > attempts[d] \/ \E g \in flights[d] : g.nth = f.nth,
           \A d \in Device : \A f, g \in flights'[d] : f.nth = g.nth => f = g
    PROVE  SceneInv' /\ AnswersStep /\ PulseStep
<1>1. /\ TypeOK /\ ReducerInv /\ NumbersInv /\ OriginsInv
      /\ UNCHANGED <<now, invites, relay, page, visits, state, next, sub, due, shown>>
  BY DEF SceneInv, scene, network
<1>2. TypeOK'
  BY <1>1, TypedParts, PartsTyped
<1>3. ReducerInv'
  BY <1>1 DEF ReducerInv
<1>4. attempts \in [Device -> 0..MaxMoves] /\ invites \subseteq ActivationId
  BY <1>1, TypedParts
<1>5. ASSUME NEW d \in Device, NEW id \in ActivationId, id.nth <= attempts[d]
      PROVE  id.nth <= attempts'[d]
  <2>1. id.nth \in Nat /\ attempts[d] \in Nat /\ attempts'[d] \in Nat
    BY <1>4 DEF ActivationId
  <2> QED
    BY <1>5, <2>1
<1>6. NumbersInv'
  BY <1>1, <1>4, <1>5 DEF NumbersInv
<1>7. OriginsInv'
  <2>1. ASSUME NEW d \in Device, NEW id \in ActivationId, Known(d, id)', id.by = d
        PROVE  /\ id.nth <= attempts'[d]
               /\ \A f \in flights'[d] : f.nth # id.nth
    <3>1. Known(d, id)
      BY <1>1, <2>1 DEF Known
    <3>2. id.nth <= attempts[d] /\ \A f \in flights[d] : f.nth # id.nth
      BY <1>1, <2>1, <3>1 DEF OriginsInv
    <3>3. id.nth \in Nat /\ attempts[d] \in Nat
      BY <1>4 DEF ActivationId
    <3> QED
      BY <1>5, <3>2, <3>3
  <2> QED
    BY <1>1, <2>1 DEF OriginsInv
<1>8. AnswersStep /\ PulseStep
  BY <1>1, KeepsReflexive DEF AnswersStep, PulseStep
<1> QED
  BY <1>2, <1>3, <1>6, <1>7, <1>8 DEF SceneInv

(* What a scene is shown about a kind of attempt.                             *)
LEMMA ShowFacts ==
    ASSUME TypeOK, WaitingMeansSent, relay \subseteq relay', NEW d \in Device, NEW k \in Kind,
           NEW status \in Status, Show(d, k, status) \/ UNCHANGED ui,
           status = "waiting" /\ k # "invite" => \E e \in relay : e.by = d /\ e.act = k
    PROVE  ui' \in [Device -> [Kind -> Status]] /\ WaitingMeansSent'
<1>1. ui \in [Device -> [Kind -> Status]]
  BY TypedParts
<1>2. CASE UNCHANGED ui
  BY <1>1, <1>2 DEF WaitingMeansSent
<1>3. CASE Show(d, k, status)
  <2>1. ui' = [ui EXCEPT ![d] = [ui[d] EXCEPT ![k] = status]]
    BY <1>3 DEF Show
  <2>2. [ui[d] EXCEPT ![k] = status] \in [Kind -> Status]
    BY <1>1
  <2>3. ui' \in [Device -> [Kind -> Status]]
    BY <1>1, <2>1, <2>2
  <2>4. \A c \in Device : \A j \in Kind :
            ui'[c][j] = ui[c][j] \/ (c = d /\ j = k /\ ui'[c][j] = status)
    BY <1>1, <2>1
  <2>5. {"witness", "lens"} \subseteq Kind
    BY DEF Kind
  <2>6. ASSUME NEW c \in Device, NEW j \in {"witness", "lens"}, ui'[c][j] = "waiting"
        PROVE  \E e \in relay' : e.by = c /\ e.act = j
    <3>1. CASE ui[c][j] = "waiting"
      BY <3>1 DEF WaitingMeansSent
    <3>2. CASE ui[c][j] # "waiting"
      BY <2>4, <2>5, <2>6, <3>2
    <3> QED
      BY <3>1, <3>2
  <2> QED
    BY <2>3, <2>6 DEF WaitingMeansSent
<1> QED
  BY <1>2, <1>3

(***************************** Attempts to sign *****************************)

(* The attempts of one device change, without a new one.                      *)
LEMMA FlightsStep ==
    ASSUME SceneInv, UNCHANGED <<network, page, visits, scene, attempts>>, NEW d \in Device,
           NEW F, flights' = [flights EXCEPT ![d] = F],
           \A f \in F : SignsItsOwn(d, f) /\ \E g \in flights[d] : g.nth = f.nth,
           \A f, g \in F : f.nth = g.nth => f = g,
           NEW k \in Kind, NEW status \in Status, Show(d, k, status) \/ UNCHANGED ui,
           status = "waiting" /\ k # "invite" => \E e \in relay : e.by = d /\ e.act = k
    PROVE  SceneInv' /\ AnswersStep /\ PulseStep
<1>1. TypeOK /\ NumbersInv /\ WaitingMeansSent /\ relay \subseteq relay'
  BY DEF SceneInv, network
<1>2. ui' \in [Device -> [Kind -> Status]] /\ WaitingMeansSent'
  BY <1>1, ShowFacts
<1>3. F \subseteq Flight /\ flights \in [Device -> SUBSET Flight]
  BY <1>1 DEF SignsItsOwn, NumbersInv
<1>4. flights' \in [Device -> SUBSET Flight] /\ flights'[d] = F
      /\ \A c \in Device \ {d} : flights'[c] = flights[c]
  BY <1>3
<1>5. attempts' \in [Device -> 0..MaxMoves] /\ \A c \in Device : attempts[c] <= attempts'[c]
  BY <1>1, TypedParts
<1>6. ASSUME NEW c \in Device, NEW f \in flights'[c]
      PROVE  /\ SignsItsOwn(c, f) /\ f.nth <= attempts'[c]
             /\ \E g \in flights[c] : g.nth = f.nth
  <2>1. CASE c = d
    BY <1>1, <1>4, <1>6, <2>1 DEF NumbersInv
  <2>2. CASE c # d
    BY <1>1, <1>4, <1>6, <2>2 DEF NumbersInv
  <2> QED
    BY <2>1, <2>2
<1>7. ASSUME NEW c \in Device, NEW f \in flights'[c], NEW g \in flights'[c], f.nth = g.nth
      PROVE  f = g
  BY <1>1, <1>4, <1>7 DEF NumbersInv
<1>8. UNCHANGED <<network, page, visits, scene>>
  OBVIOUS
<1> QED
  BY <1>2, <1>4, <1>5, <1>6, <1>7, <1>8, SigningStep

LEMMA Outdated ==
    ASSUME NEW d, NEW f, SignsItsOwn(d, f)
    PROVE  /\ SignsItsOwn(d, [f EXCEPT !.current = FALSE])
           /\ [f EXCEPT !.current = FALSE].nth = f.nth
           /\ SignsItsOwn(d, [f EXCEPT !.live = FALSE])
           /\ [f EXCEPT !.live = FALSE].nth = f.nth
<1>1. f \in Flight
  BY DEF SignsItsOwn
<1>2. ASSUME NEW g \in {[f EXCEPT !.current = FALSE], [f EXCEPT !.live = FALSE]}
      PROVE  SignsItsOwn(d, g) /\ g.nth = f.nth
  <2>1. /\ g \in Flight /\ g.kind = f.kind /\ g.nth = f.nth /\ g.stage = f.stage
        /\ g.e = f.e /\ g.w = f.w /\ g.ev = f.ev
    BY <1>1, <1>2 DEF Flight
  <2> QED
    BY <2>1 DEF SignsItsOwn
<1> QED
  BY <1>2

(* Taking the token of a kind drops no attempt and begins none.               *)
LEMMA SupersededFacts ==
    ASSUME NumbersInv, NEW d \in Device, NEW k
    PROVE  /\ \A f \in Superseded(d, k) : SignsItsOwn(d, f) /\ \E g \in flights[d] : g.nth = f.nth
           /\ \A f, g \in Superseded(d, k) : f.nth = g.nth => f = g
<1> DEFINE Out(f) == IF f.kind = k /\ f.live THEN [f EXCEPT !.current = FALSE] ELSE f
<1>1. Superseded(d, k) = {Out(f) : f \in flights[d]}
  BY DEF Superseded
<1>2. \A f \in flights[d] : SignsItsOwn(d, Out(f)) /\ Out(f).nth = f.nth
  BY Outdated DEF NumbersInv
<1> HIDE DEF Out
<1> QED
  BY <1>1, <1>2 DEF NumbersInv

LEMMA ConsentStep ==
    ASSUME SceneInv, NEW d \in Device, NEW k \in Kind, Consent(d, k)
    PROVE  SceneInv' /\ AnswersStep /\ PulseStep
<1> DEFINE s == state[d]
           f == [kind |-> k, nth |-> attempts[d] + 1, stage |-> "key",
                 e |-> IF k = "invite" THEN None ELSE s.activation.id,
                 w |-> IF k = "lens" THEN s.witness ELSE None,
                 ev |-> None, current |-> TRUE, live |-> TRUE]
<1>1. /\ TypeOK /\ ReducerInv /\ NumbersInv /\ WaitingMeansSent /\ relay \subseteq relay'
      /\ visits[d] + attempts[d] < MaxMoves /\ attempts' = [attempts EXCEPT ![d] = @ + 1]
      /\ flights' = [flights EXCEPT ![d] = Superseded(d, k) \union {f}]
      /\ Show(d, k, "signer_pending") /\ UNCHANGED <<network, page, visits, scene>>
      /\ Offered(d, k)
  BY DEF SceneInv, Consent, network
<1>2. /\ visits[d] \in 1..MaxMoves /\ attempts \in [Device -> 0..MaxMoves] /\ MaxMoves \in Nat
      /\ s \in StateIn(relay) /\ BoundIn(relay, s) /\ relay \subseteq Witness \union Lens
      /\ flights \in [Device -> SUBSET Flight]
  BY <1>1, TypedParts, Phase1Assumption DEF ReducerInv, NumbersInv
<1>3. attempts[d] + 1 \in 1..MaxMoves /\ attempts'[d] = attempts[d] + 1
      /\ attempts' \in [Device -> 0..MaxMoves]
      /\ \A c \in Device \ {d} : attempts'[c] = attempts[c]
  BY <1>1, <1>2
<1>4. /\ k # "invite" => s.activation # None /\ s.activation.id \in ActivationId
      /\ k = "lens" => s.witness \in Witness
  <2>1. k = "lens" => s.witness # None
    BY <1>1 DEF Offered
  <2>2. k # "invite" => s.activation # None
    BY <1>1, <1>2, <2>1 DEF Offered, BoundIn, Kind
  <2>3. ASSUME s.witness # None PROVE s.witness \in Witness
    BY <1>2, <2>3 DEF BoundIn, Witness, Lens
  <2> QED
    BY <1>2, <2>1, <2>2, <2>3 DEF StateIn
<1> HIDE DEF s
<1>5. f \in Flight
  BY <1>3, <1>4 DEF Flight
<1>6. SignsItsOwn(d, f) /\ f.nth = attempts[d] + 1
  BY <1>4, <1>5 DEF SignsItsOwn
<1> HIDE DEF f
<1>7. ui' \in [Device -> [Kind -> Status]] /\ WaitingMeansSent'
  <2>1. "signer_pending" \in Status /\ "signer_pending" # "waiting"
    BY DEF Status
  <2> QED
    BY <1>1, <2>1, ShowFacts
<1>8. \A g \in Superseded(d, k) : SignsItsOwn(d, g) /\ \E h \in flights[d] : h.nth = g.nth
  BY <1>1, SupersededFacts
<1>9. \A g \in Superseded(d, k) : g \in Flight /\ g.nth \in Nat /\ g.nth <= attempts[d]
  BY <1>1, <1>2, <1>8 DEF SignsItsOwn, NumbersInv, Flight
<1>10. flights'[d] = Superseded(d, k) \union {f}
       /\ \A c \in Device \ {d} : flights'[c] = flights[c]
  BY <1>1, <1>2
<1>11. flights' \in [Device -> SUBSET Flight]
  BY <1>1, <1>2, <1>5, <1>9
<1>12. ASSUME NEW c \in Device, NEW g \in flights'[c]
       PROVE  /\ SignsItsOwn(c, g) /\ g.nth <= attempts'[c]
              /\ g.nth > attempts[c] \/ \E h \in flights[c] : h.nth = g.nth
  <2>1. CASE c # d
    BY <1>1, <1>3, <1>10, <1>12, <2>1 DEF NumbersInv
  <2>2. CASE c = d /\ g = f
    BY <1>2, <1>3, <1>6, <2>2
  <2>3. CASE c = d /\ g \in Superseded(d, k)
    BY <1>2, <1>3, <1>8, <1>9, <2>3
  <2> QED
    BY <1>10, <1>12, <2>1, <2>2, <2>3
<1>13. ASSUME NEW c \in Device, NEW g \in flights'[c], NEW h \in flights'[c], g.nth = h.nth
       PROVE  g = h
  <2>1. CASE c # d
    BY <1>1, <1>10, <1>13, <2>1 DEF NumbersInv
  <2>2. CASE c = d
    <3>1. \A x \in Superseded(d, k) : x.nth # f.nth
      BY <1>2, <1>6, <1>9
    <3>2. \A x, y \in Superseded(d, k) : x.nth = y.nth => x = y
      BY <1>1, SupersededFacts
    <3> QED
      BY <1>10, <1>13, <2>2, <3>1, <3>2
  <2> QED
    BY <2>1, <2>2
<1>14. \A c \in Device : attempts[c] <= attempts'[c]
  BY <1>2, <1>3
<1> QED
  BY <1>1, <1>3, <1>7, <1>11, <1>12, <1>13, <1>14, SigningStep

LEMMA NoSignerStep ==
    ASSUME SceneInv, NEW d \in Device, NEW k \in Kind, NoSigner(d, k)
    PROVE  SceneInv' /\ AnswersStep /\ PulseStep
<1>1. /\ TypeOK /\ NumbersInv /\ WaitingMeansSent /\ relay \subseteq relay'
      /\ visits[d] + attempts[d] < MaxMoves /\ attempts' = [attempts EXCEPT ![d] = @ + 1]
      /\ Show(d, k, "failed") /\ UNCHANGED <<network, page, visits, scene>> /\ UNCHANGED flights
  BY DEF SceneInv, NoSigner, network
<1>2. visits[d] \in 1..MaxMoves /\ attempts \in [Device -> 0..MaxMoves] /\ MaxMoves \in Nat
  BY <1>1, TypedParts, Phase1Assumption
<1>3. attempts' \in [Device -> 0..MaxMoves] /\ \A c \in Device : attempts[c] <= attempts'[c]
  BY <1>1, <1>2
<1>4. "failed" \in Status /\ "failed" # "waiting"
  BY DEF Status
<1>5. ui' \in [Device -> [Kind -> Status]] /\ WaitingMeansSent'
  BY <1>1, <1>4, ShowFacts
<1>6. flights' \in [Device -> SUBSET Flight]
  BY <1>1 DEF NumbersInv
<1>7. ASSUME NEW c \in Device, NEW f \in flights'[c]
      PROVE  SignsItsOwn(c, f) /\ f.nth <= attempts'[c] /\ \E g \in flights[c] : g.nth = f.nth
  <2>1. SignsItsOwn(c, f) /\ f.nth <= attempts[c] /\ f \in flights[c]
    BY <1>1, <1>7 DEF NumbersInv
  <2>2. f.nth \in Nat /\ attempts[c] \in Nat /\ attempts'[c] \in Nat
    BY <1>2, <1>3, <2>1 DEF SignsItsOwn, Flight
  <2> QED
    BY <1>3, <2>1, <2>2
<1>8. \A c \in Device : \A f, g \in flights'[c] : f.nth = g.nth => f = g
  BY <1>1 DEF NumbersInv
<1> QED
  BY <1>1, <1>3, <1>5, <1>6, <1>7, <1>8, SigningStep

LEMMA CancelStep ==
    ASSUME SceneInv, NEW d \in Device, NEW k \in Kind, Cancel(d, k)
    PROVE  SceneInv' /\ AnswersStep /\ PulseStep
<1>1. /\ NumbersInv /\ flights' = [flights EXCEPT ![d] = Superseded(d, k)]
      /\ Show(d, k, "cancelled") /\ UNCHANGED <<network, page, visits, scene, attempts>>
  BY DEF SceneInv, Cancel
<1>2. "cancelled" \in Status /\ "cancelled" # "waiting"
  BY DEF Status
<1> DEFINE F == Superseded(d, k)
<1>3. /\ \A f \in F : SignsItsOwn(d, f) /\ \E g \in flights[d] : g.nth = f.nth
      /\ \A f, g \in F : f.nth = g.nth => f = g
      /\ flights' = [flights EXCEPT ![d] = F]
  BY <1>1, SupersededFacts
<1> HIDE DEF F
<1> QED
  BY <1>1, <1>2, <1>3, FlightsStep

(* An attempt ends, or goes on as g.                                          *)
LEMMA DropFacts ==
    ASSUME NumbersInv, NEW d \in Device, NEW f \in flights[d], Drop(d, f)
    PROVE  LET F == flights[d] \ {f}
           IN  /\ flights' = [flights EXCEPT ![d] = F]
               /\ \A g \in F : SignsItsOwn(d, g) /\ \E h \in flights[d] : h.nth = g.nth
               /\ \A g, h \in F : g.nth = h.nth => g = h
BY DEF NumbersInv, Drop

LEMMA AdvancedFacts ==
    ASSUME NumbersInv, NEW d \in Device, NEW f \in flights[d], NEW g, Advanced(d, f, g),
           SignsItsOwn(d, g), g.nth = f.nth
    PROVE  LET F == (flights[d] \ {f}) \union {g}
           IN  /\ flights' = [flights EXCEPT ![d] = F]
               /\ \A h \in F : SignsItsOwn(d, h) /\ \E i \in flights[d] : i.nth = h.nth
               /\ \A h, i \in F : h.nth = i.nth => h = i
BY DEF NumbersInv, Advanced

LEMMA TellFacts ==
    ASSUME NEW d \in Device, NEW f, SignsItsOwn(d, f), NEW status \in Status,
           Tell(d, f, status) \/ UNCHANGED ui
    PROVE  f.kind \in Kind /\ (Show(d, f.kind, status) \/ UNCHANGED ui)
BY DEF Tell, SignsItsOwn, Flight

LEMMA DropStep ==
    ASSUME SceneInv, UNCHANGED <<network, page, visits, scene, attempts>>, NEW d \in Device,
           NEW f \in flights[d], Drop(d, f), NEW status \in Status,
           Tell(d, f, status) \/ UNCHANGED ui,
           status = "waiting" /\ f.kind # "invite" =>
               \E e \in relay : e.by = d /\ e.act = f.kind
    PROVE  SceneInv' /\ AnswersStep /\ PulseStep
<1> DEFINE F == flights[d] \ {f}
<1>1. NumbersInv /\ SignsItsOwn(d, f)
  BY DEF SceneInv, NumbersInv
<1>2. /\ flights' = [flights EXCEPT ![d] = F]
      /\ \A g \in F : SignsItsOwn(d, g) /\ \E h \in flights[d] : h.nth = g.nth
      /\ \A g, h \in F : g.nth = h.nth => g = h
  BY <1>1, DropFacts
<1>3. f.kind \in Kind /\ (Show(d, f.kind, status) \/ UNCHANGED ui)
  BY <1>1, TellFacts
<1> HIDE DEF F
<1> QED
  BY <1>2, <1>3, FlightsStep

LEMMA AdvancedStep ==
    ASSUME SceneInv, UNCHANGED <<network, page, visits, scene, ui, attempts>>, NEW d \in Device,
           NEW f \in flights[d], NEW g, Advanced(d, f, g), SignsItsOwn(d, g), g.nth = f.nth
    PROVE  SceneInv' /\ AnswersStep /\ PulseStep
<1> DEFINE F == (flights[d] \ {f}) \union {g}
<1>1. NumbersInv
  BY DEF SceneInv
<1>2. /\ flights' = [flights EXCEPT ![d] = F]
      /\ \A h \in F : SignsItsOwn(d, h) /\ \E i \in flights[d] : i.nth = h.nth
      /\ \A h, i \in F : h.nth = i.nth => h = i
  BY <1>1, AdvancedFacts
<1>3. "invite" \in Kind /\ "idle" \in Status /\ "idle" # "waiting" /\ UNCHANGED ui
  BY DEF Kind, Status
<1> HIDE DEF F
<1> QED
  BY <1>2, <1>3, FlightsStep

(* What a template is filled with.                                            *)
LEMMA TemplateFacts ==
    ASSUME TypeOK, NEW d \in Device, NEW f, SignsItsOwn(d, f), f.stage = "key",
           Template(d, f) # None
    PROVE  LET g == [f EXCEPT !.stage = "sign", !.ev = Template(d, f)]
           IN  SignsItsOwn(d, g) /\ g.nth = f.nth
<1> DEFINE ev == Template(d, f)
           g == [f EXCEPT !.stage = "sign", !.ev = ev]
<1>1. now \in 0..MaxTime /\ f \in Flight /\ d \in Key /\ f.nth \in 0..MaxMoves
  BY TypedParts, Phase1Assumption DEF SignsItsOwn, Flight, Key
<1>2. CASE f.kind = "invite"
  <2>1. ev = [by |-> d, at |-> now, nth |-> f.nth]
    BY <1>2 DEF Template
  <2>2. ev \in ActivationId /\ ev.by = d /\ ev.nth = f.nth
    BY <1>1, <2>1 DEF ActivationId
  <2>3. /\ g \in Flight /\ g.kind = f.kind /\ g.nth = f.nth /\ g.stage = "sign" /\ g.ev = ev
        /\ g.e = f.e /\ g.w = f.w
    BY <1>1, <2>2 DEF Flight
  <2> QED
    BY <1>2, <2>2, <2>3 DEF SignsItsOwn
<1>3. CASE f.kind = "witness"
  <2>1. ev = [act |-> "witness", by |-> d, e |-> f.e, w |-> None, at |-> now, nth |-> f.nth]
    BY <1>3 DEF Template, Evidence
  <2>2. ev \in Witness /\ ev.by = d /\ ev.act = "witness"
    BY <1>1, <1>3, <2>1 DEF Witness, SignsItsOwn
  <2>3. /\ g \in Flight /\ g.kind = f.kind /\ g.nth = f.nth /\ g.stage = "sign" /\ g.ev = ev
        /\ g.e = f.e /\ g.w = f.w
    BY <1>1, <2>2 DEF Flight
  <2> QED
    BY <1>3, <2>2, <2>3 DEF SignsItsOwn
<1>4. CASE f.kind = "lens"
  <2>1. ev = [act |-> "lens", by |-> d, e |-> f.e, w |-> f.w, at |-> now, nth |-> f.nth]
    BY <1>4 DEF Template, Evidence
  <2>2. ev \in Lens /\ ev.by = d /\ ev.act = "lens"
    BY <1>1, <1>4, <2>1 DEF Lens, SignsItsOwn
  <2>3. /\ g \in Flight /\ g.kind = f.kind /\ g.nth = f.nth /\ g.stage = "sign" /\ g.ev = ev
        /\ g.e = f.e /\ g.w = f.w
    BY <1>1, <2>2 DEF Flight
  <2> QED
    BY <1>4, <2>2, <2>3 DEF SignsItsOwn
<1> QED
  BY <1>1, <1>2, <1>3, <1>4 DEF Flight, Kind

LEMMA KeyAnsweredStep ==
    ASSUME SceneInv, NEW d \in Device, NEW f \in flights[d], KeyAnswered(d, f)
    PROVE  SceneInv' /\ AnswersStep /\ PulseStep
<1> DEFINE ev == Template(d, f)
           g == [f EXCEPT !.stage = "sign", !.ev = ev]
<1>1. /\ TypeOK /\ SignsItsOwn(d, f) /\ f.stage = "key"
      /\ UNCHANGED <<network, page, visits, scene, attempts>>
  BY DEF SceneInv, NumbersInv, KeyAnswered
<1>2. "failed" \in Status /\ "failed" # "waiting"
  BY DEF Status
<1>3. CASE Drop(d, f) /\ (Tell(d, f, "failed") \/ UNCHANGED ui)
  BY <1>1, <1>2, <1>3, DropStep
<1>4. CASE ev # None /\ Advanced(d, f, g) /\ UNCHANGED ui
  <2>1. UNCHANGED <<network, page, visits, scene, ui, attempts>>
    BY <1>1, <1>4
  <2>2. SignsItsOwn(d, g) /\ g.nth = f.nth
    BY <1>1, <1>4, TemplateFacts
  <2> HIDE DEF g
  <2> QED
    BY <1>4, <2>1, <2>2, AdvancedStep
<1> QED
  BY <1>3, <1>4 DEF KeyAnswered

LEMMA SignerFailsStep ==
    ASSUME SceneInv, NEW d \in Device, NEW f \in flights[d], SignerFails(d, f)
    PROVE  SceneInv' /\ AnswersStep /\ PulseStep
<1>1. "failed" \in Status /\ "failed" # "waiting"
  BY DEF Status
<1> QED
  BY <1>1, DropStep DEF SignerFails

LEMMA EvidenceSignedStep ==
    ASSUME SceneInv, NEW d \in Device, NEW f \in flights[d], EvidenceSigned(d, f)
    PROVE  SceneInv' /\ AnswersStep /\ PulseStep
<1> DEFINE g == [f EXCEPT !.stage = "publish"]
<1>1. /\ SignsItsOwn(d, f) /\ f.stage = "sign" /\ f.kind # "invite" /\ Advanced(d, f, g)
      /\ UNCHANGED <<network, page, visits, scene, ui, attempts>>
  BY DEF SceneInv, NumbersInv, EvidenceSigned
<1>2. /\ g \in Flight /\ g.kind = f.kind /\ g.nth = f.nth /\ g.stage = "publish" /\ g.ev = f.ev
      /\ g.e = f.e /\ g.w = f.w
  BY <1>1 DEF SignsItsOwn, Flight
<1> HIDE DEF g
<1>3. SignsItsOwn(d, g)
  BY <1>1, <1>2 DEF SignsItsOwn
<1> QED
  BY <1>1, <1>2, <1>3, AdvancedStep

LEMMA PublishSettledStep ==
    ASSUME SceneInv, NEW d \in Device, NEW f \in flights[d], NEW ack \in BOOLEAN,
           PublishSettled(d, f, ack)
    PROVE  SceneInv' /\ AnswersStep /\ PulseStep
<1>1. /\ SignsItsOwn(d, f) /\ f.stage = "publish" /\ Drop(d, f)
      /\ UNCHANGED <<network, page, visits, scene, attempts>>
  BY DEF SceneInv, NumbersInv, PublishSettled
<1>2. {"failed", "waiting"} \subseteq Status
  BY DEF Status
<1>3. CASE Tell(d, f, "failed")
  BY <1>1, <1>2, <1>3, DropStep
<1>4. CASE ack /\ Tell(d, f, "waiting")
  <2>1. f.ev \in relay /\ f.ev.by = d /\ f.ev.act = f.kind
    BY <1>1, <1>4 DEF PublishSettled, SignsItsOwn
  <2> QED
    BY <1>1, <1>2, <1>4, <2>1, DropStep
<1> QED
  BY <1>3, <1>4 DEF PublishSettled

LEMMA RelayLearns ==
    ASSUME SceneInv,
           \/ Tick
           \/ \E k \in Outsider, id \in Invited : OutsiderAnswers(k, id)
           \/ \E w \in relay : OutsiderAddsLens(w)
           \/ \E d \in Device : \E f \in flights[d] : ReachRelay(d, f)
    PROVE  SceneInv' /\ AnswersStep /\ PulseStep
<1>1. /\ now \in 0..MaxTime /\ relay \subseteq Witness \union Lens /\ MaxTime \in Nat
      /\ 1 \in 0..MaxMoves /\ Invited \subseteq ActivationId /\ Outsider \subseteq Key
  <2>1. MaxTime \in Nat /\ MaxMoves \in Nat \ {0} /\ Outsider \subseteq Key
        /\ Invited \subseteq [by : Outsider, at : {0}, nth : {0}]
    BY Phase1Assumption DEF Key
  <2>2. Invited \subseteq ActivationId
    BY <2>1 DEF ActivationId
  <2> QED
    BY <2>1, <2>2, TypedParts DEF SceneInv
<1>2. CASE Tick
  <2>1. now' \in 0..MaxTime /\ relay' = relay
        /\ UNCHANGED <<invites, page, visits, scene, signing>>
    BY <1>1, <1>2 DEF Tick
  <2> QED
    BY <1>1, <2>1, NetworkStep
<1>3. ASSUME NEW e \in Witness \union Lens, relay' = relay \union {e}, now' = now,
             UNCHANGED <<invites, page, visits, scene, signing>>
      PROVE  SceneInv' /\ AnswersStep /\ PulseStep
  BY <1>1, <1>3, NetworkStep
<1>4. ASSUME NEW k \in Outsider, NEW id \in Invited, OutsiderAnswers(k, id)
      PROVE  SceneInv' /\ AnswersStep /\ PulseStep
  <2> DEFINE e == Evidence("witness", k, id, None, 1)
  <2>1. e \in Witness
    BY <1>1 DEF Evidence, Witness
  <2> HIDE DEF e
  <2> QED
    BY <1>3, <1>4, <2>1 DEF OutsiderAnswers, e
<1>5. ASSUME NEW w \in relay, OutsiderAddsLens(w) PROVE SceneInv' /\ AnswersStep /\ PulseStep
  <2> DEFINE e == Evidence("lens", w.by, w.e, w, 1)
  <2>1. w \in Witness /\ w.by \in Key
    BY <1>1, <1>5 DEF OutsiderAddsLens, Witness, Lens
  <2>2. e \in Lens
    BY <1>1, <2>1 DEF Evidence, Witness, Lens
  <2> HIDE DEF e
  <2> QED
    BY <1>3, <1>5, <2>2 DEF OutsiderAddsLens, e
<1>6. ASSUME NEW d \in Device, NEW f \in flights[d], ReachRelay(d, f)
      PROVE  SceneInv' /\ AnswersStep /\ PulseStep
  <2>1. f.ev \in Witness \union Lens
    BY <1>6 DEF SceneInv, NumbersInv, SignsItsOwn, ReachRelay
  <2> QED
    BY <1>3, <1>6, <2>1 DEF ReachRelay
<1> QED
  BY <1>2, <1>4, <1>5, <1>6

(************************* Dispatching and rendering ************************)

(* A dispatch that the reducer answers with t.                                *)
LEMMA DispatchFacts ==
    ASSUME TypeOK, ReducerInv, NEW d \in Device, NEW action, Dispatch(d, action),
           NEW t, t = Reduce(next[d], action), t \in StateIn(relay), BoundIn(relay, t),
           Keeps(next[d], t), UNCHANGED <<relay, state, shown>>
    PROVE  /\ next' \in [Device -> StateIn(relay')] /\ next'[d] = t
           /\ \A c \in Device \ {d} : next'[c] = next[c]
           /\ ReducerInv' /\ AnswersStep /\ PulseStep
<1>1. next \in [Device -> StateIn(relay)]
  BY TypedParts
<1>2. next' = [next EXCEPT ![d] = t]
  BY DEF Dispatch
<1>3. /\ next' \in [Device -> StateIn(relay')] /\ next'[d] = t
      /\ \A c \in Device \ {d} : next'[c] = next[c]
  BY <1>1, <1>2
<1>4. Keeps(state[d], t)
  BY KeepsTransitive DEF ReducerInv
<1>5. ReducerInv'
  BY <1>3, <1>4 DEF ReducerInv
<1>6. AnswersStep /\ PulseStep
  BY <1>3, KeepsReflexive DEF AnswersStep, PulseStep
<1> QED
  BY <1>3, <1>5, <1>6

LEMMA EnterStreetStep ==
    ASSUME SceneInv, NEW d \in Device, EnterStreet(d)
    PROVE  SceneInv' /\ AnswersStep /\ PulseStep
<1> DEFINE id == page[d]
           action == [type |-> "activation_imported", fact |-> id]
           t == Reduce(next[d], action)
<1>1. /\ TypeOK /\ ReducerInv /\ WaitingMeansSent /\ NumbersInv /\ OriginsInv /\ id # None
      /\ Dispatch(d, action)
      /\ UNCHANGED <<now, invites, relay, page, visits, state, sub, due, shown>>
      /\ UNCHANGED <<ui, flights, attempts>>
  BY DEF SceneInv, EnterStreet, network, signing
<1>2. id \in ActivationId /\ next[d] \in StateIn(relay) /\ BoundIn(relay, next[d])
  BY <1>1, TypedParts DEF ReducerInv
<1>3. next[d].activation # None /\ next[d].activation.id = id =>
          next[d].activation.source = "verified-invite-capability"
  BY <1>1 DEF OriginsInv
<1>4. /\ t \in StateIn(relay) /\ BoundIn(relay, t) /\ Keeps(next[d], t)
      /\ \/ t.activation = next[d].activation
         \/ t.activation = [id |-> id, source |-> "verified-invite-capability"]
  BY <1>2, <1>3, ImportKeeps
<1> HIDE DEF t
<1>5. /\ next' \in [Device -> StateIn(relay')] /\ next'[d] = t
      /\ \A c \in Device \ {d} : next'[c] = next[c]
      /\ ReducerInv' /\ AnswersStep /\ PulseStep
  BY <1>1, <1>4, DispatchFacts DEF t
<1>6. TypeOK'
  BY <1>1, <1>5, TypedParts, PartsTyped
<1>7. WaitingMeansSent' /\ NumbersInv'
  BY <1>1 DEF WaitingMeansSent, NumbersInv
<1>8. \A c \in Device : \A i : Known(c, i)' => Known(c, i)
  BY <1>1, <1>4, <1>5 DEF Known
<1>9. ASSUME NEW c \in Device,
             page'[c] # None, next'[c].activation # None, next'[c].activation.id = page'[c]
      PROVE  next'[c].activation.source = "verified-invite-capability"
  BY <1>1, <1>3, <1>4, <1>5, <1>9 DEF OriginsInv
<1>10. OriginsInv'
  BY <1>1, <1>8, <1>9 DEF OriginsInv
<1> QED
  BY <1>5, <1>6, <1>7, <1>10 DEF SceneInv

LEMMA InviteSignedStep ==
    ASSUME SceneInv, NEW d \in Device, NEW f \in flights[d], InviteSigned(d, f)
    PROVE  SceneInv' /\ AnswersStep /\ PulseStep
<1> DEFINE id == f.ev
           action == [type |-> "activation_signed", fact |-> id]
           t == Reduce(next[d], action)
<1>1. /\ TypeOK /\ ReducerInv /\ WaitingMeansSent /\ NumbersInv /\ OriginsInv
      /\ SignsItsOwn(d, f) /\ f.stage = "sign" /\ f.kind = "invite"
      /\ Drop(d, f) /\ Tell(d, f, "manual") /\ relay \subseteq relay'
      /\ UNCHANGED <<now, relay, page, visits, state, sub, due, pulse, shown, attempts>>
  BY DEF SceneInv, NumbersInv, InviteSigned
<1>2. "manual" \in Status /\ "manual" # "waiting"
  BY DEF Status
<1>3. CASE UNCHANGED <<next, invites>>
  BY <1>1, <1>2, <1>3, DropStep DEF network, scene
<1>4. CASE Dispatch(d, action) /\ invites' = invites \union {id}
  <2>1. /\ id \in ActivationId /\ id.by = d /\ id.nth = f.nth
        /\ next[d] \in StateIn(relay) /\ BoundIn(relay, next[d])
    BY <1>1, TypedParts DEF SignsItsOwn, ReducerInv
  <2>2. ~Known(d, id)
    BY <1>1, <2>1 DEF OriginsInv
  <2>3. /\ t \in StateIn(relay) /\ BoundIn(relay, t) /\ Keeps(next[d], t)
        /\ \/ t.activation = next[d].activation
           \/ t.activation = [id |-> id, source |-> "local-signed-activation"]
    BY <2>1, <2>2, LocalKeeps DEF Known
  <2> HIDE DEF t
  <2>4. /\ next' \in [Device -> StateIn(relay')] /\ next'[d] = t
        /\ \A c \in Device \ {d} : next'[c] = next[c]
        /\ ReducerInv' /\ AnswersStep /\ PulseStep
    BY <1>1, <1>4, <2>3, DispatchFacts DEF t
  <2> DEFINE F == flights[d] \ {f}
  <2>5. /\ flights' = [flights EXCEPT ![d] = F]
        /\ \A g \in F : SignsItsOwn(d, g) /\ \E h \in flights[d] : h.nth = g.nth
        /\ \A g, h \in F : g.nth = h.nth => g = h
    BY <1>1, DropFacts
  <2>6. flights' \in [Device -> SUBSET Flight] /\ flights'[d] = flights[d] \ {f}
        /\ \A c \in Device \ {d} : flights'[c] = flights[c]
    BY <1>1, <2>5 DEF NumbersInv
  <2>7. ui' \in [Device -> [Kind -> Status]] /\ WaitingMeansSent'
    BY <1>1, <1>2, TellFacts, ShowFacts
  <2>8. TypeOK'
    <3>1. invites' \subseteq ActivationId /\ page' \in [Device -> {None} \union invites']
      BY <1>1, <1>4, <2>1, TypedParts
    <3> QED
      BY <1>1, <2>4, <2>7, <3>1, TypedParts, PartsTyped
  <2>9. f.nth <= attempts[d]
    BY <1>1 DEF NumbersInv
  <2>10. NumbersInv'
    <3>1. ASSUME NEW c \in Device, NEW i \in invites', i.by = c PROVE i.nth <= attempts'[c]
      BY <1>1, <1>4, <2>1, <2>9, <3>1 DEF NumbersInv
    <3>2. ASSUME NEW c \in Device, NEW g \in flights'[c]
          PROVE  SignsItsOwn(c, g) /\ g.nth <= attempts'[c]
      BY <1>1, <2>6, <3>2 DEF NumbersInv
    <3>3. ASSUME NEW c \in Device, NEW g \in flights'[c], NEW h \in flights'[c], g.nth = h.nth
          PROVE  g = h
      BY <1>1, <2>6, <3>3 DEF NumbersInv
    <3> QED
      BY <2>6, <3>1, <3>2, <3>3 DEF NumbersInv
  <2>11. \A c \in Device : \A i : Known(c, i)' => Known(c, i) \/ (c = d /\ i = id)
    BY <1>1, <2>3, <2>4 DEF Known
  <2>12. ASSUME NEW c \in Device, NEW i \in ActivationId, Known(c, i)', i.by = c
         PROVE  /\ i.nth <= attempts'[c]
                /\ \A g \in flights'[c] : g.nth # i.nth
    <3>1. CASE Known(c, i)
      BY <1>1, <2>6, <2>12, <3>1 DEF OriginsInv
    <3>2. CASE c = d /\ i = id
      BY <1>1, <2>1, <2>6, <2>9, <3>2 DEF NumbersInv
    <3> QED
      BY <2>11, <2>12, <3>1, <3>2
  <2>13. ASSUME NEW c \in Device,
               page'[c] # None, next'[c].activation # None, next'[c].activation.id = page'[c]
        PROVE  next'[c].activation.source = "verified-invite-capability"
    <3>1. CASE next'[c].activation = next[c].activation
      BY <1>1, <2>13, <3>1 DEF OriginsInv
    <3>2. CASE c = d /\ t.activation = [id |-> id, source |-> "local-signed-activation"]
      BY <1>1, <2>2, <2>4, <2>13, <3>2 DEF Known
    <3> QED
      BY <2>3, <2>4, <3>1, <3>2
  <2>14. OriginsInv'
    BY <2>12, <2>13 DEF OriginsInv
  <2> QED
    BY <2>4, <2>7, <2>8, <2>10, <2>14 DEF SceneInv
<1> QED
  BY <1>3, <1>4 DEF InviteSigned

LEMMA ReceiveStep ==
    ASSUME SceneInv, NEW d \in Device, NEW e \in relay, Receive(d, e)
    PROVE  SceneInv' /\ AnswersStep /\ PulseStep
<1> DEFINE action == [type |-> DeltaType(e), fact |-> e]
           t == Reduce(next[d], action)
           r == [ev |-> e, at |-> now]
<1>1. /\ TypeOK /\ ReducerInv /\ WaitingMeansSent /\ NumbersInv /\ OriginsInv
      /\ sub[d] # None /\ Binding(state[d], e) /\ Dispatch(d, action)
      /\ sub' = [sub EXCEPT ![d].authorised = @ \union {r}]
      /\ UNCHANGED <<now, invites, relay, page, visits, state, due, shown>>
      /\ UNCHANGED <<ui, flights, attempts>>
  BY DEF SceneInv, Receive, network, signing
<1>2. /\ next[d] \in StateIn(relay) /\ BoundIn(relay, next[d]) /\ state[d].activation # None
      /\ next[d].activation = state[d].activation
  BY <1>1, TypedParts DEF ReducerInv, Keeps
<1>3. e.act \in {"witness", "lens"} /\ e.e = next[d].activation.id
  BY <1>1, <1>2 DEF Binding
<1>4. /\ t \in StateIn(relay) /\ BoundIn(relay, t) /\ Keeps(next[d], t)
      /\ t.activation = next[d].activation
  BY <1>2, <1>3, EvidenceKeeps
<1> HIDE DEF t
<1>5. /\ next' \in [Device -> StateIn(relay')] /\ next'[d] = t
      /\ \A c \in Device \ {d} : next'[c] = next[c]
      /\ ReducerInv' /\ AnswersStep /\ PulseStep
  BY <1>1, <1>4, DispatchFacts DEF t
<1>6. /\ sub' \in [Device -> {None} \union Subscription] /\ sub'[d] # None
      /\ \A c \in Device \ {d} : sub'[c] = sub[c]
  <2>1. r \in Receipt /\ sub[d] \in Subscription /\ sub \in [Device -> {None} \union Subscription]
    BY <1>1, TypedParts DEF Receipt
  <2> HIDE DEF r
  <2> DEFINE q == [sub[d] EXCEPT !.authorised = @ \union {r}]
  <2>2. q \in Subscription
    BY <2>1 DEF Subscription
  <2>3. sub' = [sub EXCEPT ![d] = q]
    BY <1>1
  <2> HIDE DEF q
  <2>4. sub'[d] = q
    BY <2>1, <2>3
  <2> QED
    BY <2>1, <2>2, <2>3, <2>4, NoneAssumption
<1>7. \A c \in Device : (sub'[c] # None) = (state'[c].activation # None)
  <2>1. TAKE c \in Device
  <2>2. CASE c = d
    BY <1>1, <1>2, <1>6, <2>2
  <2>3. CASE c # d
    BY <1>1, <1>6, <2>3, TypedParts
  <2> QED
    BY <2>2, <2>3
<1>8. TypeOK'
  BY <1>1, <1>5, <1>6, <1>7, TypedParts, PartsTyped
<1>9. WaitingMeansSent' /\ NumbersInv'
  BY <1>1 DEF WaitingMeansSent, NumbersInv
<1>10. \A c \in Device : next'[c].activation = next[c].activation
  BY <1>4, <1>5
<1>11. OriginsInv'
  BY <1>1, <1>10 DEF OriginsInv, Known
<1> QED
  BY <1>5, <1>8, <1>9, <1>11 DEF SceneInv

LEMMA DeltaIsNews ==
    ASSUME NEW R, NEW s \in StateIn(R), NEW t \in StateIn(R), BoundIn(R, t), Keeps(s, t),
           Delta(s, t) # None, Delta(s, t).act = "witness"
    PROVE  Delta(s, t) = t.witness /\ t.witness \in R /\ s.witness = None
BY DEF Delta, BoundIn, Keeps

LEMMA RenderStep ==
    ASSUME SceneInv, NEW d \in Device, Render(d)
    PROVE  SceneInv' /\ AnswersStep /\ PulseStep
<1> DEFINE p == Advance(d, next[d])
           reopened == next[d].activation # state[d].activation
           fresh == [authorised |-> {}]
<1>1. /\ TypeOK /\ ReducerInv /\ WaitingMeansSent /\ NumbersInv /\ OriginsInv
      /\ state' = [state EXCEPT ![d] = next[d]]
      /\ shown' = [shown EXCEPT ![d] = IF p # pulse[d] THEN p ELSE @]
      /\ sub' = [sub EXCEPT ![d] = IF reopened THEN fresh ELSE @]
      /\ due' = [due EXCEPT ![d] = reopened]
      /\ UNCHANGED <<now, invites, relay, page, visits, next, ui, flights, attempts>>
  BY DEF SceneInv, Render, network, signing
<1>2. /\ state \in [Device -> StateIn(relay)] /\ next \in [Device -> StateIn(relay)]
      /\ sub \in [Device -> {None} \union Subscription]
      /\ shown \in [Device -> {None} \union relay] /\ due \in [Device -> BOOLEAN]
      /\ \A c \in Device : (sub[c] # None) = (state[c].activation # None)
  BY <1>1, TypedParts
<1>3. BoundIn(relay, next[d]) /\ Keeps(state[d], next[d])
  BY <1>1 DEF ReducerInv
<1>4. p # pulse[d] /\ p # None => p = next[d].witness /\ p \in relay /\ state[d].witness = None
  BY <1>2, <1>3, DeltaIsNews DEF Advance
<1>5. fresh \in Subscription /\ fresh # None
  <2>1. fresh \in Subscription
    BY DEF Subscription
  <2> QED
    BY <2>1, NoneAssumption
<1> HIDE DEF p, fresh
<1>6. /\ state' \in [Device -> StateIn(relay')] /\ next' \in [Device -> StateIn(relay')]
      /\ state'[d] = next[d] /\ \A c \in Device \ {d} : state'[c] = state[c]
  BY <1>1, <1>2
<1>7. /\ shown' \in [Device -> {None} \union relay'] /\ due' \in [Device -> BOOLEAN]
      /\ shown'[d] # shown[d] /\ shown'[d] # None =>
             shown'[d] = next[d].witness /\ state[d].witness = None
      /\ \A c \in Device \ {d} : shown'[c] = shown[c]
  BY <1>1, <1>2, <1>4
<1>8. sub' \in [Device -> {None} \union Subscription]
      /\ \A c \in Device : (sub'[c] # None) = (state'[c].activation # None)
  <2>1. sub' \in [Device -> {None} \union Subscription]
    BY <1>1, <1>2, <1>5
  <2>2. sub'[d] = (IF reopened THEN fresh ELSE sub[d]) /\ \A c \in Device \ {d} : sub'[c] = sub[c]
    BY <1>1, <1>2
  <2>3. reopened => state[d].activation = None
    BY <1>3 DEF Keeps
  <2>4. (sub'[d] # None) = (next[d].activation # None)
    BY <1>2, <1>5, <2>2, <2>3
  <2> QED
    BY <1>2, <1>6, <2>1, <2>2, <2>4
<1>9. TypeOK'
  BY <1>1, <1>6, <1>7, <1>8, TypedParts, PartsTyped
<1>10. ReducerInv'
  BY <1>1, <1>6, KeepsReflexive DEF ReducerInv
<1>11. WaitingMeansSent' /\ NumbersInv' /\ OriginsInv'
  BY <1>1 DEF WaitingMeansSent, NumbersInv, OriginsInv, Known
<1>12. AnswersStep
  BY <1>1, KeepsReflexive DEF AnswersStep
<1>13. PulseStep
  BY <1>6, <1>7 DEF PulseStep
<1> QED
  BY <1>9, <1>10, <1>11, <1>12, <1>13 DEF SceneInv

LEMMA PulseFadesStep ==
    ASSUME SceneInv, NEW d \in Device, PulseFades(d)
    PROVE  SceneInv' /\ AnswersStep /\ PulseStep
<1>1. /\ TypeOK /\ ReducerInv /\ WaitingMeansSent /\ NumbersInv /\ OriginsInv
      /\ shown' = [shown EXCEPT ![d] = None]
      /\ UNCHANGED <<now, invites, relay, page, visits, state, next, sub, due>>
      /\ UNCHANGED <<ui, flights, attempts>>
  BY DEF SceneInv, PulseFades, network, signing
<1>2. shown' \in [Device -> {None} \union relay'] /\ \A c \in Device : shown'[c] \in {None, shown[c]}
  BY <1>1, TypedParts
<1>3. TypeOK'
  BY <1>1, <1>2, TypedParts, PartsTyped
<1>4. ReducerInv' /\ WaitingMeansSent' /\ NumbersInv' /\ OriginsInv'
  BY <1>1 DEF ReducerInv, WaitingMeansSent, NumbersInv, OriginsInv, Known
<1>5. AnswersStep /\ PulseStep
  BY <1>1, <1>2, KeepsReflexive DEF AnswersStep, PulseStep
<1> QED
  BY <1>3, <1>4, <1>5 DEF SceneInv

(****************************** A new scene *********************************)

(* Whatever a device does about its page and its attempts when it opens a     *)
(* scene, as long as the page is known to it and no attempt is begun.         *)
LEMMA FreshSceneStep ==
    ASSUME SceneInv, NEW d \in Device, FreshScene(d),
           NEW id \in {None} \union invites, page' = [page EXCEPT ![d] = id],
           NEW F, flights' = [flights EXCEPT ![d] = F],
           \A f \in F : SignsItsOwn(d, f) /\ \E g \in flights[d] : g.nth = f.nth,
           \A f, g \in F : f.nth = g.nth => f = g,
           id = page[d] \/ F = {}
    PROVE  SceneInv' /\ AnswersStep /\ PulseStep
<1>1. /\ TypeOK /\ ReducerInv /\ WaitingMeansSent /\ NumbersInv /\ OriginsInv
      /\ visits[d] + attempts[d] < MaxMoves /\ visits' = [visits EXCEPT ![d] = @ + 1]
      /\ state' = [state EXCEPT ![d] = CreateState] /\ next' = [next EXCEPT ![d] = CreateState]
      /\ sub' = [sub EXCEPT ![d] = None] /\ due' = [due EXCEPT ![d] = FALSE]
      /\ shown' = [shown EXCEPT ![d] = None]
      /\ ui' = [ui EXCEPT ![d] = [k \in Kind |-> "idle"]]
      /\ UNCHANGED <<now, invites, relay, attempts>>
  BY DEF SceneInv, FreshScene, network
<1>2. CreateState.activation = None /\ CreateState \in StateIn(relay) /\ BoundIn(relay, CreateState)
  BY FreshReducer DEF CreateState
<1> DEFINE idle == [k \in Kind |-> "idle"]
<1>3. idle \in [Kind -> Status] /\ \A k \in Kind : idle[k] # "waiting"
  BY DEF Status
<1> HIDE DEF idle
<1>4. /\ state' \in [Device -> StateIn(relay')] /\ next' \in [Device -> StateIn(relay')]
      /\ state'[d] = CreateState /\ next'[d] = CreateState
      /\ \A c \in Device \ {d} : state'[c] = state[c] /\ next'[c] = next[c]
  BY <1>1, <1>2, TypedParts
<1>5. /\ visits' \in [Device -> 1..MaxMoves] /\ visits'[d] # visits[d]
      /\ \A c \in Device \ {d} : visits'[c] = visits[c]
  <2>1. visits[d] \in 1..MaxMoves /\ attempts[d] \in 0..MaxMoves /\ MaxMoves \in Nat
        /\ visits \in [Device -> 1..MaxMoves]
    BY <1>1, TypedParts, Phase1Assumption
  <2>2. visits[d] + 1 \in 1..MaxMoves /\ visits[d] + 1 # visits[d]
    BY <1>1, <2>1
  <2> QED
    BY <1>1, <2>1, <2>2
<1>6. /\ sub' \in [Device -> {None} \union Subscription]
      /\ \A c \in Device : (sub'[c] # None) = (state'[c].activation # None)
  <2>1. sub \in [Device -> {None} \union Subscription]
        /\ \A c \in Device : (sub[c] # None) = (state[c].activation # None)
    BY <1>1, TypedParts
  <2>2. sub'[d] = None /\ \A c \in Device \ {d} : sub'[c] = sub[c]
    BY <1>1, <2>1
  <2> QED
    BY <1>1, <1>2, <1>4, <2>1, <2>2
<1>7. /\ due' \in [Device -> BOOLEAN] /\ shown' \in [Device -> {None} \union relay']
      /\ \A c \in Device : shown'[c] \in {None, shown[c]}
      /\ page' \in [Device -> {None} \union invites'] /\ page'[d] = id
      /\ \A c \in Device \ {d} : page'[c] = page[c]
  BY <1>1, TypedParts
<1>8. /\ ui' \in [Device -> [Kind -> Status]] /\ ui'[d] = idle
      /\ \A c \in Device \ {d} : ui'[c] = ui[c]
  <2>1. ui' = [ui EXCEPT ![d] = idle] /\ ui \in [Device -> [Kind -> Status]]
    BY <1>1, TypedParts DEF idle
  <2> QED
    BY <1>3, <2>1
<1>9. TypeOK'
  BY <1>1, <1>4, <1>5, <1>6, <1>7, <1>8, TypedParts, PartsTyped
<1>10. ReducerInv'
  <2>1. SUFFICES ASSUME NEW c \in Device
                 PROVE  /\ BoundIn(relay', state'[c]) /\ BoundIn(relay', next'[c])
                        /\ Keeps(state'[c], next'[c])
    BY DEF ReducerInv
  <2>2. CASE c = d
    BY <1>1, <1>2, <1>4, <2>2, KeepsReflexive
  <2>3. CASE c # d
    BY <1>1, <1>4, <2>3 DEF ReducerInv
  <2> QED
    BY <2>2, <2>3
<1>11. WaitingMeansSent'
  <2>1. SUFFICES ASSUME NEW c \in Device, NEW k \in {"witness", "lens"}, ui'[c][k] = "waiting"
                 PROVE  \E e \in relay : e.by = c /\ e.act = k
    BY <1>1 DEF WaitingMeansSent
  <2>2. k \in Kind
    BY DEF Kind
  <2>3. c # d
    BY <1>3, <1>8, <2>1, <2>2
  <2> QED
    BY <1>1, <1>8, <2>1, <2>3 DEF WaitingMeansSent
<1>12. F \subseteq Flight /\ flights \in [Device -> SUBSET Flight]
  BY <1>1 DEF SignsItsOwn, NumbersInv
<1>13. flights' \in [Device -> SUBSET Flight] /\ flights'[d] = F
       /\ \A c \in Device \ {d} : flights'[c] = flights[c]
  BY <1>12
<1>14. NumbersInv'
  <2>1. ASSUME NEW c \in Device, NEW g \in flights'[c]
        PROVE  SignsItsOwn(c, g) /\ g.nth <= attempts'[c]
    BY <1>1, <1>13, <2>1 DEF NumbersInv
  <2>2. ASSUME NEW c \in Device, NEW g \in flights'[c], NEW h \in flights'[c], g.nth = h.nth
        PROVE  g = h
    BY <1>1, <1>13, <2>2 DEF NumbersInv
  <2> QED
    BY <1>1, <1>13, <2>1, <2>2 DEF NumbersInv
<1>15. OriginsInv'
  <2>1. ASSUME NEW c \in Device, NEW i \in ActivationId, Known(c, i)', i.by = c
        PROVE  i.nth <= attempts'[c] /\ \A f \in flights'[c] : f.nth # i.nth
    <3>1. CASE c # d
      <4>1. Known(c, i) /\ flights'[c] = flights[c] /\ attempts'[c] = attempts[c]
        BY <1>1, <1>4, <1>7, <1>13, <2>1, <3>1 DEF Known
      <4> QED
        BY <1>1, <2>1, <4>1 DEF OriginsInv
    <3>2. CASE c = d
      <4>1. id # None /\ i = id
        BY <1>2, <1>4, <1>7, <2>1, <3>2 DEF Known
      <4>2. i.nth <= attempts'[d]
        BY <1>1, <2>1, <3>2, <4>1 DEF NumbersInv
      <4>3. CASE F = {}
        BY <1>13, <3>2, <4>2, <4>3
      <4>4. CASE id = page[d]
        <5>1. Known(d, i)
          BY <4>1, <4>4 DEF Known
        <5>2. \A g \in flights[d] : g.nth # i.nth
          BY <1>1, <2>1, <3>2, <5>1 DEF OriginsInv
        <5> QED
          BY <1>13, <3>2, <4>2, <5>2
      <4> QED
        BY <4>3, <4>4
    <3> QED
      BY <3>1, <3>2
  <2>2. ASSUME NEW c \in Device,
               page'[c] # None, next'[c].activation # None, next'[c].activation.id = page'[c]
        PROVE  next'[c].activation.source = "verified-invite-capability"
    BY <1>1, <1>2, <1>4, <1>7, <2>2 DEF OriginsInv
  <2> QED
    BY <2>1, <2>2 DEF OriginsInv
<1>16. AnswersStep
  <2>1. SUFFICES ASSUME NEW c \in Device, visits'[c] = visits[c]
                 PROVE  Keeps(next[c], next'[c])
    BY DEF AnswersStep
  <2>2. CASE c = d
    BY <1>5, <2>1, <2>2
  <2>3. CASE c # d
    BY <1>4, <2>3, KeepsReflexive
  <2> QED
    BY <2>2, <2>3
<1>17. PulseStep
  BY <1>7 DEF PulseStep
<1> QED
  BY <1>9, <1>10, <1>11, <1>14, <1>15, <1>16, <1>17 DEF SceneInv

LEMMA ReenterSceneStep ==
    ASSUME SceneInv, NEW d \in Device, ReenterScene(d)
    PROVE  SceneInv' /\ AnswersStep /\ PulseStep
<1> DEFINE Gone(f) == [f EXCEPT !.live = FALSE]
           F == {Gone(f) : f \in flights[d]}
<1>1. /\ FreshScene(d) /\ NumbersInv
      /\ page \in [Device -> {None} \union invites] /\ flights \in [Device -> SUBSET Flight]
  BY TypedParts DEF ReenterScene, SceneInv, NumbersInv
<1>2. flights' = [flights EXCEPT ![d] = F] /\ page' = page
  BY DEF ReenterScene
<1>3. \A f \in flights[d] : SignsItsOwn(d, Gone(f)) /\ Gone(f).nth = f.nth
  BY <1>1, Outdated DEF NumbersInv
<1> HIDE DEF Gone
<1>4. /\ \A g \in F : SignsItsOwn(d, g) /\ \E h \in flights[d] : h.nth = g.nth
      /\ \A g, h \in F : g.nth = h.nth => g = h
  BY <1>1, <1>3 DEF NumbersInv
<1> HIDE DEF F
<1> DEFINE id == page[d]
<1>5. /\ id \in {None} \union invites /\ page' = [page EXCEPT ![d] = id]
      /\ id = page[d] \/ F = {}
  BY <1>1, <1>2
<1>6. FreshScene(d) /\ flights' = [flights EXCEPT ![d] = F]
  BY <1>1, <1>2
<1> HIDE DEF id
<1> QED
  BY <1>4, <1>5, <1>6, FreshSceneStep

LEMMA LoadPageStep ==
    ASSUME SceneInv, NEW d \in Device, NEW invite \in invites, LoadPage(d, invite)
    PROVE  SceneInv' /\ AnswersStep /\ PulseStep
<1> DEFINE F == {}
<1>1. /\ FreshScene(d) /\ page' = [page EXCEPT ![d] = invite]
      /\ flights' = [flights EXCEPT ![d] = F]
  BY DEF LoadPage
<1>2. /\ \A g \in F : SignsItsOwn(d, g) /\ \E h \in flights[d] : h.nth = g.nth
      /\ \A g, h \in F : g.nth = h.nth => g = h
      /\ invite \in {None} \union invites /\ (invite = page[d] \/ F = {})
  OBVIOUS
<1> HIDE DEF F
<1> QED
  BY <1>1, <1>2, FreshSceneStep

(************************ Every step of the system **************************)

LEMMA SceneStarts == Init => SceneInv
<1> SUFFICES ASSUME Init PROVE SceneInv
  OBVIOUS
<1>1. /\ now = 0 /\ invites = Invited /\ relay = {}
      /\ page \in [Device -> {None} \union Invited] /\ visits = [d \in Device |-> 1]
      /\ state = [d \in Device |-> CreateState] /\ next = state
      /\ sub = [d \in Device |-> None] /\ due = [d \in Device |-> FALSE]
      /\ shown = [d \in Device |-> None]
      /\ ui = [d \in Device |-> [k \in Kind |-> "idle"]]
      /\ flights = [d \in Device |-> {}] /\ attempts = [d \in Device |-> 0]
  BY DEF Init
<1>2. /\ MaxTime \in Nat /\ MaxMoves \in Nat \ {0} /\ Device \cap Outsider = {}
      /\ Invited \subseteq [by : Outsider, at : {0}, nth : {0}]
  BY Phase1Assumption
<1>3. Invited \subseteq ActivationId /\ \A id \in Invited : id.by \notin Device
  BY <1>2 DEF ActivationId, Key
<1>4. \A R : CreateState \in StateIn(R) /\ BoundIn(R, CreateState)
  BY FreshReducer
<1>5. CreateState.activation = None
  BY DEF CreateState
<1>6. TypeOK
  <2>1. 0 \in 0..MaxTime /\ 0 \in 0..MaxMoves /\ 1 \in 1..MaxMoves
    BY <1>2
  <2>2. [k \in Kind |-> "idle"] \in [Kind -> Status]
    BY DEF Status
  <2>3. state \in [Device -> RelayState] /\ next \in [Device -> RelayState]
    BY <1>1, <1>4, RelayStates
  <2> QED
    BY <1>1, <1>3, <1>5, <2>1, <2>2, <2>3 DEF TypeOK, Status
<1>7. ReducerInv
  BY <1>1, <1>4, KeepsReflexive DEF ReducerInv
<1>8. WaitingMeansSent
  BY <1>1 DEF WaitingMeansSent, Kind
<1>9. NumbersInv
  BY <1>1, <1>3 DEF NumbersInv
<1>10. OriginsInv
  <2>1. \A d \in Device : next[d].activation = None /\ flights[d] = {}
    BY <1>1, <1>5
  <2>2. \A d \in Device : \A id : Known(d, id) => id \in Invited
    BY <1>1, <2>1 DEF Known
  <2> QED
    BY <1>3, <2>1, <2>2 DEF OriginsInv
<1> QED
  BY <1>6, <1>7, <1>8, <1>9, <1>10 DEF SceneInv

LEMMA SceneInductive ==
    SceneInv /\ [Next]_vars => SceneInv' /\ (UNCHANGED vars \/ (AnswersStep /\ PulseStep))
<1> SUFFICES ASSUME SceneInv, [Next]_vars
             PROVE  SceneInv' /\ (UNCHANGED vars \/ (AnswersStep /\ PulseStep))
  OBVIOUS
<1>1. CASE UNCHANGED vars
  <2>1. relay' = relay /\ now' = now /\ UNCHANGED <<invites, page, visits, scene, signing>>
    BY <1>1 DEF vars, network
  <2>2. now \in 0..MaxTime /\ relay \subseteq Witness \union Lens
    BY TypedParts DEF SceneInv
  <2> QED
    BY <2>1, <2>2, NetworkStep
<1>2. CASE Next
  <2>1. CASE \/ Tick
             \/ \E k \in Outsider, id \in Invited : OutsiderAnswers(k, id)
             \/ \E w \in relay : OutsiderAddsLens(w)
             \/ \E d \in Device : \E f \in flights[d] : ReachRelay(d, f)
    BY <2>1, RelayLearns
  <2>2. ASSUME NEW d \in Device, Render(d) \/ PulseFades(d) \/ ReenterScene(d) \/ EnterStreet(d)
        PROVE  SceneInv' /\ AnswersStep /\ PulseStep
    BY <2>2, RenderStep, PulseFadesStep, ReenterSceneStep, EnterStreetStep
  <2>3. ASSUME NEW d \in Device, NEW invite \in invites, LoadPage(d, invite)
        PROVE  SceneInv' /\ AnswersStep /\ PulseStep
    BY <2>3, LoadPageStep
  <2>4. ASSUME NEW d \in Device, NEW k \in Kind, Consent(d, k) \/ NoSigner(d, k) \/ Cancel(d, k)
        PROVE  SceneInv' /\ AnswersStep /\ PulseStep
    BY <2>4, ConsentStep, NoSignerStep, CancelStep
  <2>5. ASSUME NEW d \in Device, NEW f \in flights[d],
               \/ KeyAnswered(d, f) \/ SignerFails(d, f) \/ InviteSigned(d, f)
               \/ EvidenceSigned(d, f) \/ \E ack \in BOOLEAN : PublishSettled(d, f, ack)
        PROVE  SceneInv' /\ AnswersStep /\ PulseStep
    BY <2>5, KeyAnsweredStep, SignerFailsStep, InviteSignedStep, EvidenceSignedStep,
       PublishSettledStep
  <2>6. ASSUME NEW d \in Device, NEW e \in relay, Receive(d, e)
        PROVE  SceneInv' /\ AnswersStep /\ PulseStep
    BY <2>6, ReceiveStep
  <2> QED
    BY <1>2, <2>1, <2>2, <2>3, <2>4, <2>5, <2>6 DEF Next
<1> QED
  BY <1>1, <1>2

LEMMA SceneInvariant == Spec => []SceneInv
<1>1. SceneInv /\ [Next]_vars => SceneInv'
  BY SceneInductive
<1> QED
  BY SceneStarts, <1>1, PTL DEF Spec

(******************************* Theorems ***********************************)

(* Every variable of the devices keeps its type whatever the signer, the      *)
(* relays and the other guests do, and a device subscribes exactly while it   *)
(* renders an activation (subscribe in phase1RelayTransport.ts).              *)
THEOREM SceneTypeCorrect == Spec => []TypeOK
<1>1. SceneInv => TypeOK
  BY DEF SceneInv
<1> QED
  BY SceneInvariant, <1>1, PTL

(* The evidence a device holds was on a relay and fits the activation it      *)
(* holds, and a device that says it waits has an answer on a relay: the guard *)
(* judges by the last render and the reducer by what was dispatched since,    *)
(* and the two never disagree on what the evidence is bound to.               *)
THEOREM EvidenceAlwaysSound == Spec => []EvidenceIsSound
<1>1. SceneInv => EvidenceIsBound
  BY DEF SceneInv, ReducerInv, EvidenceIsBound, BoundIn
<1>2. SceneInv => EvidenceIsSound
  BY <1>1 DEF SceneInv, EvidenceIsSound
<1> QED
  BY SceneInvariant, <1>2, PTL

(* What was answered in a scene stays answered until the scene is left, and   *)
(* the pulse is raised by the render that shows a first witness and by        *)
(* nothing else (advancePhase1PulsePresentation).                             *)
THEOREM NewsAlwaysStands == Spec => NewsStands
<1> DEFINE A == \A d \in Device :
                    LET s == next[d] t == next'[d]
                    IN  visits'[d] = visits[d] =>
                           /\ s.accepted => t.accepted
                           /\ s.activation # None => t.activation = s.activation
                           /\ s.creator # None => t.creator = s.creator
                           /\ s.witness # None => t.witness = s.witness
                           /\ s.lens # None => t.lens = s.lens
           P == \A d \in Device :
                    shown'[d] # shown[d] /\ shown'[d] # None =>
                        /\ state[d].witness = None
                        /\ state'[d].witness = shown'[d]
<1>1. AnswersStep => A
  BY DEF AnswersStep, Keeps
<1>2. PulseStep => P
  BY DEF PulseStep
<1>3. SceneInv /\ [Next]_vars => [A]_vars /\ [P]_vars
  BY SceneInductive, <1>1, <1>2
<1>4. Spec => [][A]_vars /\ [][P]_vars
  BY SceneInvariant, <1>3, PTL DEF Spec
<1> QED
  BY <1>4 DEF NewsStands, AnswersStand, PulseIsNews
================================================================================
