-------------------------- MODULE DecisionBrokerProofs --------------------------
(* For any number of clients and of questions: what the broker, the gate and   *)
(* the sessions hold, that the gate follows the listeners, and that a question *)
(* returns the first answer served for it.                                     *)
EXTENDS DecisionBroker, TLAPS

Asking == \E kind \in {"permission", "consent"} : Ask(kind)

\* A session that is still declared interactive belongs to a connection.
InteractiveIsConnected == \A c \in interactive : conn[c] # "off"

\* The gate has been told of every listener.
ToldOfListeners == HasListener => session_attached

\* As long as its event is not set a question has no answer; when it is set it has the
\* first one, or none when it was declined.
OpenQuestion ==
    pending # None =>
        IF pending.set THEN pending.choice \in {None, first}
        ELSE pending.choice = None /\ first = None

GateInv   == TypeOK /\ InteractiveIsConnected /\ ToldOfListeners
AnswerInv == TypeOK /\ OpenQuestion /\ FirstAnswerWins

LEMMA TypeInit == Init => TypeOK
  <1> SUFFICES ASSUME Init PROVE TypeOK
    OBVIOUS
  <1>1. asked \in 0..MaxQuestions
    BY BrokerConstants DEF Init
  <1>2. conn \in [Clients -> {"off", "open", "on"}]
    BY DEF Init
  <1>3. /\ shown \in [Clients -> Question \cup {None}]
        /\ inbox \in [Clients -> {None} \cup [id : Question, choice : Choice]]
    BY DEF Init
  <1> QED BY <1>1, <1>2, <1>3 DEF Init, TypeOK

\* What the registry holds is a record, and every step keeps it one.
LEMMA PendingType ==
  ASSUME TypeOK, pending # None
  PROVE  /\ pending \in [set : BOOLEAN, choice : Choice \cup {None}]
         /\ [pending EXCEPT !.set = TRUE] \in [set : BOOLEAN, choice : Choice \cup {None}]
         /\ [pending EXCEPT !.set = TRUE].set = TRUE
         /\ [pending EXCEPT !.set = TRUE].choice = pending.choice
         /\ [pending EXCEPT !.set = TRUE] # None
  <1> DEFINE R == [set : BOOLEAN, choice : Choice \cup {None}]
  <1>1. pending \in R
    BY DEF TypeOK
  <1>2. ASSUME NEW p \in R
        PROVE  /\ [p EXCEPT !.set = TRUE] \in R
               /\ [p EXCEPT !.set = TRUE].set = TRUE
               /\ [p EXCEPT !.set = TRUE].choice = p.choice
    OBVIOUS
  <1>3. None \notin R
    BY BrokerConstants
  <1> HIDE DEF R
  <1>4. \A p \in R : p # None
    BY <1>3
  <1> QED BY <1>1, <1>2, <1>4 DEF R

LEMMA TypeConnections ==
  ASSUME TypeOK, NEW c \in Clients,
         Connect(c) \/ Start(c) \/ Detach(c) \/ Prune(c) \/ SlowRequest(c) \/ SlowEnds(c)
  PROVE  TypeOK'
  <1>1. CASE Connect(c)
    BY <1>1 DEF TypeOK, Connect, broker, client, history
  <1>2. CASE Start(c)
    BY <1>2 DEF TypeOK, Start, broker, client, history
  <1>3. CASE Detach(c)
    BY <1>3 DEF TypeOK, Detach, broker, history
  <1>4. CASE Prune(c)
    BY <1>4 DEF TypeOK, Prune, broker, client, history
  <1>5. CASE SlowRequest(c)
    BY <1>5 DEF TypeOK, SlowRequest, broker, client, history
  <1>6. CASE SlowEnds(c)
    BY <1>6 DEF TypeOK, SlowEnds, broker, client, history
  <1> QED BY <1>1, <1>2, <1>3, <1>4, <1>5, <1>6

\* A command to the gate changes its mode and nothing else.
LEMMA ModeStep ==
  ASSUME TypeOK, NEW c \in Clients, NEW cmd, NEW arg, SetMode(c, WantedMode(cmd, arg))
  PROVE  /\ mode' \in Mode
         /\ UNCHANGED <<conn, gone, busy, sessions, interactive, session_attached,
                        pc, asked, pending, targets, dead, shown, inbox, first, verdict>>
  BY DEF SetMode, WantedMode, Mode, broker, client, history

LEMMA TypeMode ==
  ASSUME TypeOK, NEW c \in Clients, NEW cmd, NEW arg, SetMode(c, WantedMode(cmd, arg))
  PROVE  TypeOK'
  BY ModeStep DEF TypeOK

LEMMA TypeClosed ==
  ASSUME TypeOK, NEW c \in Clients, Closed(c)
  PROVE  TypeOK'
  <1> DEFINE heard == (sessions \ {c}) \cap interactive # {}
  <1>1. pending' \in {None} \cup [set : BOOLEAN, choice : Choice \cup {None}]
    BY PendingType DEF Closed, DeclineUnheard, TypeOK
  <1>2. pending' = None <=> pending = None
    BY PendingType DEF Closed, DeclineUnheard
  <1>3. session_attached' \in BOOLEAN
    BY DEF Closed, GateAfter
  <1> QED BY <1>1, <1>2, <1>3 DEF TypeOK, Closed, client, history

LEMMA TypeQuestion ==
  ASSUME TypeOK, Asking \/ Broadcast \/ Decide
  PROVE  TypeOK'
  <1>1. ASSUME NEW kind \in {"permission", "consent"}, Ask(kind) PROVE TypeOK'
    <2>1. /\ pending' \in [set : BOOLEAN, choice : Choice \cup {None}]
          /\ asked' \in 0..MaxQuestions /\ asked' \in Question
      BY <1>1, BrokerConstants DEF Ask, TypeOK, Question
    <2>2. pending' # None
      BY <2>1, BrokerConstants
    <2> QED BY <1>1, <2>1, <2>2 DEF TypeOK, Ask, server, client
  <1>2. CASE Snapshot
    BY <1>2 DEF TypeOK, Snapshot, server, client, history
  <1>3. ASSUME NEW c \in Clients, Notify(c) PROVE TypeOK'
    <2>1. asked \in Question
      BY <1>3 DEF TypeOK, Notify
    <2>2. shown' \in [Clients -> Question \cup {None}] /\ dead' \subseteq Clients
      BY <1>3, <2>1 DEF TypeOK, Notify
    <2> QED BY <1>3, <2>2 DEF TypeOK, Notify, server, history
  <1>4. CASE Sent
    BY <1>4 DEF TypeOK, Sent, client, history
  <1>5. CASE Decide
    <2>1. pending.choice \in Choice \cup {None}
      BY <1>5, PendingType DEF Decide, TypeOK
    <2> QED BY <1>5, <2>1 DEF TypeOK, Decide, server, client
  <1> QED BY <1>1, <1>2, <1>3, <1>4, <1>5 DEF Asking, Broadcast

LEMMA TypeAnswer ==
  ASSUME TypeOK, NEW c \in Clients, Respond(c) \/ \E choice \in Choice : Answer(c, choice)
  PROVE  TypeOK'
  <1>1. ASSUME NEW choice \in Choice, Answer(c, choice) PROVE TypeOK'
    <2>1. shown[c] \in Question
      BY <1>1 DEF TypeOK, Answer
    <2> QED BY <1>1, <2>1 DEF TypeOK, Answer, server, broker, history
  <1>2. CASE Respond(c)
    <2>1. inbox[c] \in [id : Question, choice : Choice]
      BY <1>2 DEF TypeOK, Respond
    <2>2. /\ pending' \in {None} \cup [set : BOOLEAN, choice : Choice \cup {None}]
          /\ pending' = None <=> pending = None
      <3>1. CASE Accepts(inbox[c].id)
        <4>1. pending' \in [set : BOOLEAN, choice : Choice \cup {None}]
          BY <1>2, <2>1, <3>1 DEF Respond
        <4> QED BY <3>1, <4>1, BrokerConstants DEF Accepts
      <3>2. CASE ~ Accepts(inbox[c].id)
        BY <1>2, <3>2 DEF TypeOK, Respond
      <3> QED BY <3>1, <3>2
    <2> QED BY <1>2, <2>1, <2>2 DEF TypeOK, Respond, server
  <1> QED BY <1>1, <1>2

LEMMA TypeStep ==
  ASSUME TypeOK, [Next]_vars
  PROVE  TypeOK'
  <1>1. CASE UNCHANGED vars
    BY <1>1 DEF TypeOK, vars
  <1>2. CASE \E c \in Clients : Connection(c)
    BY <1>2, TypeConnections, TypeMode, TypeClosed, TypeAnswer DEF Connection
  <1> QED BY <1>1, <1>2, TypeQuestion DEF Next, Asking

\* Every variable holds a value of its kind, and the registry holds a question exactly
\* while the run is in ask: for any clients and any number of questions.
THEOREM TypeCorrect == Spec => []TypeOK
  <1> QED BY TypeInit, TypeStep, PTL DEF Spec

-----------------------------------------------------------------------------
LEMMA GateStep ==
  ASSUME GateInv, [Next]_vars
  PROVE  GateInv'
  <1> USE DEF GateInv, InteractiveIsConnected, ToldOfListeners, HasListener
  <1>0. TypeOK'
    BY TypeStep
  <1>1. CASE UNCHANGED vars
    BY <1>0, <1>1 DEF vars
  <1>2. CASE Asking
    BY <1>0, <1>2 DEF Asking, Ask, server
  <1>3. CASE Snapshot \/ Decide
    BY <1>0, <1>3 DEF Snapshot, Decide, server
  <1>4. ASSUME NEW c \in Clients, Notify(c) PROVE GateInv'
    BY <1>0, <1>4 DEF Notify, server
  <1>5. CASE Sent
    BY <1>0, <1>5 DEF Sent
  <1>6. ASSUME NEW c \in Clients, Connection(c) PROVE GateInv'
    <2>1. CASE Connect(c)
      BY <1>0, <2>1 DEF Connect, TypeOK
    <2>2. CASE Start(c)
      BY <1>0, <2>2 DEF Start, TypeOK
    <2>3. CASE Detach(c) \/ SlowRequest(c) \/ SlowEnds(c) \/ Prune(c)
      BY <1>0, <2>3 DEF Detach, SlowRequest, SlowEnds, Prune
    <2>4. CASE Closed(c)
      BY <1>0, <2>4 DEF Closed, GateAfter, TypeOK
    <2>5. CASE Respond(c) \/ \E choice \in Choice : Answer(c, choice)
      BY <1>0, <2>5 DEF Respond, Answer, server
    <2>6. ASSUME NEW cmd, NEW arg, SetMode(c, WantedMode(cmd, arg)) PROVE GateInv'
      BY <1>0, <2>6, ModeStep
    <2> QED BY <1>6, <2>1, <2>2, <2>3, <2>4, <2>5, <2>6 DEF Connection
  <1> QED BY <1>1, <1>2, <1>3, <1>4, <1>5, <1>6 DEF Next, Asking, Broadcast

\* However sessions attach, detach, are dropped by a broadcast and come back, the gate
\* knows that somebody can confirm whenever somebody can.
THEOREM GateFollowsListeners == Spec => []GateSeesListener
  <1>1. Init => GateInv
    BY TypeInit DEF Init, GateInv, InteractiveIsConnected, ToldOfListeners, HasListener
  <1>2. GateInv => GateSeesListener
    BY DEF GateInv, ToldOfListeners, GateSeesListener, evaluate
  <1> QED BY <1>1, <1>2, GateStep, PTL DEF Spec

-----------------------------------------------------------------------------
LEMMA AnswerStep ==
  ASSUME AnswerInv, [Next]_vars
  PROVE  AnswerInv'
  <1> USE DEF AnswerInv, OpenQuestion, FirstAnswerWins
  <1>0. TypeOK'
    BY TypeStep
  <1>1. CASE UNCHANGED vars
    BY <1>0, <1>1 DEF vars
  <1>2. CASE Asking
    BY <1>0, <1>2, BrokerConstants DEF Asking, Ask
  <1>3. CASE Snapshot \/ Sent
    BY <1>0, <1>3 DEF Snapshot, Sent, history
  <1>4. CASE Decide
    <2>1. pending # None /\ pending.set
      BY <1>4 DEF Decide, TypeOK
    <2>2. verdict' \in Choice => verdict' = first'
      BY <1>4, <2>1, BrokerConstants DEF Decide, Choice
    <2> QED BY <1>0, <1>4, <2>2 DEF Decide
  <1>5. ASSUME NEW c \in Clients, Notify(c) PROVE AnswerInv'
    BY <1>0, <1>5 DEF Notify, history
  <1>6. ASSUME NEW c \in Clients, Connection(c) PROVE AnswerInv'
    <2>1. CASE Connect(c) \/ Start(c) \/ Detach(c) \/ Prune(c) \/ SlowRequest(c) \/ SlowEnds(c)
      BY <1>0, <2>1 DEF Connect, Start, Detach, Prune, SlowRequest, SlowEnds, broker, history
    <2>2. CASE Closed(c)
      <3>1. OpenQuestion'
        BY <2>2, PendingType DEF Closed, DeclineUnheard, history
      <3> QED BY <1>0, <2>2, <3>1 DEF Closed, history
    <2>3. ASSUME NEW choice \in Choice, Answer(c, choice) PROVE AnswerInv'
      BY <1>0, <2>3 DEF Answer, broker, history
    <2>4. CASE Respond(c)
      <3> DEFINE id == inbox[c].id
      <3>1. inbox[c] \in [id : Question, choice : Choice] /\ inbox[c].choice # None
        BY <2>4, BrokerConstants DEF TypeOK, Respond
      <3>2. CASE Accepts(id)
        BY <1>0, <2>4, <3>1, <3>2, BrokerConstants DEF Respond, Accepts, TypeOK
      <3>3. CASE ~ Accepts(id)
        BY <1>0, <2>4, <3>1, <3>3, BrokerConstants DEF Respond, Accepts, TypeOK
      <3> QED BY <3>2, <3>3
    <2>5. ASSUME NEW cmd, NEW arg, SetMode(c, WantedMode(cmd, arg)) PROVE AnswerInv'
      BY <1>0, <2>5, ModeStep
    <2> QED BY <1>6, <2>1, <2>2, <2>3, <2>4, <2>5 DEF Connection
  <1> QED BY <1>1, <1>2, <1>3, <1>4, <1>5, <1>6 DEF Next, Asking, Broadcast

\* Whoever answers, late, twice or to an older question, and whoever leaves: a question
\* that returns an answer returns the first that was served for it.
THEOREM FirstAnswerIsReturned == Spec => []FirstAnswerWins
  <1>1. Init => AnswerInv
    BY TypeInit, BrokerConstants DEF Init, AnswerInv, OpenQuestion, FirstAnswerWins
  <1>2. AnswerInv => FirstAnswerWins
    BY DEF AnswerInv
  <1> QED BY <1>1, <1>2, AnswerStep, PTL DEF Spec

-----------------------------------------------------------------------------
(* The abstract question *)

\* Nobody is shown, or answers, a question before it is asked.
AskedBefore ==
    \A c \in Clients :
        /\ shown[c] # None => shown[c] <= asked
        /\ inbox[c] # None => inbox[c].id <= asked

\* Until its event is set a question has no answer.
Unsettled == pending # None /\ ~ pending.set => pending.choice = None

PromiseInv == TypeOK /\ AskedBefore /\ Unsettled

LEMMA PendingFacts ==
  ASSUME TypeOK, pending # None
  PROVE  /\ pending.set \in BOOLEAN /\ pending.choice \in Choice \cup {None}
         /\ Settled = None <=> ~ pending.set
  <1>1. pending \in [set : BOOLEAN, choice : Choice \cup {None}]
    BY DEF TypeOK
  <1>2. pending.set \in BOOLEAN /\ pending.choice \in Choice \cup {None}
    BY <1>1
  <1> QED BY <1>2, BrokerConstants DEF Settled

LEMMA InboxFacts ==
  ASSUME TypeOK, NEW c \in Clients, inbox[c] # None
  PROVE  inbox[c].id \in Question /\ inbox[c].choice \in Choice
  <1>1. inbox[c] \in [id : Question, choice : Choice]
    BY DEF TypeOK
  <1> QED BY <1>1

LEMMA UnderWayTyped ==
  ASSUME TypeOK' PROVE UnderWay' \subseteq Choice
  <1> SUFFICES ASSUME NEW c \in Clients, inbox'[c] # None PROVE inbox'[c].choice \in Choice
    BY DEF UnderWay
  <1>1. inbox'[c] \in [id : Question, choice : Choice]
    BY DEF TypeOK
  <1> QED BY <1>1

LEMMA AskedBeforeStep ==
  ASSUME TypeOK, TypeOK', AskedBefore, [Next]_vars
  PROVE  AskedBefore'
  <1>0. asked \in Nat /\ \A q \in Question : q \in Nat
    BY BrokerConstants DEF TypeOK, Question
  <1>1. CASE UNCHANGED <<asked, shown, inbox>>
    BY <1>1 DEF AskedBefore
  <1>2. CASE Asking
    <2>1. asked' = asked + 1 /\ UNCHANGED <<shown, inbox>>
      BY <1>2 DEF Asking, Ask, client
    <2>2. ASSUME NEW c \in Clients, shown[c] # None PROVE shown[c] <= asked + 1
      <3>1. shown[c] \in Question
        BY <2>2 DEF TypeOK
      <3> QED BY <1>0, <2>2, <3>1 DEF AskedBefore
    <2>3. ASSUME NEW c \in Clients, inbox[c] # None PROVE inbox[c].id <= asked + 1
      BY <1>0, <2>3, InboxFacts DEF AskedBefore
    <2> QED BY <2>1, <2>2, <2>3 DEF AskedBefore
  <1>3. CASE Snapshot \/ Sent \/ Decide
    BY <1>1, <1>3 DEF Snapshot, Sent, Decide, client
  <1>4. ASSUME NEW c \in Clients, Notify(c) PROVE AskedBefore'
    <2>1. /\ asked' = asked /\ inbox' = inbox
          /\ shown' = shown \/ shown' = [shown EXCEPT ![c] = asked]
      BY <1>4 DEF Notify
    <2>2. shown \in [Clients -> Question \cup {None}] /\ asked <= asked
      BY <1>0 DEF TypeOK
    <2> QED BY <2>1, <2>2 DEF AskedBefore
  <1>5. ASSUME NEW c \in Clients, Connection(c) PROVE AskedBefore'
    <2>0. /\ shown \in [Clients -> Question \cup {None}]
          /\ inbox \in [Clients -> {None} \cup [id : Question, choice : Choice]]
      BY DEF TypeOK
    <2>1. CASE Connect(c) \/ Start(c) \/ Prune(c) \/ SlowRequest(c) \/ SlowEnds(c)
      BY <1>1, <2>1 DEF Connect, Start, Prune, SlowRequest, SlowEnds, broker, client
    <2>2. CASE Detach(c)
      BY <2>0, <2>2 DEF Detach, broker, AskedBefore
    <2>3. CASE Closed(c)
      BY <1>1, <2>3 DEF Closed, client
    <2>4. ASSUME NEW cmd, NEW arg, SetMode(c, WantedMode(cmd, arg)) PROVE AskedBefore'
      BY <1>1, <2>4, ModeStep
    <2>5. ASSUME NEW choice \in Choice, Answer(c, choice) PROVE AskedBefore'
      <3> DEFINE m == [id |-> shown[c], choice |-> choice]
      <3>1. shown[c] # None /\ m.id = shown[c] /\ asked' = asked
            /\ inbox' = [inbox EXCEPT ![c] = m] /\ shown' = [shown EXCEPT ![c] = None]
        BY <2>5 DEF Answer, broker
      <3> HIDE DEF m
      <3> QED BY <2>0, <3>1 DEF AskedBefore
    <2>6. CASE Respond(c)
      BY <2>0, <2>6 DEF Respond, AskedBefore
    <2> QED BY <1>5, <2>1, <2>2, <2>3, <2>4, <2>5, <2>6 DEF Connection
  <1> QED BY <1>1, <1>2, <1>3, <1>4, <1>5 DEF Next, Asking, Broadcast, vars

LEMMA PromiseInvariant == Spec => []PromiseInv
  <1>1. Init => AskedBefore
    BY DEF Init, AskedBefore
  <1>2. TypeOK /\ TypeOK' /\ AskedBefore /\ [Next]_vars => AskedBefore'
    BY AskedBeforeStep
  <1>3. Spec => []AskedBefore
    BY <1>1, <1>2, TypeCorrect, PTL DEF Spec
  <1>4. Init => AnswerInv
    BY TypeInit, BrokerConstants DEF Init, AnswerInv, OpenQuestion, FirstAnswerWins
  <1>5. AnswerInv => Unsettled
    BY DEF AnswerInv, OpenQuestion, Unsettled
  <1>6. Spec => []Unsettled
    BY <1>4, <1>5, AnswerStep, PTL DEF Spec
  <1> QED BY <1>3, <1>6, TypeCorrect, PTL DEF PromiseInv

\* Somebody comes, goes or is dropped; answers are sent.
LEMMA OthersStep ==
  ASSUME PromiseInv, TypeOK', UNCHANGED <<pending, verdict>>, Settled' = Settled,
         pending # None /\ ~ pending.set => UnderWay \subseteq UnderWay'
  PROVE  [Promise!Next]_(Promise!vars)
  <1>1. HasListener' \in BOOLEAN
    BY DEF HasListener
  <1>2. UnderWay' \subseteq Choice
    BY UnderWayTyped
  <1> QED BY <1>1, <1>2, PendingFacts DEF PromiseInv, Promise!Others, Promise!Next

LEMMA SameUnderWay ==
  ASSUME UNCHANGED <<inbox, asked>> PROVE UnderWay' = UnderWay
  BY DEF UnderWay

LEMMA AskPromise ==
  ASSUME PromiseInv, TypeOK', Asking
  PROVE  [Promise!Next]_(Promise!vars)
  <1>1. /\ pc = "idle" /\ HasListener /\ asked' = asked + 1 /\ verdict' = None /\ inbox' = inbox
        /\ pc' = "asked" /\ pending' = [set |-> FALSE, choice |-> None]
        /\ UNCHANGED <<sessions, interactive>>
    BY DEF Asking, Ask, server, client
  <1>2. pending = None /\ pending' # None
    BY <1>1 DEF PromiseInv, TypeOK
  <1>3. Settled' = None
    BY <1>1 DEF Settled
  <1>4. UnderWay' = {}
    <2>1. \A c \in Clients : inbox[c] # None => inbox[c].id # asked + 1
      <3> SUFFICES ASSUME NEW c \in Clients, inbox[c] # None PROVE inbox[c].id # asked + 1
        OBVIOUS
      <3>1. inbox[c].id \in Nat /\ asked \in Nat /\ inbox[c].id <= asked
        BY InboxFacts, BrokerConstants DEF PromiseInv, AskedBefore, TypeOK, Question
      <3> QED BY <3>1
    <2> QED BY <1>1, <2>1 DEF UnderWay
  <1>5. HasListener' = HasListener
    BY <1>1 DEF HasListener
  <1>6. Promise!Pose
    BY <1>1, <1>2, <1>3, <1>4, <1>5 DEF Promise!Pose
  <1> QED BY <1>6 DEF Promise!Next

LEMMA DecidePromise ==
  ASSUME PromiseInv, TypeOK', Decide
  PROVE  [Promise!Next]_(Promise!vars)
  <1>1. pending.set /\ pending' = None /\ UNCHANGED <<sessions, interactive, inbox, asked>>
        /\ verdict' = IF pending.choice = None THEN "decline" ELSE pending.choice
    BY DEF Decide, server, client
  <1>2. pending # None
    BY DEF Decide, PromiseInv, TypeOK
  <1>3. Settled # None /\ Settled' = None /\ verdict' = Settled
    BY <1>1, <1>2, PendingFacts DEF PromiseInv, Settled
  <1>4. HasListener' = HasListener /\ UnderWay' = UnderWay
    BY <1>1, SameUnderWay DEF HasListener
  <1>5. Promise!Return
    BY <1>1, <1>2, <1>3, <1>4 DEF Promise!Return
  <1> QED BY <1>5 DEF Promise!Next

LEMMA ClosedPromise ==
  ASSUME PromiseInv, TypeOK', NEW c \in Clients, Closed(c)
  PROVE  [Promise!Next]_(Promise!vars)
  <1> DEFINE heard == (sessions \ {c}) \cap interactive # {}
  <1>1. /\ pending' = DeclineUnheard(pending, heard) /\ UNCHANGED <<inbox, asked, verdict>>
        /\ sessions' = sessions \ {c} /\ interactive' = interactive \ {c}
    BY DEF Closed, client, history
  <1>2. HasListener' = heard
    BY <1>1 DEF HasListener
  <1>3. UnderWay' = UnderWay
    BY <1>1, SameUnderWay
  <1>4. CASE pending = None \/ heard
    <2>1. pending' = pending
      BY <1>1, <1>4 DEF DeclineUnheard
    <2>2. Settled' = Settled
      BY <2>1 DEF Settled
    <2> QED BY <1>1, <1>3, <2>1, <2>2, OthersStep
  <1>5. CASE pending # None /\ ~ heard
    <2>1. /\ pending' # None /\ pending'.set = TRUE /\ pending'.choice = pending.choice
      BY <1>1, <1>5, PendingType DEF DeclineUnheard, PromiseInv
    <2>2. CASE pending.set
      <3>1. Settled' = Settled
        BY <1>5, <2>1, <2>2 DEF Settled
      <3>2. UnderWay' \subseteq Choice
        BY UnderWayTyped
      <3>4. HasListener' \in BOOLEAN /\ Settled # None
        BY <1>5, <2>2, PendingFacts DEF HasListener, PromiseInv
      <3>3. Promise!Others
        BY <1>1, <1>5, <2>1, <3>1, <3>2, <3>4 DEF Promise!Others
      <3> QED BY <3>3 DEF Promise!Next
    <2>3. CASE ~ pending.set
      <3>1. Settled = None /\ Settled' = "decline"
        BY <1>5, <2>1, <2>3 DEF Settled, PromiseInv, Unsettled
      <3>2. Promise!GiveUp
        BY <1>1, <1>2, <1>3, <1>5, <2>1, <3>1 DEF Promise!GiveUp
      <3> QED BY <3>2 DEF Promise!Next
    <2> QED BY <2>2, <2>3
  <1> QED BY <1>4, <1>5

LEMMA RespondPromise ==
  ASSUME PromiseInv, TypeOK', NEW c \in Clients, Respond(c)
  PROVE  [Promise!Next]_(Promise!vars)
  <1> DEFINE id == inbox[c].id
  <1>1. /\ inbox[c] # None /\ inbox' = [inbox EXCEPT ![c] = None]
        /\ pending' = IF Accepts(id) THEN [set |-> TRUE, choice |-> inbox[c].choice] ELSE pending
        /\ UNCHANGED <<sessions, interactive, asked, verdict>>
    BY DEF Respond, server
  <1>2. inbox \in [Clients -> {None} \cup [id : Question, choice : Choice]]
    BY DEF PromiseInv, TypeOK
  <1>3. CASE Accepts(id)
    <2>1. inbox[c].choice \in Choice /\ inbox[c].choice # None /\ inbox[c].choice \in UnderWay
      BY <1>1, <1>3, InboxFacts, BrokerConstants DEF PromiseInv, Accepts, UnderWay
    <2>2. pending # None /\ Settled = None
      BY <1>3 DEF Accepts, Settled
    <2>3. pending' # None
      BY <1>3, <2>2 DEF Respond, PromiseInv, TypeOK
    <2>4. Settled' = inbox[c].choice
      BY <1>1, <1>3, <2>1, <2>3 DEF Settled
    <2>5. UnderWay' \subseteq UnderWay
      BY <1>1, <1>2 DEF UnderWay
    <2>6. HasListener' = HasListener
      BY <1>1 DEF HasListener
    <2>7. Promise!Settle(inbox[c].choice)
      BY <1>1, <2>1, <2>2, <2>3, <2>4, <2>5, <2>6 DEF Promise!Settle
    <2> QED BY <2>1, <2>7 DEF Promise!Next
  <1>4. CASE ~ Accepts(id)
    <2>1. pending' = pending
      BY <1>1, <1>4
    <2>2. Settled' = Settled
      BY <2>1 DEF Settled
    <2>3. pending # None /\ ~ pending.set => UnderWay \subseteq UnderWay'
      <3> SUFFICES ASSUME pending # None, ~ pending.set PROVE UnderWay \subseteq UnderWay'
        OBVIOUS
      <3>1. inbox[c].id # asked
        BY <1>4 DEF Accepts
      <3> QED BY <1>1, <1>2, <3>1 DEF UnderWay
    <2> QED BY <1>1, <2>1, <2>2, <2>3, OthersStep
  <1> QED BY <1>3, <1>4

LEMMA PromiseStep ==
  ASSUME PromiseInv, [Next]_vars
  PROVE  [Promise!Next]_(Promise!vars)
  <1>0. TypeOK'
    BY TypeStep DEF PromiseInv
  <1>1. CASE UNCHANGED <<pending, verdict, inbox, asked>>
    <2>1. UnderWay' = UnderWay /\ Settled' = Settled
      BY <1>1, SameUnderWay DEF Settled
    <2> QED BY <1>0, <1>1, <2>1, OthersStep
  <1>2. CASE Snapshot \/ Sent
    BY <1>1, <1>2 DEF Snapshot, Sent, client, history
  <1>3. ASSUME NEW c \in Clients, Notify(c) PROVE [Promise!Next]_(Promise!vars)
    BY <1>1, <1>3 DEF Notify, history
  <1>4. ASSUME NEW c \in Clients, Connection(c) PROVE [Promise!Next]_(Promise!vars)
    <2>1. CASE Connect(c) \/ Start(c) \/ Detach(c) \/ Prune(c) \/ SlowRequest(c) \/ SlowEnds(c)
      BY <1>1, <2>1 DEF Connect, Start, Detach, Prune, SlowRequest, SlowEnds, broker, client, history
    <2>2. ASSUME NEW cmd, NEW arg, SetMode(c, WantedMode(cmd, arg)) PROVE [Promise!Next]_(Promise!vars)
      BY <1>1, <2>2, ModeStep DEF PromiseInv
    <2>3. ASSUME NEW choice \in Choice, Answer(c, choice) PROVE [Promise!Next]_(Promise!vars)
      <3> DEFINE m == [id |-> shown[c], choice |-> choice]
      <3>1. inbox[c] = None /\ inbox' = [inbox EXCEPT ![c] = m] /\ UNCHANGED <<pending, verdict, asked>>
        BY <2>3 DEF Answer, AtPrompt, broker, history
      <3>2. inbox \in [Clients -> {None} \cup [id : Question, choice : Choice]]
        BY DEF PromiseInv, TypeOK
      <3> HIDE DEF m
      <3>3. UnderWay \subseteq UnderWay'
        BY <3>1, <3>2 DEF UnderWay
      <3>4. Settled' = Settled
        BY <3>1 DEF Settled
      <3> QED BY <1>0, <3>1, <3>3, <3>4, OthersStep
    <2> QED BY <1>0, <1>4, <2>1, <2>2, <2>3, ClosedPromise, RespondPromise DEF Connection
  <1>5. CASE UNCHANGED vars
    BY <1>1, <1>5 DEF vars
  <1> QED BY <1>0, <1>2, <1>3, <1>4, <1>5, AskPromise, DecidePromise DEF Next, Asking, Broadcast

\* The broker keeps the promise of a question, for any clients and any number of questions: each
\* step poses one to a listener, settles it by an answer that was under way, gives it up with
\* nobody left, returns what settled it, or is one of the others' that loses no answer.
THEOREM PromiseKept == Spec => KeepsPromise
  <1>1. Init => Promise!Init
    BY DEF Init, Promise!Init, HasListener, UnderWay, Settled
  <1>2. PromiseInv /\ [Next]_vars => [Promise!Next]_(Promise!vars)
    BY PromiseStep
  <1> QED BY <1>1, <1>2, PromiseInvariant, PTL DEF Spec, KeepsPromise, Promise!Spec

-----------------------------------------------------------------------------
\* An end of a connection that the server has still to see.
HookToCome == \E c \in gone : conn[c] # "off"

\* Only a client that has closed its end is dropped without its hook.
DeadAreGone ==
    /\ dead \subseteq gone
    /\ \A c \in gone : conn[c] # "off"
\* A client declares itself the same way each time: nobody takes a listener back.
OneShotIsSilent  == OneShot \cap interactive = {}
UnheardIsClosing == pending # None /\ ~ pending.set /\ ~ HasListener => HookToCome

ClosingInv == TypeOK /\ DeadAreGone /\ OneShotIsSilent /\ UnheardIsClosing

LEMMA ClosingStep ==
  ASSUME ClosingInv, [Next]_vars
  PROVE  ClosingInv'
  <1> USE DEF ClosingInv, DeadAreGone, OneShotIsSilent, UnheardIsClosing, HookToCome
  <1>0. TypeOK'
    BY TypeStep
  <1>1. CASE UNCHANGED vars
    BY <1>0, <1>1 DEF vars, HasListener
  <1>2. CASE Asking
    BY <1>0, <1>2 DEF Asking, Ask, server, HasListener
  <1>3. CASE Snapshot \/ Decide
    BY <1>0, <1>3 DEF Snapshot, Decide, server, HasListener
  <1>4. ASSUME NEW c \in Clients, Notify(c) PROVE ClosingInv'
    BY <1>0, <1>4 DEF Notify, server, HasListener
  <1>5. CASE Sent
    BY <1>0, <1>5 DEF Sent, HasListener
  <1>6. ASSUME NEW c \in Clients, Connection(c) PROVE ClosingInv'
    <2>0. conn \in [Clients -> {"off", "open", "on"}] /\ gone \subseteq Clients
      BY DEF TypeOK
    <2>1. CASE Connect(c)
      <3>1. conn[c] = "off" /\ sessions \subseteq sessions'
            /\ UNCHANGED <<gone, interactive, pending, dead>>
        BY <2>1 DEF Connect, broker
      <3>2. \A d \in Clients : d # c => conn'[d] = conn[d]
        BY <2>0, <2>1 DEF Connect
      <3>3. \A d \in gone : d \in Clients /\ d # c
        BY <2>0, <3>1
      <3>4. DeadAreGone'
        BY <3>1, <3>2, <3>3
      <3>5. ~ HasListener' => ~ HasListener
        BY <3>1 DEF HasListener
      <3> QED BY <1>0, <3>1, <3>2, <3>3, <3>4, <3>5
    <2>2. CASE Start(c)
      <3>1. /\ c \notin gone /\ UNCHANGED <<gone, sessions, pending, dead>>
            /\ interactive' = IF c \in OneShot THEN interactive \ {c} ELSE interactive \cup {c}
        BY <2>2 DEF Start, broker
      <3>2. \A d \in Clients : d # c => conn'[d] = conn[d]
        BY <2>0, <2>2 DEF Start
      <3>3. \A d \in gone : d \in Clients /\ d # c
        BY <2>0, <3>1
      <3>4. DeadAreGone' /\ OneShotIsSilent'
        BY <3>1, <3>2, <3>3
      <3>5. interactive \subseteq interactive'
        BY <3>1
      <3>6. ~ HasListener' => ~ HasListener
        BY <3>1, <3>5 DEF HasListener
      <3> QED BY <1>0, <3>1, <3>2, <3>3, <3>4, <3>6
    <2>3. CASE Detach(c)
      BY <1>0, <2>0, <2>3 DEF Detach, broker, HasListener
    <2>4. CASE Prune(c)
      BY <1>0, <2>0, <2>4 DEF Prune, broker, HasListener
    <2>5. CASE SlowRequest(c) \/ SlowEnds(c)
      BY <1>0, <2>0, <2>5 DEF SlowRequest, SlowEnds, broker, HasListener
    <2>6. CASE Closed(c)
      <3>1. DeadAreGone' /\ OneShotIsSilent'
        BY <2>0, <2>6 DEF Closed
      <3>2. UnheardIsClosing'
        BY <2>6, PendingType DEF Closed, DeclineUnheard, HasListener
      <3> QED BY <1>0, <3>1, <3>2
    <2>7. ASSUME NEW cmd, NEW arg, SetMode(c, WantedMode(cmd, arg)) PROVE ClosingInv'
      BY <1>0, <2>7, ModeStep DEF HasListener
    <2>8. ASSUME NEW choice \in Choice, Answer(c, choice) PROVE ClosingInv'
      BY <1>0, <2>8 DEF Answer, server, broker, HasListener
    <2>9. CASE Respond(c)
      <3>1. UNCHANGED <<conn, gone, sessions, interactive, dead>>
            /\ (pending' = pending \/ pending' = [set |-> TRUE, choice |-> inbox[c].choice])
        BY <2>9 DEF Respond, server
      <3> QED BY <1>0, <3>1 DEF HasListener
    <2> QED BY <1>6, <2>1, <2>2, <2>3, <2>4, <2>5, <2>6, <2>7, <2>8, <2>9 DEF Connection
  <1> QED BY <1>1, <1>2, <1>3, <1>4, <1>5, <1>6 DEF Next, Asking, Broadcast

\* What HeadlessNeverHangs rests on: while a question waits and nobody listens, a connection
\* has ended whose hook, which declines it, has still to run, also when a broadcast
\* dropped the last session before.
THEOREM DeclineIsComing == Spec => []UnheardIsClosing
  <1>1. Init => ClosingInv
    BY TypeInit DEF Init, ClosingInv, DeadAreGone, OneShotIsSilent, UnheardIsClosing
  <1>2. ClosingInv => UnheardIsClosing
    BY DEF ClosingInv
  <1> QED BY <1>1, <1>2, ClosingStep, PTL DEF Spec
=============================================================================
