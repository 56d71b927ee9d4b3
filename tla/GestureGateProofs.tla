------------------------- MODULE GestureGateProofs -------------------------
(***************************************************************************)
(* Theorems about GestureGate and GestureThreads, for any delays, grace,   *)
(* frame count and timestamps.  The gate keeps five attributes of          *)
(* everything it has seen; the proofs about it rest on what these say of   *)
(* the frames (Tracks): since when and how often the sign was shown, and   *)
(* since when it is missing.  The proof about the threads of the HTTP      *)
(* receiver rests on what each statement of a thread that runs alone has   *)
(* made so far of the gate and the controller it found (Uninterrupted).    *)
(***************************************************************************)
EXTENDS GestureGate, GestureThreads, FiniteSetTheorems, SequenceTheorems, TLAPS

-----------------------------------------------------------------------------
(* Types *)

\* A time is a number.
LEMMA TimesAreNumbers == \A t \in Times : t \in Int
  BY RulesAssumption

\* The gate of a frame has the type of a gate.
LEMMA AfterType ==
  ASSUME NEW g \in Gate, NEW f \in Frame
  PROVE  After(g, f) \in Gate
<1> USE RulesAssumption DEF Gate, Frame
<1>1. CASE f.active
  <2> DEFINE since == IF g.activeSince = None THEN f.at ELSE g.activeSince
             count == IF g.activeSince = None THEN 1 ELSE g.count + 1
             mic == g.mic \/ (f.at - since >= ActivationDelay /\ count >= MinFrames)
  <2>1. since \in Times /\ count \in Nat /\ mic \in BOOLEAN
    OBVIOUS
  <2>2. After(g, f) = [mic |-> mic, activeSince |-> since, lastActiveAt |-> f.at,
                       count |-> count, inactiveSince |-> None]
    BY <1>1 DEF After, AfterActive
  <2> HIDE DEF since, count, mic
  <2>3. QED
    BY <2>1, <2>2
<1>2. CASE ~f.active
  <2> DEFINE since == IF g.inactiveSince = None THEN f.at ELSE g.inactiveSince
             mic == OpensInGap(g, f) \/ (g.mic /\ f.at - since < ReleaseDelay)
  <2>1. since \in Times /\ mic \in BOOLEAN
    BY DEF OpensInGap, WithinGrace
  <2>2. After(g, f) = [mic |-> mic,
                       activeSince |-> IF WithinGrace(g, f) THEN g.activeSince ELSE None,
                       lastActiveAt |-> IF WithinGrace(g, f) THEN g.lastActiveAt ELSE None,
                       count |-> IF WithinGrace(g, f) THEN g.count ELSE 0,
                       inactiveSince |-> since]
    BY <1>2 DEF After, AfterInactive
  <2> HIDE DEF since, mic
  <2>3. QED
    BY <2>1, <2>2
<1>3. QED
  BY <1>1, <1>2

\* So has the controller of a command, which carries an id or none.
LEMMA ControlType ==
  ASSUME TypeOK, NEW mic \in BOOLEAN, NEW id \in PublisherTurns \cup {None}, Control(mic, id)
  PROVE  /\ controller' \in Controller
         /\ command' \in [action : {"start", "stop", "none"},
                         turn : Nat \cup PublisherTurns \cup {None}]
         /\ started' \in Nat \cup PublisherTurns \cup {None}
<1> DEFINE carried == IF id = None THEN Carried(controller, mic) ELSE id
<1>1. Action(controller, mic) \in {"start", "stop", "none"}
  BY DEF Action
<1>2. controller' \in Controller
  BY <1>1 DEF TypeOK, Control, Controlled, Controller
<1>3. carried \in Nat \cup PublisherTurns \cup {None}
  BY DEF TypeOK, Carried, Controller
<1>4. QED
  BY <1>1, <1>2, <1>3 DEF TypeOK, Control

\* Every step keeps every variable in its type.
LEMMA TypeStep == TypeOK /\ [Next]_vars => TypeOK'
<1> SUFFICES ASSUME TypeOK, [Next]_vars PROVE TypeOK'
  OBVIOUS
<1>1. ASSUME NEW f \in Frame, HandleFrame(f) PROVE TypeOK'
  <2>1. gate' \in Gate
    BY <1>1, AfterType DEF TypeOK, HandleFrame
  <2>2. history' \in Seq(Frame)
    BY <1>1, AppendProperties DEF TypeOK, HandleFrame
  <2>3. gate'.mic \in BOOLEAN /\ Control(gate'.mic, None)
    BY <1>1, <2>1 DEF HandleFrame, Gate
  <2>4. QED
    BY <1>1, <2>1, <2>2, <2>3, ControlType DEF TypeOK, HandleFrame, Send
<1>2. ASSUME NEW active \in BOOLEAN, NEW id \in PublisherTurns \cup {None}, HandleEdge(active, id)
      PROVE  TypeOK'
  BY <1>2, ControlType DEF TypeOK, HandleEdge, Send
<1>3. CASE UNCHANGED vars
  BY <1>3 DEF TypeOK, vars
<1>4. QED
  BY <1>1, <1>2, <1>3 DEF Next

\* The receiver starts well typed.
LEMMA TypeInit == Init => TypeOK
  BY RulesAssumption DEF Init, TypeOK, Closed, Gate, Idle, Controller

\* Every reachable state of the gesture receiver is well typed.
THEOREM TypeCorrect == Spec => []TypeOK
  BY TypeInit, TypeStep, PTL DEF Spec

-----------------------------------------------------------------------------
(* The turn id of a command *)

\* The strengthening: between start and stop the controller holds the id of the start,
\* otherwise none.
Holding ==
    /\ TurnLifecycle
    /\ controller.turn = IF controller.recording THEN started ELSE None

\* A command without the id of a publisher keeps it.
LEMMA HoldingControl ==
  ASSUME TypeOK, Holding, NEW mic \in BOOLEAN, Control(mic, None)
  PROVE  Holding'
<1> USE DEF Control, TypeOK, Holding, TurnLifecycle, Controlled, Carried, Controller
<1>1. CASE Action(controller, mic) = "start"
  BY <1>1 DEF Action
<1>2. CASE Action(controller, mic) = "stop"
  BY <1>2 DEF Action
<1>3. CASE Action(controller, mic) = "none"
  BY <1>3 DEF Action
<1>4. QED
  BY <1>1, <1>2, <1>3 DEF Action

\* A receiver whose publishers name no turns pairs its ids: while the microphone is on every
\* command carries the id of its start, the stop too, and while it is off none does.
THEOREM Lifecycle ==
  ASSUME PublisherTurns = {}
  PROVE  Spec => []TurnLifecycle
<1>1. Init => Holding
  BY DEF Init, Holding, TurnLifecycle, Idle
<1>2. TypeOK /\ TypeOK' /\ Holding /\ [Next]_vars => Holding'
  <2> SUFFICES ASSUME TypeOK, TypeOK', Holding, [Next]_vars PROVE Holding'
    OBVIOUS
  <2>1. ASSUME NEW f \in Frame, HandleFrame(f) PROVE Holding'
    BY <2>1, HoldingControl DEF HandleFrame, TypeOK, Gate
  <2>2. ASSUME NEW active \in BOOLEAN, NEW id \in PublisherTurns \cup {None}, HandleEdge(active, id)
        PROVE  Holding'
    BY <2>2, HoldingControl DEF HandleEdge
  <2>3. CASE UNCHANGED vars
    BY <2>3 DEF Holding, TurnLifecycle, vars
  <2>4. QED
    BY <2>1, <2>2, <2>3 DEF Next
<1>3. Holding => TurnLifecycle
  BY DEF Holding
<1>4. QED
  BY <1>1, <1>2, <1>3, TypeCorrect, PTL DEF Spec

-----------------------------------------------------------------------------
(* What the attributes of the gate say about the frames *)

\* h has no sign after frame l.
QuietAfter(h, l) == \A q \in (l + 1)..Len(h) : ~h[q].active

\* The activation under way began with frame j.
Began(g, h, j) ==
    /\ h[j].active /\ h[j].at = g.activeSince
    /\ Bridged(h, j)
    /\ g.count = Cardinality(ActiveFrames(h, j))
    /\ \E l \in j..Len(h) : h[l].active /\ h[l].at = g.lastActiveAt /\ QuietAfter(h, l)

\* From frame j on every frame shows the sign, or lacks it.
AllActive(h, j) == \A i \in j..Len(h) : h[i].active
NoneActive(h, j) == \A i \in j..Len(h) : ~h[i].active

\* A run of frames with the sign is no longer than the activation says, one without it no
\* longer than the release says, if frames come in order.
RunsSeen(g, h) == \A j \in 1..Len(h) :
    /\ AllActive(h, j) => /\ g.activeSince # None
                          /\ g.count >= Len(h) - j + 1
                          /\ InOrder(h) => g.activeSince <= h[j].at
    /\ NoneActive(h, j) => /\ g.inactiveSince # None
                           /\ InOrder(h) => g.inactiveSince <= h[j].at

\* The strengthening of the gate's properties.
Tracks(g, h) ==
    /\ g.activeSince # None => \E j \in 1..Len(h) : Began(g, h, j)
    /\ g.inactiveSince # None =>
          \E j \in 1..Len(h) : h[j].at = g.inactiveSince /\ NoneActive(h, j)
    /\ RunsSeen(g, h)

\* k is h with the frame f at its end.
Extended(h, f, k) ==
    /\ k \in Seq(Frame)
    /\ Len(k) = Len(h) + 1
    /\ \A i \in 1..Len(h) : k[i] = h[i]
    /\ k[Len(h) + 1] = f

\* What Append makes.
LEMMA AppendExtends ==
  ASSUME NEW h \in Seq(Frame), NEW f \in Frame
  PROVE  Extended(h, f, Append(h, f))
  BY AppendProperties DEF Extended

\* Frames that are in order were in order before the last of them.
LEMMA OrderBefore ==
  ASSUME NEW h \in Seq(Frame), NEW f \in Frame, NEW k, Extended(h, f, k), InOrder(k)
  PROVE  InOrder(h) /\ \A i \in 1..Len(h) : h[i].at <= f.at
<1>1. Len(h) \in Nat
  OBVIOUS
<1>2. \A i, l \in 1..Len(h) : i <= l => h[i].at <= h[l].at
  BY <1>1 DEF Extended, InOrder
<1>3. \A i \in 1..Len(h) : h[i].at <= f.at
  <2> TAKE i \in 1..Len(h)
  <2>1. i \in 1..Len(k) /\ Len(k) \in 1..Len(k) /\ i <= Len(k)
    BY <1>1 DEF Extended
  <2>2. k[i].at <= k[Len(k)].at
    BY <2>1 DEF InOrder
  <2>3. QED
    BY <2>2 DEF Extended
<1>4. QED
  BY <1>2, <1>3 DEF InOrder

\* An activation is a set of frames that is finite.
LEMMA ActiveFinite ==
  ASSUME NEW h \in Seq(Frame), NEW j \in 1..Len(h)
  PROVE  IsFiniteSet(ActiveFrames(h, j))
<1>1. j \in Int /\ Len(h) \in Int
  OBVIOUS
<1>2. ActiveFrames(h, j) \in SUBSET (j..Len(h))
  BY DEF ActiveFrames
<1>3. QED
  BY <1>1, <1>2, FS_Interval, FS_Subset

\* A frame with the sign is one more of its activation, a frame without it none.
LEMMA ActiveFramesExtended ==
  ASSUME NEW h \in Seq(Frame), NEW f \in Frame, NEW k, Extended(h, f, k), NEW j \in 1..Len(h)
  PROVE  Cardinality(ActiveFrames(k, j))
           = IF f.active THEN Cardinality(ActiveFrames(h, j)) + 1
                         ELSE Cardinality(ActiveFrames(h, j))
<1>1. Len(h) \in Nat /\ j \in Nat
  OBVIOUS
<1>2. CASE f.active
  <2>1. ActiveFrames(k, j) = ActiveFrames(h, j) \cup {Len(h) + 1}
    BY <1>1, <1>2 DEF ActiveFrames, Extended
  <2>2. Len(h) + 1 \notin ActiveFrames(h, j)
    BY <1>1 DEF ActiveFrames
  <2>3. QED
    BY <1>2, <2>1, <2>2, ActiveFinite, FS_AddElement
<1>3. CASE ~f.active
  <2>1. ActiveFrames(k, j) = ActiveFrames(h, j)
    BY <1>1, <1>3 DEF ActiveFrames, Extended
  <2>2. QED
    BY <1>3, <2>1
<1>4. QED
  BY <1>2, <1>3

\* The first frame of an activation is all of it.
LEMMA ActiveFramesFirst ==
  ASSUME NEW h \in Seq(Frame), NEW f \in Frame, NEW k, Extended(h, f, k), f.active
  PROVE  Cardinality(ActiveFrames(k, Len(k))) = 1
<1>1. ActiveFrames(k, Len(k)) = {Len(k)}
  BY DEF ActiveFrames, Extended
<1>2. QED
  BY <1>1, FS_Singleton

\* A bridge that holds up to h holds up to k, if the new frame keeps it.
LEMMA BridgedExtended ==
  ASSUME NEW h \in Seq(Frame), NEW f \in Frame, NEW k, Extended(h, f, k), NEW j \in 1..Len(h),
         Bridged(h, j),
         \/ f.active
         \/ /\ GapGrace > 0
            /\ \E l \in j..Len(h) : h[l].active /\ QuietAfter(h, l) /\ f.at - h[l].at <= GapGrace
  PROVE  Bridged(k, j)
<1> DEFINE Bridge(s, i) ==
      \/ s[i].active
      \/ /\ GapGrace > 0
         /\ \E l \in j..i : /\ s[l].active
                           /\ \A q \in (l + 1)..i : ~s[q].active
                           /\ s[i].at - s[l].at <= GapGrace
<1>1. Len(h) \in Nat /\ j \in Nat
  OBVIOUS
<1>2. ~f.active => ~k[Len(k)].active
  BY DEF Extended
<1>3. ASSUME NEW i \in j..Len(h) PROVE Bridge(k, i)
  <2>1. Bridge(h, i)
    BY <1>3 DEF Bridged
  <2>2. \A l \in j..i : k[l] = h[l]
    BY <1>1, <1>3 DEF Extended
  <2>3. \A l \in j..i : \A q \in (l + 1)..i : k[q] = h[q]
    BY <1>1, <1>3 DEF Extended
  <2>4. i \in j..i
    BY <1>1, <1>3
  <2>5. QED
    BY <2>1, <2>2, <2>3, <2>4
<1>4. Bridge(k, Len(k))
  <2>1. CASE f.active
    BY <2>1 DEF Extended
  <2>2. CASE ~f.active
    <3>1. PICK l \in j..Len(h) : h[l].active /\ QuietAfter(h, l) /\ f.at - h[l].at <= GapGrace
      BY <2>2
    <3>2. l \in j..Len(k) /\ k[l] = h[l] /\ k[Len(k)] = f
      BY <1>1 DEF Extended
    <3>3. \A q \in (l + 1)..Len(k) : ~k[q].active
      BY <1>1, <2>2, <3>1 DEF Extended, QuietAfter
    <3>4. QED
      BY <2>2, <3>1, <3>2, <3>3
  <2>3. QED
    BY <2>1, <2>2
<1>5. j..Len(k) = (j..Len(h)) \cup {Len(k)}
  BY <1>1 DEF Extended
<1>6. \A i \in j..Len(k) : Bridge(k, i)
  BY <1>3, <1>4, <1>5
<1>7. QED
  BY <1>6 DEF Bridged

-----------------------------------------------------------------------------
(* A frame with the sign *)

\* Its activation began where it had, or begins with it.
LEMMA BeganActive ==
  ASSUME NEW g \in Gate, NEW h \in Seq(Frame), NEW f \in Frame, NEW k, Extended(h, f, k),
         Tracks(g, h), f.active
  PROVE  \E j \in 1..Len(k) : Began(After(g, f), k, j)
<1> DEFINE n == After(g, f)
<1>1. Len(h) \in Nat /\ Len(k) = Len(h) + 1 /\ k[Len(k)] = f
  BY DEF Extended
<1>2. n.lastActiveAt = f.at
  BY DEF After, AfterActive
<1>3. CASE g.activeSince = None
  <2>1. n.activeSince = f.at /\ n.count = 1
    BY <1>3 DEF After, AfterActive
  <2>2. Bridged(k, Len(k))
    BY <1>1 DEF Bridged
  <2>3. Cardinality(ActiveFrames(k, Len(k))) = 1
    BY ActiveFramesFirst
  <2>4. Len(k) \in Len(k)..Len(k) /\ QuietAfter(k, Len(k))
    BY <1>1 DEF QuietAfter
  <2>5. Began(n, k, Len(k))
    BY <1>1, <1>2, <2>1, <2>2, <2>3, <2>4 DEF Began
  <2>6. QED
    BY <1>1, <2>5
<1>4. CASE g.activeSince # None
  <2>1. n.activeSince = g.activeSince /\ n.count = g.count + 1
    BY <1>4 DEF After, AfterActive
  <2>2. PICK j \in 1..Len(h) : Began(g, h, j)
    BY <1>4 DEF Tracks
  <2>3. Bridged(k, j)
    BY <2>2, BridgedExtended DEF Began
  <2>4. k[j] = h[j] /\ j \in 1..Len(k) /\ Len(k) \in j..Len(k)
    BY <1>1 DEF Extended
  <2>5. Cardinality(ActiveFrames(k, j)) = n.count
    BY <2>1, <2>2, ActiveFramesExtended DEF Began
  <2>6. QuietAfter(k, Len(k))
    BY <1>1 DEF QuietAfter
  <2>7. Began(n, k, j)
    BY <1>1, <1>2, <2>1, <2>2, <2>3, <2>4, <2>5, <2>6 DEF Began
  <2>8. QED
    BY <2>4, <2>7
<1>5. QED
  BY <1>3, <1>4

\* The gate still knows of every run.
LEMMA RunsActive ==
  ASSUME NEW g \in Gate, NEW h \in Seq(Frame), NEW f \in Frame, NEW k, Extended(h, f, k),
         Tracks(g, h), f.active
  PROVE  RunsSeen(After(g, f), k)
<1> DEFINE n == After(g, f)
<1>1. Len(h) \in Nat /\ Len(k) = Len(h) + 1 /\ k[Len(k)] = f
  BY DEF Extended
<1>2. /\ n.activeSince = IF g.activeSince = None THEN f.at ELSE g.activeSince
      /\ n.count = IF g.activeSince = None THEN 1 ELSE g.count + 1
  BY DEF After, AfterActive
<1>3. g.count \in Nat /\ g.activeSince \in Times \cup {None} /\ f.at \in Times
  BY DEF Gate, Frame
<1>4. InOrder(k) => n.activeSince <= f.at
  <2> SUFFICES ASSUME InOrder(k) PROVE n.activeSince <= f.at
    OBVIOUS
  <2>1. CASE g.activeSince = None
    <3>1. n.activeSince = f.at
      BY <1>2, <2>1
    <3>2. f.at \in Int
      BY <1>3, RulesAssumption
    <3>3. QED
      BY <3>1, <3>2
  <2>2. CASE g.activeSince # None
    <3>1. PICK j \in 1..Len(h) : h[j].at = g.activeSince
      BY <2>2 DEF Tracks, Began
    <3>2. QED
      BY <1>2, <2>2, <3>1, OrderBefore
  <2>3. QED
    BY <2>1, <2>2
<1>5. ASSUME NEW j \in 1..Len(k) PROVE ~NoneActive(k, j)
  BY <1>1 DEF NoneActive
<1>6. ASSUME NEW j \in 1..Len(k), AllActive(k, j)
      PROVE  /\ n.activeSince # None
             /\ n.count >= Len(k) - j + 1
             /\ InOrder(k) => n.activeSince <= k[j].at
  <2>1. n.activeSince # None
    BY <1>2, <1>3, RulesAssumption
  <2>2. CASE j = Len(k)
    BY <1>1, <1>2, <1>3, <1>4, <2>1, <2>2
  <2>3. CASE j # Len(k)
    <3>1. j \in 1..Len(h) /\ k[j] = h[j]
      BY <1>1, <2>3 DEF Extended
    <3>2. AllActive(h, j)
      BY <1>1, <1>6, <3>1 DEF AllActive, Extended
    <3>3. /\ g.activeSince # None
          /\ g.count >= Len(h) - j + 1
          /\ InOrder(h) => g.activeSince <= h[j].at
      BY <3>1, <3>2 DEF Tracks, RunsSeen
    <3>4. InOrder(k) => InOrder(h)
      BY OrderBefore
    <3>5. QED
      BY <1>1, <1>2, <1>3, <2>1, <3>1, <3>3, <3>4
  <2>4. QED
    BY <2>2, <2>3
<1>7. QED
  BY <1>5, <1>6 DEF RunsSeen

\* The strengthening survives it.
LEMMA TracksActive ==
  ASSUME NEW g \in Gate, NEW h \in Seq(Frame), NEW f \in Frame, NEW k, Extended(h, f, k),
         Tracks(g, h), f.active
  PROVE  Tracks(After(g, f), k)
<1>1. After(g, f).inactiveSince = None
  BY DEF After, AfterActive
<1>2. QED
  BY <1>1, BeganActive, RunsActive DEF Tracks

-----------------------------------------------------------------------------
(* A frame without the sign *)

\* Within the grace its activation goes on.
LEMMA BeganInactive ==
  ASSUME NEW g \in Gate, NEW h \in Seq(Frame), NEW f \in Frame, NEW k, Extended(h, f, k),
         Tracks(g, h), ~f.active, WithinGrace(g, f)
  PROVE  \E j \in 1..Len(k) : Began(After(g, f), k, j)
<1> DEFINE n == After(g, f)
<1>1. Len(h) \in Nat /\ Len(k) = Len(h) + 1 /\ k[Len(k)] = f
  BY DEF Extended
<1>2. n.activeSince = g.activeSince /\ n.count = g.count /\ n.lastActiveAt = g.lastActiveAt
  BY DEF After, AfterInactive
<1>3. GapGrace > 0 /\ f.at - g.lastActiveAt <= GapGrace /\ g.activeSince # None
  BY DEF WithinGrace
<1>4. PICK j \in 1..Len(h) : Began(g, h, j)
  BY <1>3 DEF Tracks
<1>5. PICK l \in j..Len(h) : h[l].active /\ h[l].at = g.lastActiveAt /\ QuietAfter(h, l)
  BY <1>4 DEF Began
<1>6. Bridged(k, j)
  BY <1>3, <1>4, <1>5, BridgedExtended DEF Began
<1>7. k[j] = h[j] /\ j \in 1..Len(k)
  BY <1>1 DEF Extended
<1>8. k[l] = h[l] /\ l \in j..Len(k) /\ QuietAfter(k, l)
  BY <1>1, <1>5 DEF QuietAfter, Extended
<1>9. Cardinality(ActiveFrames(k, j)) = n.count
  BY <1>2, <1>4, ActiveFramesExtended DEF Began
<1>10. Began(n, k, j)
  BY <1>2, <1>4, <1>5, <1>6, <1>7, <1>8, <1>9 DEF Began
<1>11. QED
  BY <1>7, <1>10

\* Its release began where it had, or begins with it.
LEMMA ReleaseBegan ==
  ASSUME NEW g \in Gate, NEW h \in Seq(Frame), NEW f \in Frame, NEW k, Extended(h, f, k),
         Tracks(g, h), ~f.active
  PROVE  \E j \in 1..Len(k) : k[j].at = After(g, f).inactiveSince /\ NoneActive(k, j)
<1>1. Len(h) \in Nat /\ Len(k) = Len(h) + 1 /\ k[Len(k)] = f
  BY DEF Extended
<1>2. After(g, f).inactiveSince = IF g.inactiveSince = None THEN f.at ELSE g.inactiveSince
  BY DEF After, AfterInactive
<1>3. CASE g.inactiveSince = None
  BY <1>1, <1>2, <1>3 DEF NoneActive
<1>4. CASE g.inactiveSince # None
  <2>1. PICK j \in 1..Len(h) : h[j].at = g.inactiveSince /\ NoneActive(h, j)
    BY <1>4 DEF Tracks
  <2>2. k[j] = h[j] /\ j \in 1..Len(k)
    BY <1>1 DEF Extended
  <2>3. NoneActive(k, j)
    BY <1>1, <2>1 DEF NoneActive, Extended
  <2>4. QED
    BY <1>2, <1>4, <2>1, <2>2, <2>3
<1>5. QED
  BY <1>3, <1>4

\* The gate still knows of every run.
LEMMA RunsInactive ==
  ASSUME NEW g \in Gate, NEW h \in Seq(Frame), NEW f \in Frame, NEW k, Extended(h, f, k),
         Tracks(g, h), ~f.active
  PROVE  RunsSeen(After(g, f), k)
<1> DEFINE n == After(g, f)
<1>1. Len(h) \in Nat /\ Len(k) = Len(h) + 1 /\ k[Len(k)] = f
  BY DEF Extended
<1>2. n.inactiveSince = IF g.inactiveSince = None THEN f.at ELSE g.inactiveSince
  BY DEF After, AfterInactive
<1>3. g.inactiveSince \in Times \cup {None} /\ f.at \in Times
  BY DEF Gate, Frame
<1>4. InOrder(k) => n.inactiveSince <= f.at
  <2> SUFFICES ASSUME InOrder(k) PROVE n.inactiveSince <= f.at
    OBVIOUS
  <2>1. CASE g.inactiveSince = None
    <3>1. n.inactiveSince = f.at
      BY <1>2, <2>1
    <3>2. f.at \in Int
      BY <1>3, RulesAssumption
    <3>3. QED
      BY <3>1, <3>2
  <2>2. CASE g.inactiveSince # None
    <3>1. PICK j \in 1..Len(h) : h[j].at = g.inactiveSince
      BY <2>2 DEF Tracks
    <3>2. QED
      BY <1>2, <2>2, <3>1, OrderBefore
  <2>3. QED
    BY <2>1, <2>2
<1>5. ASSUME NEW j \in 1..Len(k) PROVE ~AllActive(k, j)
  BY <1>1 DEF AllActive
<1>6. ASSUME NEW j \in 1..Len(k), NoneActive(k, j)
      PROVE  /\ n.inactiveSince # None
             /\ InOrder(k) => n.inactiveSince <= k[j].at
  <2>1. n.inactiveSince # None
    BY <1>2, <1>3, RulesAssumption
  <2>2. CASE j = Len(k)
    BY <1>1, <1>4, <2>1, <2>2
  <2>3. CASE j # Len(k)
    <3>1. j \in 1..Len(h) /\ k[j] = h[j]
      BY <1>1, <2>3 DEF Extended
    <3>2. NoneActive(h, j)
      BY <1>1, <1>6, <3>1 DEF NoneActive, Extended
    <3>3. g.inactiveSince # None /\ (InOrder(h) => g.inactiveSince <= h[j].at)
      BY <3>1, <3>2 DEF Tracks, RunsSeen
    <3>4. InOrder(k) => InOrder(h)
      BY OrderBefore
    <3>5. QED
      BY <1>2, <2>1, <3>1, <3>3, <3>4
  <2>4. QED
    BY <2>2, <2>3
<1>7. QED
  BY <1>5, <1>6 DEF RunsSeen

\* The strengthening survives it.
LEMMA TracksInactive ==
  ASSUME NEW g \in Gate, NEW h \in Seq(Frame), NEW f \in Frame, NEW k, Extended(h, f, k),
         Tracks(g, h), ~f.active
  PROVE  Tracks(After(g, f), k)
<1>1. ~WithinGrace(g, f) => After(g, f).activeSince = None
  BY DEF After, AfterInactive
<1>2. QED
  BY <1>1, BeganInactive, ReleaseBegan, RunsInactive DEF Tracks

-----------------------------------------------------------------------------
(* What one frame may do *)

\* The microphone opens on frames that show the gesture.
LEMMA OpensOnShown ==
  ASSUME NEW g \in Gate, NEW h \in Seq(Frame), NEW f \in Frame, NEW k, Extended(h, f, k),
         Tracks(g, h), Tracks(After(g, f), k), ~g.mic, After(g, f).mic
  PROVE  Shown(k)
<1> DEFINE n == After(g, f)
<1>1. Len(h) \in Nat /\ Len(k) = Len(h) + 1 /\ k[Len(k)] = f
  BY DEF Extended
<1>2. n.activeSince # None /\ f.at - n.activeSince >= ActivationDelay /\ n.count >= MinFrames
  <2>1. CASE f.active
    <3>1. f.at \in Times /\ g.activeSince \in Times \cup {None}
      BY DEF Gate, Frame
    <3>2. QED
      BY <2>1, <3>1, RulesAssumption DEF After, AfterActive
  <2>2. CASE ~f.active
    <3>1. OpensInGap(g, f)
      BY <2>2 DEF After, AfterInactive
    <3>2. QED
      BY <2>2, <3>1 DEF After, AfterInactive, OpensInGap, WithinGrace
  <2>3. QED
    BY <2>1, <2>2
<1>3. PICK j \in 1..Len(k) : Began(n, k, j)
  BY <1>2 DEF Tracks
<1>4. QED
  BY <1>1, <1>2, <1>3 DEF Shown, Began

\* It closes on frames that lack it.
LEMMA ClosesOnDropped ==
  ASSUME NEW g \in Gate, NEW h \in Seq(Frame), NEW f \in Frame, NEW k, Extended(h, f, k),
         Tracks(After(g, f), k), g.mic, ~After(g, f).mic
  PROVE  Dropped(k)
<1> DEFINE n == After(g, f)
<1>1. Len(h) \in Nat /\ Len(k) = Len(h) + 1 /\ k[Len(k)] = f
  BY DEF Extended
<1>2. ~f.active
  BY DEF After, AfterActive
<1>3. n.inactiveSince \in Times /\ f.at \in Times
  BY <1>2 DEF After, AfterInactive, Gate, Frame
<1>4. ~(f.at - n.inactiveSince < ReleaseDelay)
  BY <1>2 DEF After, AfterInactive
<1>5. f.at - n.inactiveSince >= ReleaseDelay
  <2>1. f.at \in Int /\ n.inactiveSince \in Int
    BY <1>3, TimesAreNumbers
  <2>2. QED
    BY <1>4, <2>1, RulesAssumption
<1>6. PICK j \in 1..Len(k) : k[j].at = n.inactiveSince /\ NoneActive(k, j)
  BY <1>3, RulesAssumption DEF Tracks
<1>7. QED
  BY <1>1, <1>5, <1>6 DEF Dropped, NoneActive

\* A steady gesture, its frames in order, leaves it open.
LEMMA SteadyOpens ==
  ASSUME NEW g \in Gate, NEW h \in Seq(Frame), NEW f \in Frame, NEW k, Extended(h, f, k),
         Tracks(After(g, f), k), InOrder(k), Steady(k)
  PROVE  After(g, f).mic
<1> DEFINE n == After(g, f)
<1>1. Len(h) \in Nat /\ Len(k) = Len(h) + 1 /\ k[Len(k)] = f
  BY DEF Extended
<1>2. PICK j \in 1..Len(k) : /\ AllActive(k, j)
                             /\ f.at - k[j].at >= ActivationDelay
                             /\ Len(k) - j + 1 >= MinFrames
  BY <1>1 DEF Steady, AllActive
<1>3. f.active
  BY <1>1, <1>2 DEF AllActive
<1>4. n.activeSince # None /\ n.count >= Len(k) - j + 1 /\ n.activeSince <= k[j].at
  BY <1>2 DEF Tracks, RunsSeen
<1>5. k[j].at \in Int /\ f.at \in Int /\ n.activeSince \in Int /\ n.count \in Int
  <2>1. n \in Gate
    BY AfterType
  <2>2. k[j] \in Frame
    BY DEF Extended
  <2>3. n.activeSince \in Times /\ n.count \in Nat
    BY <1>4, <2>1 DEF Gate
  <2>4. k[j].at \in Times /\ f.at \in Times
    BY <2>2 DEF Frame
  <2>5. QED
    BY <2>3, <2>4, TimesAreNumbers
<1>6. f.at - n.activeSince >= ActivationDelay /\ n.count >= MinFrames
  <2>1. f.at - n.activeSince >= ActivationDelay
    <3>1. ActivationDelay \in Int
      BY RulesAssumption
    <3>2. QED
      BY <1>2, <1>4, <1>5, <3>1
  <2>2. n.count >= MinFrames
    <3>1. Len(k) - j + 1 \in Int /\ MinFrames \in Int
      BY <1>1, RulesAssumption
    <3>2. QED
      BY <1>2, <1>4, <1>5, <3>1
  <2>3. QED
    BY <2>1, <2>2
<1>7. n.mic = (g.mic \/ (f.at - n.activeSince >= ActivationDelay /\ n.count >= MinFrames))
  BY <1>3 DEF After, AfterActive
<1>8. QED
  BY <1>6, <1>7

\* A hand that is gone, its frames in order, does not leave it open.
LEMMA DroppedCloses ==
  ASSUME NEW g \in Gate, NEW h \in Seq(Frame), NEW f \in Frame, NEW k, Extended(h, f, k),
         Tracks(After(g, f), k), InOrder(k), Dropped(k), g.mic
  PROVE  ~After(g, f).mic
<1> DEFINE n == After(g, f)
<1>1. Len(h) \in Nat /\ Len(k) = Len(h) + 1 /\ k[Len(k)] = f
  BY DEF Extended
<1>2. PICK j \in 1..Len(k) : NoneActive(k, j) /\ f.at - k[j].at >= ReleaseDelay
  BY <1>1 DEF Dropped, NoneActive
<1>3. ~f.active
  BY <1>1, <1>2 DEF NoneActive
<1>4. n.inactiveSince # None /\ n.inactiveSince <= k[j].at
  BY <1>2 DEF Tracks, RunsSeen
<1>5. k[j].at \in Int /\ f.at \in Int /\ n.inactiveSince \in Int
  <2>1. n \in Gate
    BY AfterType
  <2>2. k[j] \in Frame
    BY DEF Extended
  <2>3. n.inactiveSince \in Times
    BY <1>4, <2>1 DEF Gate
  <2>4. k[j].at \in Times /\ f.at \in Times
    BY <2>2 DEF Frame
  <2>5. QED
    BY <2>3, <2>4, TimesAreNumbers
<1>6. ~(f.at - n.inactiveSince < ReleaseDelay)
  BY <1>2, <1>4, <1>5, RulesAssumption
<1>7. ~OpensInGap(g, f)
  BY DEF OpensInGap, WithinGrace
<1>8. n.mic = (OpensInGap(g, f) \/ (g.mic /\ f.at - n.inactiveSince < ReleaseDelay))
  BY <1>3 DEF After, AfterInactive
<1>9. QED
  BY <1>6, <1>7, <1>8

-----------------------------------------------------------------------------
(* The properties of the gate *)

\* The inductive invariant.
Sound == TypeOK /\ Tracks(gate, history) /\ HeldOpens

\* Before the first frame there is nothing to know.
LEMMA SoundInit == Init => Sound
<1> SUFFICES ASSUME Init PROVE Sound
  OBVIOUS
<1>1. gate.activeSince = None /\ gate.inactiveSince = None /\ history = <<>>
  BY DEF Init, Closed
<1>2. 1..Len(history) = {}
  BY <1>1
<1>3. QED
  BY <1>1, <1>2, TypeInit DEF Sound, Tracks, RunsSeen, HeldOpens, Steady

\* A frame leaves the gate as the rules say, and the history one frame longer.
LEMMA FrameTracked ==
  ASSUME Sound, NEW f \in Frame, HandleFrame(f)
  PROVE  /\ gate \in Gate /\ history \in Seq(Frame)
         /\ gate' = After(gate, f)
         /\ Extended(history, f, history')
         /\ Tracks(gate, history) /\ Tracks(gate', history')
<1>1. gate \in Gate /\ history \in Seq(Frame) /\ Tracks(gate, history)
  BY DEF Sound, TypeOK
<1>2. gate' = After(gate, f) /\ history' = Append(history, f)
  BY DEF HandleFrame
<1>3. Extended(history, f, history')
  BY <1>1, <1>2, AppendExtends
<1>4. Tracks(gate', history')
  BY <1>1, <1>2, <1>3, TracksActive, TracksInactive
<1>5. QED
  BY <1>1, <1>2, <1>3, <1>4

\* Any other step leaves both alone.
LEMMA OtherwiseUnchanged ==
  ASSUME [Next]_vars, ~\E f \in Frame : HandleFrame(f)
  PROVE  gate' = gate /\ history' = history
  BY DEF Next, HandleEdge, vars

\* Every step keeps the invariant.
LEMMA SoundStep == Sound /\ [Next]_vars => Sound'
<1> SUFFICES ASSUME Sound, [Next]_vars PROVE Sound'
  OBVIOUS
<1>1. TypeOK'
  BY TypeStep DEF Sound
<1>2. ASSUME NEW f \in Frame, HandleFrame(f) PROVE Tracks(gate, history)' /\ HeldOpens'
  <2>1. Tracks(gate', history')
    BY <1>2, FrameTracked
  <2>2. InOrder(history') /\ Steady(history') => gate'.mic
    BY <1>2, FrameTracked, SteadyOpens
  <2>3. QED
    BY <2>1, <2>2 DEF HeldOpens
<1>3. CASE ~\E f \in Frame : HandleFrame(f)
  BY <1>1, <1>3, OtherwiseUnchanged DEF Sound, HeldOpens
<1>4. QED
  BY <1>1, <1>2, <1>3 DEF Sound

\* The invariant holds in every reachable state.
LEMMA SoundAlways == Spec => []Sound
  BY SoundInit, SoundStep, PTL DEF Spec

\* A gesture that is held opens the microphone, if its frames come in order.
THEOREM HeldGestureOpens == Spec => []HeldOpens
<1>1. Sound => HeldOpens
  BY DEF Sound
<1>2. QED
  BY <1>1, SoundAlways, PTL

\* Noise never opens the microphone, whatever frames come, in whatever order.
THEOREM NoiseNeverOpens == Spec => OpenedByGesture
<1>1. Sound /\ [Next]_vars => [~gate.mic /\ gate'.mic => Shown(history')]_vars
  <2> SUFFICES ASSUME Sound, [Next]_vars, ~gate.mic, gate'.mic PROVE Shown(history')
    OBVIOUS
  <2>1. ASSUME NEW f \in Frame, HandleFrame(f) PROVE Shown(history')
    BY <2>1, FrameTracked, OpensOnShown
  <2>2. QED
    BY <2>1, OtherwiseUnchanged
<1>2. QED
  BY <1>1, SoundAlways, PTL DEF Spec, OpenedByGesture

\* A flicker never closes it.
THEOREM FlickerNeverCloses == Spec => ClosedByRelease
<1>1. Sound /\ [Next]_vars => [gate.mic /\ ~gate'.mic => Dropped(history')]_vars
  <2> SUFFICES ASSUME Sound, [Next]_vars, gate.mic, ~gate'.mic PROVE Dropped(history')
    OBVIOUS
  <2>1. ASSUME NEW f \in Frame, HandleFrame(f) PROVE Dropped(history')
    BY <2>1, FrameTracked, ClosesOnDropped
  <2>2. QED
    BY <2>1, OtherwiseUnchanged
<1>2. QED
  BY <1>1, SoundAlways, PTL DEF Spec, ClosedByRelease

\* A hand that is gone closes it, if its frames come in order.
THEOREM GoneHandCloses == Spec => GoneCloses
<1>1. Sound /\ [Next]_vars =>
        [gate.mic /\ gate'.mic /\ history' # history
           => ~(InOrder(history') /\ Dropped(history'))]_vars
  <2> SUFFICES ASSUME Sound, [Next]_vars, gate.mic, gate'.mic, history' # history,
                      InOrder(history'), Dropped(history')
               PROVE  FALSE
    OBVIOUS
  <2>1. ASSUME NEW f \in Frame, HandleFrame(f) PROVE FALSE
    BY <2>1, FrameTracked, DroppedCloses
  <2>2. QED
    BY <2>1, OtherwiseUnchanged
<1>2. QED
  BY <1>1, SoundAlways, PTL DEF Spec, GoneCloses

-----------------------------------------------------------------------------
(* The threads of the HTTP receiver, which share a gate and a controller       *)

\* The places of a thread that has not decided, with the sign and without it.
Showing == {"forget", "stamp", "first", "begin", "zero", "read", "add", "is_off", "elapsed",
            "enough", "open"}
Lacking == {"clear", "unstamp", "uncount", "absent", "lost", "is_on", "gone", "close"}

\* ... and those of the controller.
Controlling ==
  {"carry", "compare", "record", "fresh", "take", "stop", "give", "release", "send"}

Places == Showing \cup Lacking \cup Controlling \cup {"idle", "decide", "rejected"}

\* A thread that handles a frame has one; what the threads share keeps its type, whatever
\* they do to it.
Threaded ==
  /\ gate \in Gate /\ controller \in Controller
  /\ pc \in [Threads -> Places]
  /\ frame \in [Threads -> Frame \cup {NoFrame}]
  /\ \A h \in Threads : pc[h] # "idle" => frame[h] \in Frame
  /\ read \in [Threads -> Nat]
  /\ told \in [Threads -> BOOLEAN]
  /\ own \in [Threads -> Nat \cup {None}]
  /\ action \in [Threads -> {"start", "stop", "none"}]
  /\ alone \in [Threads -> BOOLEAN]
  /\ before \in [Threads -> [gate : Gate, controller : Controller]]

\* Gate n has these attributes.
Has(n, mic, active, last, count, inactive) ==
  /\ n.mic = mic /\ n.activeSince = active /\ n.lastActiveAt = last
  /\ n.count = count /\ n.inactiveSince = inactive

\* What the statements before p make of the gate g and a frame f that shows the sign ...
ShownSoFar(p, g, f, n) ==
  LET since == IF g.activeSince = None THEN f.at ELSE g.activeSince
      count == IF g.activeSince = None THEN 0 ELSE g.count
  IN  /\ p = "forget" => n = g
      /\ p = "stamp" => Has(n, g.mic, g.activeSince, g.lastActiveAt, g.count, None)
      /\ p \in {"first", "begin"} => Has(n, g.mic, g.activeSince, f.at, g.count, None)
      /\ p \in {"begin", "zero"} => g.activeSince = None
      /\ p = "zero" => Has(n, g.mic, since, f.at, g.count, None)
      /\ p \in {"read", "add"} => Has(n, g.mic, since, f.at, count, None)
      /\ p \in {"is_off", "elapsed", "enough", "open"} =>
            Has(n, g.mic, since, f.at, count + 1, None)
      /\ p \in {"elapsed", "enough", "open"} => ~g.mic
      /\ p \in {"enough", "open"} => f.at - since >= ActivationDelay
      /\ p = "open" => count + 1 >= MinFrames

\* ... and of a frame that lacks it.
LackedSoFar(p, g, f, n) ==
  LET since == IF g.inactiveSince = None THEN f.at ELSE g.inactiveSince
  IN  /\ p = "clear" => n = g
      /\ p = "unstamp" => Has(n, g.mic, None, g.lastActiveAt, g.count, g.inactiveSince)
      /\ p = "uncount" => Has(n, g.mic, None, None, g.count, g.inactiveSince)
      /\ p \in {"absent", "lost"} => Has(n, g.mic, None, None, 0, g.inactiveSince)
      /\ p = "lost" => g.inactiveSince = None
      /\ p \in {"is_on", "gone", "close"} => Has(n, g.mic, None, None, 0, since)
      /\ p \in {"gone", "close"} => g.mic
      /\ p = "close" => f.at - since >= ReleaseDelay

\* What the statements of the controller have made of c so far, with the microphone m.
Handled(h, c, m) ==
  /\ pc[h] \in {"carry", "compare", "record", "stop"} => controller = c
  /\ pc[h] \in {"compare", "record", "stop"} => own[h] = c.turn /\ action[h] = "none"
  /\ pc[h] \in {"record", "fresh", "take"} => Action(c, m) = "start"
  /\ pc[h] \in {"stop", "give", "release"} => Action(c, m) = "stop"
  /\ pc[h] \in {"fresh", "take"} => action[h] = "start"
  /\ pc[h] \in {"give", "release"} => action[h] = "stop"
  /\ pc[h] = "fresh" =>
        controller = [recording |-> TRUE, turn |-> c.turn, issued |-> c.issued]
  /\ pc[h] = "take" => controller = Controlled(c, m)
  /\ pc[h] \in {"give", "release"} =>
        controller = [recording |-> FALSE, turn |-> c.turn, issued |-> c.issued]
  /\ pc[h] = "release" => own[h] = c.turn
  /\ pc[h] = "send" => /\ controller = Controlled(c, m)
                       /\ action[h] = Action(c, m)
                       /\ own[h] = Carried(c, m)

\* A thread that runs alone has done to gate and controller what its statements say.
Uninterrupted(h) ==
  LET g == before[h].gate
      n == After(g, frame[h])
      c == before[h].controller
  IN  /\ pc[h] \in Showing \cup Lacking \cup {"decide"} \cup Controlling
      /\ \A k \in Threads \ {h} : pc[k] = "idle"
      /\ pc[h] \in Showing => frame[h].active /\ ShownSoFar(pc[h], g, frame[h], gate)
      /\ pc[h] = "add" => read[h] = gate.count
      /\ pc[h] \in Lacking => ~frame[h].active /\ LackedSoFar(pc[h], g, frame[h], gate)
      /\ pc[h] \in Showing \cup Lacking \cup {"decide"} => controller = c
      /\ pc[h] \in {"decide"} \cup Controlling => gate = n
      /\ pc[h] \in Controlling => told[h] = n.mic
      /\ Handled(h, c, n.mic)

Alone == \A h \in Threads : alone[h] => Uninterrupted(h)

\* A statement moves its own thread, and leaves the request of every thread alone unless
\* it ends its own.
LEMMA OthersStand ==
  ASSUME Threaded, NEW h \in Threads, Statement(h)
  PROVE  /\ pc[h] # "idle"
         /\ \A k \in Threads \ {h} : pc'[k] = pc[k]
         /\ \/ pc'[h] # "idle" /\ UNCHANGED <<frame, alone, before>>
            \/ /\ pc' = [pc EXCEPT ![h] = "idle"]
               /\ frame' = [frame EXCEPT ![h] = NoFrame]
               /\ alone' = [alone EXCEPT ![h] = FALSE]
               /\ before' = [before EXCEPT ![h] = Fresh]
<1>a. \A c, m : Action(c, m) \in {"start", "stop", "none"}
  BY DEF Action
<1>1. pc[h] # "idle"
  BY DEF Statement, ForgetInactive, StampActive, LookActive, BeginActivation, ZeroCount,
    ReadCount, AddCount, LookOff, Elapsed, ElapsedOfNone, Enough, Open, ClearActive, Unstamp,
    Uncount, LookInactive, BeginRelease, LookOn, Gone, GoneOfNone, Close, Decide, Carry,
    Compare, Record, FreshTurn, TakeTurn, StopRecording, GiveTurn, ForgetTurn, Answer, Reject,
    Step, Branch, Gate_, Local, Done, Fresh, shared, outside, local, request
<1>2. \A k \in Threads \ {h} : pc'[k] = pc[k]
  BY DEF Threaded, Statement, ForgetInactive, StampActive, LookActive, BeginActivation,
    ZeroCount, ReadCount, AddCount, LookOff, Elapsed, ElapsedOfNone, Enough, Open, ClearActive,
    Unstamp, Uncount, LookInactive, BeginRelease, LookOn, Gone, GoneOfNone, Close, Decide,
    Carry, Compare, Record, FreshTurn, TakeTurn, StopRecording, GiveTurn, ForgetTurn, Answer,
    Reject, Step, Branch, Gate_, Local, Done, Fresh, shared, outside, local, request
<1>3. \/ pc'[h] # "idle" /\ UNCHANGED <<frame, alone, before>>
      \/ /\ pc' = [pc EXCEPT ![h] = "idle"]
         /\ frame' = [frame EXCEPT ![h] = NoFrame]
         /\ alone' = [alone EXCEPT ![h] = FALSE]
         /\ before' = [before EXCEPT ![h] = Fresh]
  BY <1>a DEF Threaded, Statement, ForgetInactive, StampActive, LookActive, BeginActivation,
    ZeroCount, ReadCount, AddCount, LookOff, Elapsed, ElapsedOfNone, Enough, Open, ClearActive,
    Unstamp, Uncount, LookInactive, BeginRelease, LookOn, Gone, GoneOfNone, Close, Decide,
    Carry, Compare, Record, FreshTurn, TakeTurn, StopRecording, GiveTurn, ForgetTurn, Answer,
    Reject, Step, Branch, Gate_, Local, Done, Fresh, shared, outside, local, request
<1> QED
  BY <1>1, <1>2, <1>3

\* A statement of a thread keeps the types.
LEMMA ThreadedStatement ==
  ASSUME Threaded, NEW h \in Threads, Statement(h)
  PROVE  Threaded'
<1>1. pc[h] # "idle"
  BY OthersStand
<1>2. pc' \in [Threads -> Places]
  <2>a. \A c, m : Action(c, m) \in {"start", "stop", "none"}
    BY DEF Action
  <2>1. CASE ForgetInactive(h) \/ StampActive(h) \/ LookActive(h) \/
    BeginActivation(h) \/ ZeroCount(h)
    BY <2>1 DEF Threaded, Places, Showing, Lacking, Controlling, ForgetInactive, StampActive,
      LookActive, BeginActivation, ZeroCount, Step, Branch, Gate_, Local, Done, Fresh, shared,
      outside, local, request
  <2>2. CASE ReadCount(h) \/ AddCount(h)
    BY <2>2 DEF Threaded, Places, Showing, Lacking, Controlling, ReadCount, AddCount, Step,
      Branch, Gate_, Local, Done, Fresh, shared, outside, local, request
  <2>3. CASE LookOff(h) \/ Elapsed(h) \/ ElapsedOfNone(h) \/ Enough(h) \/ Open(h)
    BY <2>3 DEF Threaded, Places, Showing, Lacking, Controlling, LookOff, Elapsed,
      ElapsedOfNone, Enough, Open, Step, Branch, Gate_, Local, Done, Fresh, shared, outside,
      local, request
  <2>4. CASE ClearActive(h) \/ Unstamp(h) \/ Uncount(h)
    BY <2>4 DEF Threaded, Places, Showing, Lacking, Controlling, ClearActive, Unstamp, Uncount,
      Step, Branch, Gate_, Local, Done, Fresh, shared, outside, local, request
  <2>5. CASE LookInactive(h) \/ BeginRelease(h) \/ LookOn(h)
    BY <2>5 DEF Threaded, Places, Showing, Lacking, Controlling, LookInactive, BeginRelease,
      LookOn, Step, Branch, Gate_, Local, Done, Fresh, shared, outside, local, request
  <2>6. CASE Gone(h) \/ GoneOfNone(h) \/ Close(h)
    BY <2>6 DEF Threaded, Places, Showing, Lacking, Controlling, Gone, GoneOfNone, Close, Step,
      Branch, Gate_, Local, Done, Fresh, shared, outside, local, request
  <2>7. CASE Decide(h) \/ Carry(h) \/ Compare(h)
    BY <2>7, <2>a DEF Threaded, Places, Showing, Lacking, Controlling, Decide, Carry, Compare,
      Step, Branch, Gate_, Local, Done, Fresh, shared, outside, local, request
  <2>8. CASE Record(h) \/ FreshTurn(h)
    BY <2>8 DEF Threaded, Places, Showing, Lacking, Controlling, Record, FreshTurn, Step,
      Branch, Gate_, Local, Done, Fresh, shared, outside, local, request
  <2>9. CASE TakeTurn(h) \/ StopRecording(h)
    BY <2>9 DEF Threaded, Places, Showing, Lacking, Controlling, TakeTurn, StopRecording, Step,
      Branch, Gate_, Local, Done, Fresh, shared, outside, local, request
  <2>10. CASE GiveTurn(h) \/ ForgetTurn(h)
    BY <2>10 DEF Threaded, Places, Showing, Lacking, Controlling, GiveTurn, ForgetTurn, Step,
      Branch, Gate_, Local, Done, Fresh, shared, outside, local, request
  <2>11. CASE Answer(h)
    BY <2>11 DEF Threaded, Places, Showing, Lacking, Controlling, Answer, Step, Branch, Gate_,
      Local, Done, Fresh, shared, outside, local, request
  <2>12. CASE Reject(h)
    BY <2>12 DEF Threaded, Places, Showing, Lacking, Controlling, Reject, Step, Branch, Gate_,
      Local, Done, Fresh, shared, outside, local, request
  <2> QED
    BY <2>1, <2>2, <2>3, <2>4, <2>5, <2>6, <2>7, <2>8, <2>9, <2>10, <2>11, <2>12 DEF Statement
<1>3. gate' \in Gate
  <2>a. frame[h] \in Frame
    BY <1>1 DEF Threaded
  <2>1. CASE ForgetInactive(h)
    BY <2>1, <2>a, RulesAssumption DEF Threaded, Gate, Frame, ForgetInactive, Step, Branch,
      Gate_, Local, Done, Fresh, shared, outside, local, request
  <2>2. CASE StampActive(h)
    BY <2>2, <2>a, RulesAssumption DEF Threaded, Gate, Frame, StampActive, Step, Branch, Gate_,
      Local, Done, Fresh, shared, outside, local, request
  <2>3. CASE BeginActivation(h)
    BY <2>3, <2>a, RulesAssumption DEF Threaded, Gate, Frame, BeginActivation, Step, Branch,
      Gate_, Local, Done, Fresh, shared, outside, local, request
  <2>4. CASE ZeroCount(h)
    BY <2>4, <2>a, RulesAssumption DEF Threaded, Gate, Frame, ZeroCount, Step, Branch, Gate_,
      Local, Done, Fresh, shared, outside, local, request
  <2>5. CASE AddCount(h)
    <3>1. read[h] + 1 \in Nat /\ gate' = [gate EXCEPT !.count = read[h] + 1]
      BY <2>5 DEF Threaded, AddCount, Gate_
    <3> QED
      BY <3>1 DEF Threaded, Gate
  <2>6. CASE Open(h)
    BY <2>6, <2>a, RulesAssumption DEF Threaded, Gate, Frame, Open, Step, Branch, Gate_, Local,
      Done, Fresh, shared, outside, local, request
  <2>7. CASE ClearActive(h)
    BY <2>7, <2>a, RulesAssumption DEF Threaded, Gate, Frame, ClearActive, Step, Branch, Gate_,
      Local, Done, Fresh, shared, outside, local, request
  <2>8. CASE Unstamp(h)
    BY <2>8, <2>a, RulesAssumption DEF Threaded, Gate, Frame, Unstamp, Step, Branch, Gate_,
      Local, Done, Fresh, shared, outside, local, request
  <2>9. CASE Uncount(h)
    BY <2>9, <2>a, RulesAssumption DEF Threaded, Gate, Frame, Uncount, Step, Branch, Gate_,
      Local, Done, Fresh, shared, outside, local, request
  <2>10. CASE BeginRelease(h)
    BY <2>10, <2>a, RulesAssumption DEF Threaded, Gate, Frame, BeginRelease, Step, Branch,
      Gate_, Local, Done, Fresh, shared, outside, local, request
  <2>11. CASE Close(h)
    BY <2>11, <2>a, RulesAssumption DEF Threaded, Gate, Frame, Close, Step, Branch, Gate_,
      Local, Done, Fresh, shared, outside, local, request
  <2>12. CASE UNCHANGED gate
    BY <2>12 DEF Threaded
  <2> QED
    BY <2>1, <2>2, <2>3, <2>4, <2>5, <2>6, <2>7, <2>8, <2>9, <2>10, <2>11, <2>12 DEF Statement,
      LookActive, ReadCount, LookOff, Elapsed, ElapsedOfNone, Enough, LookInactive, LookOn,
      Gone, GoneOfNone, Decide, Carry, Compare, Record, FreshTurn, TakeTurn, StopRecording,
      GiveTurn, ForgetTurn, Answer, Reject, Step, Branch, Gate_, Local, Done, Fresh, shared,
      outside, local, request
<1>4. controller' \in Controller
  <2>1. CASE Record(h)
    BY <2>1 DEF Threaded, Controller, Record, Step, Branch, Gate_, Local, Done, Fresh, shared,
      outside, local, request
  <2>2. CASE FreshTurn(h)
    <3>1. controller.issued + 1 \in Nat
      BY DEF Threaded, Controller
    <3>2. controller' = [controller EXCEPT !.turn = controller.issued + 1,
                                           !.issued = controller.issued + 1]
      BY <2>2 DEF FreshTurn, Threaded, Controller
    <3> QED
      BY <3>1, <3>2 DEF Threaded, Controller
  <2>3. CASE StopRecording(h)
    BY <2>3 DEF Threaded, Controller, StopRecording, Step, Branch, Gate_, Local, Done, Fresh,
      shared, outside, local, request
  <2>4. CASE ForgetTurn(h)
    BY <2>4 DEF Threaded, Controller, ForgetTurn, Step, Branch, Gate_, Local, Done, Fresh,
      shared, outside, local, request
  <2>5. CASE UNCHANGED controller
    BY <2>5 DEF Threaded
  <2> QED
    BY <2>1, <2>2, <2>3, <2>4, <2>5 DEF Statement, ForgetInactive, StampActive, LookActive,
      BeginActivation, ZeroCount, ReadCount, AddCount, LookOff, Elapsed, ElapsedOfNone, Enough,
      Open, ClearActive, Unstamp, Uncount, LookInactive, BeginRelease, LookOn, Gone,
      GoneOfNone, Close, Decide, Carry, Compare, TakeTurn, GiveTurn, Answer, Reject, Step,
      Branch, Gate_, Local, Done, Fresh, shared, outside, local, request
<1>5. read' \in [Threads -> Nat]
  BY DEF Threaded, Gate, Statement, ForgetInactive, StampActive, LookActive, BeginActivation,
    ZeroCount, ReadCount, AddCount, LookOff, Elapsed, ElapsedOfNone, Enough, Open, ClearActive,
    Unstamp, Uncount, LookInactive, BeginRelease, LookOn, Gone, GoneOfNone, Close, Decide,
    Carry, Compare, Record, FreshTurn, TakeTurn, StopRecording, GiveTurn, ForgetTurn, Answer,
    Reject, Step, Branch, Gate_, Local, Done, Fresh, shared, outside, local, request
<1>6. told' \in [Threads -> BOOLEAN]
  BY DEF Threaded, Gate, Statement, ForgetInactive, StampActive, LookActive, BeginActivation,
    ZeroCount, ReadCount, AddCount, LookOff, Elapsed, ElapsedOfNone, Enough, Open, ClearActive,
    Unstamp, Uncount, LookInactive, BeginRelease, LookOn, Gone, GoneOfNone, Close, Decide,
    Carry, Compare, Record, FreshTurn, TakeTurn, StopRecording, GiveTurn, ForgetTurn, Answer,
    Reject, Step, Branch, Gate_, Local, Done, Fresh, shared, outside, local, request
<1>7. own' \in [Threads -> Nat \cup {None}]
  BY DEF Threaded, Controller, Statement, ForgetInactive, StampActive, LookActive,
    BeginActivation, ZeroCount, ReadCount, AddCount, LookOff, Elapsed, ElapsedOfNone, Enough,
    Open, ClearActive, Unstamp, Uncount, LookInactive, BeginRelease, LookOn, Gone, GoneOfNone,
    Close, Decide, Carry, Compare, Record, FreshTurn, TakeTurn, StopRecording, GiveTurn,
    ForgetTurn, Answer, Reject, Step, Branch, Gate_, Local, Done, Fresh, shared, outside,
    local, request
<1>8. action' \in [Threads -> {"start", "stop", "none"}]
  BY DEF Threaded, Statement, ForgetInactive, StampActive, LookActive, BeginActivation,
    ZeroCount, ReadCount, AddCount, LookOff, Elapsed, ElapsedOfNone, Enough, Open, ClearActive,
    Unstamp, Uncount, LookInactive, BeginRelease, LookOn, Gone, GoneOfNone, Close, Decide,
    Carry, Compare, Record, FreshTurn, TakeTurn, StopRecording, GiveTurn, ForgetTurn, Answer,
    Reject, Step, Branch, Gate_, Local, Done, Fresh, shared, outside, local, request
<1>9. /\ frame' \in [Threads -> Frame \cup {NoFrame}]
      /\ alone' \in [Threads -> BOOLEAN]
      /\ before' \in [Threads -> [gate : Gate, controller : Controller]]
      /\ \A k \in Threads : pc'[k] # "idle" => frame'[k] \in Frame
  <2>1. Fresh \in [gate : Gate, controller : Controller]
    BY RulesAssumption DEF Fresh, Gate, Controller, Closed, Idle
  <2>2. CASE UNCHANGED <<frame, alone, before>>
    <3>1. \A k \in Threads : pc'[k] # "idle" => pc[k] # "idle"
      BY <1>1, OthersStand
    <3> QED
      BY <2>2, <3>1 DEF Threaded
  <2>3. CASE /\ pc' = [pc EXCEPT ![h] = "idle"]
             /\ frame' = [frame EXCEPT ![h] = NoFrame]
             /\ alone' = [alone EXCEPT ![h] = FALSE]
             /\ before' = [before EXCEPT ![h] = Fresh]
    <3> HIDE DEF Gate, Controller, Frame
    <3>1. frame' \in [Threads -> Frame \cup {NoFrame}]
      BY <2>3 DEF Threaded
    <3>2. alone' \in [Threads -> BOOLEAN]
      BY <2>3 DEF Threaded
    <3>3. before' \in [Threads -> [gate : Gate, controller : Controller]]
      BY <2>1, <2>3 DEF Threaded
    <3>4. \A k \in Threads : pc'[k] # "idle" => frame'[k] \in Frame
      BY <2>3 DEF Threaded
    <3> QED
      BY <3>1, <3>2, <3>3, <3>4
  <2> QED
    BY OthersStand, <2>2, <2>3
<1> QED
  BY <1>2, <1>3, <1>4, <1>5, <1>6, <1>7, <1>8, <1>9 DEF Threaded

\* Gates with the same attributes are the same.
LEMMA SameGate ==
  ASSUME NEW g \in Gate, NEW n \in Gate,
         Has(n, g.mic, g.activeSince, g.lastActiveAt, g.count, g.inactiveSince)
  PROVE  n = g
  BY DEF Gate, Has

\* The statements of a frame that shows the sign end in the gate of the rule ...
LEMMA ShownAfter ==
  ASSUME NEW g \in Gate, NEW f \in Frame, f.active, NEW n \in Gate,
         NEW since, since = IF g.activeSince = None THEN f.at ELSE g.activeSince,
         NEW count, count = IF g.activeSince = None THEN 0 ELSE g.count,
         Has(n, g.mic \/ (f.at - since >= ActivationDelay /\ count + 1 >= MinFrames),
             since, f.at, count + 1, None)
  PROVE  n = After(g, f)
<1>1. After(g, f) \in Gate
  BY AfterType
<1>2. IF g.activeSince = None THEN count + 1 = 1 ELSE count + 1 = g.count + 1
  OBVIOUS
<1> QED
  BY <1>1, <1>2, SameGate DEF After, AfterActive, Has

\* ... and so do those of a frame that lacks it.
LEMMA LackedAfter ==
  ASSUME GapGrace = 0, NEW g \in Gate, NEW f \in Frame, ~f.active, NEW n \in Gate,
         NEW since, since = IF g.inactiveSince = None THEN f.at ELSE g.inactiveSince,
         Has(n, g.mic /\ f.at - since < ReleaseDelay, None, None, 0, since)
  PROVE  n = After(g, f)
<1>1. After(g, f) \in Gate
  BY AfterType
<1>2. ~WithinGrace(g, f) /\ ~OpensInGap(g, f)
  BY DEF WithinGrace, OpensInGap
<1> QED
  BY <1>1, <1>2, SameGate DEF After, AfterInactive, Has

\* What the controller makes of each of its commands.
LEMMA ControlledBy ==
  ASSUME NEW c \in Controller, NEW m \in BOOLEAN
  PROVE  /\ Action(c, m) \in {"start", "stop", "none"}
         /\ Action(c, m) = "start" =>
               /\ Controlled(c, m) =
                     [recording |-> TRUE, turn |-> c.issued + 1, issued |-> c.issued + 1]
               /\ Carried(c, m) = c.issued + 1
         /\ Action(c, m) = "stop" =>
               Controlled(c, m) = [recording |-> FALSE, turn |-> None, issued |-> c.issued]
         /\ Action(c, m) = "none" => Controlled(c, m) = c
         /\ Action(c, m) # "start" => Carried(c, m) = c.turn
<1> USE DEF Controller
<1>1. Action(c, m) \in {"start", "stop", "none"}
  BY DEF Action
<1>2. CASE Action(c, m) = "start"
  <2>1. m = TRUE /\ c.recording = FALSE
    BY <1>2 DEF Action
  <2>2. c.issued + 1 \in Nat
    OBVIOUS
  <2>3. Controlled(c, m) = [recording |-> TRUE, turn |-> c.issued + 1, issued |-> c.issued + 1]
    BY <1>2, <2>1 DEF Controlled
  <2> QED
    BY <1>2, <2>2, <2>3 DEF Carried
<1>3. CASE Action(c, m) = "stop"
  <2>1. m = FALSE
    BY <1>3 DEF Action
  <2>2. Controlled(c, m) = [recording |-> FALSE, turn |-> None, issued |-> c.issued]
    BY <1>3, <2>1 DEF Controlled
  <2> QED
    BY <1>3, <2>2 DEF Carried
<1>4. CASE Action(c, m) = "none"
  <2>1. m = c.recording
    BY <1>4 DEF Action
  <2>2. Controlled(c, m) = [recording |-> c.recording, turn |-> c.turn, issued |-> c.issued]
    BY <1>4, <2>1 DEF Controlled
  <2> QED
    BY <1>4, <2>2 DEF Carried
<1> QED
  BY <1>1, <1>2, <1>3, <1>4

\* A thread that runs alone does what its statements say, up to its answer.
LEMMA UninterruptedStatement ==
  ASSUME WithoutGrace, Threaded, Threaded', NEW h \in Threads, Statement(h),
         Uninterrupted(h)
  PROVE  pc'[h] = "idle" \/ Uninterrupted(h)'
<1> DEFINE g == before[h].gate
           f == frame[h]
           c == before[h].controller
           n == After(g, f)
           since == IF g.activeSince = None THEN f.at ELSE g.activeSince
           count == IF g.activeSince = None THEN 0 ELSE g.count
           lacking == IF g.inactiveSince = None THEN f.at ELSE g.inactiveSince
<1> USE DEF Showing, Lacking, Controlling, ShownSoFar, LackedSoFar, Handled, Has
<1>a. /\ g \in Gate /\ f \in Frame /\ c \in Controller /\ GapGrace = 0
      /\ gate \in Gate /\ gate' \in Gate /\ n \in Gate /\ n.mic \in BOOLEAN
  BY AfterType DEF Threaded, WithoutGrace, Uninterrupted, Gate
<1>b. RulesAssumption
  BY RulesAssumption
<1>c. /\ f.at \in Int /\ since \in Int /\ lacking \in Int
  BY <1>a, <1>b DEF Frame, Gate
<1>d. /\ n.mic \in BOOLEAN
      /\ Action(c, n.mic) \in {"start", "stop", "none"}
      /\ Action(c, n.mic) = "start" =>
            /\ Controlled(c, n.mic) =
                  [recording |-> TRUE, turn |-> c.issued + 1, issued |-> c.issued + 1]
            /\ Carried(c, n.mic) = c.issued + 1
      /\ Action(c, n.mic) = "stop" =>
            Controlled(c, n.mic) = [recording |-> FALSE, turn |-> None, issued |-> c.issued]
      /\ Action(c, n.mic) = "none" => Controlled(c, n.mic) = c
      /\ Action(c, n.mic) # "start" => Carried(c, n.mic) = c.turn
  BY <1>a, ControlledBy

<1>1. CASE ForgetInactive(h)
  BY <1>1, <1>a, <1>b DEF Uninterrupted, ForgetInactive, Threaded, Gate, Frame, Step, Branch,
    Gate_, Local, shared, outside, local, request
<1>2. CASE StampActive(h)
  BY <1>2, <1>a, <1>b DEF Uninterrupted, StampActive, Threaded, Gate, Frame, Step, Branch,
    Gate_, Local, shared, outside, local, request
<1>3. CASE LookActive(h)
  BY <1>3, <1>a, <1>b DEF Uninterrupted, LookActive, Threaded, Gate, Frame, Step, Branch,
    Gate_, Local, shared, outside, local, request
<1>4. CASE BeginActivation(h)
  BY <1>4, <1>a, <1>b DEF Uninterrupted, BeginActivation, Threaded, Gate, Frame, Step, Branch,
    Gate_, Local, shared, outside, local, request
<1>5. CASE ZeroCount(h)
  BY <1>5, <1>a, <1>b DEF Uninterrupted, ZeroCount, Threaded, Gate, Frame, Step, Branch, Gate_,
    Local, shared, outside, local, request
<1>6. CASE ReadCount(h)
  BY <1>6, <1>a, <1>b DEF Uninterrupted, ReadCount, Threaded, Gate, Frame, Step, Branch, Gate_,
    Local, shared, outside, local, request
<1>7. CASE AddCount(h)
  BY <1>7, <1>a, <1>b DEF Uninterrupted, AddCount, Threaded, Gate, Frame, Step, Branch, Gate_,
    Local, shared, outside, local, request
<1>8. CASE LookOff(h)
  <2>1. CASE pc'[h] = "decide"
    <3>1. /\ f.active /\ Has(gate', g.mic \/ (f.at - since >= ActivationDelay
                                              /\ count + 1 >= MinFrames),
                           since, f.at, count + 1, None)
      BY <1>8, <2>1, <1>a, <1>b, <1>c DEF Uninterrupted, LookOff, Step, Branch, Gate_, outside,
        local, request, shared, Threaded, Gate, Frame
    <3>2. gate' = n
      BY <1>a, <3>1, ShownAfter
    <3> QED
      BY <1>8, <2>1, <3>2 DEF Uninterrupted, LookOff, Step, Branch, Gate_, outside, local,
        request, shared, Threaded
  <2>2. CASE pc'[h] # "decide"
    BY <1>8, <2>2, <1>a, <1>b DEF Uninterrupted, LookOff, Step, Branch, Gate_, outside, local,
      request, shared, Threaded, Gate, Frame
  <2> QED
    BY <2>1, <2>2
<1>9. CASE Elapsed(h)
  <2>1. CASE pc'[h] = "decide"
    <3>1. /\ f.active /\ Has(gate', g.mic \/ (f.at - since >= ActivationDelay
                                              /\ count + 1 >= MinFrames),
                           since, f.at, count + 1, None)
      BY <1>9, <2>1, <1>a, <1>b, <1>c DEF Uninterrupted, Elapsed, Step, Branch, Gate_, outside,
        local, request, shared, Threaded, Gate, Frame
    <3>2. gate' = n
      BY <1>a, <3>1, ShownAfter
    <3> QED
      BY <1>9, <2>1, <3>2 DEF Uninterrupted, Elapsed, Step, Branch, Gate_, outside, local,
        request, shared, Threaded
  <2>2. CASE pc'[h] # "decide"
    BY <1>9, <2>2, <1>a, <1>b DEF Uninterrupted, Elapsed, Step, Branch, Gate_, outside, local,
      request, shared, Threaded, Gate, Frame
  <2> QED
    BY <2>1, <2>2
<1>10. CASE ElapsedOfNone(h)
  BY <1>10, <1>a, <1>b DEF Uninterrupted, ElapsedOfNone, Threaded, Gate, Frame, Step, Branch,
    Gate_, Local, shared, outside, local, request
<1>11. CASE Enough(h)
  <2>1. CASE pc'[h] = "decide"
    <3>1. /\ f.active /\ Has(gate', g.mic \/ (f.at - since >= ActivationDelay
                                              /\ count + 1 >= MinFrames),
                           since, f.at, count + 1, None)
      BY <1>11, <2>1, <1>a, <1>b, <1>c DEF Uninterrupted, Enough, Step, Branch, Gate_, outside,
        local, request, shared, Threaded, Gate, Frame
    <3>2. gate' = n
      BY <1>a, <3>1, ShownAfter
    <3> QED
      BY <1>11, <2>1, <3>2 DEF Uninterrupted, Enough, Step, Branch, Gate_, outside, local,
        request, shared, Threaded
  <2>2. CASE pc'[h] # "decide"
    BY <1>11, <2>2, <1>a, <1>b DEF Uninterrupted, Enough, Step, Branch, Gate_, outside, local,
      request, shared, Threaded, Gate, Frame
  <2> QED
    BY <2>1, <2>2
<1>12. CASE Open(h)
  <2>1. CASE pc'[h] = "decide"
    <3>1. /\ f.active /\ Has(gate', g.mic \/ (f.at - since >= ActivationDelay
                                              /\ count + 1 >= MinFrames),
                           since, f.at, count + 1, None)
      BY <1>12, <2>1, <1>a, <1>b, <1>c DEF Uninterrupted, Open, Step, Branch, Gate_, outside,
        local, request, shared, Threaded, Gate, Frame
    <3>2. gate' = n
      BY <1>a, <3>1, ShownAfter
    <3> QED
      BY <1>12, <2>1, <3>2 DEF Uninterrupted, Open, Step, Branch, Gate_, outside, local,
        request, shared, Threaded
  <2>2. CASE pc'[h] # "decide"
    BY <1>12, <2>2, <1>a, <1>b DEF Uninterrupted, Open, Step, Branch, Gate_, outside, local,
      request, shared, Threaded, Gate, Frame
  <2> QED
    BY <2>1, <2>2
<1>13. CASE ClearActive(h)
  BY <1>13, <1>a, <1>b DEF Uninterrupted, ClearActive, Threaded, Gate, Frame, Step, Branch,
    Gate_, Local, shared, outside, local, request
<1>14. CASE Unstamp(h)
  BY <1>14, <1>a, <1>b DEF Uninterrupted, Unstamp, Threaded, Gate, Frame, Step, Branch, Gate_,
    Local, shared, outside, local, request
<1>15. CASE Uncount(h)
  BY <1>15, <1>a, <1>b DEF Uninterrupted, Uncount, Threaded, Gate, Frame, Step, Branch, Gate_,
    Local, shared, outside, local, request
<1>16. CASE LookInactive(h)
  BY <1>16, <1>a, <1>b DEF Uninterrupted, LookInactive, Threaded, Gate, Frame, Step, Branch,
    Gate_, Local, shared, outside, local, request
<1>17. CASE BeginRelease(h)
  BY <1>17, <1>a, <1>b DEF Uninterrupted, BeginRelease, Threaded, Gate, Frame, Step, Branch,
    Gate_, Local, shared, outside, local, request
<1>18. CASE LookOn(h)
  <2>1. CASE pc'[h] = "decide"
    <3>1. ~f.active /\ Has(gate', g.mic /\ f.at - lacking < ReleaseDelay, None, None, 0, lacking)
      BY <1>18, <2>1, <1>a, <1>b, <1>c DEF Uninterrupted, LookOn, Step, Branch, Gate_, outside,
        local, request, shared, Threaded, Gate, Frame
    <3>2. gate' = n
      BY <1>a, <3>1, LackedAfter
    <3> QED
      BY <1>18, <2>1, <3>2 DEF Uninterrupted, LookOn, Step, Branch, Gate_, outside, local,
        request, shared, Threaded
  <2>2. CASE pc'[h] # "decide"
    BY <1>18, <2>2, <1>a, <1>b DEF Uninterrupted, LookOn, Step, Branch, Gate_, outside, local,
      request, shared, Threaded, Gate, Frame
  <2> QED
    BY <2>1, <2>2
<1>19. CASE Gone(h)
  <2>1. CASE pc'[h] = "decide"
    <3>1. ~f.active /\ Has(gate', g.mic /\ f.at - lacking < ReleaseDelay, None, None, 0, lacking)
      BY <1>19, <2>1, <1>a, <1>b, <1>c DEF Uninterrupted, Gone, Step, Branch, Gate_, outside,
        local, request, shared, Threaded, Gate, Frame
    <3>2. gate' = n
      BY <1>a, <3>1, LackedAfter
    <3> QED
      BY <1>19, <2>1, <3>2 DEF Uninterrupted, Gone, Step, Branch, Gate_, outside, local,
        request, shared, Threaded
  <2>2. CASE pc'[h] # "decide"
    BY <1>19, <2>2, <1>a, <1>b DEF Uninterrupted, Gone, Step, Branch, Gate_, outside, local,
      request, shared, Threaded, Gate, Frame
  <2> QED
    BY <2>1, <2>2
<1>20. CASE GoneOfNone(h)
  BY <1>20, <1>a, <1>b DEF Uninterrupted, GoneOfNone, Threaded, Gate, Frame, Step, Branch,
    Gate_, Local, shared, outside, local, request
<1>21. CASE Close(h)
  <2>1. CASE pc'[h] = "decide"
    <3>1. ~f.active /\ Has(gate', g.mic /\ f.at - lacking < ReleaseDelay, None, None, 0, lacking)
      <4>1. g.mic /\ f.at - lacking >= ReleaseDelay /\ ~f.active
               /\ Has(gate, g.mic, None, None, 0, lacking)
        BY <1>21 DEF Uninterrupted, Close, Gate_, Step
      <4>2. gate' = [gate EXCEPT !.mic = FALSE]
        BY <1>21 DEF Close, Gate_
      <4>3. Has(gate', FALSE, None, None, 0, lacking)
        BY <1>a, <4>1, <4>2 DEF Gate
      <4>4. ~(f.at - lacking < ReleaseDelay)
        BY <1>b, <1>c, <4>1
      <4> QED
        BY <4>1, <4>3, <4>4
    <3>2. gate' = n
      BY <1>a, <3>1, LackedAfter
    <3> QED
      BY <1>21, <2>1, <3>2 DEF Uninterrupted, Close, Step, Branch, Gate_, outside, local,
        request, shared, Threaded
  <2>2. CASE pc'[h] # "decide"
    BY <1>21, <2>2, <1>a, <1>b DEF Uninterrupted, Close, Step, Branch, Gate_, outside, local,
      request, shared, Threaded, Gate, Frame
  <2> QED
    BY <2>1, <2>2
<1>22. CASE Decide(h)
  <2>1. pc[h] = "decide" /\ pc'[h] = "carry"
    BY <1>22 DEF Decide, Local, Step, Threaded
  <2>2. /\ UNCHANGED <<gate, controller, frame, before>>
        /\ told'[h] = n.mic
    BY <1>22, <2>1 DEF Decide, Local, shared, outside, request, Threaded, Uninterrupted
  <2>3. \A k \in Threads \ {h} : pc'[k] = "idle"
    BY OthersStand DEF Uninterrupted
  <2> QED
    BY <2>1, <2>2, <2>3, <1>d DEF Uninterrupted
<1>23. CASE Carry(h)
  <2>1. pc[h] = "carry" /\ pc'[h] = "compare"
    BY <1>23 DEF Carry, Local, Step, Threaded
  <2>2. /\ UNCHANGED <<gate, controller, told, frame, before>>
        /\ own'[h] = c.turn /\ action'[h] = "none"
    BY <1>23, <2>1 DEF Carry, Local, shared, outside, request, Threaded, Uninterrupted
  <2>3. \A k \in Threads \ {h} : pc'[k] = "idle"
    BY OthersStand DEF Uninterrupted
  <2> QED
    BY <2>1, <2>2, <2>3, <1>d DEF Uninterrupted
<1>24. CASE Compare(h)
  <2>1. /\ pc[h] = "compare" /\ UNCHANGED <<gate, controller, told, own, action, frame, before>>
        /\ pc'[h] = CASE Action(c, n.mic) = "start" -> "record"
                      [] Action(c, n.mic) = "stop" -> "stop"
                      [] Action(c, n.mic) = "none" -> "send"
    BY <1>24 DEF Compare, Branch, Step, shared, outside, local, request, Uninterrupted,
      Threaded
  <2>2. \A k \in Threads \ {h} : pc'[k] = "idle"
    BY OthersStand DEF Uninterrupted
  <2> QED
    BY <2>1, <2>2, <1>d DEF Uninterrupted
<1>25. CASE Record(h)
  <2>1. pc[h] = "record" /\ pc'[h] = "fresh"
    BY <1>25 DEF Record, Local, Step, Threaded
  <2>2. /\ UNCHANGED <<gate, told, frame, before>>
        /\ action'[h] = "start"
    BY <1>25, <2>1 DEF Record, outside, request, Threaded, Uninterrupted
  <2>3. controller' = [recording |-> TRUE, turn |-> c.turn, issued |-> c.issued]
    <3>1. controller = c /\ controller' = [controller EXCEPT !.recording = TRUE]
      BY <1>25, <2>1 DEF Uninterrupted, Record
    <3> QED
      BY <1>a, <3>1 DEF Controller
  <2>4. \A k \in Threads \ {h} : pc'[k] = "idle"
    BY OthersStand DEF Uninterrupted
  <2> QED
    BY <2>1, <2>2, <2>3, <2>4, <1>d DEF Uninterrupted
<1>26. CASE FreshTurn(h)
  <2>1. pc[h] = "fresh" /\ pc'[h] = "take"
    BY <1>26 DEF FreshTurn, Step, Threaded
  <2>2. controller' = [recording |-> TRUE, turn |-> c.issued + 1, issued |-> c.issued + 1]
    <3>1. controller = [recording |-> TRUE, turn |-> c.turn, issued |-> c.issued]
      BY <2>1 DEF Uninterrupted
    <3>2. controller' = [controller EXCEPT !.turn = controller.issued + 1,
                                           !.issued = controller.issued + 1]
      BY <1>26, <3>1 DEF FreshTurn
    <3> QED
      BY <3>1, <3>2
  <2> QED
    BY <1>26, <2>1, <2>2, <1>a, <1>d DEF Uninterrupted, FreshTurn, Step, outside, local,
      request, Threaded
<1>27. CASE TakeTurn(h)
  <2>1. pc[h] = "take" /\ pc'[h] = "send"
    BY <1>27 DEF TakeTurn, Local, Step, Threaded
  <2>2. /\ UNCHANGED <<gate, controller, told, action, frame, before>>
        /\ own'[h] = controller.turn
    BY <1>27, <2>1 DEF TakeTurn, Local, shared, outside, request, Threaded, Uninterrupted
  <2>3. \A k \in Threads \ {h} : pc'[k] = "idle"
    BY OthersStand DEF Uninterrupted
  <2> QED
    BY <2>1, <2>2, <2>3, <1>d DEF Uninterrupted
<1>28. CASE StopRecording(h)
  <2>1. pc[h] = "stop" /\ pc'[h] = "give"
    BY <1>28 DEF StopRecording, Local, Step, Threaded
  <2>2. /\ UNCHANGED <<gate, told, frame, before>>
        /\ action'[h] = "stop"
    BY <1>28, <2>1 DEF StopRecording, outside, request, Threaded, Uninterrupted
  <2>3. controller' = [recording |-> FALSE, turn |-> c.turn, issued |-> c.issued]
    <3>1. controller = c /\ controller' = [controller EXCEPT !.recording = FALSE]
      BY <1>28, <2>1 DEF Uninterrupted, StopRecording
    <3> QED
      BY <1>a, <3>1 DEF Controller
  <2>4. \A k \in Threads \ {h} : pc'[k] = "idle"
    BY OthersStand DEF Uninterrupted
  <2> QED
    BY <2>1, <2>2, <2>3, <2>4, <1>d DEF Uninterrupted
<1>29. CASE GiveTurn(h)
  <2>1. pc[h] = "give" /\ pc'[h] = "release"
    BY <1>29 DEF GiveTurn, Local, Step, Threaded
  <2>2. /\ UNCHANGED <<gate, controller, told, action, frame, before>>
        /\ own'[h] = c.turn
    BY <1>29, <2>1 DEF GiveTurn, Local, shared, outside, request, Threaded, Uninterrupted
  <2>3. \A k \in Threads \ {h} : pc'[k] = "idle"
    BY OthersStand DEF Uninterrupted
  <2> QED
    BY <2>1, <2>2, <2>3, <1>d DEF Uninterrupted
<1>30. CASE ForgetTurn(h)
  <2>1. pc[h] = "release" /\ pc'[h] = "send"
    BY <1>30 DEF ForgetTurn, Step, Threaded
  <2>2. /\ controller = [recording |-> FALSE, turn |-> c.turn, issued |-> c.issued]
        /\ Action(c, n.mic) = "stop" /\ action[h] = "stop" /\ own[h] = c.turn
    BY <2>1 DEF Uninterrupted
  <2>3. controller' = Controlled(c, n.mic)
    <3>1. controller' = [controller EXCEPT !.turn = None]
      BY <1>30 DEF ForgetTurn
    <3>2. controller' = [recording |-> FALSE, turn |-> None, issued |-> c.issued]
      BY <2>2, <3>1
    <3>3. Controlled(c, n.mic) = [recording |-> FALSE, turn |-> None, issued |-> c.issued]
      BY <2>2, <1>d
    <3> QED
      BY <3>2, <3>3
  <2>4. UNCHANGED <<gate, told, own, action, frame, before>>
    BY <1>30 DEF ForgetTurn, outside, local, request
  <2>5. \A k \in Threads \ {h} : pc'[k] = "idle"
    BY OthersStand DEF Uninterrupted
  <2> QED
    BY <2>1, <2>2, <2>3, <2>4, <2>5, <1>d DEF Uninterrupted
<1>31. CASE Answer(h)
  BY <1>31 DEF Answer, Done, Step, Threaded
<1>32. CASE Reject(h)
  BY <1>32 DEF Reject, Done, Step, Threaded
<1> QED
  BY <1>1, <1>2, <1>3, <1>4, <1>5, <1>6, <1>7, <1>8, <1>9, <1>10, <1>11, <1>12, <1>13, <1>14,
    <1>15, <1>16, <1>17, <1>18, <1>19, <1>20, <1>21, <1>22, <1>23, <1>24, <1>25, <1>26, <1>27,
    <1>28, <1>29, <1>30, <1>31, <1>32 DEF Statement

\* A request that comes while another is handled leaves nobody alone; one that comes when
\* every thread is idle starts from what it finds.
LEMMA AloneReceive ==
  ASSUME Threaded, NEW h \in Threads, NEW f \in Frame, Receive(h, f)
  PROVE  Threaded' /\ Alone'
<1>1. /\ UNCHANGED <<gate, controller, read, told, own, action>>
      /\ pc[h] = "idle" /\ pc' = [pc EXCEPT ![h] = IF f.active THEN "forget" ELSE "clear"]
      /\ frame' = [frame EXCEPT ![h] = f]
      /\ alone' = [k \in Threads |-> k = h /\ \A l \in Threads : pc[l] = "idle"]
      /\ before' = [k \in Threads |->
                      IF alone'[k] THEN [gate |-> gate, controller |-> controller]
                                   ELSE Fresh]
  BY DEF Receive, Step, shared, local
<1>2. Fresh \in [gate : Gate, controller : Controller]
  BY RulesAssumption DEF Fresh, Gate, Controller, Closed, Idle
<1>3. /\ frame' \in [Threads -> Frame \cup {NoFrame}]
      /\ \A k \in Threads : pc'[k] # "idle" => frame'[k] \in Frame
  BY <1>1 DEF Threaded
<1>4. pc' \in [Threads -> Places]
  BY <1>1 DEF Threaded, Places, Showing, Lacking
<1>5. /\ alone' \in [Threads -> BOOLEAN]
      /\ before' \in [Threads -> [gate : Gate, controller : Controller]]
  BY <1>1, <1>2 DEF Threaded
<1>6. Threaded'
  BY <1>1, <1>3, <1>4, <1>5 DEF Threaded
<1>7. ASSUME NEW k \in Threads, alone'[k]
      PROVE  Uninterrupted(k)'
  <2>1. k = h /\ (\A l \in Threads \ {h} : pc'[l] = "idle")
    BY <1>1, <1>7 DEF Threaded
  <2>2. /\ before'[h].gate = gate /\ before'[h].controller = controller /\ frame'[h] = f
        /\ pc'[h] = IF f.active THEN "forget" ELSE "clear"
    BY <1>1, <1>7, <2>1 DEF Threaded
  <2>3. f.active \in BOOLEAN
    BY DEF Frame
  <2> QED
    BY <1>1, <2>1, <2>2, <2>3
    DEF Uninterrupted, Showing, Lacking, Controlling, ShownSoFar, LackedSoFar, Handled
<1> QED
  BY <1>6, <1>7 DEF Alone

\* Every step keeps it.
LEMMA AloneStep ==
  ASSUME WithoutGrace, Threaded, Alone, [ThreadsNext]_threadsVars
  PROVE  Threaded' /\ Alone'
<1>1. ASSUME NEW h \in Threads, Statement(h)
      PROVE  Threaded' /\ Alone'
  <2>1. Threaded'
    BY <1>1, ThreadedStatement
  <2>2. ASSUME NEW k \in Threads, alone'[k]
        PROVE  Uninterrupted(k)'
    <3>1. alone[k] /\ Uninterrupted(k)
      BY <1>1, <2>2, OthersStand DEF Threaded, Alone
    <3>2. k = h
      BY <1>1, <3>1, OthersStand DEF Uninterrupted
    <3>3. pc'[h] # "idle"
      <4>1. alone' # [alone EXCEPT ![h] = FALSE]
        BY <2>2, <3>2 DEF Threaded
      <4> QED
        BY <1>1, <4>1, OthersStand
    <3> QED
      BY <1>1, <2>1, <3>1, <3>2, <3>3, UninterruptedStatement
  <2> QED
    BY <2>1, <2>2 DEF Alone
<1>2. ASSUME NEW h \in Threads, NEW f \in Frame, Receive(h, f)
      PROVE  Threaded' /\ Alone'
  BY <1>2, AloneReceive
<1>3. CASE UNCHANGED threadsVars
  BY <1>3 DEF threadsVars, shared, outside, local, request, Threaded, Alone, Uninterrupted,
    Handled
<1> QED
  BY <1>1, <1>2, <1>3 DEF ThreadsNext

\* GestureThreads: whatever races went before in the HTTP receiver, whose threads share the
\* gate and the controller without a lock, a request that runs alone is not refused and
\* leaves gate, controller and command as the rules say.
THEOREM ThreadsAlone ==
  ASSUME WithoutGrace
  PROVE  ThreadsSpec => []AloneIsAtomic
<1>1. ThreadsInit => Threaded /\ Alone
  <2> SUFFICES ASSUME ThreadsInit PROVE Threaded /\ Alone
    OBVIOUS
  <2>1. gate \in Gate /\ controller \in Controller
        /\ Fresh \in [gate : Gate, controller : Controller]
    BY RulesAssumption DEF ThreadsInit, Fresh, Gate, Controller, Closed, Idle
  <2> QED
    BY <2>1 DEF ThreadsInit, Threaded, Alone, Places
<1>2. Threaded /\ Alone /\ [ThreadsNext]_threadsVars => Threaded' /\ Alone'
  BY AloneStep
<1>3. Threaded /\ Alone => AloneIsAtomic
  <2> SUFFICES ASSUME Threaded, Alone, NEW h \in Threads, alone[h]
               PROVE  /\ pc[h] # "rejected"
                      /\ pc[h] = "send" =>
                           LET g == After(before[h].gate, frame[h])
                               c == before[h].controller
                           IN  /\ gate = g
                               /\ told[h] = g.mic
                               /\ controller = Controlled(c, g.mic)
                               /\ action[h] = Action(c, g.mic)
                               /\ own[h] = Carried(c, g.mic)
    BY DEF AloneIsAtomic
  <2>1. Uninterrupted(h)
    BY DEF Alone
  <2>2. pc[h] # "rejected"
    BY <2>1 DEF Uninterrupted, Showing, Lacking, Controlling
  <2> QED
    BY <2>1, <2>2 DEF Uninterrupted, Controlling, Handled
<1> QED
  BY <1>1, <1>2, <1>3, PTL DEF ThreadsSpec
=============================================================================
