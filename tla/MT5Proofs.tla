------------------------------ MODULE MT5Proofs ------------------------------
(***************************************************************************)
(* Proofs about MT5Broker's live orders, for any number of filling modes,  *)
(* any volume, price grid and number of positions, and whatever of         *)
(* Outcomes may happen.                                                    *)
(***************************************************************************)
EXTENDS MT5Orders, FiniteSetTheorems, TLAPS

-----------------------------------------------------------------------------
(* Rounding.                                                               *)

(* A rounded price is on the grid and less than a grid step away.          *)
LEMMA RoundedIsNear ==
  ASSUME NEW t \in Nat
  PROVE  \E q \in Nat : /\ NormalizePrice(t) = Point * q
                        /\ 2 * (Point * q) <= 2 * t + Point
                        /\ 2 * t + 1 <= 2 * (Point * q) + Point
<1>1. Point \in Nat /\ Point >= 1 /\ Point % 2 = 1
  BY MT5Assumption
<1> DEFINE h == Point \div 2
           q == (t + h) \div Point
<1>2. h \in Nat /\ 2 * h + 1 = Point
  BY <1>1
<1>3. q \in Nat /\ Point * q <= t + h /\ t + h < Point * q + Point
  <2>1. t + h \in Nat /\ Point \in Nat \ {0}
    BY <1>1, <1>2
  <2> HIDE DEF h
  <2> QED
    BY <2>1
<1>4. NormalizePrice(t) = Point * q
  BY DEF NormalizePrice
<1>5. Point * q \in Nat
  BY <1>1, <1>3
<1> HIDE DEF h, q
<1>6. 2 * (Point * q) <= 2 * t + Point /\ 2 * t + 1 <= 2 * (Point * q) + Point
  <2> DEFINE x == Point * q
  <2>1. x \in Nat /\ x <= t + h /\ t + h < x + Point
    BY <1>3, <1>5
  <2> HIDE DEF x
  <2>2. 2 * x <= 2 * t + Point /\ 2 * t + 1 <= 2 * x + Point
    BY <1>1, <1>2, <2>1
  <2> QED
    BY <2>2 DEF x
<1> QED
  BY <1>3, <1>4, <1>6

(* A grid price is a multiple of the grid step. *)
LEMMA GridIsMultiples ==
  ASSUME NEW s \in Nat, s % Point = 0
  PROVE  \E k \in Nat : s = Point * k
<1>1. Point \in Nat \ {0}
  BY MT5Assumption
<1>2. s \div Point \in Nat
  BY <1>1
<1>3. s = Point * (s \div Point)
  BY <1>1
<1> QED
  BY <1>2, <1>3

(* Multiplication keeps the order. *)
LEMMA TimesKeepsOrder ==
  ASSUME NEW n \in Nat, NEW a \in Nat, NEW b \in Nat, a <= b
  PROVE  n * a <= n * b
<1>1. PICK d \in Nat : b = a + d
  <2>1. b - a \in Nat /\ b = a + (b - a)
    OBVIOUS
  <2> QED
    BY <2>1
<1>2. n * (a + d) = n * a + n * d
  OBVIOUS
<1>3. n * a \in Nat /\ n * d \in Nat
  OBVIOUS
<1> QED
  BY <1>1, <1>2, <1>3

(* Multiples of the grid step are a grid step apart.                       *)
LEMMA MultiplesKeepOrder ==
  ASSUME NEW q \in Nat, NEW k \in Nat, Point * q < Point * k
  PROVE  Point * q + Point <= Point * k
<1>1. Point \in Nat
  BY MT5Assumption
<1>2. q + 1 <= k
  <2>1. CASE k <= q
    <3>1. Point * k <= Point * q
      BY <1>1, <2>1, TimesKeepsOrder
    <3>2. Point * k \in Int /\ Point * q \in Int
      BY <1>1
    <3> QED
      BY <3>1, <3>2
  <2> QED
    BY <2>1
<1>3. Point * (q + 1) <= Point * k
  <2>1. q + 1 \in Nat
    OBVIOUS
  <2> QED
    BY <1>1, <1>2, <2>1, TimesKeepsOrder
<1>4. Point * (q + 1) = Point * q + Point
  BY <1>1
<1> QED
  BY <1>3, <1>4

(* A stop that improves on one of the grid still does when rounded, or     *)
(* rounds to it.                                                           *)
LEMMA RoundingKeepsImprovement ==
  ASSUME NEW t \in Nat, NEW s \in Nat, s % Point = 0, t > s
  PROVE  NormalizePrice(t) >= s
<1>1. PICK q \in Nat : /\ NormalizePrice(t) = Point * q
                       /\ 2 * t + 1 <= 2 * (Point * q) + Point
  BY RoundedIsNear
<1>2. PICK k \in Nat : s = Point * k
  BY GridIsMultiples
<1>3. Point \in Nat /\ Point * q \in Nat /\ Point * k \in Nat
  BY MT5Assumption
<1>4. CASE Point * q < Point * k
  <2>1. Point * q + Point <= Point * k
    BY <1>4, MultiplesKeepOrder
  <2> DEFINE x == Point * q
             y == Point * k
  <2>2. x \in Nat /\ y \in Nat /\ x + Point <= y /\ t > y
        /\ 2 * t + 1 <= 2 * x + Point
    BY <1>1, <1>2, <1>3, <2>1
  <2> HIDE DEF x, y
  <2> QED
    BY <1>3, <2>2
<1>5. CASE ~(Point * q < Point * k)
  <2> DEFINE x == Point * q
             y == Point * k
  <2>1. x \in Nat /\ y \in Nat /\ ~(x < y)
    BY <1>3, <1>5
  <2> HIDE DEF x, y
  <2>2. x >= y
    BY <2>1
  <2> QED
    BY <1>1, <1>2, <2>2 DEF x, y
<1> QED
  BY <1>4, <1>5

(* A rounded stop can be quoted. *)
LEMMA RoundedIsOnGrid ==
  ASSUME NEW t \in 0 .. MaxTicks
  PROVE  NormalizePrice(t) \in Grid
<1>1. PICK q \in Nat : /\ NormalizePrice(t) = Point * q
                       /\ 2 * (Point * q) <= 2 * t + Point
  BY RoundedIsNear
<1>2. Point \in Nat \ {0} /\ MaxTicks \in Nat
  BY MT5Assumption
<1>3. (Point * q) % Point = 0
  BY <1>2
<1> DEFINE x == Point * q
<1>4. x \in Nat /\ 2 * x <= 2 * t + Point
  BY <1>1, <1>2
<1> HIDE DEF x
<1>5. x \in 0 .. MaxTicks + Point
  BY <1>2, <1>4
<1> QED
  BY <1>1, <1>3, <1>5 DEF x, Grid

-----------------------------------------------------------------------------
(* The inductive invariant.                                                *)

(* An identifier belongs to one position, and is not reused. *)
IdsInv ==
  /\ \A p \in positions : p.id <= opened
  /\ \A p, q \in positions : p.id = q.id => p = q

(* What a call is about is a position of the bot, which may be gone but    *)
(* whose identifier nobody else has, and whose stop is still worse.        *)
TargetInv ==
  pc \in {"close:find", "close:send", "modify:find", "modify:send"} =>
    /\ target \in Positions /\ target.id <= opened
    /\ \A p \in positions :
         p.id = target.id =>
           /\ p.own
           /\ pc \in {"modify:find", "modify:send"} => ticks > p.stop

(* The bot has no position while it tries to open one, and never two. *)
AtMostOne == \A p, q \in Own : p = q

CountInv == ~doubtful => AtMostOne /\ (pc = "open" => Own = {})

(* There is a filling mode left to send under. *)
TriesInv == pc \in {"open", "close:send"} => tries >= 1

MT5Inv == TypeOK /\ TriesInv /\ IdsInv /\ TargetInv /\ CountInv

(* What a step of the terminal or a request may do to the positions: some  *)
(* go, one may come with a new identifier.                                 *)
Arrives(own) ==
  /\ opened < MaxPositions /\ opened' = opened + 1
  /\ \E v \in 1 .. Volume :
       positions' = positions \cup
         {[id |-> opened + 1, own |-> own, volume |-> v, stop |-> 0]}

LEMMA ArrivalKeeps ==
  ASSUME TypeOK, IdsInv, NEW own \in BOOLEAN, Arrives(own)
  PROVE  /\ positions' \subseteq Positions /\ opened' \in 0 .. MaxPositions
         /\ IdsInv'
         /\ \A p \in positions' :
             p \in positions \/ (p.id = opened + 1 /\ p.own = own)
<1>1. PICK v \in 1 .. Volume :
        positions' = positions \cup
          {[id |-> opened + 1, own |-> own, volume |-> v, stop |-> 0]}
  BY DEF Arrives
<1>2. /\ opened \in Nat /\ opened + 1 \in 1 .. MaxPositions
      /\ opened' = opened + 1 /\ MaxPositions \in Nat
  BY MT5Assumption DEF TypeOK, Arrives
<1>3. 0 \in Grid
  BY MT5Assumption DEF Grid
<1>4. [id |-> opened + 1, own |-> own, volume |-> v, stop |-> 0] \in Positions
  BY <1>2, <1>3 DEF Positions
<1>5. positions' \subseteq Positions /\ opened' \in 0 .. MaxPositions
  BY <1>1, <1>2, <1>4 DEF TypeOK
<1>6. \A p \in positions : p.id \in Nat /\ p.id <= opened
  BY DEF TypeOK, IdsInv, Positions
<1>7. IdsInv'
  BY <1>1, <1>2, <1>6 DEF IdsInv
<1> QED
  BY <1>1, <1>5, <1>7

LEMMA InitInv == Init => MT5Inv
<1> SUFFICES ASSUME Init PROVE MT5Inv
  OBVIOUS
<1>1. /\ Modes \in 0 .. Modes /\ 0 \in 0 .. MaxTicks /\ 0 \in 0 .. MaxPositions
      /\ 0 \in 0 .. MaxFaults
  BY MT5Assumption
<1>2. TypeOK
  BY <1>1 DEF Init, TypeOK, Steps
<1> QED
  BY <1>2 DEF Init, MT5Inv, TriesInv, IdsInv, TargetInv, CountInv,
                    AtMostOne, Own

(* The effect of an execution on the fault counter. *)
LEMMA Happening ==
  ASSUME TypeOK, NEW outcome, Happens(outcome) \/ AsExpected
  PROVE  /\ doubtful' \in BOOLEAN /\ faults' \in 0 .. MaxFaults
         /\ doubtful => doubtful'
<1>1. faults' \in 0 .. MaxFaults
  BY MT5Assumption DEF AsExpected, Happens, TypeOK
<1>2. doubtful' \in BOOLEAN /\ (doubtful => doubtful')
  BY Zenon DEF AsExpected, Happens, TypeOK
<1> QED
  BY <1>1, <1>2

(* A rejected request leaves a mode to try, or ends the call.              *)
LEMMA NextModeTypes ==
  ASSUME MT5Inv, NextMode, pc \in {"open", "close:send"}
  PROVE  /\ tries' \in 0 .. Modes /\ pc' \in {pc, "idle"}
         /\ pc' = pc => tries' >= 1
<1>1. tries \in 1 .. Modes /\ Modes \in Nat
  BY MT5Assumption DEF MT5Inv, TypeOK, TriesInv
<1>2. pc # "idle"
  OBVIOUS
<1> QED
  BY <1>1, <1>2 DEF NextMode

(* A new position keeps what is known of the one a call is about.          *)
LEMMA ArrivalKeepsTarget ==
  ASSUME MT5Inv, NEW own \in BOOLEAN, Arrives(own), pc' = pc, UNCHANGED <<target, ticks>>
  PROVE  TargetInv'
<1>1. \A p \in positions' :
        p \in positions \/ (p.id = opened + 1 /\ p.own = own)
  BY ArrivalKeeps DEF MT5Inv
<1>2. opened \in Nat /\ opened' = opened + 1
  BY DEF Arrives, MT5Inv, TypeOK
<1> QED
  BY <1>1, <1>2 DEF MT5Inv, TargetInv, Positions

(* So does the loss of positions; and what a call is not about is free.    *)
LEMMA LossKeeps ==
  ASSUME MT5Inv, positions' \subseteq positions, UNCHANGED opened
  PROVE  /\ positions' \subseteq Positions /\ IdsInv'
         /\ AtMostOne => AtMostOne'
         /\ pc' = pc /\ UNCHANGED <<target, ticks>> => TargetInv'
<1>1. positions' \subseteq Positions /\ IdsInv'
  BY DEF MT5Inv, TypeOK, IdsInv
<1>2. AtMostOne => AtMostOne'
  BY DEF AtMostOne, Own, IsOwn
<1>3. pc' = pc /\ UNCHANGED <<target, ticks>> => TargetInv'
  BY DEF MT5Inv, TargetInv
<1> QED
  BY <1>1, <1>2, <1>3

(* The first own position is the only one. *)
LEMMA FirstIsOnly ==
  ASSUME Own = {}, Arrives(TRUE)
  PROVE  AtMostOne'
BY DEF Arrives, AtMostOne, Own, IsOwn

(* A position of others leaves the bot's alone. *)
LEMMA OthersAreNotOwn ==
  ASSUME Arrives(FALSE)
  PROVE  Own' = Own
BY DEF Arrives, Own, IsOwn

LEMMA DealArrives ==
  ASSUME NEW v \in 1 .. Volume, NEW own \in BOOLEAN, Deal(v, own)
  PROVE  Arrives(own)
BY DEF Deal, Arrives

LEMMA StopFiresKeeps ==
  ASSUME MT5Inv, StopFires
  PROVE  MT5Inv'
<1>1. /\ positions' \subseteq positions
      /\ UNCHANGED <<pc, tries, target, ticks, opened, doubtful, faults>>
  BY DEF StopFires, call
<1>2. TypeOK' /\ IdsInv' /\ TargetInv' /\ (AtMostOne => AtMostOne')
  BY <1>1, LossKeeps DEF MT5Inv, TypeOK
<1>4. TriesInv'
  BY <1>1 DEF MT5Inv, TriesInv
<1>3. Own = {} => Own' = {}
  BY <1>1 DEF Own, IsOwn
<1> QED
  BY <1>1, <1>2, <1>3, <1>4 DEF MT5Inv, CountInv

LEMMA OthersOpenKeeps ==
  ASSUME MT5Inv, OthersOpen
  PROVE  MT5Inv'
<1>1. UNCHANGED <<pc, tries, target, ticks, doubtful, faults>>
  BY DEF OthersOpen, call
<1>2. Volume \in 1 .. Volume
  BY MT5Assumption
<1>3. Arrives(FALSE)
  BY <1>2, DealArrives DEF OthersOpen
<1>4. TypeOK' /\ TriesInv' /\ IdsInv' /\ TargetInv'
  BY <1>1, <1>3, ArrivalKeeps, ArrivalKeepsTarget DEF MT5Inv, TypeOK, TriesInv
<1>5. Own' = Own
  BY <1>3, OthersAreNotOwn
<1> QED
  BY <1>1, <1>4, <1>5 DEF MT5Inv, CountInv, AtMostOne

LEMMA BeginOpenKeeps ==
  ASSUME MT5Inv, BeginOpen
  PROVE  MT5Inv'
<1>1. /\ pc' = "open" /\ tries' = Modes
      /\ UNCHANGED <<target, ticks, positions, opened>>
  BY DEF BeginOpen
<1>2. /\ doubtful' \in BOOLEAN /\ faults' \in 0 .. MaxFaults
      /\ ~doubtful' => ~doubtful
  BY Happening DEF BeginOpen, MT5Inv
<1>7. ~doubtful' => Own = {}
  BY Zenon DEF BeginOpen, Happens
<1>3. Modes \in 0 .. Modes
  BY MT5Assumption
<1>4. TypeOK'
  BY <1>1, <1>2, <1>3 DEF MT5Inv, TypeOK, Steps
<1>5. IdsInv' /\ TargetInv'
  BY <1>1 DEF MT5Inv, IdsInv, TargetInv
<1>6. CountInv'
  BY <1>1, <1>7 DEF CountInv, AtMostOne, Own, IsOwn
<1>8. TriesInv'
  BY <1>1, MT5Assumption DEF TriesInv
<1> QED
  BY <1>4, <1>5, <1>6, <1>8 DEF MT5Inv

LEMMA SendOpenKeeps ==
  ASSUME MT5Inv, SendOpen
  PROVE  MT5Inv'
<1>1. pc = "open" /\ UNCHANGED <<target, ticks>>
  BY DEF SendOpen
<1>2. /\ doubtful' \in BOOLEAN /\ faults' \in 0 .. MaxFaults
      /\ doubtful => doubtful'
  BY Happening DEF SendOpen, MT5Inv
<1>3. /\ tries' \in 0 .. Modes /\ pc' \in {"open", "idle"}
      /\ pc' = "open" => tries' >= 1
  BY <1>1, NextModeTypes DEF SendOpen, MT5Inv, TypeOK
<1>4. Arrives(TRUE) \/ UNCHANGED <<positions, opened>>
  <2>1. Volume \in 1 .. Volume /\ (1 .. Volume - 1) \subseteq 1 .. Volume
    BY MT5Assumption
  <2> QED
    BY <2>1, DealArrives DEF SendOpen
<1>5. /\ positions' \subseteq Positions /\ opened' \in 0 .. MaxPositions
      /\ IdsInv'
  BY <1>4, ArrivalKeeps DEF MT5Inv, TypeOK, IdsInv
<1>6. TypeOK' /\ TriesInv' /\ TargetInv'
  BY <1>1, <1>2, <1>3, <1>5 DEF MT5Inv, TypeOK, TriesInv, TargetInv, Steps
<1>7. CountInv'
  <2> SUFFICES ASSUME ~doubtful' PROVE AtMostOne' /\ (pc' = "open" => Own' = {})
    BY DEF CountInv
  <2>1. Own = {} /\ AtMostOne
    BY <1>1, <1>2 DEF MT5Inv, CountInv
  <2>2. \/ Arrives(TRUE) /\ pc' = "idle"
        \/ UNCHANGED positions
    <3>1. CASE Deal(Volume, TRUE) /\ pc' = "idle"
      <4>1. Volume \in 1 .. Volume
        BY MT5Assumption
      <4> QED
        BY <3>1, <4>1, DealArrives
    <3>2. CASE UNCHANGED positions
      BY <3>2
    <3> QED
      BY <3>1, <3>2, Zenon DEF SendOpen, Happens
  <2>3. CASE Arrives(TRUE) /\ pc' = "idle"
    BY <2>1, <2>3, FirstIsOnly
  <2>4. CASE UNCHANGED positions
    BY <2>1, <2>4 DEF AtMostOne, Own, IsOwn
  <2> QED
    BY <2>2, <2>3, <2>4
<1> QED
  BY <1>5, <1>6, <1>7 DEF MT5Inv

(* A call begins with an own position.                                     *)
LEMMA BeginCallKeeps ==
  ASSUME MT5Inv, BeginClose \/ BeginModify
  PROVE  MT5Inv'
<1>1. /\ target' \in Own /\ pc' \in {"close:find", "modify:find"}
      /\ UNCHANGED <<tries, positions, opened, doubtful, faults>>
  BY DEF BeginClose, BeginModify
<1>2. /\ ticks' \in 0 .. MaxTicks
      /\ pc' = "modify:find" => ticks' > target'.stop
  BY MT5Assumption DEF BeginClose, BeginModify, Improves, MT5Inv, TypeOK
<1>3. target' \in positions /\ target' \in Positions /\ target'.own
  BY <1>1 DEF Own, IsOwn, MT5Inv, TypeOK
<1>4. TypeOK' /\ TriesInv'
  BY <1>1, <1>2, <1>3 DEF MT5Inv, TypeOK, TriesInv, Steps
<1>5. IdsInv'
  BY <1>1 DEF MT5Inv, IdsInv
<1>6. TargetInv'
  BY <1>1, <1>2, <1>3 DEF MT5Inv, IdsInv, TargetInv
<1>7. CountInv'
  BY <1>1 DEF MT5Inv, CountInv, AtMostOne, Own, IsOwn
<1> QED
  BY <1>4, <1>5, <1>6, <1>7 DEF MT5Inv

LEMMA FindTargetKeeps ==
  ASSUME MT5Inv, FindTarget
  PROVE  MT5Inv'
<1>1. /\ pc \in {"close:find", "modify:find"} /\ tries' = Modes
      /\ UNCHANGED <<ticks, positions, opened>>
  BY DEF FindTarget
<1>2. /\ doubtful' \in BOOLEAN /\ faults' \in 0 .. MaxFaults
      /\ doubtful => doubtful'
  BY Happening DEF FindTarget, MT5Inv
<1>3. \/ /\ target' \in {p \in Own : p.id = target.id}
         /\ pc' = IF pc = "close:find" THEN "close:send" ELSE "modify:send"
      \/ pc' = "idle" /\ UNCHANGED target
  BY DEF FindTarget
<1>4. target' \in Positions \cup {None}
  BY <1>3 DEF Own, MT5Inv, TypeOK
<1>5. Modes \in 0 .. Modes /\ Modes >= 1
  BY MT5Assumption
<1>6. TypeOK' /\ TriesInv'
  BY <1>1, <1>2, <1>3, <1>4, <1>5 DEF MT5Inv, TypeOK, TriesInv, Steps
<1>7. IdsInv'
  BY <1>1 DEF MT5Inv, IdsInv
<1>8. TargetInv'
  <2>1. CASE pc' = "idle"
    BY <2>1 DEF TargetInv
  <2>2. CASE target' \in {p \in Own : p.id = target.id}
             /\ pc' = IF pc = "close:find" THEN "close:send" ELSE "modify:send"
    <3>1. target' \in positions /\ target'.id = target.id
      BY <2>2 DEF Own
    <3> QED
      BY <1>1, <2>2, <3>1 DEF MT5Inv, TypeOK, TargetInv, IdsInv
  <2> QED
    BY <1>3, <2>1, <2>2
<1>9. CountInv'
  <2>1. pc' # "open"
    BY <1>3
  <2> QED
    BY <1>1, <1>2, <2>1 DEF MT5Inv, CountInv, AtMostOne, Own, IsOwn
<1> QED
  BY <1>6, <1>7, <1>8, <1>9 DEF MT5Inv

(* Changing the volume or the stop of what was found keeps identifiers.    *)
LEMMA ReplacementKeepsIds ==
  ASSUME MT5Inv, NEW p \in Found, NEW q \in Positions, q.id = p.id,
         positions' = (positions \ Found) \cup {q}, UNCHANGED opened
  PROVE  positions' \subseteq Positions /\ IdsInv'
<1>1. p \in positions /\ p.id = target.id
  BY DEF Found
<1>2. \A r \in positions \ Found : r.id # target.id
  BY DEF Found
<1> QED
  BY <1>1, <1>2 DEF MT5Inv, TypeOK, IdsInv

LEMMA SendCloseKeeps ==
  ASSUME MT5Inv, SendClose
  PROVE  MT5Inv'
<1>1. pc = "close:send" /\ UNCHANGED <<target, ticks, opened>>
  BY DEF SendClose
<1>2. /\ doubtful' \in BOOLEAN /\ faults' \in 0 .. MaxFaults
      /\ doubtful => doubtful'
  BY Happening DEF SendClose, MT5Inv
<1>3. /\ tries' \in 0 .. Modes /\ pc' \in {"close:send", "idle"}
      /\ pc' = "close:send" => tries' >= 1
  BY <1>1, NextModeTypes DEF SendClose, MT5Inv, TypeOK
<1>4. /\ positions' \subseteq Positions /\ IdsInv'
      /\ \A p \in positions' : \E r \in positions : r.id = p.id /\ r.own = p.own
      /\ ~doubtful' => positions' \subseteq positions
  <2>1. CASE positions' \subseteq positions
    BY <1>1, <2>1, LossKeeps DEF MT5Inv, TypeOK
  <2>2. CASE /\ Happens("partial")
             /\ \E p \in Found, v \in 1 .. Volume - 1 :
                  /\ p.volume = target.volume /\ v < p.volume
                  /\ positions' = (positions \ Found) \cup {[p EXCEPT !.volume = v]}
    <3>1. PICK p \in Found, v \in 1 .. Volume - 1 :
            positions' = (positions \ Found) \cup {[p EXCEPT !.volume = v]}
      BY <2>2
    <3>2. p \in positions /\ p \in Positions
      BY DEF Found, MT5Inv, TypeOK
    <3> DEFINE q == [p EXCEPT !.volume = v]
    <3>3. q \in Positions /\ q.id = p.id /\ q.own = p.own
      BY <3>2, MT5Assumption DEF Positions
    <3>4. positions' \subseteq Positions /\ IdsInv'
      BY <1>1, <3>1, <3>3, ReplacementKeepsIds
    <3>5. doubtful'
      BY <2>2 DEF Happens
    <3> HIDE DEF q
    <3> QED
      BY <3>1, <3>2, <3>3, <3>4, <3>5 DEF q
  <2> QED
    BY <2>1, <2>2 DEF SendClose
<1>5. TypeOK' /\ TriesInv'
  BY <1>1, <1>2, <1>3, <1>4 DEF MT5Inv, TypeOK, TriesInv, Steps
<1>6. TargetInv'
  BY <1>1, <1>3, <1>4 DEF MT5Inv, TargetInv
<1>7. CountInv'
  BY <1>2, <1>3, <1>4 DEF MT5Inv, CountInv, AtMostOne, Own, IsOwn
<1> QED
  BY <1>4, <1>5, <1>6, <1>7 DEF MT5Inv

LEMMA SendModifyKeeps ==
  ASSUME MT5Inv, SendModify
  PROVE  MT5Inv'
<1>1. /\ pc = "modify:send" /\ pc' = "idle"
      /\ UNCHANGED <<tries, target, ticks, opened, doubtful, faults>>
  BY DEF SendModify, call
<1>2. CASE UNCHANGED positions
  BY <1>1, <1>2 DEF MT5Inv, TypeOK, TriesInv, IdsInv, TargetInv, CountInv,
                    AtMostOne, Own, IsOwn, Steps
<1>3. ASSUME NEW p \in Found,
             positions' = (positions \ Found) \cup
                            {[p EXCEPT !.stop = NormalizePrice(ticks)]}
      PROVE  MT5Inv'
  <2>1. /\ p \in positions /\ p \in Positions /\ p.own
        /\ \A r \in Found : r = p
    BY <1>1, <1>3 DEF Found, MT5Inv, TypeOK, TargetInv, IdsInv
  <2> DEFINE q == [p EXCEPT !.stop = NormalizePrice(ticks)]
  <2>2. NormalizePrice(ticks) \in Grid
    BY RoundedIsOnGrid DEF MT5Inv, TypeOK
  <2>3. q \in Positions /\ q.id = p.id /\ q.own
    BY <2>1, <2>2 DEF Positions
  <2> HIDE DEF q
  <2>4. positions' = (positions \ {p}) \cup {q} /\ positions' = (positions \ Found) \cup {q}
    BY <1>3, <2>1 DEF q
  <2>5. positions' \subseteq Positions /\ IdsInv'
    BY <1>1, <2>3, <2>4, ReplacementKeepsIds
  <2>6. TypeOK' /\ TriesInv' /\ TargetInv'
    BY <1>1, <2>5 DEF MT5Inv, TypeOK, TriesInv, TargetInv, Steps
  <2>7. CountInv'
    BY <1>1, <2>1, <2>3, <2>4 DEF MT5Inv, CountInv, AtMostOne, Own, IsOwn
  <2> QED
    BY <2>5, <2>6, <2>7 DEF MT5Inv
<1> QED
  BY <1>2, <1>3 DEF SendModify

(* Every reachable state of the adapter and the terminal satisfies the    *)
(* inductive invariant: one lemma per request, above.                      *)
THEOREM MT5Invariant == Spec => []MT5Inv
<1>1. MT5Inv /\ UNCHANGED vars => MT5Inv'
  BY DEF MT5Inv, TypeOK, TriesInv, IdsInv, TargetInv, CountInv, AtMostOne,
         Own, IsOwn, vars, call
<1>2. MT5Inv /\ [Next]_vars => MT5Inv'
  BY <1>1, StopFiresKeeps, OthersOpenKeeps, BeginOpenKeeps, SendOpenKeeps,
     BeginCallKeeps, FindTargetKeeps, SendCloseKeeps, SendModifyKeeps DEF Next
<1> QED
  BY InitInv, <1>2, PTL DEF Spec

-----------------------------------------------------------------------------
(* What follows from it.                                                   *)

(* Every reachable state is well typed; in particular the exchange is only *)
(* ever sent stops it can quote.                                           *)
THEOREM MT5Types == Spec => []TypeOK
BY MT5Invariant, PTL DEF MT5Inv

(* However many filling modes there are, the bot holds at most one         *)
(* position while the terminal reports what it did.                        *)
THEOREM AtMostOnePosition == Spec => []OnePosition
<1>1. MT5Inv => OnePosition
  <2> SUFFICES ASSUME MT5Inv, ~doubtful PROVE Cardinality(Own) <= 1
    BY DEF OnePosition
  <2>1. AtMostOne
    BY DEF MT5Inv, CountInv
  <2>2. CASE Own = {}
    BY <2>2, FS_EmptySet
  <2>3. CASE Own # {}
    <3>1. PICK p : Own = {p}
      BY <2>1, <2>3 DEF AtMostOne
    <3> QED
      BY <3>1, FS_Singleton
  <2> QED
    BY <2>2, <2>3
<1> QED
  BY MT5Invariant, <1>1, PTL

(* No request of the bot changes a position of another magic number,       *)
(* although a ticket is looked up once before up to Modes requests.        *)
THEOREM OthersAreUntouched == Spec => ForeignUntouched
<1> DEFINE Kept == \A p \in positions : p.own \/ p \in positions'
<1>1. ASSUME MT5Inv, Next, <<pc, tries>>' # <<pc, tries>>
      PROVE  Kept
  <2>1. CASE StopFires \/ OthersOpen
    BY <1>1, <2>1 DEF StopFires, OthersOpen, call
  <2>2. CASE BeginOpen \/ BeginClose \/ BeginModify \/ FindTarget
    BY <2>2 DEF BeginOpen, BeginClose, BeginModify, FindTarget
  <2>3. CASE SendOpen
    BY <2>3 DEF SendOpen, Deal
  <2>4. CASE SendClose \/ SendModify
    <3>1. \A p \in Found : p.own
      BY <1>1, <2>4 DEF SendClose, SendModify, Found, MT5Inv, TargetInv
    <3>2. \A p \in positions : p \in Found \/ p \in positions'
      BY <2>4 DEF SendClose, SendModify
    <3> QED
      BY <3>1, <3>2
  <2> QED
    BY <1>1, <2>1, <2>2, <2>3, <2>4 DEF Next
<1>2. MT5Inv /\ [Next]_vars => [<<pc, tries>>' # <<pc, tries>> => Kept]_vars
  BY <1>1
<1> QED
  BY MT5Invariant, <1>2, PTL DEF Spec, ForeignUntouched

(* No step replaces a stop by a looser one: rounding cannot undo the       *)
(* improvement that was judged before it.                                  *)
THEOREM StopsNeverLoosen == Spec => StopNeverSlips
<1> DEFINE Tightens == \A p \in positions, q \in positions' :
                         p.id = q.id => q.stop >= p.stop
<1>1. ASSUME MT5Inv, Next
      PROVE  Tightens
  <2>1. \A p, q \in positions : p.id = q.id => p = q
    BY <1>1 DEF MT5Inv, IdsInv
  <2>2. \A p \in positions : p.stop \in Nat /\ p.stop % Point = 0
                             /\ p.id \in Nat /\ p.id <= opened
    BY <1>1, MT5Assumption DEF MT5Inv, IdsInv, TypeOK, Positions, Grid
  <2>3. CASE positions' \subseteq positions
    BY <2>1, <2>2, <2>3
  <2>4. ASSUME NEW own, NEW v, Deal(v, own) PROVE Tightens
    <3>1. opened \in Nat
      BY <1>1 DEF MT5Inv, TypeOK
    <3> QED
      BY <2>1, <2>2, <2>4, <3>1 DEF Deal
  <2>5. ASSUME NEW p \in Found, NEW v,
               positions' = (positions \ Found) \cup {[p EXCEPT !.volume = v]}
        PROVE  Tightens
    <3>1. p \in positions /\ p \in Positions
      BY <1>1 DEF Found, MT5Inv, TypeOK
    <3> DEFINE r == [p EXCEPT !.volume = v]
    <3>2. r.id = p.id /\ r.stop = p.stop
      BY <3>1 DEF Positions
    <3> HIDE DEF r
    <3>3. \A q \in positions' : q \in positions \/ q = r
      BY <2>5 DEF r
    <3> QED
      BY <2>1, <2>2, <3>1, <3>2, <3>3
  <2>6. ASSUME pc = "modify:send", NEW p \in Found,
               positions' = (positions \ Found) \cup
                              {[p EXCEPT !.stop = NormalizePrice(ticks)]}
        PROVE  Tightens
    <3>1. p \in positions /\ p \in Positions /\ ticks \in Nat /\ ticks > p.stop
      BY <1>1, <2>6 DEF Found, MT5Inv, TypeOK, TargetInv
    <3>2. NormalizePrice(ticks) >= p.stop
      BY <2>2, <3>1, RoundingKeepsImprovement
    <3> DEFINE r == [p EXCEPT !.stop = NormalizePrice(ticks)]
    <3>3. r.id = p.id /\ r.stop >= p.stop
      BY <3>1, <3>2 DEF Positions
    <3> HIDE DEF r
    <3>4. \A q \in positions' : q \in positions \/ q = r
      BY <2>6 DEF r
    <3> QED
      BY <2>1, <2>2, <3>1, <3>3, <3>4
  <2> QED
    BY <1>1, <2>3, <2>4, <2>5, <2>6
       DEF Next, StopFires, OthersOpen, BeginOpen, SendOpen, BeginClose,
           BeginModify, FindTarget, SendClose, SendModify
<1>2. MT5Inv /\ [Next]_vars => [Tightens]_vars
  BY <1>1
<1> QED
  BY MT5Invariant, <1>2, PTL DEF Spec, StopNeverSlips
=============================================================================
