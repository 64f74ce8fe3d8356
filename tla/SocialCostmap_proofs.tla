------------------------ MODULE SocialCostmap_proofs ------------------------
(***************************************************************************)
(* Proofs about SocialCostmap: for every size of the window, reach of the  *)
(* personal space, set of people and set of zones within reach of every    *)
(* window, an update that recomputes only the reported bounds leaves the   *)
(* window as a full recomputation would.                                   *)
(***************************************************************************)
EXTENDS SocialCostmap, WellFoundedInduction, TLAPS

-----------------------------------------------------------------------------
(***************************************************************************)
(* The least and the greatest of a set of integers with a bound.           *)
(***************************************************************************)

\* A set of naturals has a least one.
LEMMA LeastNatural ==
    ASSUME NEW S, S \subseteq Nat, S # {}
    PROVE  \E x \in S : \A y \in S : x <= y
<1>1. PICK x \in S : \A y \in S : ~ (<<y, x>> \in OpToRel(<, Nat))
  BY WFMin, NatLessThanWellFounded
<1>2. \A y \in S : ~ (y < x)
  <2> SUFFICES ASSUME NEW y \in S, y < x PROVE FALSE
    OBVIOUS
  <2>1. x \in Nat /\ y \in Nat
    OBVIOUS
  <2>2. <<y, x>> \in OpToRel(<, Nat)
    BY <2>1 DEF OpToRel
  <2> QED BY <2>2, <1>1
<1>3. \A y \in S : y \in Nat /\ x \in Nat
  OBVIOUS
<1>4. \A y \in S : x <= y
  BY <1>2, <1>3
<1> QED BY <1>4

\* The least of a set of integers that are bounded below (the lower ends of
\* bounds).
LEMMA MinProperty ==
    ASSUME NEW S, S \subseteq Int, S # {}, NEW b \in Int, \A x \in S : b <= x
    PROVE  /\ Min(S) \in S
           /\ \A x \in S : Min(S) <= x
<1> DEFINE T == {x - b : x \in S}
<1>0. \A x \in S : x \in Int
  OBVIOUS
<1>a. \A x \in S : x - b \in Nat
  BY <1>0
<1>b. T # {}
  BY Zenon
<1>1. T \subseteq Nat
  BY <1>a, Zenon
<1> HIDE DEF T
<1>2. PICK t \in T : \A y \in T : t <= y
  BY <1>b, <1>1, LeastNatural
<1>3. PICK m \in S : t = m - b
  BY DEF T
<1>4. \A x \in S : x - b \in T
  BY DEF T
<1>5. \A x \in S : m <= x
  BY <1>0, <1>2, <1>3, <1>4
<1> QED BY <1>5 DEF Min

\* The greatest of a set of integers that are bounded above (the upper ends of
\* bounds, and the highest share).
LEMMA MaxProperty ==
    ASSUME NEW S, S \subseteq Int, S # {}, NEW b \in Int, \A x \in S : x <= b
    PROVE  /\ Max(S) \in S
           /\ \A x \in S : Max(S) >= x
<1> DEFINE T == {b - x : x \in S}
<1>0. \A x \in S : x \in Int
  OBVIOUS
<1>a. \A x \in S : b - x \in Nat
  BY <1>0
<1>b. T # {}
  BY Zenon
<1>1. T \subseteq Nat
  BY <1>a, Zenon
<1> HIDE DEF T
<1>2. PICK t \in T : \A y \in T : t <= y
  BY <1>b, <1>1, LeastNatural
<1>3. PICK m \in S : t = b - m
  BY DEF T
<1>4. \A x \in S : b - x \in T
  BY DEF T
<1>5. \A x \in S : m >= x
  BY <1>0, <1>2, <1>3, <1>4
<1> QED BY <1>5 DEF Max

-----------------------------------------------------------------------------
(***************************************************************************)
(* Bounds and the cells they come down to.                                 *)
(***************************************************************************)

Interval == [lo : Int, hi : Int]

\* c lies between the bounds b
Between(b, c) == b.lo <= c /\ c <= b.hi

\* Clamping bounds to the window neither leaves the window nor loses a cell of
\* it, and adds none when the bounds overlap the window (worldToMapEnforceBounds).
LEMMA EnforcedCells ==
    ASSUME NEW b \in Interval, NEW o \in Int
    PROVE  /\ Enforced(b, o) \subseteq Window(o)
           /\ \A c \in Window(o) : Between(b, c) => c \in Enforced(b, o)
           /\ b.lo <= o + Width - 1 /\ o <= b.hi =>
                 \A c \in Enforced(b, o) : Between(b, c)
<1>1. Width \in Nat /\ Width >= 2
  BY CostmapAssumption
<1>2. b.lo \in Int /\ b.hi \in Int
  BY DEF Interval
<1> QED
  BY <1>1, <1>2 DEF Enforced, Enforce, Window, Between

\* Joining bounds keeps what is between either of them (the std::min and
\* std::max of updateBounds).
LEMMA JoinCovers ==
    ASSUME NEW a \in Interval, NEW b \in Interval
    PROVE  /\ Join(a, b) \in Interval
           /\ \A c \in Int : Between(a, c) \/ Between(b, c) =>
                                Between(Join(a, b), c)
BY DEF Join, Between, Interval

\* The initial bounds are bounds, and nothing is between them.
LEMMA UnsetIsEmpty ==
    Unset \in Interval /\ \A c \in Int : ~ Between(Unset, c)
BY CostmapAssumption DEF Unset, Interval, Between, Far

\* The bounds reported for the people hold every cell that someone's personal
\* space reaches (the second half of updateBounds).
LEMMA PeopleBoundsCover ==
    ASSUME NEW people \in SUBSET Human
    PROVE  /\ PeopleBounds(people) \in Interval
           /\ \A p \in people, c \in Int :
                 c - p.at \in -cutoff_distance..cutoff_distance =>
                    Between(PeopleBounds(people), c)
<1>1. CASE people = {}
  BY <1>1, UnsetIsEmpty DEF PeopleBounds
<1>2. CASE people # {}
  <2> DEFINE L == {p.at - cutoff_distance : p \in people}
             H == {p.at + cutoff_distance : p \in people}
  <2>1. cutoff_distance \in Nat /\ Reach \in Nat /\ WorldSize \in Nat
    BY CostmapAssumption
  <2>2. \A p \in people : p.at \in Int /\ -Reach <= p.at /\ p.at <= WorldSize + Reach
    BY <2>1 DEF Human, Places
  <2>3. /\ \A x \in L : x \in Int /\ -Reach - cutoff_distance <= x
        /\ \A x \in H : x \in Int /\ x <= WorldSize + Reach + cutoff_distance
    BY <2>1, <2>2
  <2>4. L \subseteq Int /\ H \subseteq Int
    BY <2>3
  <2>5. L # {} /\ H # {}
    BY <1>2, Zenon
  <2>6. Min(L) \in L /\ \A x \in L : Min(L) <= x
    <3>1. -Reach - cutoff_distance \in Int
      BY <2>1
    <3> HIDE DEF L
    <3> QED BY <2>3, <2>4, <2>5, <3>1, MinProperty
  <2>7. Max(H) \in H /\ \A x \in H : Max(H) >= x
    <3>1. WorldSize + Reach + cutoff_distance \in Int
      BY <2>1
    <3> HIDE DEF H
    <3> QED BY <2>3, <2>4, <2>5, <3>1, MaxProperty
  <2>8. PeopleBounds(people) = [lo |-> Min(L), hi |-> Max(H)]
    BY <1>2 DEF PeopleBounds
  <2>9. Min(L) \in Int /\ Max(H) \in Int
    BY <2>3, <2>6, <2>7
  <2>10. PeopleBounds(people) \in Interval
    BY <2>8, <2>9 DEF Interval
  <2>11. ASSUME NEW p \in people, NEW c \in Int,
                c - p.at \in -cutoff_distance..cutoff_distance
         PROVE  Between(PeopleBounds(people), c)
    <3>1. p.at - cutoff_distance \in L /\ p.at + cutoff_distance \in H
      OBVIOUS
    <3>2. Min(L) <= p.at - cutoff_distance /\ p.at + cutoff_distance <= Max(H)
      BY <2>6, <2>7, <2>9, <2>2, <2>1, <3>1
    <3>3. Min(L) <= c /\ c <= Max(H)
      BY <3>2, <2>9, <2>1, <2>2, <2>11
    <3> QED BY <3>3, <2>8 DEF Between
  <2> QED BY <2>10, <2>11
<1> QED BY <1>1, <1>2

\* A zone's corners come out in order, whatever order they were given in, and
\* the zones' updateBounds covers every zone (parseZones, updateBounds).
LEMMA ZoneIsInterval ==
    \A z \in ParsedZones :
        /\ z \in Interval
        /\ z.lo <= z.hi
        /\ -Reach <= z.lo
        /\ z.hi <= WorldSize + Reach
<1>1. WorldSize \in Nat /\ Reach \in Nat
  BY CostmapAssumption
<1>2. ASSUME NEW y \in zones
      PROVE  /\ Min({y[1], y[2]}) \in Int /\ Max({y[1], y[2]}) \in Int
             /\ Min({y[1], y[2]}) <= Max({y[1], y[2]})
             /\ -Reach <= Min({y[1], y[2]})
             /\ Max({y[1], y[2]}) <= WorldSize + Reach
  <2> DEFINE S == {y[1], y[2]}
  <2>1. \A x \in S : x \in Int /\ -Reach <= x /\ x <= WorldSize + Reach
    BY <1>1, CostmapAssumption DEF Places
  <2>2. S \subseteq Int /\ S # {} /\ -Reach \in Int /\ WorldSize + Reach \in Int
    BY <1>1, <2>1
  <2> HIDE DEF S
  <2>3. Min(S) \in S /\ \A x \in S : Min(S) <= x
    BY <2>1, <2>2, MinProperty
  <2>4. Max(S) \in S /\ \A x \in S : Max(S) >= x
    BY <2>1, <2>2, MaxProperty
  <2>5. /\ Min(S) \in Int /\ Max(S) \in Int /\ Min(S) <= Max(S)
        /\ -Reach <= Min(S) /\ Max(S) <= WorldSize + Reach
    BY <2>1, <2>3, <2>4
  <2> QED BY <2>5 DEF S
<1>3. ASSUME NEW z \in ParsedZones
      PROVE  /\ z \in Interval
             /\ z.lo <= z.hi
             /\ -Reach <= z.lo
             /\ z.hi <= WorldSize + Reach
  <2>1. PICK y \in zones : z = [lo |-> Min({y[1], y[2]}), hi |-> Max({y[1], y[2]})]
    BY Zenon DEF ParsedZones
  <2>2. z.lo = Min({y[1], y[2]}) /\ z.hi = Max({y[1], y[2]})
    BY <2>1
  <2>3. z.lo \in Int /\ z.hi \in Int
    BY <2>2, <1>2
  <2>4. z \in Interval
    BY <2>1, <1>2 DEF Interval
  <2> QED BY <2>2, <2>4, <1>2
<1> QED BY <1>3

\* What the zones' updateBounds reports holds what was reported before it and
\* every zone.
LEMMA ZoneBoundsCover ==
    ASSUME NEW b \in Interval
    PROVE  /\ ZoneBounds(b) \in Interval
           /\ \A c \in Int : Between(b, c) => Between(ZoneBounds(b), c)
           /\ \A z \in ParsedZones, c \in Int :
                 Between(z, c) => Between(ZoneBounds(b), c)
<1>1. CASE zones = {}
  BY <1>1 DEF ZoneBounds, ParsedZones
<1>2. CASE zones # {}
  <2> DEFINE L == {z.lo : z \in ParsedZones}
             H == {z.hi : z \in ParsedZones}
             W == [lo |-> Min(L), hi |-> Max(H)]
  <2>1. WorldSize + Reach \in Int /\ -Reach \in Int
    BY CostmapAssumption
  <2>2. \A z \in ParsedZones : z.lo \in Int /\ z.hi \in Int
    BY ZoneIsInterval DEF Interval
  <2>3. /\ \A x \in L : x \in Int /\ -Reach <= x
        /\ \A x \in H : x \in Int /\ x <= WorldSize + Reach
    BY <2>2, ZoneIsInterval
  <2>4. L \subseteq Int /\ H \subseteq Int
    BY <2>3
  <2>5. L # {} /\ H # {}
    <3>1. ParsedZones # {}
      BY <1>2, Zenon DEF ParsedZones
    <3> QED BY <3>1, Zenon
  <2>6. Min(L) \in L /\ \A x \in L : Min(L) <= x
    <3> HIDE DEF L
    <3> QED BY <2>1, <2>3, <2>4, <2>5, MinProperty
  <2>7. Max(H) \in H /\ \A x \in H : Max(H) >= x
    <3> HIDE DEF H
    <3> QED BY <2>1, <2>3, <2>4, <2>5, MaxProperty
  <2>8. Min(L) \in Int /\ Max(H) \in Int
    BY <2>3, <2>6, <2>7
  <2>9. W \in Interval
    BY <2>8 DEF Interval
  <2>10. ASSUME NEW z \in ParsedZones, NEW c \in Int, Between(z, c)
         PROVE  Between(W, c)
    <3>1. z.lo \in L /\ z.hi \in H
      OBVIOUS
    <3>2. Min(L) <= z.lo /\ z.hi <= Max(H)
      BY <2>6, <2>7, <3>1
    <3>3. Min(L) <= c /\ c <= Max(H)
      BY <3>2, <2>2, <2>8, <2>10 DEF Between
    <3> QED BY <3>3 DEF Between
  <2>11. ZoneBounds(b) = Join(b, W)
    BY <1>2 DEF ZoneBounds
  <2> HIDE DEF W
  <2> QED BY <2>9, <2>10, <2>11, JoinCovers
<1> QED BY <1>1, <1>2

-----------------------------------------------------------------------------
(***************************************************************************)
(* What the layers write into one cell.                                    *)
(***************************************************************************)

\* The share asked of a cell is a percentage, and nobody asks for a cell out of
\* everybody's reach (the cutoff of updateCosts).
LEMMA BestShareRange ==
    ASSUME NEW people \in SUBSET Human, NEW c \in Int
    PROVE  /\ BestShare(people, c) \in 0..100
           /\ ~ Between(PeopleBounds(people), c) => BestShare(people, c) = 0
<1> DEFINE near == {q \in people : c - q.at \in -cutoff_distance..cutoff_distance}
           S    == {0} \cup {Share[(c - p.at) * p.heading] : p \in near}
<1>1. cutoff_distance \in Nat
      /\ Share \in [-cutoff_distance..cutoff_distance -> 0..100]
  BY CostmapAssumption
<1>2. ASSUME NEW p \in near
      PROVE  Share[(c - p.at) * p.heading] \in 0..100
  <2>1. c - p.at \in -cutoff_distance..cutoff_distance /\ p.heading \in {-1, 1}
    BY DEF Human
  <2>2. (c - p.at) * p.heading \in -cutoff_distance..cutoff_distance
    <3>1. CASE p.heading = 1
      BY <2>1, <1>1, <3>1
    <3>2. CASE p.heading = -1
      BY <2>1, <1>1, <3>2
    <3> QED BY <2>1, <3>1, <3>2
  <2> QED BY <1>1, <2>2
<1>3. \A x \in S : x \in 0..100
  BY <1>2
<1>4. \A x \in S : x \in Int /\ x <= 100
  BY <1>3
<1>5. S \subseteq Int /\ S # {}
  BY <1>4
<1>6. BestShare(people, c) = Max(S)
  BY DEF BestShare
<1>7. BestShare(people, c) \in 0..100
  <2>1. Max(S) \in S
    <3>1. 100 \in Int
      OBVIOUS
    <3> HIDE DEF S
    <3> QED BY <1>4, <1>5, <3>1, MaxProperty
  <2> QED BY <2>1, <1>3, <1>6
<1>8. ASSUME ~ Between(PeopleBounds(people), c)
      PROVE  BestShare(people, c) = 0
  <2>1. near = {}
    BY <1>8, PeopleBoundsCover
  <2>2. S = {0}
    BY <2>1
  <2>3. Max({0}) = 0
    BY DEF Max
  <2> QED BY <1>6, <2>2, <2>3
<1> QED BY <1>7, <1>8

\* The stamp of the social layer is a cost, raises and never closes or opens a
\* cell, and is none where the share is none.
LEMMA StampSocialEffect ==
    ASSUME NEW people \in SUBSET Human, NEW c \in Int, NEW old \in 0..255
    PROVE  /\ StampSocial(people, c, old) \in 0..255
           /\ StampSocial(people, c, old) \in Hard <=> old \in Hard
           /\ BestShare(people, c) = 0 => StampSocial(people, c, old) = old
<1> DEFINE share == BestShare(people, c)
           add   == (share * max_cost) \div 100
<1>1. share \in 0..100 /\ max_cost \in 0..252
  <2>1. share \in 0..100
    BY BestShareRange
  <2>2. max_cost \in 0..252
    BY CostmapAssumption
  <2> QED BY <2>1, <2>2
<1>2. add \in 0..252
  <2>1. share * max_cost \in Int /\ 0 <= share * max_cost
    BY <1>1
  <2>2. share * max_cost <= 252 * 100
    <3>1. share * max_cost <= share * 252
      BY <1>1
    <3> QED BY <1>1, <3>1
  <2> HIDE DEF share
  <2> QED BY <2>1, <2>2
<1>3. StampSocial(people, c, old) =
        IF share <= 2 \/ old \in Hard \cup {NoInformation} \/ add <= old
        THEN old ELSE add
  BY DEF StampSocial
<1> HIDE DEF share, add
<1>4. CASE StampSocial(people, c, old) = old
  BY <1>4
<1>5. CASE share > 2 /\ old \notin Hard /\ StampSocial(people, c, old) = add
  <2>1. add \notin Hard
    BY <1>2 DEF Hard
  <2> QED BY <1>2, <1>5, <2>1 DEF share
<1> QED BY <1>1, <1>3, <1>4, <1>5

\* The stamp of the zones, likewise (the clamp below the inscribed band).
LEMMA StampZonesEffect ==
    ASSUME NEW o, NEW c, NEW old \in 0..255
    PROVE  /\ StampZones(o, c, old) \in 0..255
           /\ StampZones(o, c, old) \in Hard <=> old \in Hard
           /\ c \notin ZoneCells(o) => StampZones(o, c, old) = old
<1> DEFINE soft == IF cost < 0 THEN 0 ELSE IF cost > 252 THEN 252 ELSE cost
<1>1. soft \in 0..252 /\ soft \notin Hard
  BY CostmapAssumption DEF Hard
<1>2. \/ StampZones(o, c, old) = old
      \/ c \in ZoneCells(o) /\ old \notin Hard /\ StampZones(o, c, old) = soft
  BY DEF StampZones
<1> HIDE DEF soft
<1> QED BY <1>1, <1>2

\* The layers over each other.
LEMMA LayeredEffect ==
    ASSUME NEW people \in SUBSET Human, NEW o \in Int, NEW c \in Int, NEW below \in 0..255
    PROVE  /\ Layered(people, o, c, below) \in 0..255
           /\ Layered(people, o, c, below) \in Hard <=> below \in Hard
           /\ ~ Between(PeopleBounds(people), c) /\ c \notin ZoneCells(o)
                => Layered(people, o, c, below) = below
<1> DEFINE s == StampSocial(people, c, below)
<1>1. /\ s \in 0..255
      /\ s \in Hard <=> below \in Hard
      /\ ~ Between(PeopleBounds(people), c) => s = below
  BY StampSocialEffect, BestShareRange
<1>2. Layered(people, o, c, below) = StampZones(o, c, s)
  BY DEF Layered
<1> HIDE DEF s
<1> QED BY <1>1, <1>2, StampZonesEffect

-----------------------------------------------------------------------------
(***************************************************************************)
(* The inductive invariant: SocialLayer remembers the bounds of exactly    *)
(* the people it stamped last, an update leaves out no cell that its       *)
(* layers would change, and a cleared costmap holds the obstacles only.    *)
(***************************************************************************)

BoundsOfPeople == last_bounds_ = PeopleBounds(people_)

Complete(c) == master[c] = Layered(people_, origin, c, obstacle[c])

CellsInv ==
    /\ phase = "new" => \A c \in World : master[c] = obstacle[c]
    /\ phase = "costs" => \A c \in Window(origin) \ touched : Complete(c)
    /\ phase = "idle" => \A c \in Window(origin) : Complete(c)

CostmapInv == TypeOK /\ BoundsOfPeople /\ CellsInv

\* Each window overlaps each zone.  Without this the clamping to the window
\* stamps cells outside the zone, which the update after the next roll of the
\* window need not reach.
ZonesInReach ==
    \A o \in Origins, z \in ParsedZones : z.lo <= o + Width - 1 /\ o <= z.hi

\* A window lies in the world.
LEMMA WindowInWorld ==
    \A o \in Origins : o \in Int /\ Window(o) \subseteq World /\ Window(o) \subseteq Int
BY CostmapAssumption DEF Origins, Window, World

\* When every window overlaps every zone, the zones' cells are in the zones.
LEMMA ZoneCellsBetween ==
    ASSUME ZonesInReach, NEW o \in Origins, NEW c \in ZoneCells(o)
    PROVE  \E z \in ParsedZones : Between(z, c)
<1>1. PICK z \in ParsedZones : c \in Enforced(z, o)
  BY DEF ZoneCells
<1>2. z.lo <= o + Width - 1 /\ o <= z.hi
  BY DEF ZonesInReach
<1> QED BY <1>1, <1>2, ZoneIsInterval, EnforcedCells, WindowInWorld

\* The initial state.
LEMMA CostmapInit == Init => CostmapInv
<1> SUFFICES ASSUME Init PROVE CostmapInv
  OBVIOUS
<1> USE DEF Init
<1>1. last_bounds_ \in [lo : Int, hi : Int]
  BY UnsetIsEmpty DEF Interval
<1>2. obstacle \in [World -> 0..255] /\ master \in [World -> 0..255]
  BY CostmapAssumption
<1>3. now \in 0..MaxTime /\ latest_.stamp \in 0..now
  BY CostmapAssumption
<1>4. TypeOK
  BY <1>1, <1>2, <1>3 DEF TypeOK
<1>5. BoundsOfPeople
  BY DEF BoundsOfPeople, PeopleBounds
<1>6. CellsInv
  BY DEF CellsInv
<1> QED BY <1>4, <1>5, <1>6 DEF CostmapInv

\* The people an update takes are people of the message.
LEMMA CurrentPeopleType == latest_.humans \in SUBSET Human => CurrentPeople \in SUBSET Human
BY DEF CurrentPeople

\* What an update's first half reports contains what it reports of itself: the
\* news of the layers below, the last people, the new people and the zones.
LEMMA ReportedBoundsCover ==
    ASSUME NEW people \in SUBSET Human, NEW news \in Interval,
           last_bounds_ \in Interval
    PROVE  /\ ReportedBounds(people, news) \in Interval
           /\ \A c \in Int :
                 \/ Between(news, c)
                 \/ Between(last_bounds_, c)
                 \/ Between(PeopleBounds(people), c)
                 \/ \E z \in ParsedZones : Between(z, c)
                 => Between(ReportedBounds(people, news), c)
<1> DEFINE J == Join(news, last_bounds_)
           K == Join(J, PeopleBounds(people))
<1>1. /\ J \in Interval
      /\ \A c \in Int : Between(news, c) \/ Between(last_bounds_, c) => Between(J, c)
  BY JoinCovers
<1>2. PeopleBounds(people) \in Interval
  BY PeopleBoundsCover
<1> HIDE DEF J
<1>3. /\ K \in Interval
      /\ \A c \in Int : Between(J, c) \/ Between(PeopleBounds(people), c)
                          => Between(K, c)
  BY <1>1, <1>2, JoinCovers
<1>4. ReportedBounds(people, news) = ZoneBounds(K)
  BY DEF ReportedBounds, J
<1> HIDE DEF K
<1>5. /\ ZoneBounds(K) \in Interval
      /\ \A c \in Int : Between(K, c) => Between(ZoneBounds(K), c)
      /\ \A z \in ParsedZones, c \in Int :
            Between(z, c) => Between(ZoneBounds(K), c)
  BY <1>3, ZoneBoundsCover
<1> QED BY <1>1, <1>3, <1>4, <1>5

\* The cells that the first half leaves out need no computing: neither a person
\* of this update nor of the last one reaches them.
LEMMA UpdateBoundsStep ==
    ASSUME ZonesInReach, CostmapInv, UpdateBounds
    PROVE  CostmapInv'
<1> DEFINE people == CurrentPeople
<1>0. TypeOK /\ BoundsOfPeople /\ CellsInv
  BY DEF CostmapInv
<1>1. people \in SUBSET Human
  BY <1>0, CurrentPeopleType DEF TypeOK
<1>2. PICK o \in Origins,
           news \in {Unset} \cup {[lo |-> c, hi |-> c] : c \in Window(origin')} :
        /\ origin' = o
        /\ master' = Roll(master, o)
        /\ IF news = Unset THEN obstacle' = Roll(obstacle, o)
           ELSE \E written \in ObstacleCosts :
                  obstacle' = [Roll(obstacle, o) EXCEPT ![news.lo] = written]
        /\ people_' = people
        /\ last_bounds_' = PeopleBounds(people)
        /\ touched' = Enforced(ReportedBounds(people, news), o)
  BY DEF UpdateBounds
<1>3. phase # "costs" /\ phase' = "costs" /\ now' = now /\ latest_' = latest_
  BY DEF UpdateBounds
<1> HIDE DEF people
<1>4. o \in Int /\ Window(o) \subseteq World /\ Window(o) \subseteq Int
  BY WindowInWorld
<1>5. news \in Interval
  BY <1>2, <1>4, UnsetIsEmpty DEF Interval
<1>6. last_bounds_ \in Interval
  BY <1>0 DEF TypeOK, Interval
<1>7. PeopleBounds(people) \in Interval
  BY <1>1, PeopleBoundsCover
<1>8. default_value \in 0..255
  BY CostmapAssumption
<1>9. Roll(obstacle, o) \in [World -> 0..255] /\ Roll(master, o) \in [World -> 0..255]
  BY <1>0, <1>8 DEF Roll, TypeOK
<1>10. obstacle' \in [World -> 0..255]
  <2>1. CASE news = Unset
    BY <1>2, <1>9, <2>1
  <2>2. CASE news # Unset
    <3>1. PICK written \in ObstacleCosts :
            obstacle' = [Roll(obstacle, o) EXCEPT ![news.lo] = written]
      BY <1>2, <2>2
    <3>2. written \in 0..255
      BY CostmapAssumption
    <3> QED BY <3>1, <3>2, <1>9
  <2> QED BY <2>1, <2>2
<1>11. \A c \in World : ~ Between(news, c) => obstacle'[c] = Roll(obstacle, o)[c]
  <2>1. CASE news = Unset
    BY <1>2, <2>1
  <2>2. CASE news # Unset
    <3>1. PICK d \in Window(o) : news = [lo |-> d, hi |-> d]
      BY <1>2, <2>2
    <3>2. PICK written \in ObstacleCosts :
            obstacle' = [Roll(obstacle, o) EXCEPT ![d] = written]
      BY <1>2, <2>2, <3>1
    <3>3. Between(news, d)
      BY <3>1, <1>4 DEF Between
    <3> QED BY <3>2, <3>3, <1>9
  <2> QED BY <2>1, <2>2
<1>12. TypeOK'
  <2>1. touched' \subseteq Window(o)
    BY <1>2, <1>1, <1>4, <1>5, <1>6, ReportedBoundsCover, EnforcedCells
  <2> QED
    BY <1>0, <1>1, <1>2, <1>3, <1>7, <1>9, <1>10, <2>1 DEF TypeOK, Interval
<1>13. BoundsOfPeople'
  BY <1>2 DEF BoundsOfPeople
<1>14. ASSUME NEW c \in Window(o), c \notin touched'
       PROVE  Roll(master, o)[c] = Layered(people, o, c, obstacle'[c])
  <2>1. c \in Int /\ c \in World
    BY <1>4
  <2>2. /\ ~ Between(news, c)
        /\ ~ Between(last_bounds_, c)
        /\ ~ Between(PeopleBounds(people), c)
        /\ ~ \E z \in ParsedZones : Between(z, c)
    <3>1. ~ Between(ReportedBounds(people, news), c)
      BY <1>1, <1>2, <1>4, <1>5, <1>6, <1>14, ReportedBoundsCover, EnforcedCells
    <3> QED BY <3>1, <2>1, <1>1, <1>5, <1>6, ReportedBoundsCover
  <2>3. c \notin ZoneCells(o) /\ c \notin ZoneCells(origin)
    BY <2>2, <1>0, ZoneCellsBetween DEF TypeOK
  <2>4. obstacle'[c] = Roll(obstacle, o)[c] /\ obstacle'[c] \in 0..255
    BY <1>10, <1>11, <2>1, <2>2
  <2>5. Layered(people, o, c, obstacle'[c]) = obstacle'[c]
    BY <1>1, <1>4, <2>1, <2>2, <2>3, <2>4, LayeredEffect
  <2>6. Roll(master, o)[c] = Roll(obstacle, o)[c]
    <3>1. CASE c \notin Window(origin)
      BY <2>1, <3>1 DEF Roll
    <3>2. CASE c \in Window(origin) /\ phase = "new"
      BY <2>1, <3>2, <1>0 DEF Roll, CellsInv
    <3>3. CASE c \in Window(origin) /\ phase = "idle"
      <4>1. master[c] = Layered(people_, origin, c, obstacle[c])
        BY <3>3, <1>0 DEF CellsInv, Complete
      <4>2. /\ ~ Between(PeopleBounds(people_), c)
            /\ people_ \in SUBSET Human /\ origin \in Int /\ obstacle[c] \in 0..255
        BY <1>0, <2>1, <2>2, WindowInWorld DEF BoundsOfPeople, TypeOK
      <4>3. master[c] = obstacle[c]
        BY <4>1, <4>2, <2>1, <2>3, LayeredEffect
      <4> QED BY <2>1, <3>3, <4>3 DEF Roll
    <3> QED BY <3>1, <3>2, <3>3, <1>0, <1>3 DEF TypeOK
  <2> QED BY <2>4, <2>5, <2>6
<1>15. CellsInv'
  BY <1>2, <1>3, <1>14 DEF CellsInv, Complete
<1> QED BY <1>12, <1>13, <1>15 DEF CostmapInv

\* The second half computes the cells that were reported and keeps the others.
LEMMA UpdateCostsStep ==
    ASSUME CostmapInv, UpdateCosts
    PROVE  CostmapInv'
<1>0. TypeOK /\ BoundsOfPeople /\ CellsInv
  BY DEF CostmapInv
<1>1. /\ phase = "costs" /\ phase' = "idle" /\ touched' = {}
      /\ master' = [c \in World |->
                      IF c \in touched
                      THEN Layered(people_, origin, c, obstacle[c])
                      ELSE master[c]]
      /\ UNCHANGED <<now, latest_, people_, last_bounds_, obstacle, origin>>
  BY DEF UpdateCosts, layerVars
<1>2. Window(origin) \subseteq World /\ Window(origin) \subseteq Int /\ origin \in Int
  BY <1>0, WindowInWorld DEF TypeOK
<1>3. \A c \in touched : Layered(people_, origin, c, obstacle[c]) \in 0..255
  BY <1>0, <1>2, LayeredEffect DEF TypeOK
<1>4. master' \in [World -> 0..255]
  BY <1>0, <1>1, <1>3 DEF TypeOK
<1>5. TypeOK'
  BY <1>0, <1>1, <1>4 DEF TypeOK
<1>6. BoundsOfPeople'
  BY <1>0, <1>1 DEF BoundsOfPeople
<1>7. CellsInv'
  BY <1>0, <1>1, <1>2 DEF CellsInv, Complete
<1> QED BY <1>5, <1>6, <1>7 DEF CostmapInv

\* The steps that touch no cell, and the clearing of all of them.
LEMMA OtherCostmapSteps ==
    ASSUME CostmapInv,
           Tick \/ HumansCallback \/ Clear \/ UNCHANGED vars
    PROVE  CostmapInv'
<1>0. TypeOK /\ BoundsOfPeople /\ CellsInv
  BY DEF CostmapInv
<1>1. CASE Tick
  <2>1. now' \in 0..MaxTime /\ latest_'.stamp \in 0..now'
    <3>1. MaxTime \in Nat
      BY CostmapAssumption
    <3> QED BY <1>0, <1>1, <3>1 DEF Tick, TypeOK
  <2>2. TypeOK'
    BY <1>0, <1>1, <2>1 DEF Tick, TypeOK, layerVars, costmapVars
  <2> QED
    BY <1>0, <1>1, <2>2 DEF Tick, CostmapInv, BoundsOfPeople, CellsInv, Complete,
                            layerVars, costmapVars
<1>2. CASE HumansCallback
  <2>1. PICK stamp \in latest_.stamp..now, humans \in Crowds :
          latest_' = [stamp |-> stamp, humans |-> humans]
    BY <1>2 DEF HumansCallback
  <2>2. UNCHANGED <<now, people_, last_bounds_, obstacle, master, origin, touched, phase>>
    BY <1>2 DEF HumansCallback, layerVars, costmapVars
  <2>3. latest_'.stamp \in 0..now' /\ latest_'.humans \in SUBSET Human
    BY <1>0, <2>1, <2>2, CostmapAssumption DEF TypeOK
  <2>4. TypeOK'
    BY <1>0, <2>2, <2>3 DEF TypeOK
  <2> QED
    BY <1>0, <2>2, <2>4 DEF CostmapInv, BoundsOfPeople, CellsInv, Complete
<1>3. CASE Clear
  <2>1. TypeOK'
    BY <1>0, <1>3, CostmapAssumption DEF Clear, TypeOK, layerVars
  <2>2. BoundsOfPeople' /\ CellsInv'
    BY <1>0, <1>3 DEF Clear, BoundsOfPeople, CellsInv, layerVars
  <2> QED BY <2>1, <2>2 DEF CostmapInv
<1>4. CASE UNCHANGED vars
  BY <1>0, <1>4 DEF vars, CostmapInv, TypeOK, BoundsOfPeople, CellsInv, Complete,
                    layerVars, costmapVars
<1> QED BY <1>1, <1>2, <1>3, <1>4

\* CostmapInv is an invariant.
LEMMA CostmapInvariant ==
    ASSUME ZonesInReach
    PROVE  Spec => []CostmapInv
<1>1. CostmapInv /\ [Next]_vars => CostmapInv'
  BY UpdateBoundsStep, UpdateCostsStep, OtherCostmapSteps DEF Next
<1> QED BY CostmapInit, <1>1, PTL DEF Spec

-----------------------------------------------------------------------------

\* Every cell of the window holds what a full recomputation would write,
\* although an update recomputes only what its layers report.
THEOREM NoGhost ==
    ASSUME ZonesInReach
    PROVE  Spec => []NoGhostCost
<1>1. CostmapInv => NoGhostCost
  BY DEF CostmapInv, CellsInv, Complete, NoGhostCost
<1> QED BY <1>1, CostmapInvariant, PTL

\* Neither people nor zones make a passable cell impassable, or the reverse.
THEOREM HardCells ==
    ASSUME ZonesInReach
    PROVE  Spec => []HardCellsAreSensed
<1>1. CostmapInv => HardCellsAreSensed
  <2> SUFFICES ASSUME CostmapInv, phase = "idle", NEW c \in Window(origin)
               PROVE  master[c] \in Hard <=> obstacle[c] \in Hard
    BY DEF HardCellsAreSensed
  <2>1. master[c] = Layered(people_, origin, c, obstacle[c])
    BY DEF CostmapInv, CellsInv, Complete
  <2>2. origin \in Int /\ c \in Int /\ c \in World
    BY WindowInWorld DEF CostmapInv, TypeOK
  <2>3. obstacle[c] \in 0..255 /\ people_ \in SUBSET Human
    BY <2>2 DEF CostmapInv, TypeOK
  <2>4. Layered(people_, origin, c, obstacle[c]) \in Hard <=> obstacle[c] \in Hard
    BY <2>2, <2>3, LayeredEffect
  <2> QED BY <2>1, <2>4
<1> QED BY <1>1, CostmapInvariant, PTL

\* The costmap's type.
THEOREM CostmapType ==
    ASSUME ZonesInReach
    PROVE  Spec => []TypeOK
<1>1. CostmapInv => TypeOK
  BY DEF CostmapInv
<1> QED BY <1>1, CostmapInvariant, PTL
=============================================================================
