--------------------------- MODULE SocialCostmap ---------------------------
(***************************************************************************)
(* The two layers of social_nav_costs in the global costmap: SocialLayer   *)
(* stamps a cost around each person, RestrictedZoneLayer one over fixed    *)
(* keep-out zones.  The costmap is a window that rolls with the robot; an  *)
(* update recomputes only the cells between the bounds its layers report,  *)
(* and every other cell keeps what earlier updates wrote.                  *)
(*                                                                         *)
(* One row of the grid is modelled.  A cell is named by its place in the   *)
(* world, so a cell of the window at `origin' is one of                    *)
(* origin..origin+Width-1.  The layers below the two (obstacles and their  *)
(* inflation) and the rolling of the window are Nav2's.                    *)
(***************************************************************************)
EXTENDS Integers, FiniteSetsExt

CONSTANTS
    WorldSize,          \* cells the window may roll over
    Width,              \* cells of the window
    default_value,      \* of a cell nothing was written to
    \* SocialLayer's parameters
    max_cost,
    cutoff_distance,    \* in cells
    human_timeout,      \* in clock periods
    Share,              \* Share[d]: percent of max_cost at d cells ahead of a person
    \* RestrictedZoneLayer's parameters
    cost,
    zones,              \* pairs of corners, in any order
    \* What the environment may do
    Crowds,             \* the sets of humans a message may list
    ObstacleCosts,      \* what the layers below may write into a cell
    \* Bounds
    Reach,              \* how far people and zones are from the world's edge
    MaxTime

World   == 0..WorldSize - 1
Origins == 0..WorldSize - Width

Places  == -Reach..WorldSize + Reach

Human == [at : Places, heading : {-1, 1}, finite : BOOLEAN]

(***************************************************************************)
(* max_cost is used unclamped: "< 253 so it is soft" is a demand on the    *)
(* configuration (social_layer.hpp).  cost is clamped and needs none.      *)
(***************************************************************************)
ASSUME CostmapAssumption ==
    /\ WorldSize \in Nat /\ Width \in 2..WorldSize
    /\ default_value \in {0, 255}
    /\ max_cost \in 0..252
    /\ cutoff_distance \in Nat
    /\ human_timeout \in Nat
    /\ Share \in [-cutoff_distance..cutoff_distance -> 0..100]
    /\ cost \in Int
    /\ zones \subseteq Places \X Places
    /\ Crowds \subseteq SUBSET Human
    /\ ObstacleCosts \subseteq 0..255
    /\ Reach \in Nat
    /\ MaxTime \in Nat

VARIABLES
    now,
    \* SocialLayer's members
    latest_,        \* the last message: its stamp and the humans in it
    people_,        \* the people this update stamps
    last_bounds_,   \* last_min_x_..last_max_x_, Unset if not has_last_bounds_
    \* Nav2's costmap
    obstacle,       \* what the layers below write into a cell
    master,         \* the costmap the planner reads
    origin,
    touched,        \* the cells the update in progress recomputes
    phase           \* of the update: "new" before the first one

layerVars   == <<people_, last_bounds_>>
costmapVars == <<obstacle, master, origin, touched, phase>>
vars        == <<now, latest_, layerVars, costmapVars>>

-----------------------------------------------------------------------------

Window(o) == o..o + Width - 1

\* Costs no layer of social_nav_costs may write or hide
Hard == {253, 254}
NoInformation == 255

\* Bounds are an interval; Unset is what Nav2 starts an update from
Far   == WorldSize + Reach + cutoff_distance + 1
Unset == [lo |-> Far, hi |-> -Far]

Join(a, b) ==
    [lo |-> IF a.lo < b.lo THEN a.lo ELSE b.lo,
     hi |-> IF a.hi > b.hi THEN a.hi ELSE b.hi]

\* Mutant: the last cell of the window is taken to be one further
EnforceOffByOne(x, o) ==
    IF x < o THEN o ELSE IF x > o + Width THEN o + Width ELSE x

\* worldToMapEnforceBounds: the cell of the window nearest to x
Enforce(x, o) ==
    IF x < o THEN o ELSE IF x > o + Width - 1 THEN o + Width - 1 ELSE x

\* The cells of the window an interval comes down to
Enforced(b, o) == Enforce(b.lo, o)..Enforce(b.hi, o)

\* parseZones: the corners of each zone in order
ParsedZones ==
    {[lo |-> Min({z[1], z[2]}), hi |-> Max({z[1], z[2]})] : z \in zones}

\* What the zones' updateBounds adds to bounds b
ZoneBounds(b) ==
    IF zones = {} THEN b
    ELSE Join(b, [lo |-> Min({z.lo : z \in ParsedZones}),
                  hi |-> Max({z.hi : z \in ParsedZones})])

\* How far the cost of these people reaches
PeopleBounds(people) ==
    IF people = {} THEN Unset
    ELSE [lo |-> Min({p.at - cutoff_distance : p \in people}),
          hi |-> Max({p.at + cutoff_distance : p \in people})]

\* Mutant: the bounds of the people only, not where they were before
ReportedBoundsForgetful(people, news) ==
    ZoneBounds(Join(news, PeopleBounds(people)))

\* What the layers below and the two layers report: where the people were in
\* the last update, so that their cost goes, and where they are
ReportedBounds(people, news) ==
    ZoneBounds(Join(Join(news, last_bounds_), PeopleBounds(people)))

\* Mutant: without the age check
CurrentPeopleAnyAge == {p \in latest_.humans : p.finite}

\* currentPeople: nobody if the message is old, and nobody without a position
CurrentPeople ==
    IF now - latest_.stamp > human_timeout THEN {}
    ELSE {p \in latest_.humans : p.finite}

\* The highest share of max_cost that somebody's personal space asks of cell c
BestShare(people, c) ==
    Max({0} \cup
        {Share[(c - p.at) * p.heading] :
            p \in {q \in people : c - q.at \in -cutoff_distance..cutoff_distance}})

\* updateCosts of SocialLayer on a cell that holds `old'
StampSocial(people, c, old) ==
    LET share == BestShare(people, c)
        add   == (share * max_cost) \div 100
    IN  IF share <= 2 \/ old \in Hard \cup {NoInformation} \/ add <= old
        THEN old ELSE add

\* The cells the zones' updateCosts writes to
ZoneCells(o) == UNION {Enforced(z, o) : z \in ParsedZones}

\* Mutant: the cost is not clamped below the inscribed band
StampZonesUnclamped(o, c, old) ==
    IF c \in ZoneCells(o) /\ old \notin Hard /\ (old = NoInformation \/ cost > old)
    THEN cost ELSE old

\* updateCosts of RestrictedZoneLayer on a cell that holds `old'
StampZones(o, c, old) ==
    LET soft == IF cost < 0 THEN 0 ELSE IF cost > 252 THEN 252 ELSE cost
    IN  IF c \in ZoneCells(o) /\ old \notin Hard
             /\ (old = NoInformation \/ soft > old)
        THEN soft ELSE old

\* The layers, one over the other, on a cell where the ones below write `below'
Layered(people, o, c, below) ==
    StampZones(o, c, StampSocial(people, c, below))

-----------------------------------------------------------------------------

Init ==
    /\ now = 0
    /\ latest_ = [stamp |-> 0, humans |-> {}]
    /\ people_ = {}
    /\ last_bounds_ = Unset
    /\ obstacle = [c \in World |-> default_value]
    /\ master = [c \in World |-> default_value]
    /\ origin \in Origins
    /\ touched = {}
    /\ phase = "new"

Tick ==
    /\ now < MaxTime
    /\ now' = now + 1
    /\ UNCHANGED <<latest_, layerVars, costmapVars>>

\* humansCallback, on the executor thread: at any moment of an update
HumansCallback ==
    /\ \E stamp \in latest_.stamp..now, humans \in Crowds :
         latest_' = [stamp |-> stamp, humans |-> humans]
    /\ UNCHANGED <<now, layerVars, costmapVars>>

\* Rolling the window keeps the cells it stays over
Roll(grid, o) ==
    [c \in World |->
        IF c \in Window(origin) \cap Window(o) THEN grid[c] ELSE default_value]

\* The first half of an update: the window rolls, the layers below write where
\* they have news and report it, then the two layers report their bounds
UpdateBounds ==
    /\ phase # "costs"
    /\ \E o \in Origins :
       \E news \in {Unset} \cup {[lo |-> c, hi |-> c] : c \in Window(o)} :
         LET people == CurrentPeople
         IN  /\ origin' = o
             /\ master' = Roll(master, o)
             /\ IF news = Unset THEN obstacle' = Roll(obstacle, o)
                ELSE \E written \in ObstacleCosts :
                       obstacle' = [Roll(obstacle, o) EXCEPT ![news.lo] = written]
             /\ people_' = people
             /\ last_bounds_' = PeopleBounds(people)
             /\ touched' = Enforced(ReportedBounds(people, news), o)
    /\ phase' = "costs"
    /\ UNCHANGED <<now, latest_>>

\* The second half: the touched cells are computed anew
UpdateCosts ==
    /\ phase = "costs"
    /\ master' = [c \in World |->
                    IF c \in touched
                    THEN Layered(people_, origin, c, obstacle[c])
                    ELSE master[c]]
    /\ touched' = {}
    /\ phase' = "idle"
    /\ UNCHANGED <<now, latest_, layerVars, obstacle, origin>>

\* A recovery clears the costmap: reset() of SocialLayer does nothing
Clear ==
    /\ phase = "idle"
    /\ obstacle' = [c \in World |-> default_value]
    /\ master' = [c \in World |-> default_value]
    /\ phase' = "new"
    /\ UNCHANGED <<now, latest_, layerVars, origin, touched>>

Next ==
    \/ Tick
    \/ HumansCallback
    \/ UpdateBounds
    \/ UpdateCosts
    \/ Clear

Spec == Init /\ [][Next]_vars

\* The clock goes on and the thread of the costmap updates it periodically
Fairness == WF_vars(Tick) /\ WF_vars(UpdateBounds) /\ WF_vars(UpdateCosts)

FairSpec == Spec /\ Fairness

-----------------------------------------------------------------------------

TypeOK ==
    /\ now \in 0..MaxTime
    /\ latest_.stamp \in 0..now
    /\ latest_.humans \in SUBSET Human
    /\ people_ \in SUBSET Human
    /\ last_bounds_ \in [lo : Int, hi : Int]
    /\ obstacle \in [World -> 0..255]
    /\ master \in [World -> 0..255]
    /\ origin \in Origins
    /\ touched \subseteq Window(origin)
    /\ phase \in {"new", "costs", "idle"}

\* No ghost of a person who moved, left or went stale stays in the costmap, and
\* nobody's cost is missing: between updates every cell of the window, also
\* those the last update did not touch, holds what a full recomputation from
\* the people of that update would write ("so stale cost is cleared as people
\* move", social_layer.hpp).
NoGhostCost ==
    phase = "idle" =>
        \A c \in Window(origin) :
            master[c] = Layered(people_, origin, c, obstacle[c])

\* People and zones never close a gap and never open a wall: between updates a
\* cell is impassable exactly when the obstacles make it so ("a physically-
\* passable gap never becomes impassable", social_layer.hpp; "keep sensed
\* hazards hard", restricted_zone_layer.cpp).
HardCellsAreSensed ==
    phase = "idle" =>
        \A c \in Window(origin) : master[c] \in Hard <=> obstacle[c] \in Hard

\* A feed that dies does not leave its people in the planner's way: once the
\* last message stays old, the updates remove what was stamped for it.
DeadFeedClearsCost ==
    <>[](now - latest_.stamp > human_timeout)
    => <>[](phase = "idle" =>
              \A c \in Window(origin) :
                  master[c] = Layered({}, origin, c, obstacle[c]))
=============================================================================
