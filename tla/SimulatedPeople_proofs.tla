------------------------ MODULE SimulatedPeople_proofs ------------------------
(***************************************************************************)
(* Proofs about SimulatedPeople, for every configuration of the managers,  *)
(* every set of points a sampler may draw and every order in which Gazebo  *)
(* carries requests out: types, bodies that never go back, everybody       *)
(* planned, people who start apart, and people who do not jump.            *)
(***************************************************************************)
EXTENDS SimulatedPeople, SequenceTheorems, FiniteSetTheorems, WellFoundedInduction, TLAPS

-----------------------------------------------------------------------------
(***************************************************************************)
(* Sequences and numbers                                                   *)
(***************************************************************************)

\* A plan is a sequence, of whatever it holds.
IsSequence(s) == s \in Seq({s[i] : i \in DOMAIN s})

\* A function on 1..n is a sequence of length n.
LEMMA SequenceOf ==
    ASSUME NEW n \in Nat, NEW f, f = [i \in 1..n |-> f[i]]
    PROVE  IsSequence(f) /\ DOMAIN f = 1..n /\ Len(f) = n
<1>. DEFINE S == {f[i] : i \in DOMAIN f}
<1>1. DOMAIN f = 1..n
  OBVIOUS
<1>2. f \in [1..n -> S]
  BY <1>1
<1>3. f \in Seq(S)
  BY <1>2, SeqDef
<1>. HIDE DEF S
<1>4. Len(f) \in Nat /\ DOMAIN f = 1..Len(f)
  BY <1>3, LenProperties
<1>5. Len(f) = n
  BY <1>1, <1>4
<1>. QED
  BY <1>1, <1>3, <1>5 DEF IsSequence, S

\* So is one element.
LEMMA OneIsSequence ==
    ASSUME NEW e
    PROVE  IsSequence(<<e>>) /\ DOMAIN <<e>> = 1..1 /\ Len(<<e>>) = 1
BY DEF IsSequence

\* And two sequences, one after the other
LEMMA Appended ==
    ASSUME NEW s, NEW more, IsSequence(s), IsSequence(more)
    PROVE  /\ Len(s) \in Nat /\ Len(more) \in Nat /\ DOMAIN s = 1..Len(s)
           /\ IsSequence(s \o more)
           /\ Len(s \o more) = Len(s) + Len(more)
           /\ \A i \in 1..(Len(s) + Len(more)) :
                 (s \o more)[i] = IF i <= Len(s) THEN s[i] ELSE more[i - Len(s)]
<1>. DEFINE S == {s[i] : i \in DOMAIN s}
            T == {more[i] : i \in DOMAIN more}
<1>1. s \in Seq(S) /\ more \in Seq(T)
  BY DEF IsSequence
<1>. HIDE DEF S, T
<1>2. s \in Seq(S \union T) /\ more \in Seq(S \union T)
  BY <1>1, SeqMonotonic
<1>3. Len(s) \in Nat /\ Len(more) \in Nat /\ DOMAIN s = 1..Len(s)
  BY <1>2, LenProperties
<1>4. /\ s \o more \in Seq(S \union T)
      /\ Len(s \o more) = Len(s) + Len(more)
      /\ \A i \in 1..(Len(s) + Len(more)) :
            (s \o more)[i] = IF i <= Len(s) THEN s[i] ELSE more[i - Len(s)]
  BY <1>2, ConcatProperties
<1>5. s \o more = [i \in 1..(Len(s) + Len(more)) |-> (s \o more)[i]]
  BY <1>3, <1>4, LenProperties
<1>6. Len(s) + Len(more) \in Nat
  BY <1>3
<1>7. IsSequence(s \o more)
  BY <1>5, <1>6, SequenceOf
<1>. QED
  BY <1>3, <1>4, <1>7

\* Max and Min of two numbers
LEMMA MaxOfTwo ==
    ASSUME NEW a \in Int, NEW b \in Int
    PROVE  /\ Max({a, b}) \in {a, b} /\ Max({a, b}) >= a /\ Max({a, b}) >= b
           /\ Min({a, b}) \in {a, b} /\ Min({a, b}) <= a /\ Min({a, b}) <= b
<1>1. \E x \in {a, b} : \A y \in {a, b} : x >= y
  OBVIOUS
<1>2. \E x \in {a, b} : \A y \in {a, b} : x <= y
  OBVIOUS
<1>3. Max({a, b}) \in {a, b} /\ \A y \in {a, b} : Max({a, b}) >= y
  BY <1>1 DEF Max
<1>4. Min({a, b}) \in {a, b} /\ \A y \in {a, b} : Min({a, b}) <= y
  BY <1>2 DEF Min
<1>. QED
  BY <1>3, <1>4

-----------------------------------------------------------------------------
(***************************************************************************)
(* Groups                                                                  *)
(***************************************************************************)

\* The size of a full group, as _group_sizes clamps it
FullSize(size) == Max({2, Min({5, size})})

\* Every group but the last is full, nobody walks alone in a crowd, and the sizes add
\* up to the number of people asked for.
LEMMA GroupSizesAddUp ==
    ASSUME NEW n \in Nat, NEW size \in Int
    PROVE  /\ FullSize(size) \in 2..5
           /\ Len(GroupSizes(n, size)) \in Nat
           /\ \A g \in 1..Len(GroupSizes(n, size)) : GroupSizes(n, size)[g] \in Nat \ {0}
           /\ \A g \in 1..(Len(GroupSizes(n, size)) - 1) :
                  GroupSizes(n, size)[g] = FullSize(size)
           /\ Len(GroupSizes(n, size)) = 0 => n = 0
           /\ Len(GroupSizes(n, size)) > 0 =>
                  (Len(GroupSizes(n, size)) - 1) * FullSize(size)
                      + GroupSizes(n, size)[Len(GroupSizes(n, size))] = n
<1>. DEFINE s    == FullSize(size)
            full == n \div s
            rest == n % s
            lone == rest = 1 /\ full >= 1
            count == full + IF rest > 0 /\ ~ lone THEN 1 ELSE 0
            sizes == GroupSizes(n, size)
<1>1. s \in 2..5
  <2>. DEFINE m == Min({5, size})
  <2>1. m \in {5, size} /\ m <= 5
    <3>1. 5 \in Int
      OBVIOUS
    <3>. QED
      BY <3>1, MaxOfTwo, Zenon
  <2>. HIDE DEF m
  <2>2. Max({2, m}) \in {2, m} /\ Max({2, m}) >= 2
    <3>1. 2 \in Int /\ m \in Int
      BY <2>1
    <3>. QED
      BY <3>1, MaxOfTwo, Zenon
  <2>3. s = Max({2, m})
    BY DEF FullSize, m
  <2>. HIDE DEF s
  <2>. QED
    BY <2>1, <2>2, <2>3
<1>2. full \in Nat /\ rest \in 0..(s - 1) /\ n = s * full + rest
  <2>1. s = 2 \/ s = 3 \/ s = 4 \/ s = 5
    BY <1>1
  <2>. HIDE DEF s
  <2>. QED
    BY <2>1
<1>3. sizes = [g \in 1..count |->
                  IF g > full THEN rest ELSE IF g = full /\ lone THEN s + 1 ELSE s]
  BY DEF GroupSizes, FullSize
<1>. HIDE DEF s, full, rest
<1>4. count \in Nat /\ (lone <=> rest = 1 /\ full >= 1) /\ lone \in BOOLEAN
      /\ count = (full + IF rest > 0 /\ ~ lone THEN 1 ELSE 0)
  BY <1>2
<1>. HIDE DEF lone, count, sizes
<1>5. Len(sizes) = count
  <2>1. sizes = [g \in 1..count |-> sizes[g]]
    BY <1>3
  <2>. QED
    BY <1>4, <2>1, SequenceOf
<1>6. \A g \in 1..count :
          sizes[g] = IF g > full THEN rest ELSE IF g = full /\ lone THEN s + 1 ELSE s
  BY <1>3
<1>7. \A g \in 1..count : sizes[g] \in Nat \ {0}
  BY <1>1, <1>2, <1>4, <1>6
<1>8. \A g \in 1..(count - 1) : sizes[g] = s
  BY <1>1, <1>2, <1>4, <1>6
<1>9. /\ count = 0 => n = 0
      /\ count > 0 => (count - 1) * s + sizes[count] = n
  <2>1. count = 0 => n = 0
    BY <1>1, <1>2, <1>4
  <2>2. \A k \in Nat : (k - 1) * s + s + 1 = s * k + 1 /\ (k - 1) * s + s = s * k
                         /\ (k + 1 - 1) * s = s * k
    <3>1. s = 2 \/ s = 3 \/ s = 4 \/ s = 5
      BY <1>1
    <3>. QED
      BY <3>1
  <2>3. ASSUME count > 0 PROVE (count - 1) * s + sizes[count] = n
    <3>1. CASE lone
      BY <1>1, <1>2, <1>4, <1>6, <2>2, <2>3, <3>1
    <3>2. CASE ~ lone /\ rest > 0
      BY <1>1, <1>2, <1>4, <1>6, <2>2, <2>3, <3>2
    <3>3. CASE ~ lone /\ rest = 0
      BY <1>1, <1>2, <1>4, <1>6, <2>2, <2>3, <3>3
    <3>. QED
      BY <1>2, <1>4, <3>1, <3>2, <3>3
  <2>. QED
    BY <2>1, <2>3
<1>. QED
  BY <1>1, <1>4, <1>5, <1>7, <1>8, <1>9 DEF s, sizes

-----------------------------------------------------------------------------
(***************************************************************************)
(* The plan                                                                *)
(***************************************************************************)

Grouped == manager.kind = "pedestrian" /\ manager.cfg.profile = "group"
Sizes   == GroupSizes(manager.cfg.num_humans, manager.cfg.group_size)

\* The numbers from 0 on below g are g.
LEMMA UpTo == ASSUME NEW g \in Nat PROVE Cardinality(0..(g - 1)) = g
<1>1. 0 \in Int /\ g - 1 \in Int
  OBVIOUS
<1>2. Cardinality(0..(g - 1)) = IF 0 > g - 1 THEN 0 ELSE (g - 1) - 0 + 1
  BY <1>1, FS_Interval, Zenon
<1>. QED
  BY <1>2

\* Groups are planned one after the other, numbered from 0, each of its size.
GroupsAre(g, people) ==
    /\ {people[i].group : i \in DOMAIN people} = 0..(g - 1)
    /\ Len(people) = IF g = Len(Sizes) THEN manager.cfg.num_humans
                     ELSE g * FullSize(manager.cfg.group_size)

GroupsInOrder == Grouped => \E g \in 0..Len(Sizes) : GroupsAre(g, plan)

\* One round of the loop over the groups places one group of the size that is next.
LEMMA NextGroupPlaced ==
    ASSUME manager \in Managers, Grouped, IsSequence(plan), GroupsInOrder,
           ~ PlanComplete, NEW more \in NextAgents
    PROVE  /\ IsSequence(more)
           /\ \E g \in 0..Len(Sizes) : GroupsAre(g, plan \o more)
<1>. DEFINE n == manager.cfg.num_humans
            full == FullSize(manager.cfg.group_size)
            count == Len(Sizes)
<1>1. n \in Nat /\ manager.cfg.group_size \in Int
  BY ConfigAssumption DEF Grouped
<1>2. /\ full \in 2..5 /\ count \in Nat
      /\ \A g \in 1..count : Sizes[g] \in Nat \ {0}
      /\ \A g \in 1..(count - 1) : Sizes[g] = full
      /\ count > 0 => (count - 1) * full + Sizes[count] = n
  BY <1>1, GroupSizesAddUp DEF Sizes
<1>3. PICK g \in 0..count : GroupsAre(g, plan)
  BY DEF GroupsInOrder
<1>4. GroupsPlanned(plan) = g
  <2>0. g \in Nat
    BY <1>2, <1>3
  <2>1. Cardinality(0..(g - 1)) = g
    BY <2>0, UpTo
  <2>. QED
    BY <1>3, <2>1 DEF GroupsPlanned, GroupsAre
<1>5. g < count
  <2>1. PlanComplete <=> g = count
    BY <1>4 DEF PlanComplete, PedestriansPlanned, Grouped, Sizes
  <2>. QED
    BY <1>2, <1>3, <2>1
<1>6. PICK centre : more = [j \in 1..Sizes[g + 1] |->
                              Member(manager.cfg, g, WalkRoute(manager.cfg, centre), j - 1)]
  <2>1. NextAgents = NextGroup(manager.cfg, plan)
    BY DEF NextAgents, NextPeople, Grouped
  <2>. QED
    BY <1>4, <2>1 DEF NextGroup, Sizes
<1>. DEFINE k == Sizes[g + 1]
<1>7. k \in Nat \ {0} /\ (g + 1 < count => k = full) /\ (g + 1 = count => g * full + k = n)
  BY <1>2, <1>3, <1>5
<1>8. /\ IsSequence(more) /\ DOMAIN more = 1..k /\ Len(more) = k
      /\ \A j \in 1..k : more[j].group = g
  <2>1. more = [j \in 1..k |-> more[j]]
    BY <1>6
  <2>2. IsSequence(more) /\ DOMAIN more = 1..k /\ Len(more) = k
    BY <1>7, <2>1, SequenceOf
  <2>3. \A j \in 1..k : more[j].group = g
    BY <1>6 DEF Member, Pedestrian
  <2>. QED
    BY <2>2, <2>3
<1>. HIDE DEF n, full, count, k
<1>9. /\ Len(plan) \in Nat /\ DOMAIN plan = 1..Len(plan)
      /\ IsSequence(plan \o more) /\ Len(plan \o more) = Len(plan) + k
      /\ \A i \in 1..(Len(plan) + k) :
            (plan \o more)[i] = IF i <= Len(plan) THEN plan[i] ELSE more[i - Len(plan)]
  BY <1>8, Appended
<1>10. DOMAIN (plan \o more) = 1..(Len(plan) + k)
  BY <1>9, LenProperties DEF IsSequence
<1>11. {(plan \o more)[i].group : i \in DOMAIN (plan \o more)} = 0..((g + 1) - 1)
  <2>. DEFINE all == plan \o more
  <2>0. {plan[i].group : i \in DOMAIN plan} = 0..(g - 1)
    BY <1>3 DEF GroupsAre
  <2>1. ASSUME NEW i \in DOMAIN all PROVE all[i].group \in 0..((g + 1) - 1)
    <3>1. CASE i <= Len(plan)
      <4>1. i \in DOMAIN plan /\ all[i] = plan[i]
        BY <1>7, <1>9, <1>10, <3>1
      <4>2. all[i].group \in 0..(g - 1)
        BY <2>0, <4>1
      <4>. QED
        BY <1>3, <4>2
    <3>2. CASE i > Len(plan)
      <4>1. all[i] = more[i - Len(plan)] /\ i - Len(plan) \in 1..k
        BY <1>7, <1>9, <1>10, <2>1, <3>2
      <4>. QED
        BY <1>3, <1>8, <4>1
    <3>3. i \in 1..(Len(plan) + k)
      BY <1>10
    <3>4. i \in Int /\ Len(plan) \in Int
      BY <1>7, <1>9, <3>3
    <3>. QED
      BY <3>1, <3>2, <3>4
  <2>2. ASSUME NEW h \in 0..((g + 1) - 1) PROVE \E i \in DOMAIN all : all[i].group = h
    <3>1. CASE h < g
      <4>1. h \in 0..(g - 1)
        BY <1>3, <3>1
      <4>2. PICK i \in DOMAIN plan : plan[i].group = h
        BY <2>0, <4>1
      <4>3. i \in DOMAIN all /\ all[i] = plan[i]
        BY <1>7, <1>9, <1>10
      <4>. QED
        BY <4>2, <4>3
    <3>2. CASE h = g
      <4>1. Len(plan) + 1 \in DOMAIN all /\ all[Len(plan) + 1] = more[1] /\ 1 \in 1..k
        BY <1>7, <1>9, <1>10
      <4>. QED
        BY <1>8, <3>2, <4>1
    <3>. QED
      BY <1>3, <2>2, <3>1, <3>2
  <2>. HIDE DEF all
  <2>. QED
    BY <2>1, <2>2 DEF all
<1>12. GroupsAre(g + 1, plan \o more)
  <2>1. Len(plan) = g * full
    BY <1>3, <1>5 DEF GroupsAre, full, count
  <2>2. Len(plan) + k = IF g + 1 = count THEN n ELSE (g + 1) * full
    <3>1. CASE g + 1 = count
      BY <1>7, <2>1, <3>1
    <3>2. CASE g + 1 < count
      <4>1. full = 2 \/ full = 3 \/ full = 4 \/ full = 5
        BY <1>2
      <4>. QED
        BY <1>3, <1>7, <2>1, <3>2, <4>1
    <3>. QED
      BY <1>2, <1>3, <1>5, <3>1, <3>2
  <2>. QED
    BY <1>9, <1>11, <2>2 DEF GroupsAre, n, full, count
<1>13. g + 1 \in 0..count
  BY <1>2, <1>3, <1>5
<1>. QED
  BY <1>8, <1>12, <1>13 DEF count

\* Whatever the manager, what a round adds is a sequence.
LEMMA NextAgentsType ==
    ASSUME manager \in Managers, IsSequence(plan), GroupsInOrder, ~ PlanComplete,
           NEW more \in NextAgents
    PROVE  IsSequence(more)
<1>. DEFINE cfg == manager.cfg
<1>1. manager.kind \in Kinds
  BY ManagerAssumption
<1>2. CASE manager.kind = "pedestrian"
  <2>1. NextAgents = NextPeople(cfg, plan)
    BY <1>2 DEF NextAgents
  <2>2. CASE cfg.profile = "group"
    BY <1>2, <2>2, NextGroupPlaced DEF Grouped
  <2>3. CASE cfg.profile = "merge"
    <3>1. more = Merge(cfg)
      BY <2>1, <2>3 DEF NextPeople
    <3>. DEFINE n == 2 * Max({2, cfg.num_humans \div 2})
    <3>2. n \in Nat
      <4>1. cfg.num_humans \div 2 \in Int /\ 2 \in Int
        BY <1>2, ConfigAssumption
      <4>2. /\ Max({2, cfg.num_humans \div 2}) \in {2, cfg.num_humans \div 2}
            /\ Max({2, cfg.num_humans \div 2}) >= 2
        BY <4>1, MaxOfTwo, Zenon
      <4>. QED
        BY <4>1, <4>2
    <3>3. more = [k \in 1..n |-> more[k]]
      BY <3>1 DEF Merge
    <3>. QED
      BY <3>2, <3>3, SequenceOf
  <2>4. CASE cfg.profile \notin {"group", "merge"}
    <3>1. \E ped : more = <<ped>>
      BY <2>1, <2>4 DEF NextPeople
    <3>. QED
      BY <3>1, OneIsSequence
  <2>. QED
    BY <2>2, <2>3, <2>4
<1>3. CASE manager.kind = "worker"
  <2>1. \E w : more = <<w>>
    BY <1>3 DEF NextAgents, NextWorkers
  <2>. QED
    BY <2>1, OneIsSequence
<1>4. CASE manager.kind = "amr"
  <2>1. more = RobotAgents(cfg.num_agents, cfg.speed)
    BY <1>4 DEF NextAgents
  <2>2. Max({0, cfg.num_agents}) \in Nat
    <3>1. 0 \in Int /\ cfg.num_agents \in Int
      BY <1>4, ConfigAssumption
    <3>2. /\ Max({0, cfg.num_agents}) \in {0, cfg.num_agents}
          /\ Max({0, cfg.num_agents}) >= 0
      BY <3>1, MaxOfTwo, Zenon
    <3>. QED
      BY <3>1, <3>2
  <2>3. more = [i \in 1..Max({0, cfg.num_agents}) |-> more[i]]
    <3>. DEFINE y(i)  == << 0, -100, 100 >>[((i - 1) % 3) + 1]
                way(i) == IF i % 2 = 1 THEN << <<300, y(i)>>, <<1100, y(i)>> >>
                                       ELSE << <<1100, y(i)>>, <<300, y(i)>> >>
                of(i)  == Pedestrian("amr", way(i), cfg.speed, -1)
    <3>1. more = [i \in 1..Max({0, cfg.num_agents}) |-> of(i)]
      BY <2>1, Zenon DEF RobotAgents
    <3>. HIDE DEF of
    <3>. QED
      BY <3>1
  <2>. QED
    BY <2>2, <2>3, SequenceOf
<1>. QED
  BY <1>1, <1>2, <1>3, <1>4 DEF Kinds

-----------------------------------------------------------------------------
(***************************************************************************)
(* Types                                                                   *)
(***************************************************************************)

Planning == phase \in {"plan", "failed"}

\* While the plan is made, and after it failed, there is neither a body nor a request.
NothingYet ==
    /\ next = 1 /\ clock = 0 /\ t0 = 0 /\ t = 0
    /\ spawned = {} /\ spawning = {} /\ moves = {} /\ stuck = {}
    /\ answer = <<>> /\ bodies = <<>>

\* The type invariant with what it rests on: the plan is a sequence and changes only
\* before there are bodies; the agent that is waited for exists; the elapsed time is not
\* ahead of the clock.
PeopleTypes ==
    /\ TypeOK
    /\ IsSequence(plan) /\ GroupsInOrder
    /\ Planning => NothingYet
    /\ ~ Planning => DOMAIN bodies = Agents
    /\ phase = "spin_until" => next \in Agents
    /\ t0 <= clock /\ (t0 = 0 => t = 0) /\ t <= clock - t0

\* Times are numbers, and with a time every earlier one is a time.
LEMMA TimesType ==
    ASSUME manager \in Managers
    PROVE  /\ \A c \in Times : c \in Nat /\ 0..c \subseteq Times
           /\ 0 \in Times /\ Instants[manager.kind] \subseteq Times
<1>1. Instants[manager.kind] \subseteq Nat \ {0}
  BY ManagerAssumption
<1>2. \A now \in Instants[manager.kind] : now \in 0..now /\ 0..now \subseteq Times
  BY <1>1 DEF Times
<1>3. \A c \in Times : c = 0 \/ \E now \in Instants[manager.kind] : c \in 0..now
  BY DEF Times
<1>4. 0 \in Times
  BY DEF Times
<1>5. ASSUME NEW c \in Times PROVE c \in Nat /\ 0..c \subseteq Times
  <2>1. CASE c = 0
    BY <1>4, <2>1
  <2>2. CASE c # 0
    <3>1. PICK now \in Instants[manager.kind] : c \in 0..now
      BY <1>3, <2>2
    <3>2. c \in Nat /\ 0..c \subseteq 0..now
      BY <1>1, <3>1
    <3>. QED
      BY <1>2, <3>1, <3>2
  <2>. QED
    BY <2>1, <2>2
<1>. QED
  BY <1>2, <1>4, <1>5

\* The plan grows and nothing else.
LEMMA PlanMoreTypes ==
    ASSUME PeopleTypes, PlanMore
    PROVE  PeopleTypes'
<1>1. PICK more \in NextAgents : plan' = plan \o more
  BY DEF PlanMore
<1>2. /\ phase = "plan" /\ ~ PlanComplete /\ manager' = manager /\ phase' = phase
      /\ next' = next /\ spawned' = spawned /\ clock' = clock /\ t0' = t0 /\ t' = t
      /\ set_ready' = set_ready /\ spawning' = spawning /\ answer' = answer
      /\ bodies' = bodies /\ moves' = moves /\ stuck' = stuck
  BY DEF PlanMore, mainVars, tickVars, gazeboVars
<1>3. manager \in Managers /\ IsSequence(plan) /\ GroupsInOrder /\ NothingYet
  BY <1>2 DEF PeopleTypes, TypeOK, Planning
<1>4. IsSequence(more)
  BY <1>2, <1>3, NextAgentsType
<1>5. IsSequence(plan') /\ Len(plan') \in Nat
  <2>1. IsSequence(plan \o more) /\ Len(plan \o more) \in Nat
    BY <1>3, <1>4, Appended
  <2>. QED
    BY <1>1, <2>1
<1>6. GroupsInOrder'
  <2>1. Grouped' = Grouped /\ Sizes' = Sizes
    BY <1>2 DEF Grouped, Sizes
  <2>2. ASSUME Grouped PROVE \E g \in 0..Len(Sizes) : GroupsAre(g, plan \o more)
    BY <1>2, <1>3, <2>2, NextGroupPlaced
  <2>3. \A g : GroupsAre(g, plan)' <=> GroupsAre(g, plan \o more)
    BY <1>1, <1>2, <2>1 DEF GroupsAre
  <2>. QED
    BY <2>1, <2>2, <2>3 DEF GroupsInOrder
<1>7. Times' = Times
  BY <1>2 DEF Times
<1>8. TypeOK'
  BY <1>2, <1>3, <1>5, <1>7 DEF PeopleTypes, TypeOK, NothingYet, Agents
<1>. QED
  BY <1>2, <1>3, <1>5, <1>6, <1>8 DEF PeopleTypes, Planning, NothingYet

\* What is about the plan alone stays when the plan does.
LEMMA PlanStays ==
    ASSUME PeopleTypes, manager' = manager, plan' = plan
    PROVE  /\ IsSequence(plan)' /\ GroupsInOrder' /\ Times' = Times /\ Agents' = Agents
           /\ Agents = 1..Len(plan) /\ Len(plan) \in Nat /\ manager \in Managers
<1>1. IsSequence(plan)' /\ Agents' = Agents /\ Times' = Times /\ manager \in Managers
  BY DEF PeopleTypes, TypeOK, IsSequence, Agents, Times
<1>2. Grouped' = Grouped /\ Sizes' = Sizes /\ \A g : GroupsAre(g, plan)' = GroupsAre(g, plan)
  BY DEF Grouped, Sizes, GroupsAre
<1>3. GroupsInOrder'
  BY <1>2 DEF PeopleTypes, GroupsInOrder
<1>4. Agents = 1..Len(plan) /\ Len(plan) \in Nat
  BY LenProperties DEF PeopleTypes, IsSequence, Agents
<1>. QED
  BY <1>1, <1>3, <1>4

\* The steps of the main program once the plan is complete
LEMMA MainTypes ==
    ASSUME PeopleTypes,
           \/ PlanRaises \/ Initialised
           \/ SpawnServiceFound \/ SpawnServiceMissing
           \/ CallSpawn \/ SpawnReturns \/ SpawnLoopEnds
    PROVE  PeopleTypes'
<1>1. /\ manager' = manager /\ plan' = plan /\ clock' = clock /\ t0' = t0 /\ t' = t
      /\ set_ready' = set_ready /\ moves' = moves /\ stuck' = stuck
  BY DEF PlanRaises, Initialised, SpawnServiceFound, SpawnServiceMissing, CallSpawn,
         SpawnReturns, SpawnLoopEnds, planVars, mainVars, tickVars, gazeboVars
<1>2. /\ IsSequence(plan)' /\ GroupsInOrder' /\ Times' = Times /\ Agents' = Agents
      /\ Agents = 1..Len(plan) /\ Len(plan) \in Nat /\ manager \in Managers
  BY <1>1, PlanStays
<1>. USE DEF Planning, NothingYet, PeopleTypes, TypeOK
<1>3. CASE PlanRaises
  BY <1>1, <1>2, <1>3 DEF PlanRaises, gazeboVars
<1>4. CASE Initialised
  <2>1. /\ DOMAIN bodies' = Agents /\ DOMAIN answer' = Agents
        /\ \A i \in Agents : bodies'[i] = NoBody /\ answer'[i] = "none"
        /\ phase = "plan" /\ phase' = "wait_for_service" /\ next' = next
        /\ spawned' = spawned /\ spawning' = spawning
    BY <1>4 DEF Initialised, mainVars
  <2>2. TypeOK'
    BY <1>1, <1>2, <2>1
  <2>. QED
    BY <1>1, <1>2, <2>1, <2>2
<1>5. CASE SpawnServiceFound \/ SpawnServiceMissing \/ SpawnLoopEnds
  BY <1>1, <1>2, <1>5 DEF SpawnServiceFound, SpawnServiceMissing, SpawnLoopEnds, gazeboVars
<1>6. CASE CallSpawn
  <2>1. /\ phase = "spawn" /\ phase' = "spin_until" /\ next' = next /\ next <= Len(plan)
        /\ spawned' = spawned /\ spawning' = spawning \union {next}
        /\ answer' = answer /\ bodies' = bodies
    BY <1>6 DEF CallSpawn, MoreToSpawn
  <2>2. next \in Agents
    BY <1>2, <2>1
  <2>3. TypeOK'
    BY <1>1, <1>2, <2>1, <2>2
  <2>. QED
    BY <1>1, <1>2, <2>1, <2>2, <2>3
<1>7. CASE SpawnReturns
  <2>1. /\ phase = "spin_until" /\ phase' = "spawn" /\ next' = next + 1
        /\ spawned' \in {spawned, spawned \union {next}}
        /\ spawning' = spawning /\ answer' = answer /\ bodies' = bodies
    BY <1>7 DEF SpawnReturns, gazeboVars
  <2>. QED
    BY <1>1, <1>2, <2>1
<1>. QED
  BY <1>3, <1>4, <1>5, <1>6, <1>7

\* The timer publishes the people of the time that has passed.
LEMMA TickTypes ==
    ASSUME PeopleTypes, Tick
    PROVE  PeopleTypes' /\ Elapsed \in Times /\ t <= Elapsed
<1>1. /\ manager' = manager /\ plan' = plan /\ clock' = clock /\ phase' = phase
      /\ next' = next /\ spawned' = spawned /\ set_ready' = set_ready
      /\ spawning' = spawning /\ answer' = answer /\ bodies' = bodies /\ stuck' = stuck
      /\ ~ Planning /\ clock > 0
      /\ t0' = (IF t0 = 0 THEN clock ELSE t0) /\ t' = Elapsed
      /\ moves' = moves \union {[agent |-> i, at |-> Elapsed] : i \in Movable}
  BY DEF Tick, Planning, planVars, mainVars
<1>2. /\ IsSequence(plan)' /\ GroupsInOrder' /\ Times' = Times /\ Agents' = Agents
      /\ Agents = 1..Len(plan) /\ Len(plan) \in Nat /\ manager \in Managers
  BY <1>1, PlanStays
<1>3. /\ clock \in Nat /\ t0 \in Nat /\ t \in Nat /\ 0..clock \subseteq Times
      /\ t0 <= clock /\ (t0 = 0 => t = 0) /\ t <= clock - t0
  BY <1>2, TimesType DEF PeopleTypes, TypeOK
<1>4. /\ Elapsed \in 0..clock /\ t <= Elapsed /\ t0' \in 0..clock /\ t0' # 0
      /\ Elapsed <= clock - t0'
  BY <1>1, <1>3 DEF Elapsed
<1>. HIDE DEF Elapsed
<1>5. Elapsed \in Times /\ t0' \in Times
  BY <1>3, <1>4
<1>6. moves' \subseteq [agent : Agents, at : Times]
  BY <1>1, <1>5 DEF PeopleTypes, TypeOK, Movable
<1>7. TypeOK'
  BY <1>1, <1>2, <1>5, <1>6 DEF PeopleTypes, TypeOK
<1>. QED
  BY <1>1, <1>2, <1>4, <1>5, <1>7 DEF PeopleTypes, Planning

\* The clock advances; services appear; Gazebo carries requests out or loses one.
LEMMA GazeboTypes ==
    ASSUME PeopleTypes,
           \/ Clock \/ SetServiceUp
           \/ \E i \in spawning : GazeboSpawns(i)
           \/ \E m \in moves : GazeboMoves(m) \/ MoveLost(m)
    PROVE  PeopleTypes'
<1>1. /\ manager' = manager /\ plan' = plan /\ phase' = phase /\ next' = next
      /\ spawned' = spawned /\ t0' = t0 /\ t' = t
  BY DEF Clock, SetServiceUp, GazeboSpawns, GazeboMoves, MoveLost, planVars, mainVars,
         tickVars
<1>2. /\ IsSequence(plan)' /\ GroupsInOrder' /\ Times' = Times /\ Agents' = Agents
      /\ Agents = 1..Len(plan) /\ Len(plan) \in Nat /\ manager \in Managers
  BY <1>1, PlanStays
<1>3. /\ clock \in Nat /\ t0 \in Nat /\ t \in Nat /\ 0..clock \subseteq Times /\ 0 \in Times
      /\ t0 <= clock /\ (t0 = 0 => t = 0) /\ t <= clock - t0
  BY <1>2, TimesType DEF PeopleTypes, TypeOK
<1>4. ~ Planning
  <2>1. NothingYet => spawning = {} /\ moves = {}
    BY DEF NothingYet
  <2>2. Planning => ~ Clock /\ ~ SetServiceUp
    BY DEF Planning, Clock, SetServiceUp
  <2>. QED
    BY <2>1, <2>2 DEF PeopleTypes
<1>5. DOMAIN bodies = Agents /\ DOMAIN answer = Agents
  BY <1>4 DEF PeopleTypes, TypeOK
<1>6. CASE Clock
  <2>1. /\ clock' \in Instants[manager.kind] /\ clock' > clock /\ set_ready' = set_ready
        /\ spawning' = spawning /\ answer' = answer /\ bodies' = bodies
        /\ moves' = moves /\ stuck' = stuck
    BY <1>6 DEF Clock, gazeboVars
  <2>2. clock' \in Times /\ clock' \in Nat
    BY <1>2, <2>1, TimesType
  <2>3. TypeOK'
    BY <1>1, <1>2, <2>1, <2>2 DEF PeopleTypes, TypeOK
  <2>4. t0' <= clock' /\ t' <= clock' - t0'
    <3>1. \A c \in Nat : c > clock => t0 <= c /\ t <= c - t0
      BY <1>3
    <3>. QED
      BY <1>1, <2>1, <2>2, <3>1, Zenon
  <2>. QED
    BY <1>1, <1>2, <1>4, <2>1, <2>3, <2>4 DEF PeopleTypes, Planning
<1>7. CASE SetServiceUp
  <2>1. /\ clock' = clock /\ set_ready' = TRUE
        /\ spawning' = spawning /\ answer' = answer /\ bodies' = bodies
        /\ moves' = moves /\ stuck' = stuck
    BY <1>7 DEF SetServiceUp, gazeboVars
  <2>2. TypeOK'
    BY <1>1, <1>2, <2>1 DEF PeopleTypes, TypeOK
  <2>. QED
    BY <1>1, <1>2, <1>4, <2>1, <2>2 DEF PeopleTypes, Planning
<1>8. ASSUME NEW i \in spawning, GazeboSpawns(i)
      PROVE  PeopleTypes'
  <2>1. /\ clock' = clock /\ set_ready' = set_ready /\ moves' = moves /\ stuck' = stuck
        /\ spawning' = spawning \ {i} /\ i \in Agents
    BY <1>8 DEF GazeboSpawns, PeopleTypes, TypeOK
  <2>2. /\ DOMAIN bodies' = Agents /\ DOMAIN answer' = Agents
        /\ \A j \in Agents : bodies'[j] \in {0, bodies[j]}
        /\ \A j \in Agents : answer'[j] \in {"success", "refused", answer[j]}
    BY <1>5, <1>8 DEF GazeboSpawns
  <2>3. TypeOK'
    BY <1>1, <1>2, <1>3, <1>5, <2>1, <2>2 DEF PeopleTypes, TypeOK
  <2>. QED
    BY <1>1, <1>2, <1>4, <2>1, <2>2, <2>3 DEF PeopleTypes, Planning
<1>9. ASSUME NEW m \in moves, GazeboMoves(m) \/ MoveLost(m)
      PROVE  PeopleTypes'
  <2>1. /\ clock' = clock /\ set_ready' = set_ready /\ moves' = moves \ {m}
        /\ spawning' = spawning /\ answer' = answer
        /\ stuck' \in {stuck, stuck \union {m.agent}}
        /\ m.agent \in Agents /\ m.at \in Times
    BY <1>9 DEF GazeboMoves, MoveLost, PeopleTypes, TypeOK
  <2>2. DOMAIN bodies' = Agents /\ \A j \in Agents : bodies'[j] \in {m.at, bodies[j]}
    BY <1>5, <1>9 DEF GazeboMoves, MoveLost
  <2>3. TypeOK'
    BY <1>1, <1>2, <1>5, <2>1, <2>2 DEF PeopleTypes, TypeOK
  <2>. QED
    BY <1>1, <1>2, <1>4, <2>1, <2>2, <2>3 DEF PeopleTypes, Planning
<1>. QED
  BY <1>6, <1>7, <1>8, <1>9

\* The types hold at the start,
LEMMA TypesInit == Init => PeopleTypes
<1>. SUFFICES ASSUME Init PROVE PeopleTypes
  OBVIOUS
<1>1. IsSequence(plan) /\ Len(plan) = 0 /\ DOMAIN plan = {} /\ manager \in Managers
  BY EmptySeq DEF Init, IsSequence
<1>2. 0 \in Times
  BY <1>1, TimesType
<1>3. GroupsInOrder
  <2>. SUFFICES ASSUME Grouped PROVE \E g \in 0..Len(Sizes) : GroupsAre(g, plan)
    BY DEF GroupsInOrder
  <2>1. /\ FullSize(manager.cfg.group_size) \in 2..5 /\ Len(Sizes) \in Nat
        /\ Len(Sizes) = 0 => manager.cfg.num_humans = 0
    BY <1>1, ConfigAssumption, GroupSizesAddUp DEF Grouped, Sizes
  <2>2. GroupsAre(0, plan)
    BY <1>1, <2>1 DEF GroupsAre
  <2>. QED
    BY <2>1, <2>2
<1>4. TypeOK
  <2>1. DOMAIN bodies = {} /\ DOMAIN answer = {} /\ next \in 1..(Len(plan) + 1)
    BY <1>1 DEF Init
  <2>. QED
    BY <1>1, <1>2, <2>1 DEF Init, TypeOK, Agents
<1>. QED
  BY <1>1, <1>3, <1>4 DEF Init, PeopleTypes, NothingYet, Planning

\* in every step,
LEMMA TypesStep == PeopleTypes /\ [Next]_vars => PeopleTypes'
<1>. SUFFICES ASSUME PeopleTypes, [Next]_vars PROVE PeopleTypes'
  OBVIOUS
<1>1. CASE UNCHANGED vars
  BY <1>1 DEF vars, PeopleTypes, TypeOK, Times, Agents, IsSequence, GroupsInOrder, Grouped,
              Sizes, GroupsAre, Planning, NothingYet
<1>. QED
  BY <1>1, PlanMoreTypes, MainTypes, TickTypes, GazeboTypes DEF Next

\* and so in every reachable state.
LEMMA TypesHold == Spec => []PeopleTypes
BY TypesInit, TypesStep, PTL DEF Spec

\* Every reachable state is of its type, for any managers, plans of any length and any
\* clock: what is asked of Gazebo, answered and moved are the agents that were planned.
THEOREM TypeCorrect == Spec => []TypeOK
<1>1. PeopleTypes => TypeOK
  BY DEF PeopleTypes
<1>. QED
  BY <1>1, TypesHold, PTL

-----------------------------------------------------------------------------
(***************************************************************************)
(* Bodies                                                                  *)
(***************************************************************************)

\* The agents whose body has been requested
Requested == IF phase = "spin_until" THEN 1..next ELSE 1..(next - 1)

\* A body is asked for once, is of no later time than the last tick, and is moved, by one
\* request at a time, to where it is or on.
BodiesInOrder ==
    /\ \A i \in DOMAIN bodies : bodies[i] # NoBody => i \in Requested /\ bodies[i] <= t
    /\ \A i \in DOMAIN answer : answer[i] = "success" => bodies[i] # NoBody
    /\ \A i \in spawned : bodies[i] # NoBody
    /\ \A i \in spawning : i \in Requested /\ bodies[i] = NoBody
    /\ \A m \in moves : bodies[m.agent] # NoBody /\ bodies[m.agent] <= m.at /\ m.at <= t
    /\ \A m, n \in moves : m.agent = n.agent => m = n

\* What the invariants say of numbers
LEMMA BodyTypes ==
    ASSUME PeopleTypes
    PROVE  /\ t \in Nat /\ next \in Nat \ {0}
           /\ \A i \in DOMAIN bodies : bodies[i] \in Nat \union {NoBody}
           /\ \A m \in moves : /\ m.agent \in Agents /\ m.at \in Nat
                               /\ m = [agent |-> m.agent, at |-> m.at]
           /\ moves # {} \/ spawning # {} \/ spawned # {} => DOMAIN bodies = Agents
           /\ spawned \subseteq Agents /\ spawning \subseteq Agents
           /\ DOMAIN answer = DOMAIN bodies
<1>1. manager \in Managers /\ Times \subseteq Nat
  BY TimesType DEF PeopleTypes, TypeOK
<1>2. Len(plan) \in Nat
  BY LenProperties DEF PeopleTypes, IsSequence
<1>3. moves # {} \/ spawning # {} \/ spawned # {} => DOMAIN bodies = Agents
  BY DEF PeopleTypes, NothingYet
<1>4. /\ t \in Times /\ next \in 1..(Len(plan) + 1) /\ moves \subseteq [agent : Agents, at : Times]
      /\ \A i \in DOMAIN bodies : bodies[i] \in Times \union {NoBody}
      /\ spawned \subseteq Agents /\ spawning \subseteq Agents
      /\ DOMAIN answer = DOMAIN bodies
  BY DEF PeopleTypes, TypeOK
<1>5. \A m \in moves : /\ m.agent \in Agents /\ m.at \in Times
                       /\ m = [agent |-> m.agent, at |-> m.at]
  BY <1>4
<1>6. t \in Nat /\ next \in Nat \ {0}
  BY <1>1, <1>2, <1>4
<1>7. \A i \in DOMAIN bodies : bodies[i] \in Nat \union {NoBody}
  BY <1>1, <1>4
<1>8. \A m \in moves : /\ m.agent \in Agents /\ m.at \in Nat
                       /\ m = [agent |-> m.agent, at |-> m.at]
  BY <1>1, <1>5
<1>. QED
  BY <1>3, <1>4, <1>6, <1>7, <1>8, Zenon

\* The loop of spawn_bodies asks for each body once, and counts those confirmed.
LEMMA MainBodies ==
    ASSUME PeopleTypes, BodiesInOrder,
           \/ PlanRaises \/ SpawnServiceFound \/ SpawnServiceMissing
           \/ CallSpawn \/ SpawnReturns \/ SpawnLoopEnds
    PROVE  BodiesInOrder'
<1>1. bodies' = bodies /\ answer' = answer /\ moves' = moves /\ t' = t
  BY DEF PlanRaises, SpawnServiceFound, SpawnServiceMissing, CallSpawn, SpawnReturns,
         SpawnLoopEnds, tickVars, gazeboVars
<1>. USE <1>1, BodyTypes DEF BodiesInOrder
<1>2. CASE PlanRaises \/ SpawnServiceFound \/ SpawnServiceMissing \/ SpawnLoopEnds
  <2>1. Requested' = Requested /\ spawning' = spawning /\ spawned' = spawned
    BY <1>2 DEF PlanRaises, SpawnServiceFound, SpawnServiceMissing, SpawnLoopEnds,
                gazeboVars, Requested
  <2>. QED
    BY <2>1
<1>3. CASE CallSpawn
  <2>1. /\ Requested = 1..(next - 1) /\ Requested' = 1..next
        /\ spawning' = spawning \union {next} /\ spawned' = spawned /\ next <= Len(plan)
        /\ ~ Planning
    BY <1>3 DEF CallSpawn, Requested, MoreToSpawn, Planning
  <2>2. next \in DOMAIN bodies
    <3>1. DOMAIN bodies = 1..Len(plan) /\ Len(plan) \in Nat
      BY <2>1, LenProperties DEF PeopleTypes, IsSequence, Agents
    <3>. QED
      BY <2>1, <3>1
  <2>3. next \notin Requested /\ next \in Requested' /\ Requested \subseteq Requested'
    BY <2>1
  <2>4. bodies[next] = NoBody
    BY <2>2, <2>3
  <2>. HIDE DEF Requested
  <2>. QED
    BY <2>1, <2>3, <2>4
<1>4. CASE SpawnReturns
  <2>1. /\ Requested = 1..next /\ Requested' = 1..((next + 1) - 1) /\ spawning' = spawning
        /\ spawned' = IF answer[next] = "success" THEN spawned \union {next} ELSE spawned
        /\ next \in Agents /\ ~ Planning
    BY <1>4 DEF SpawnReturns, Requested, gazeboVars, PeopleTypes, Planning
  <2>2. Requested' = Requested
    BY <2>1
  <2>3. answer[next] = "success" => bodies[next] # NoBody
    BY <2>1 DEF PeopleTypes, TypeOK
  <2>. HIDE DEF Requested
  <2>. QED
    BY <2>1, <2>2, <2>3
<1>. QED
  BY <1>2, <1>3, <1>4

\* While the plan is made there are no bodies; when it is complete there is none yet.
LEMMA PlanningBodies ==
    ASSUME PeopleTypes, PlanMore \/ Initialised
    PROVE  BodiesInOrder'
<1>1. /\ phase = "plan" /\ moves' = {} /\ spawning' = {} /\ spawned' = {}
      /\ next' = next /\ phase' # "spin_until"
  BY DEF PlanMore, Initialised, PeopleTypes, Planning, NothingYet, mainVars, gazeboVars
<1>2. /\ \A i \in DOMAIN bodies' : bodies'[i] = NoBody
      /\ \A i \in DOMAIN answer' : answer'[i] = "none"
  BY <1>1 DEF PlanMore, Initialised, PeopleTypes, Planning, NothingYet, gazeboVars
<1>. QED
  BY <1>1, <1>2 DEF BodiesInOrder

\* A tick moves those that are not being moved, to a time no earlier than theirs.
LEMMA TickBodies ==
    ASSUME PeopleTypes, BodiesInOrder, Tick
    PROVE  BodiesInOrder'
<1>1. /\ phase' = phase /\ next' = next /\ spawned' = spawned /\ spawning' = spawning
      /\ answer' = answer /\ bodies' = bodies /\ t' = Elapsed
      /\ moves' = moves \union {[agent |-> i, at |-> Elapsed] : i \in Movable}
  BY DEF Tick, mainVars
<1>2. t <= Elapsed /\ Elapsed \in Nat /\ manager \in Managers
  BY TickTypes, TimesType DEF PeopleTypes, TypeOK
<1>3. Requested' = Requested
  BY <1>1 DEF Requested
<1>. HIDE DEF Elapsed, Requested
<1>. USE BodyTypes
<1>4. \A i \in DOMAIN bodies : bodies[i] # NoBody => i \in Requested /\ bodies[i] <= Elapsed
  BY <1>2 DEF BodiesInOrder
<1>5. \A i \in Movable : /\ i \in Agents /\ bodies[i] # NoBody /\ bodies[i] <= Elapsed
                         /\ \A m \in moves : m.agent # i
  BY <1>4 DEF Movable, InFlight, BodiesInOrder
<1>6. \A m \in moves' : \/ m \in moves
                        \/ m.agent \in Movable /\ m.at = Elapsed
                              /\ m = [agent |-> m.agent, at |-> Elapsed]
  BY <1>1
<1>7. \A m \in moves' : bodies[m.agent] # NoBody /\ bodies[m.agent] <= m.at /\ m.at <= Elapsed
  <2>1. \A m \in moves : bodies[m.agent] # NoBody /\ bodies[m.agent] <= m.at /\ m.at <= Elapsed
    BY <1>2 DEF BodiesInOrder
  <2>. QED
    BY <1>2, <1>5, <1>6, <2>1
<1>8. \A m, n \in moves' : m.agent = n.agent => m = n
  BY <1>5, <1>6 DEF BodiesInOrder
<1>. QED
  BY <1>1, <1>3, <1>4, <1>7, <1>8 DEF BodiesInOrder

\* Gazebo puts a body that was not there at the beginning of its route, or moves it to
\* the time of its one move.
LEMMA GazeboBodies ==
    ASSUME PeopleTypes, BodiesInOrder,
           \/ Clock \/ SetServiceUp
           \/ \E i \in spawning : GazeboSpawns(i)
           \/ \E m \in moves : GazeboMoves(m) \/ MoveLost(m)
    PROVE  /\ BodiesInOrder'
           /\ \A i \in DOMAIN bodies : bodies[i] # NoBody => bodies'[i] >= bodies[i]
<1>1. phase' = phase /\ next' = next /\ spawned' = spawned /\ t' = t
  BY DEF Clock, SetServiceUp, GazeboSpawns, GazeboMoves, MoveLost, planVars, mainVars,
         tickVars
<1>2. Requested' = Requested
  BY <1>1 DEF Requested
<1>. HIDE DEF Requested
<1>. USE BodyTypes, ManagerAssumption
<1>3. CASE Clock \/ SetServiceUp
  <2>1. bodies' = bodies /\ answer' = answer /\ spawning' = spawning /\ moves' = moves
    BY <1>3 DEF Clock, SetServiceUp, gazeboVars
  <2>2. \A i \in DOMAIN bodies : bodies[i] # NoBody => bodies[i] >= bodies[i]
    OBVIOUS
  <2>. QED
    BY <1>1, <1>2, <2>1, <2>2 DEF BodiesInOrder
<1>4. ASSUME NEW i \in spawning, GazeboSpawns(i)
      PROVE  /\ BodiesInOrder'
             /\ \A j \in DOMAIN bodies : bodies[j] # NoBody => bodies'[j] >= bodies[j]
  <2>1. /\ spawning' = spawning \ {i} /\ moves' = moves
        /\ i \in DOMAIN bodies /\ i \in Requested /\ bodies[i] = NoBody
    BY <1>4 DEF GazeboSpawns, BodiesInOrder
  <2>2. CASE bodies' = [bodies EXCEPT ![i] = 0] /\ answer' = [answer EXCEPT ![i] = "success"]
    <3>1. /\ DOMAIN bodies' = DOMAIN bodies /\ DOMAIN answer' = DOMAIN answer
          /\ bodies'[i] = 0 /\ 0 # NoBody
          /\ \A j \in DOMAIN bodies : j # i => bodies'[j] = bodies[j] /\ answer'[j] = answer[j]
      BY <2>1, <2>2
    <3>2. \A m \in moves : m.agent \in DOMAIN bodies /\ m.agent # i
      BY <2>1 DEF BodiesInOrder
    <3>3. \A j \in DOMAIN bodies : bodies[j] # NoBody => bodies'[j] = bodies[j]
      BY <2>1, <3>1
    <3>4. \A j \in DOMAIN bodies' : bodies'[j] # NoBody => j \in Requested /\ bodies'[j] <= t
      BY <2>1, <3>1 DEF BodiesInOrder
    <3>5. \A j \in DOMAIN answer' : answer'[j] = "success" => bodies'[j] # NoBody
      BY <2>1, <3>1 DEF BodiesInOrder
    <3>6. \A j \in spawned : bodies'[j] # NoBody
      BY <3>3 DEF BodiesInOrder
    <3>7. \A j \in spawning' : j \in Requested /\ bodies'[j] = NoBody
      BY <2>1, <3>1 DEF BodiesInOrder
    <3>8. \A m \in moves : bodies'[m.agent] = bodies[m.agent]
      BY <3>1, <3>2
    <3>9. BodiesInOrder'
      BY <1>1, <1>2, <2>1, <3>4, <3>5, <3>6, <3>7, <3>8 DEF BodiesInOrder
    <3>. QED
      BY <3>3, <3>9
  <2>3. CASE bodies' = bodies /\ answer' = [answer EXCEPT ![i] = "refused"]
    <3>1. \A j \in DOMAIN answer' : answer'[j] = "success" => bodies'[j] # NoBody
      BY <2>3 DEF BodiesInOrder
    <3>. QED
      BY <1>1, <1>2, <2>1, <2>3, <3>1 DEF BodiesInOrder
  <2>. QED
    BY <1>4, <2>2, <2>3 DEF GazeboSpawns
<1>5. ASSUME NEW m \in moves, GazeboMoves(m)
      PROVE  /\ BodiesInOrder'
             /\ \A j \in DOMAIN bodies : bodies[j] # NoBody => bodies'[j] >= bodies[j]
  <2>1. /\ moves' = moves \ {m} /\ spawning' = spawning /\ answer' = answer
        /\ m.agent \in DOMAIN bodies /\ bodies' = [bodies EXCEPT ![m.agent] = m.at]
    BY <1>5 DEF GazeboMoves
  <2>2. /\ bodies[m.agent] # NoBody /\ bodies[m.agent] <= m.at /\ m.at <= t /\ m.at \in Nat
        /\ m.at # NoBody /\ \A n \in moves' : n \in moves /\ n.agent # m.agent
    BY <2>1 DEF BodiesInOrder
  <2>3. /\ DOMAIN bodies' = DOMAIN bodies /\ bodies'[m.agent] = m.at
        /\ \A j \in DOMAIN bodies : j # m.agent => bodies'[j] = bodies[j]
    BY <2>1
  <2>4. \A j \in DOMAIN bodies : bodies[j] # NoBody => bodies'[j] >= bodies[j]
    BY <2>2, <2>3
  <2>5. \A j \in DOMAIN bodies' : bodies'[j] # NoBody => j \in Requested /\ bodies'[j] <= t
    BY <2>1, <2>2, <2>3 DEF BodiesInOrder
  <2>6. /\ \A j \in DOMAIN answer : answer[j] = "success" => bodies'[j] # NoBody
        /\ \A j \in spawned : bodies'[j] # NoBody
        /\ \A j \in spawning : j \in Requested /\ bodies'[j] = NoBody
    BY <2>2, <2>3 DEF BodiesInOrder
  <2>7. \A n \in moves' : bodies'[n.agent] # NoBody /\ bodies'[n.agent] <= n.at /\ n.at <= t
    BY <2>2, <2>3 DEF BodiesInOrder
  <2>8. \A n, o \in moves' : n.agent = o.agent => n = o
    BY <2>1 DEF BodiesInOrder
  <2>9. BodiesInOrder'
    BY <1>1, <1>2, <2>1, <2>5, <2>6, <2>7, <2>8 DEF BodiesInOrder
  <2>. QED
    BY <2>4, <2>9
<1>6. ASSUME NEW m \in moves, MoveLost(m)
      PROVE  /\ BodiesInOrder'
             /\ \A j \in DOMAIN bodies : bodies[j] # NoBody => bodies'[j] >= bodies[j]
  <2>1. bodies' = bodies /\ answer' = answer /\ spawning' = spawning /\ moves' \subseteq moves
    BY <1>6 DEF MoveLost
  <2>. QED
    BY <1>1, <1>2, <2>1 DEF BodiesInOrder
<1>. QED
  BY <1>3, <1>4, <1>5, <1>6

\* However late Gazebo spawns and moves, and whatever answers are lost, a body that is
\* there is never put back to the pose of an earlier time.
THEOREM NeverBack == Spec => BodyNeverGoesBack
<1>. DEFINE Forward ==
        \A i \in DOMAIN bodies : bodies[i] # NoBody => bodies'[i] >= bodies[i]
<1>1. Init => BodiesInOrder
  BY DEF Init, BodiesInOrder
<1>2. PeopleTypes /\ BodiesInOrder /\ [Next]_vars => BodiesInOrder' /\ [Forward]_vars
  <2>. SUFFICES ASSUME PeopleTypes, BodiesInOrder, [Next]_vars
                PROVE  BodiesInOrder' /\ (Forward \/ UNCHANGED vars)
    OBVIOUS
  <2>1. CASE UNCHANGED vars
    BY <2>1 DEF vars, BodiesInOrder, Requested
  <2>2. ASSUME \/ PlanRaises \/ SpawnServiceFound \/ SpawnServiceMissing
               \/ CallSpawn \/ SpawnReturns \/ SpawnLoopEnds
        PROVE  BodiesInOrder' /\ bodies' = bodies
    BY <2>2, MainBodies
    DEF PlanRaises, SpawnServiceFound, SpawnServiceMissing, CallSpawn, SpawnReturns,
        SpawnLoopEnds, gazeboVars
  <2>3. ASSUME Tick PROVE BodiesInOrder' /\ bodies' = bodies
    BY <2>3, TickBodies DEF Tick
  <2>4. ASSUME bodies' = bodies PROVE Forward
    BY <2>4, BodyTypes
  <2>5. CASE PlanMore \/ Initialised
    <3>1. DOMAIN bodies = {}
      BY <2>5 DEF PlanMore, Initialised, PeopleTypes, Planning, NothingYet
    <3>. QED
      BY <2>5, <3>1, PlanningBodies
  <2>6. CASE \/ Clock \/ SetServiceUp
             \/ \E i \in spawning : GazeboSpawns(i)
             \/ \E m \in moves : GazeboMoves(m) \/ MoveLost(m)
    BY <2>6, GazeboBodies
  <2>. HIDE DEF Forward
  <2>. QED
    BY <2>1, <2>2, <2>3, <2>4, <2>5, <2>6, Zenon DEF Next
<1>. QED
  BY <1>1, <1>2, TypesHold, PTL DEF Spec, BodyNeverGoesBack

-----------------------------------------------------------------------------
(***************************************************************************)
(* Everybody is planned                                                    *)
(***************************************************************************)

\* Where two streams merge, both are planned in one round.
MergeInOneRound ==
    manager.kind = "pedestrian" /\ manager.cfg.profile = "merge" =>
        plan = <<>> \/ Len(plan) = 2 * Max({2, manager.cfg.num_humans \div 2})

\* Only a round of planning changes the plan, and that round plans everybody.
LEMMA MergeStep ==
    ASSUME PeopleTypes, MergeInOneRound, [Next]_vars
    PROVE  MergeInOneRound'
<1>1. CASE manager' = manager /\ plan' = plan
  BY <1>1 DEF MergeInOneRound
<1>2. CASE PlanMore
  <2>. SUFFICES ASSUME manager.kind = "pedestrian", manager.cfg.profile = "merge"
                PROVE  Len(plan') = 2 * Max({2, manager.cfg.num_humans \div 2})
    BY <1>2 DEF PlanMore, MergeInOneRound
  <2>. DEFINE half == Max({2, manager.cfg.num_humans \div 2})
              more == Merge(manager.cfg)
  <2>1. plan' = plan \o more /\ plan = <<>>
    BY <1>2 DEF PlanMore, PlanComplete, PedestriansPlanned, NextAgents, NextPeople
  <2>2. manager \in Managers /\ IsSequence(plan)
    BY DEF PeopleTypes, TypeOK
  <2>3. 2 * half \in Nat
    <3>1. manager.cfg.num_humans \div 2 \in Int /\ 2 \in Int
      BY <2>2, ConfigAssumption
    <3>2. half \in {2, manager.cfg.num_humans \div 2} /\ half >= 2
      BY <3>1, MaxOfTwo, Zenon
    <3>. QED
      BY <3>1, <3>2
  <2>4. more = [k \in 1..(2 * half) |-> more[k]]
    BY DEF Merge
  <2>. HIDE DEF half, more
  <2>5. IsSequence(more) /\ Len(more) = 2 * half
    BY <2>3, <2>4, SequenceOf
  <2>6. Len(plan \o more) = Len(plan) + Len(more) /\ Len(plan) = 0
    BY <2>1, <2>2, <2>5, Appended
  <2>. QED
    BY <2>1, <2>3, <2>5, <2>6 DEF half
<1>. QED
  BY <1>1, <1>2
  DEF Next, vars, planVars, PlanRaises, Initialised, SpawnServiceFound, SpawnServiceMissing,
      CallSpawn, SpawnReturns, SpawnLoopEnds, Tick, Clock, SetServiceUp, GazeboSpawns,
      GazeboMoves, MoveLost

\* A complete plan has as many people, workers and robots as the launch or its caller asks
\* for, whatever the number and the size of the groups they are split into; streams that
\* merge are equal, and two people each at least, whatever number is asked for.
THEOREM NobodyIsForgotten == Spec => []CrowdAsAsked
<1>1. Init => MergeInOneRound
  BY DEF Init, MergeInOneRound
<1>2. PeopleTypes /\ MergeInOneRound => CrowdAsAsked
  <2>. SUFFICES ASSUME PeopleTypes, MergeInOneRound, PlanComplete PROVE CrowdAsAsked
    BY DEF CrowdAsAsked
  <2>0. manager \in Managers /\ manager.kind \in Kinds
    BY ManagerAssumption DEF PeopleTypes, TypeOK
  <2>1. CASE Grouped
    <3>1. PICK g \in 0..Len(Sizes) : GroupsAre(g, plan)
      BY <2>1 DEF PeopleTypes, GroupsInOrder
    <3>2. Len(Sizes) \in Nat
      BY <2>0, <2>1, ConfigAssumption, GroupSizesAddUp DEF Grouped, Sizes
    <3>3. GroupsPlanned(plan) = g
      <4>0. g \in Nat
        BY <3>1, <3>2
      <4>1. Cardinality(0..(g - 1)) = g
        BY <4>0, UpTo
      <4>. QED
        BY <3>1, <4>1 DEF GroupsPlanned, GroupsAre
    <3>4. g = Len(Sizes)
      BY <2>1, <3>3 DEF PlanComplete, PedestriansPlanned, Grouped, Sizes
    <3>5. Len(plan) = manager.cfg.num_humans
      BY <3>1, <3>4 DEF GroupsAre
    <3>. QED
      BY <2>1, <3>5 DEF CrowdAsAsked, Grouped
  <2>2. CASE manager.kind = "pedestrian" /\ manager.cfg.profile = "merge"
    <3>. DEFINE n == manager.cfg.num_humans
    <3>1. n \in Nat
      BY <2>0, <2>2, ConfigAssumption
    <3>2. n \div 2 \in Int /\ n = 2 * (n \div 2) + (n % 2) /\ n % 2 \in 0..1
      BY <3>1
    <3>3. 2 * Max({2, n \div 2}) = Streams(n)
      <4>1. 2 \in Int
        OBVIOUS
      <4>2. /\ Max({2, n \div 2}) \in {2, n \div 2}
            /\ Max({2, n \div 2}) >= n \div 2 /\ Max({2, n \div 2}) >= 2
        BY <3>2, <4>1, MaxOfTwo, Zenon
      <4>3. CASE n < 4
        BY <3>1, <3>2, <4>2, <4>3 DEF Streams
      <4>4. CASE ~ (n < 4)
        BY <3>1, <3>2, <4>2, <4>4 DEF Streams
      <4>. QED
        BY <4>3, <4>4
    <3>4. plan # <<>>
      BY <2>2 DEF PlanComplete, PedestriansPlanned
    <3>5. Len(plan) = Streams(n)
      BY <2>2, <3>3, <3>4 DEF MergeInOneRound
    <3>. QED
      BY <2>2, <3>5 DEF CrowdAsAsked
  <2>3. CASE manager.kind = "pedestrian" /\ manager.cfg.profile \notin {"group", "merge"}
    BY <2>3 DEF CrowdAsAsked, PlanComplete, PedestriansPlanned
  <2>4. CASE manager.kind \in {"worker", "amr"}
    BY <2>4 DEF CrowdAsAsked, PlanComplete, WorkersPlanned
  <2>. QED
    BY <2>0, <2>1, <2>2, <2>3, <2>4 DEF Kinds, Grouped
<1>3. PeopleTypes /\ MergeInOneRound /\ [Next]_vars => MergeInOneRound'
  BY MergeStep
<1>. QED
  BY <1>1, <1>2, <1>3, TypesHold, PTL DEF Spec

-----------------------------------------------------------------------------
(***************************************************************************)
(* Distances                                                               *)
(***************************************************************************)

Points == Int \X Int

\* Distance has no direction.
LEMMA CloserEitherWay ==
    ASSUME NEW p \in Points, NEW q \in Points, NEW d \in Int
    PROVE  Closer(p, q, d) <=> Closer(q, p, d)
<1>1. \A a, b \in Int : (a - b) * (a - b) = (b - a) * (b - a)
  OBVIOUS
<1>. QED
  BY <1>1 DEF Closer, Points

\* Who is far off along one axis is far off.
LEMMA ApartAlongAxis ==
    ASSUME NEW p \in Points, NEW q \in Points, NEW d \in Nat,
           NEW k \in {1, 2}, p[k] - q[k] >= d \/ q[k] - p[k] >= d
    PROVE  ~ Closer(p, q, d)
<1>1. \A a, b \in Int : b >= 0 /\ (a >= b \/ -a >= b) => a * a >= b * b
  OBVIOUS
<1>2. \A a \in Int : a * a >= 0 /\ a * a \in Int
  OBVIOUS
<1>3. PICK dx \in Int, dy \in Int : dx = p[1] - q[1] /\ dy = p[2] - q[2]
  BY DEF Points
<1>4. (dx * dx >= d * d \/ dy * dy >= d * d)
      /\ dx * dx >= 0 /\ dy * dy >= 0 /\ dx * dx \in Int /\ dy * dy \in Int /\ d * d \in Int
  BY <1>1, <1>2, <1>3 DEF Points
<1>5. dx * dx + dy * dy >= d * d
  BY <1>4
<1>. QED
  BY <1>3, <1>4, <1>5 DEF Closer

\* A set of numbers that is not empty has a least one.
LEMMA LeastOf ==
    ASSUME NEW S, S \subseteq Nat, S # {}
    PROVE  Min(S) \in S /\ \A y \in S : Min(S) <= y
<1>1. PICK x \in S : \A y \in S : ~ (<<y, x>> \in OpToRel(<, Nat))
  BY NatLessThanWellFounded, WFMin, Zenon
<1>2. \A a, b \in Nat : <<b, a>> \in OpToRel(<, Nat) <=> b < a
  BY DEF OpToRel
<1>3. \A y \in S : x \in Nat /\ y \in Nat /\ ~ (y < x)
  BY <1>1, <1>2
<1>4. \A y \in S : x <= y
  BY <1>3
<1>. QED
  BY <1>4 DEF Min

\* A square root keeps the order of numbers not below 0.
LEMMA Squares ==
    ASSUME NEW x \in Int, NEW y \in Nat, x * x <= y * y
    PROVE  x <= y /\ -x <= y
OBVIOUS

\* A product grows with its factors.
LEMMA Products ==
    ASSUME NEW a \in Nat, NEW b \in Nat, NEW c \in Nat, NEW d \in Nat, a <= c, b <= d
    PROVE  a * b <= c * d
<1>1. a * b <= c * b
  OBVIOUS
<1>2. c * b <= c * d
  OBVIOUS
<1>. QED
  BY <1>1, <1>2

\* Who is s and r away from somebody who moves by no more than r is still s away: the
\* triangle inequality, without roots.
LEMMA Shifted ==
    ASSUME NEW dx \in Int, NEW dy \in Int, NEW ox \in Int, NEW oy \in Int,
           NEW s \in Nat, NEW r \in Nat,
           ox * ox + oy * oy <= r * r,
           dx * dx + dy * dy >= (s + r) * (s + r)
    PROVE  (dx + ox) * (dx + ox) + (dy + oy) * (dy + oy) >= s * s
<1>. DEFINE ux == dx + ox
            uy == dy + oy
            uo == ux * ox + uy * oy
            cr == ux * oy - uy * ox
            uu == ux * ux + uy * uy
            oo == ox * ox + oy * oy
<1>. SUFFICES ASSUME uu < s * s PROVE FALSE
  BY Z3
<1>1. uo * uo + cr * cr = uu * oo
  OBVIOUS
<1>2. dx * dx + dy * dy = uu + oo - 2 * uo
  OBVIOUS
<1>3. uu \in Nat /\ oo \in Nat /\ uo \in Int /\ cr \in Int /\ s * s \in Nat /\ r * r \in Nat
      /\ cr * cr \in Nat /\ uo * uo \in Nat
  <2>1. \A a \in Int : a * a \in Nat
    OBVIOUS
  <2>. QED
    BY <2>1
<1>4. uu < s * s /\ uu <= s * s /\ oo <= r * r
  BY <1>3
<1>. HIDE DEF uu, oo, uo, cr
<1>5. uu * oo <= (s * s) * (r * r)
  BY <1>3, <1>4, Products, Zenon
<1>6. (s * s) * (r * r) = (s * r) * (s * r)
  OBVIOUS
<1>7. uo * uo <= (s * r) * (s * r)
  BY <1>1, <1>3, <1>5, <1>6
<1>8. -uo <= s * r
  <2>1. s * r \in Nat
    OBVIOUS
  <2>. QED
    BY <1>3, <1>7, <2>1, Squares
<1>9. dx * dx + dy * dy < s * s + r * r + 2 * (s * r)
  BY <1>2, <1>3, <1>8, <1>4
<1>10. (s + r) * (s + r) = s * s + r * r + 2 * (s * r)
  OBVIOUS
<1>. QED
  BY <1>9, <1>10

-----------------------------------------------------------------------------
(***************************************************************************)
(* People who start apart                                                  *)
(***************************************************************************)

Separation == manager.cfg.min_separation

Strangers(a, b) == a.group = -1 \/ a.group # b.group

\* The starts are points, and those of strangers are apart.
ApartIn(people) ==
    /\ \A i \in DOMAIN people : Start(people[i]) \in Points
    /\ \A i, j \in DOMAIN people :
          i # j /\ Strangers(people[i], people[j])
              => ~ Closer(Start(people[i]), Start(people[j]), Separation)

\* What may be added to the plan
FitsIn(more) ==
    /\ IsSequence(more) /\ ApartIn(more)
    /\ \A i \in DOMAIN plan, j \in DOMAIN more :
          ~ Closer(Start(more[j]), Start(plan[i]), Separation)

\* What fits in keeps strangers apart when it is added.
LEMMA ApartAppended ==
    ASSUME IsSequence(plan), Separation \in Nat, ApartIn(plan), NEW more, FitsIn(more)
    PROVE  ApartIn(plan \o more)
<1>. DEFINE all == plan \o more
<1>1. /\ Len(plan) \in Nat /\ DOMAIN plan = 1..Len(plan) /\ Len(more) \in Nat
      /\ DOMAIN more = 1..Len(more) /\ DOMAIN all = 1..(Len(plan) + Len(more))
      /\ \A i \in 1..(Len(plan) + Len(more)) :
            all[i] = IF i <= Len(plan) THEN plan[i] ELSE more[i - Len(plan)]
  BY Appended, LenProperties DEF FitsIn, IsSequence
<1>. HIDE DEF all
<1>2. \A i \in DOMAIN all :
          \/ i \in DOMAIN plan /\ all[i] = plan[i]
          \/ i - Len(plan) \in DOMAIN more /\ all[i] = more[i - Len(plan)]
  BY <1>1
<1>3. \A i \in DOMAIN all : Start(all[i]) \in Points
  BY <1>2 DEF FitsIn, ApartIn
<1>4. \A i \in DOMAIN plan, j \in DOMAIN more :
          /\ ~ Closer(Start(more[j]), Start(plan[i]), Separation)
          /\ ~ Closer(Start(plan[i]), Start(more[j]), Separation)
  <2>. SUFFICES ASSUME NEW i \in DOMAIN plan, NEW j \in DOMAIN more
                PROVE  /\ ~ Closer(Start(more[j]), Start(plan[i]), Separation)
                       /\ ~ Closer(Start(plan[i]), Start(more[j]), Separation)
    OBVIOUS
  <2>1. Start(plan[i]) \in Points /\ Start(more[j]) \in Points /\ Separation \in Int
    BY DEF FitsIn, ApartIn
  <2>2. ~ Closer(Start(more[j]), Start(plan[i]), Separation)
    BY DEF FitsIn
  <2>. QED
    BY <2>1, <2>2, CloserEitherWay, Zenon
<1>5. ASSUME NEW i \in DOMAIN all, NEW j \in DOMAIN all, i # j, Strangers(all[i], all[j])
      PROVE  ~ Closer(Start(all[i]), Start(all[j]), Separation)
  <2>1. i \in Int /\ j \in Int /\ Len(plan) \in Int
    BY <1>1
  <2>2. CASE i \in DOMAIN plan /\ all[i] = plan[i] /\ j \in DOMAIN plan /\ all[j] = plan[j]
    BY <1>5, <2>2 DEF ApartIn
  <2>3. CASE /\ i \in DOMAIN plan /\ all[i] = plan[i]
             /\ j - Len(plan) \in DOMAIN more /\ all[j] = more[j - Len(plan)]
    BY <1>4, <2>3
  <2>4. CASE /\ i - Len(plan) \in DOMAIN more /\ all[i] = more[i - Len(plan)]
             /\ j \in DOMAIN plan /\ all[j] = plan[j]
    BY <1>4, <2>4
  <2>5. CASE /\ i - Len(plan) \in DOMAIN more /\ all[i] = more[i - Len(plan)]
             /\ j - Len(plan) \in DOMAIN more /\ all[j] = more[j - Len(plan)]
    <3>1. i - Len(plan) # j - Len(plan)
      BY <1>5, <2>1
    <3>. QED
      BY <1>5, <2>5, <3>1 DEF FitsIn, ApartIn
  <2>. QED
    BY <1>2, <2>2, <2>3, <2>4, <2>5
<1>. QED
  BY <1>3, <1>5 DEF ApartIn, all

\* One who starts clear of those who are placed fits in.
LEMMA OneFitsIn ==
    ASSUME NEW e, Start(e) \in Points,
           \A q \in Placed(plan) : ~ Closer(Start(e), q, Separation)
    PROVE  FitsIn(<<e>>)
<1>1. IsSequence(<<e>>) /\ DOMAIN <<e>> = 1..1 /\ <<e>>[1] = e
  BY OneIsSequence
<1>2. \A i \in DOMAIN plan : Start(plan[i]) \in Placed(plan)
  BY DEF Placed
<1>3. \A i \in 1..1 : i = 1
  OBVIOUS
<1>. QED
  BY <1>1, <1>2, <1>3 DEF FitsIn, ApartIn

\* Routes are taken in turn.
LEMMA InTurn ==
    ASSUME NEW S, NEW s \in Seq(S) \ {<<>>}, NEW n \in Nat
    PROVE  s[(n % Len(s)) + 1] \in S
<1>1. Len(s) \in Nat \ {0}
  BY EmptySeq, LenProperties
<1>2. (n % Len(s)) + 1 \in 1..Len(s)
  BY <1>1
<1>. QED
  BY <1>1, <1>2, ElementOfSeq

\* The lanes tried are numbered; of those that are free the first one is taken.
LEMMA WorkerFitsIn ==
    ASSUME manager \in Managers, manager.kind = "worker", IsSequence(plan),
           NEW more \in NextAgents
    PROVE  FitsIn(more)
<1>. DEFINE cfg == manager.cfg
            sep == cfg.min_separation
<1>0. /\ sep \in Nat /\ sep = Separation
      /\ cfg.crossing_routes \in Seq(Int \X Int \X Int \X Int) \ {<<>>}
      /\ cfg.patrol_routes \in Seq(Seq(Int \X Int) \ {<<>>})
  BY ConfigAssumption DEF Separation
<1>1. ASSUME NEW w, Start(w) \in Points, Clear(cfg, Placed(plan), Start(w), sep),
             more = <<w>>
      PROVE  FitsIn(more)
  <2>1. \A q \in Placed(plan) : ~ Closer(Start(w), q, Separation)
    BY <1>0, <1>1 DEF Clear
  <2>. QED
    BY <1>1, <2>1, OneFitsIn
<1>2. PICK w : /\ more = <<w>>
               /\ \/ w \in NextCrossing(cfg, plan)
                  \/ w \in NextWorkstation(cfg, plan)
                  \/ w \in NextPatrol(cfg, plan)
  BY DEF NextAgents, NextWorkers
<1>3. CASE w \in NextCrossing(cfg, plan)
  <2>. DEFINE n0 == Len(cfg.crossing_routes)
              base == cfg.crossing_routes[(Len(plan) % n0) + 1]
              off(n) == Max({cfg.min_separation, 60})
                          * (IF n % 2 = 0 THEN n \div 2 ELSE -(n \div 2))
              north(n) == <<base[1] + off(n), base[2]>>
              south(n) == <<base[3] + off(n), base[4]>>
              clear == {n \in 1..19 :
                          /\ Clear(cfg, Placed(plan), north(n), cfg.min_separation)
                          /\ ~ Blocked(cfg.obstacles, south(n), 0)}
  <2>1. PICK speed : /\ clear # {}
                     /\ w = Worker("crossing", <<north(Min(clear)), south(Min(clear))>>,
                                   speed, cfg.accel, cfg.crossing_dwell)
    BY <1>3 DEF NextCrossing
  <2>2. Min(clear) \in clear /\ Min(clear) \in Nat
    <3>1. clear \subseteq Nat
      OBVIOUS
    <3>. HIDE DEF clear
    <3>2. Min(clear) \in clear
      BY <2>1, <3>1, LeastOf
    <3>. QED
      BY <3>1, <3>2
  <2>3. Start(w) = north(Min(clear))
    BY <2>1 DEF Start, Worker
  <2>4. Clear(cfg, Placed(plan), north(Min(clear)), sep)
    BY <2>2
  <2>5. north(Min(clear)) \in Points
    <3>. DEFINE m == Min(clear)
    <3>1. m \in Nat
      BY <2>2
    <3>. HIDE DEF m
    <3>2. base[1] \in Int /\ base[2] \in Int
      <4>1. Len(plan) \in Nat
        BY LenProperties DEF IsSequence
      <4>2. base \in Int \X Int \X Int \X Int
        BY <1>0, <4>1, InTurn
      <4>. QED
        BY <4>2
    <3>3. off(m) \in Int
      <4>1. Max({sep, 60}) \in {sep, 60}
        <5>1. sep \in Int /\ 60 \in Int
          BY <1>0
        <5>. QED
          BY <5>1, MaxOfTwo, Zenon
      <4>2. (IF m % 2 = 0 THEN m \div 2 ELSE -(m \div 2)) \in Int
        BY <3>1
      <4>3. \A a, b \in Int : a * b \in Int
        OBVIOUS
      <4>4. Max({sep, 60}) \in Int
        BY <1>0, <4>1
      <4>. QED
        BY <4>2, <4>3, <4>4, Zenon
    <3>. HIDE DEF off, base
    <3>. QED
      BY <3>2, <3>3 DEF Points, m
  <2>. HIDE DEF clear, north, south, cfg, sep
  <2>. QED
    BY <1>1, <1>2, <2>3, <2>4, <2>5
<1>4. CASE w \in NextWorkstation(cfg, plan)
  <2>1. PICK s \in StationDraws : Clear(cfg, Placed(plan), s[1], sep) /\ Start(w) = s[1]
    BY <1>4 DEF NextWorkstation, Worker, Start
  <2>2. s[1] \in Points
    BY StationDrawsAssumption DEF FactoryWorkstations, Points
  <2>. QED
    BY <1>1, <1>2, <2>1, <2>2
<1>5. CASE w \in NextPatrol(cfg, plan)
  <2>. DEFINE loop == cfg.patrol_routes[(Len(plan) % Len(cfg.patrol_routes)) + 1]
  <2>1. /\ cfg.patrol_routes # <<>> /\ Clear(cfg, Placed(plan), loop[1], sep)
        /\ Start(w) = loop[1]
    BY <1>5 DEF NextPatrol, Worker, Start
  <2>2. loop[1] \in Points
    <3>1. Len(plan) \in Nat
      BY LenProperties DEF IsSequence
    <3>2. cfg.patrol_routes \in Seq(Seq(Int \X Int) \ {<<>>}) \ {<<>>}
      BY <1>0, <2>1
    <3>3. loop \in Seq(Int \X Int) \ {<<>>}
      BY <3>1, <3>2, InTurn
    <3>. HIDE DEF loop
    <3>4. Len(loop) \in Nat \ {0}
      BY <3>3, EmptySeq, LenProperties
    <3>. QED
      BY <3>3, <3>4, ElementOfSeq DEF Points
  <2>. QED
    BY <1>1, <1>2, <2>1, <2>2
<1>. QED
  BY <1>2, <1>3, <1>4, <1>5

\* Those who walk or cross start where a draw or a lane is clear of all who are placed.
LEMMA WalkerFitsIn ==
    ASSUME manager \in Managers, manager.kind = "pedestrian",
           manager.cfg.profile \in {"walking", "crossing", "mixed"},
           NEW more \in NextAgents
    PROVE  FitsIn(more)
<1>. DEFINE cfg == manager.cfg
            behavior == BehaviorFor(cfg.profile, Len(plan))
<1>0. /\ cfg.crossing_x \in Int /\ cfg.crossing_north \in Int /\ cfg.min_separation \in Nat
      /\ cfg.min_separation = Separation /\ SpawnPoints \subseteq Int \X Int
  BY ConfigAssumption DEF Separation
<1>1. behavior \in {"walking", "crossing"}
  BY DEF BehaviorFor
<1>2. PICK ped : more = <<ped>> /\ ped \in NextPedestrian(cfg, plan)
  BY DEF NextAgents, NextPeople
<1>3. CASE behavior = "crossing"
  <2>. DEFINE free == {n \in 1..23 : LaneFree(cfg, Placed(plan), CrossingLane(cfg, n))}
              x == CrossingLane(cfg, Min(free))
  <2>1. /\ free # {}
        /\ ped = Pedestrian(behavior, << <<x, cfg.crossing_north>>, <<x, cfg.crossing_south>> >>,
                            cfg.speed, -1)
    BY <1>2, <1>3 DEF NextPedestrian, PlaceCrossingX
  <2>2. Min(free) \in free /\ Min(free) \in Nat
    <3>1. free \subseteq Nat
      OBVIOUS
    <3>. HIDE DEF free
    <3>2. Min(free) \in free
      BY <2>1, <3>1, LeastOf
    <3>. QED
      BY <3>1, <3>2
  <2>3. LaneFree(cfg, Placed(plan), x)
    BY <2>2
  <2>4. x \in Int
    <3>1. Max({cfg.min_separation, 50}) \in {cfg.min_separation, 50}
      <4>1. cfg.min_separation \in Int /\ 50 \in Int
        BY <1>0
      <4>. QED
        BY <4>1, MaxOfTwo, Zenon
    <3>2. Max({cfg.min_separation, 50}) \in Int
      BY <1>0, <3>1
    <3>3. \A n \in Nat : (IF n % 2 = 0 THEN n \div 2 ELSE -(n \div 2)) \in Int
      OBVIOUS
    <3>4. \A a, b, c \in Int : a + b * c \in Int
      OBVIOUS
    <3>. HIDE DEF free
    <3>. QED
      BY <1>0, <2>2, <3>2, <3>3, <3>4, Zenon DEF CrossingLane
  <2>. HIDE DEF x, free
  <2>5. Start(ped) = <<x, cfg.crossing_north>>
    BY <2>1 DEF Start, Pedestrian
  <2>6. Start(ped) \in Points
    BY <1>0, <2>4, <2>5 DEF Points
  <2>7. \A q \in Placed(plan) : ~ Closer(Start(ped), q, Separation)
    BY <1>0, <2>3, <2>5 DEF LaneFree
  <2>. QED
    BY <1>2, <2>6, <2>7, OneFitsIn
<1>4. CASE behavior = "walking"
  <2>1. PICK spawn \in SampleSpawn(cfg, Placed(plan), 0) :
            ped = Pedestrian(behavior, WalkRoute(cfg, spawn), cfg.speed, -1)
    BY <1>2, <1>4 DEF NextPedestrian
  <2>2. Start(ped) = spawn
    BY <2>1 DEF Start, Pedestrian, WalkRoute
  <2>3. spawn \in Points /\ \A q \in Placed(plan) : ~ Closer(spawn, q, cfg.min_separation + 0)
    BY <1>0, <2>1 DEF SampleSpawn, Points
  <2>4. cfg.min_separation + 0 = Separation
    BY <1>0
  <2>. QED
    BY <1>2, <2>2, <2>3, <2>4, OneFitsIn
<1>. QED
  BY <1>1, <1>3, <1>4

FixedRoutes == {"head_on", "turning", "same_direction", "blocker", "stop_go"}

\* The fixed routes start a metre and more apart.
LEMMA FixedRoutesApart ==
    ASSUME manager \in Managers, manager.kind = "pedestrian",
           manager.cfg.profile \in FixedRoutes, Separation <= 100,
           NEW i \in Nat
    PROVE  /\ FixedRoute(manager.cfg, manager.cfg.profile, i)[1] \in Points
           /\ \A j \in Nat : i # j =>
                 ~ Closer(FixedRoute(manager.cfg, manager.cfg.profile, i)[1],
                          FixedRoute(manager.cfg, manager.cfg.profile, j)[1], Separation)
<1>. DEFINE cfg == manager.cfg
            at(k) == FixedRoute(cfg, cfg.profile, k)[1]
<1>0. /\ cfg.crossing_x \in Int /\ cfg.crossing_north \in Int /\ cfg.walk_xmax \in Int
      /\ Separation \in Nat
  BY ConfigAssumption DEF Separation
<1>1. \A k \in Nat : LaneY(k) \in Int
  BY DEF LaneY
<1>2. Min({cfg.walk_xmax, 800}) \in Int
  <2>1. \A b \in Int : Min({cfg.walk_xmax, b}) \in {cfg.walk_xmax, b}
    BY <1>0, MaxOfTwo, Zenon
  <2>2. \A b \in Int : Min({cfg.walk_xmax, b}) \in Int
    BY <1>0, <2>1
  <2>. HIDE DEF cfg
  <2>. QED
    BY <2>2
<1>3. \A k \in Nat : at(k) \in Points
  <2>. QED
    BY <1>0, <1>1, <1>2 DEF FixedRoute, FixedRoutes, Points
<1>4. ASSUME NEW j \in Nat, i # j
      PROVE  at(i)[1] - at(j)[1] >= Separation \/ at(j)[1] - at(i)[1] >= Separation
  <2>1. CASE cfg.profile = "head_on"
    <3>1. PICK a \in Int : a = Min({cfg.walk_xmax, 800})
      BY <1>2
    <3>2. \A k \in Nat : at(k)[1] = a - k * 160
      BY <2>1, <3>1 DEF FixedRoute
    <3>. HIDE DEF at
    <3>. QED
      BY <1>0, <1>4, <3>2
  <2>2. CASE cfg.profile \in {"turning", "same_direction"}
    <3>1. \A k \in Nat : at(k)[1] = 200 + k * 120
      BY <2>2 DEF FixedRoute
    <3>. HIDE DEF at
    <3>. QED
      BY <1>0, <1>4, <3>1
  <2>3. CASE cfg.profile = "blocker"
    <3>1. \A k \in Nat : at(k)[1] = 450 + k * 150
      BY <2>3 DEF FixedRoute
    <3>. HIDE DEF at
    <3>. QED
      BY <1>0, <1>4, <3>1
  <2>4. CASE cfg.profile = "stop_go"
    <3>1. PICK a \in Int : a = cfg.crossing_x
      BY <1>0
    <3>2. \A k \in Nat : at(k)[1] = a + k * 100
      BY <2>4, <3>1 DEF FixedRoute
    <3>. HIDE DEF at
    <3>. QED
      BY <1>0, <1>4, <3>2
  <2>. QED
    BY <2>1, <2>2, <2>3, <2>4 DEF FixedRoutes
<1>5. ASSUME NEW j \in Nat, i # j
      PROVE  ~ Closer(at(i), at(j), Separation)
  <2>1. at(i) \in Points /\ at(j) \in Points /\ 1 \in {1, 2}
    BY <1>3
  <2>2. at(i)[1] - at(j)[1] >= Separation \/ at(j)[1] - at(i)[1] >= Separation
    BY <1>4, <1>5
  <2>. HIDE DEF at
  <2>. QED
    BY <1>0, <2>1, <2>2, ApartAlongAxis, Zenon
<1>. QED
  BY <1>3, <1>5

\* Who is on a fixed route starts where its number says.
FixedInPlan ==
    manager.kind = "pedestrian" /\ manager.cfg.profile \in FixedRoutes =>
        \A i \in DOMAIN plan :
            Start(plan[i]) = FixedRoute(manager.cfg, manager.cfg.profile, i - 1)[1]

\* The next one on a fixed route fits in.
LEMMA FixedFitsIn ==
    ASSUME manager \in Managers, manager.kind = "pedestrian",
           manager.cfg.profile \in FixedRoutes, Separation <= 100,
           IsSequence(plan), FixedInPlan, NEW more \in NextAgents
    PROVE  /\ FitsIn(more) /\ Len(plan) \in Nat
           /\ \E e : /\ more = <<e>>
                     /\ Start(e) = FixedRoute(manager.cfg, manager.cfg.profile, Len(plan))[1]
<1>. DEFINE at(k) == FixedRoute(manager.cfg, manager.cfg.profile, k)[1]
<1>1. Len(plan) \in Nat /\ DOMAIN plan = 1..Len(plan)
  BY LenProperties DEF IsSequence
<1>2. PICK e : more = <<e>> /\ e \in NextPedestrian(manager.cfg, plan)
  BY DEF NextAgents, NextPeople, FixedRoutes
<1>3. Start(e) = at(Len(plan))
  <2>. DEFINE cfg == manager.cfg
              ped == Pedestrian(cfg.profile, FixedRoute(cfg, cfg.profile, Len(plan)),
                                cfg.speed, -1)
  <2>1. BehaviorFor(cfg.profile, Len(plan)) = cfg.profile
    BY DEF BehaviorFor, FixedRoutes
  <2>2. e \in {ped, [ped EXCEPT !.stop = cfg.crossing_north, !.hold = 4]}
    BY <1>2, <2>1 DEF NextPedestrian, FixedRoutes
  <2>3. e.waypoints = FixedRoute(cfg, cfg.profile, Len(plan))
    <3>. DEFINE route == FixedRoute(cfg, cfg.profile, Len(plan))
                held == [ped EXCEPT !.stop = cfg.crossing_north, !.hold = 4]
    <3>. HIDE DEF route
    <3>1. ped.waypoints = route
      BY DEF Pedestrian, route
    <3>2. held.waypoints = route
      BY <3>1
    <3>. QED
      BY <2>2, <3>1, <3>2 DEF route
  <2>. QED
    BY <2>3 DEF Start
<1>4. at(Len(plan)) \in Points /\ \A k \in Nat : Len(plan) # k => ~ Closer(at(Len(plan)), at(k), Separation)
  BY <1>1, FixedRoutesApart
<1>5. \A i \in DOMAIN plan : Start(plan[i]) = at(i - 1) /\ i - 1 \in Nat /\ Len(plan) # i - 1
  BY <1>1 DEF FixedInPlan
<1>. HIDE DEF at
<1>6. \A q \in Placed(plan) : ~ Closer(Start(e), q, Separation)
  BY <1>3, <1>4, <1>5 DEF Placed
<1>7. FitsIn(more)
  BY <1>2, <1>3, <1>4, <1>6, OneFitsIn
<1>. QED
  BY <1>1, <1>2, <1>3, <1>7 DEF at

\* The lanes of two streams that merge are apart; those of one stream are of one group.
LEMMA MergeFitsIn ==
    ASSUME manager \in Managers, manager.kind = "pedestrian",
           manager.cfg.profile = "merge", Separation <= 100,
           ~ PlanComplete, NEW more \in NextAgents
    PROVE  FitsIn(more)
<1>. DEFINE n == Max({2, manager.cfg.num_humans \div 2})
            at(k) == Start(more[k])
<1>1. Separation \in Nat /\ manager.cfg.num_humans \div 2 \in Int
  BY ConfigAssumption DEF Separation
<1>2. n \in Nat /\ n >= 2
  <2>1. 2 \in Int
    OBVIOUS
  <2>2. n \in {2, manager.cfg.num_humans \div 2} /\ n >= 2
    BY <1>1, <2>1, MaxOfTwo, Zenon
  <2>. QED
    BY <1>1, <2>2
<1>3. plan = <<>> /\ more = Merge(manager.cfg)
  BY DEF PlanComplete, PedestriansPlanned, NextAgents, NextPeople
<1>4. \A k \in 1..(2 * n) :
          /\ at(k) = <<200 + ((k - 1) % n) * 60, IF k <= n THEN 120 ELSE -120>>
          /\ more[k].group = IF k <= n THEN 0 ELSE 1
  BY <1>3 DEF Merge, Pedestrian, Start
<1>5. IsSequence(more) /\ DOMAIN more = 1..(2 * n)
  <2>1. more = [k \in 1..(2 * n) |-> more[k]]
    BY <1>3 DEF Merge
  <2>2. 2 * n \in Nat
    BY <1>2
  <2>. QED
    BY <2>1, <2>2, SequenceOf
<1>. HIDE DEF n
<1>6. \A k \in 1..(2 * n) : at(k) \in Points /\ at(k)[2] = IF k <= n THEN 120 ELSE -120
  <2>1. \A k \in 1..(2 * n) : 200 + ((k - 1) % n) * 60 \in Int
    BY <1>2
  <2>. QED
    BY <1>4, <2>1 DEF Points
<1>7. ASSUME NEW i \in 1..(2 * n), NEW j \in 1..(2 * n), Strangers(more[i], more[j])
      PROVE  ~ Closer(at(i), at(j), Separation)
  <2>1. (i <= n /\ ~ (j <= n)) \/ (~ (i <= n) /\ j <= n)
    BY <1>4, <1>7 DEF Strangers
  <2>2. at(i)[2] - at(j)[2] >= Separation \/ at(j)[2] - at(i)[2] >= Separation
    BY <1>1, <1>6, <2>1
  <2>3. at(i) \in Points /\ at(j) \in Points /\ 2 \in {1, 2}
    BY <1>6
  <2>. QED
    BY <1>1, <2>2, <2>3, ApartAlongAxis, Zenon
<1>8. DOMAIN plan = {}
  BY <1>3
<1>. QED
  BY <1>5, <1>6, <1>7, <1>8 DEF FitsIn, ApartIn

-----------------------------------------------------------------------------
\* A member of a group stands off its centre by no more than the radius of the group.
LEMMA OffsetIsShort ==
    ASSUME NEW sp \in Nat, NEW k \in Nat, NEW m \in Nat, k <= m,
           NEW ox \in Int, ox = k * sp \/ ox = -(k * sp),
           NEW oy \in Int, oy <= sp, -sp <= oy
    PROVE  ox * ox + oy * oy <= (sp * (1 + m)) * (sp * (1 + m))
<1>. DEFINE a == k * sp
            c == sp * (1 + m)
<1>1. a \in Nat /\ c \in Nat /\ c = sp + sp * m
  OBVIOUS
<1>2. a <= sp * m
  <2>1. sp * m - k * sp = sp * (m - k)
    OBVIOUS
  <2>2. sp * (m - k) >= 0 /\ sp * m \in Int
    OBVIOUS
  <2>. QED
    BY <1>1, <2>1, <2>2
<1>3. ox * ox = a * a
  OBVIOUS
<1>. HIDE DEF a, c
<1>4. oy * oy <= sp * sp
  OBVIOUS
<1>5. (sp + a) * (sp + a) = sp * sp + a * a + 2 * (sp * a) /\ sp * a >= 0
  BY <1>1
<1>6. sp + a <= c
  BY <1>1, <1>2
<1>7. (sp + a) * (sp + a) <= c * c
  BY <1>1, <1>6
<1>8. ox * ox + oy * oy <= c * c
  BY <1>1, <1>3, <1>4, <1>5, <1>7
<1>. QED
  BY <1>8 DEF c

\* The group that is next has a size.
LEMMA GroupIsDue ==
    ASSUME manager \in Managers, Grouped, GroupsInOrder, ~ PlanComplete
    PROVE  /\ GroupsPlanned(plan) \in Nat
           /\ Sizes[GroupsPlanned(plan) + 1] \in Nat \ {0}
<1>1. manager.cfg.num_humans \in Nat /\ manager.cfg.group_size \in Int
  BY ConfigAssumption DEF Grouped
<1>2. Len(Sizes) \in Nat /\ \A g \in 1..Len(Sizes) : Sizes[g] \in Nat \ {0}
  BY <1>1, GroupSizesAddUp DEF Sizes
<1>3. PICK g \in 0..Len(Sizes) : GroupsAre(g, plan)
  BY DEF GroupsInOrder
<1>4. GroupsPlanned(plan) = g
  <2>1. Cardinality(0..(g - 1)) = g
    BY <1>2, FS_Interval
  <2>. QED
    BY <1>3, <2>1 DEF GroupsPlanned, GroupsAre
<1>5. g # Len(Sizes)
  BY <1>4 DEF PlanComplete, PedestriansPlanned, Grouped, Sizes
<1>. QED
  BY <1>2, <1>3, <1>4, <1>5

\* Where the centre of a group is drawn far enough for its radius, no member is close to
\* somebody placed before.
LEMMA GroupFitsIn ==
    ASSUME manager \in Managers, Grouped, GroupsInOrder, ~ PlanComplete, ApartIn(plan),
           NEW more \in NextAgents
    PROVE  FitsIn(more)
<1>. DEFINE cfg  == manager.cfg
            gid  == GroupsPlanned(plan)
            size == Sizes[gid + 1]
            sp   == cfg.group_spacing
            radius == sp * (1 + (size - 1) \div 2)
<1>1. /\ sp \in Nat /\ Separation \in Nat /\ SpawnPoints \subseteq Points
      /\ gid \in Nat /\ size \in Nat \ {0}
  BY ConfigAssumption, GroupIsDue DEF Grouped, Separation, Points
<1>2. PICK centre \in SampleSpawn(cfg, Placed(plan), radius) :
          more = [j \in 1..size |-> Member(cfg, gid, WalkRoute(cfg, centre), j - 1)]
  BY DEF NextAgents, NextPeople, NextGroup, Grouped, Sizes
<1>3. /\ centre \in Points /\ centre[1] \in Int /\ centre[2] \in Int
      /\ \A q \in Placed(plan) : ~ Closer(centre, q, Separation + radius)
  BY <1>1, <1>2 DEF SampleSpawn, Separation, Points
<1>. HIDE DEF gid, size
<1>4. (size - 1) \div 2 \in Nat /\ radius \in Nat
  <2>1. (size - 1) \div 2 \in Nat
    BY <1>1
  <2>. QED
    BY <1>1, <2>1
<1>5. IsSequence(more) /\ DOMAIN more = 1..size
  <2>1. more = [j \in 1..size |-> more[j]]
    BY <1>2
  <2>. QED
    BY <1>1, <2>1, SequenceOf
<1>6. ASSUME NEW j \in 1..size
      PROVE  /\ more[j].group = gid
             /\ \E ox, oy \in Int :
                   /\ Start(more[j]) = <<centre[1] + ox, centre[2] + oy>>
                   /\ ox * ox + oy * oy <= radius * radius
  <2>. DEFINE k == (j - 1) \div 2
              route == WalkRoute(cfg, centre)
              ux == IF route[2][1] < route[1][1] THEN -1 ELSE 1
              ox == -ux * k * sp
              oy == (ux * (2 * ((j - 1) % 2) - 1) * sp) \div 2
  <2>1. more[j] = Member(cfg, gid, route, j - 1)
    BY <1>2
  <2>2. more[j].group = gid /\ Start(more[j]) = <<route[1][1] + ox, route[1][2] + oy>>
    BY <2>1 DEF Member, Pedestrian, Start
  <2>3. route[1] = centre
    BY DEF WalkRoute
  <2>4. k \in Nat /\ k <= (size - 1) \div 2
    BY <1>1
  <2>5. ux \in {-1, 1}
    OBVIOUS
  <2>. HIDE DEF ux, k
  <2>6. ox \in Int /\ (ox = k * sp \/ ox = -(k * sp))
    BY <1>1, <2>4, <2>5
  <2>7. oy \in Int /\ oy <= sp /\ -sp <= oy
    <3>1. (j - 1) % 2 = 0 \/ (j - 1) % 2 = 1
      BY <1>1
    <3>2. ux * (2 * ((j - 1) % 2) - 1) * sp \in {sp, -sp}
      BY <1>1, <2>5, <3>1
    <3>. QED
      BY <1>1, <3>2
  <2>. HIDE DEF ox, oy
  <2>8. ox * ox + oy * oy <= radius * radius
    BY <1>1, <1>4, <2>4, <2>6, <2>7, OffsetIsShort
  <2>. QED
    BY <2>2, <2>3, <2>6, <2>7, <2>8
<1>. HIDE DEF radius
<1>7. \A j \in 1..size : Start(more[j]) \in Points
  BY <1>3, <1>6 DEF Points
<1>8. ASSUME NEW i \in DOMAIN plan, NEW j \in 1..size
      PROVE  ~ Closer(Start(more[j]), Start(plan[i]), Separation)
  <2>. DEFINE q == Start(plan[i])
  <2>1. q \in Points /\ q[1] \in Int /\ q[2] \in Int /\ q \in Placed(plan)
    BY DEF ApartIn, Placed, Points
  <2>. HIDE DEF q
  <2>2. PICK ox, oy \in Int : /\ Start(more[j]) = <<centre[1] + ox, centre[2] + oy>>
                              /\ ox * ox + oy * oy <= radius * radius
    BY <1>6
  <2>3. PICK dx \in Int, dy \in Int : dx = centre[1] - q[1] /\ dy = centre[2] - q[2]
    BY <1>3, <2>1
  <2>4. ~ (dx * dx + dy * dy < (Separation + radius) * (Separation + radius))
    BY <1>3, <2>1, <2>3 DEF Closer
  <2>5. dx * dx + dy * dy >= (Separation + radius) * (Separation + radius)
    BY <1>1, <1>4, <2>4
  <2>6. (dx + ox) * (dx + ox) + (dy + oy) * (dy + oy) >= Separation * Separation
    BY <1>1, <1>4, <2>2, <2>5, Shifted
  <2>7. Start(more[j])[1] - q[1] = dx + ox /\ Start(more[j])[2] - q[2] = dy + oy
    BY <1>3, <2>1, <2>2, <2>3
  <2>8. ~ ((dx + ox) * (dx + ox) + (dy + oy) * (dy + oy) < Separation * Separation)
    BY <1>1, <2>6
  <2>. QED
    BY <2>7, <2>8 DEF Closer, q
<1>9. \A i, j \in 1..size : ~ Strangers(more[i], more[j])
  BY <1>1, <1>6 DEF Strangers
<1>. QED
  BY <1>5, <1>7, <1>8, <1>9 DEF FitsIn, ApartIn

-----------------------------------------------------------------------------
PlanApart == manager.kind # "amr" => ApartIn(plan) /\ FixedInPlan

\* The launches of fixed routes ask for a metre at most; it is the default.
MetreIsEnough ==
    \A m \in Managers :
        m.kind = "pedestrian" /\ m.cfg.profile \in FixedRoutes \union {"merge"} =>
            m.cfg.min_separation <= 100

\* Whatever the manager and its profile, what a round adds fits in.
LEMMA NextFitsIn ==
    ASSUME MetreIsEnough, PeopleTypes, PlanApart, manager.kind # "amr", ~ PlanComplete,
           NEW more \in NextAgents
    PROVE  FitsIn(more)
<1>1. /\ manager \in Managers /\ manager.kind \in Kinds /\ IsSequence(plan)
      /\ GroupsInOrder /\ ApartIn(plan) /\ FixedInPlan
  BY ManagerAssumption DEF PeopleTypes, TypeOK, PlanApart
<1>2. CASE manager.kind = "worker"
  BY <1>1, <1>2, WorkerFitsIn
<1>3. CASE manager.kind = "pedestrian"
  <2>1. manager.cfg.profile \in PROFILES
    BY <1>1, <1>3, ConfigAssumption
  <2>2. CASE manager.cfg.profile \in {"walking", "crossing", "mixed"}
    BY <1>1, <1>3, <2>2, WalkerFitsIn
  <2>3. CASE manager.cfg.profile = "group"
    BY <1>1, <1>3, <2>3, GroupFitsIn DEF Grouped
  <2>4. CASE manager.cfg.profile = "merge"
    <3>1. Separation <= 100
      BY <1>1, <1>3, <2>4 DEF MetreIsEnough, Separation
    <3>. QED
      BY <1>1, <1>3, <2>4, <3>1, MergeFitsIn
  <2>5. CASE manager.cfg.profile \in FixedRoutes
    <3>1. Separation <= 100
      BY <1>1, <1>3, <2>5 DEF MetreIsEnough, Separation
    <3>. QED
      BY <1>1, <1>3, <2>5, <3>1, FixedFitsIn
  <2>. QED
    BY <2>1, <2>2, <2>3, <2>4, <2>5 DEF PROFILES, FixedRoutes
<1>. QED
  BY <1>1, <1>2, <1>3 DEF Kinds

\* So strangers stay apart while the plan grows.
LEMMA PlanApartStep ==
    ASSUME MetreIsEnough, PeopleTypes, PlanApart, [Next]_vars
    PROVE  PlanApart'
<1>1. CASE manager' = manager /\ plan' = plan
  BY <1>1 DEF PlanApart, ApartIn, FixedInPlan, Separation, Strangers
<1>2. CASE PlanMore
  <2>. SUFFICES ASSUME manager.kind # "amr" PROVE PlanApart'
    BY <1>2 DEF PlanMore, PlanApart, planVars
  <2>1. PICK more \in NextAgents : plan' = plan \o more
    BY <1>2 DEF PlanMore
  <2>2. /\ manager' = manager /\ ~ PlanComplete /\ manager \in Managers
        /\ IsSequence(plan) /\ ApartIn(plan) /\ FixedInPlan
    BY <1>2 DEF PlanMore, PeopleTypes, TypeOK, PlanApart
  <2>3. FitsIn(more)
    BY <2>2, NextFitsIn
  <2>4. Separation \in Nat
    <3>1. manager.kind \in Kinds
      BY <2>2, ManagerAssumption
    <3>. QED
      BY <2>2, <3>1, ConfigAssumption DEF Separation, Kinds
  <2>5. ApartIn(plan \o more)
    BY <2>2, <2>3, <2>4, ApartAppended
  <2>6. ApartIn(plan)'
    BY <2>1, <2>2, <2>5 DEF ApartIn, Separation, Strangers
  <2>7. ASSUME manager.kind = "pedestrian", manager.cfg.profile \in FixedRoutes
        PROVE  \A i \in DOMAIN (plan \o more) :
                   Start((plan \o more)[i])
                       = FixedRoute(manager.cfg, manager.cfg.profile, i - 1)[1]
    <3>. DEFINE at(k) == FixedRoute(manager.cfg, manager.cfg.profile, k)[1]
                all == plan \o more
    <3>1. Separation <= 100
      BY <2>2, <2>7 DEF MetreIsEnough, Separation
    <3>2. Len(plan) \in Nat /\ \E e : more = <<e>> /\ Start(e) = at(Len(plan))
      BY <2>2, <2>7, <3>1, FixedFitsIn
    <3>3. Len(more) = 1 /\ Start(more[1]) = at(Len(plan))
      BY <3>2
    <3>4. \A i \in DOMAIN plan : Start(plan[i]) = at(i - 1)
      BY <2>2, <2>7 DEF FixedInPlan
    <3>. HIDE DEF at
    <3>5. /\ DOMAIN plan = 1..Len(plan) /\ Len(plan) \in Nat /\ IsSequence(all)
          /\ Len(all) = Len(plan) + 1
          /\ \A i \in 1..(Len(plan) + 1) :
                all[i] = IF i <= Len(plan) THEN plan[i] ELSE more[i - Len(plan)]
      BY <2>2, <2>3, <3>3, Appended DEF FitsIn
    <3>. HIDE DEF all
    <3>6. DOMAIN all = 1..(Len(plan) + 1)
      BY <3>5, LenProperties DEF IsSequence
    <3>7. ASSUME NEW i \in DOMAIN all PROVE Start(all[i]) = at(i - 1)
      <4>1. CASE i <= Len(plan)
        BY <3>4, <3>5, <3>6, <4>1
      <4>2. CASE i = Len(plan) + 1
        <5>1. all[i] = more[1] /\ i - 1 = Len(plan)
          BY <3>5, <3>6, <4>2
        <5>. QED
          BY <3>3, <5>1
      <4>. QED
        BY <3>5, <3>6, <4>1, <4>2
    <3>. QED
      BY <3>7 DEF at, all
  <2>8. FixedInPlan'
    BY <2>1, <2>2, <2>7 DEF FixedInPlan
  <2>. QED
    BY <2>6, <2>8 DEF PlanApart
<1>. QED
  BY <1>1, <1>2
  DEF Next, vars, planVars, PlanRaises, Initialised, SpawnServiceFound, SpawnServiceMissing,
      CallSpawn, SpawnReturns, SpawnLoopEnds, Tick, Clock, SetServiceUp, GazeboSpawns,
      GazeboMoves, MoveLost

\* Strangers start at least min_separation apart: whatever the sampler draws, whatever
\* obstacles stand around, and for crowds of any size and groups of any spacing.
THEOREM PeopleStartApart == ASSUME MetreIsEnough PROVE Spec => []StartsApart
<1>1. Init => PlanApart
  BY DEF Init, PlanApart, ApartIn, FixedInPlan
<1>2. PeopleTypes /\ PlanApart /\ [Next]_vars => PlanApart'
  BY PlanApartStep
<1>3. PlanApart => StartsApart
  BY DEF PlanApart, ApartIn, StartsApart, Strangers, Separation, Agents
<1>. QED
  BY <1>1, <1>2, <1>3, TypesHold, PTL DEF Spec

-----------------------------------------------------------------------------
(***************************************************************************)
(* People who do not jump.  A pose is computed from the time alone: the    *)
(* way walked by then, what is left of it after turning at the ends of the *)
(* route, the leg this is on, and a point of the leg, rounded.  A lemma    *)
(* for each says that it moves no faster than the one before.              *)
(***************************************************************************)

\* Every number has a root, rounded down.
LEMMA RootExists ==
    ASSUME NEW m \in Nat, NEW b \in Nat, m < (b + 1) * (b + 1)
    PROVE  \E n \in 0..b : n * n <= m /\ m < (n + 1) * (n + 1)
<1>. DEFINE S == {n \in Nat : m < (n + 1) * (n + 1)}
            n == Min(S)
<1>1. S \subseteq Nat /\ b \in S
  OBVIOUS
<1>2. n \in S /\ \A y \in S : n <= y
  BY <1>1, LeastOf
<1>3. n \in 0..b /\ m < (n + 1) * (n + 1)
  BY <1>1, <1>2
<1>4. n = 0 \/ n - 1 \notin S
  BY <1>2
<1>. HIDE DEF n
<1>5. n * n <= m
  <2>1. CASE n = 0
    BY <2>1
  <2>2. CASE n # 0
    <3>1. n - 1 \in Nat /\ n = (n - 1) + 1
      BY <1>3, <2>2
    <3>2. ~ (m < ((n - 1) + 1) * ((n - 1) + 1))
      BY <1>4, <2>2, <3>1
    <3>3. n * n \in Int /\ ~ (m < n * n)
      BY <3>1, <3>2
    <3>. QED
      BY <3>3
  <2>. QED
    BY <2>1, <2>2
<1>. QED
  BY <1>3, <1>5

\* The length of a leg, rounded down; of one along an axis it is exact.
LEMMA HypotIs ==
    ASSUME NEW dx \in Int, NEW dy \in Int
    PROVE  /\ Hypot(dx, dy) \in Nat
           /\ Hypot(dx, dy) * Hypot(dx, dy) <= dx * dx + dy * dy
           /\ dx * dx + dy * dy < (Hypot(dx, dy) + 1) * (Hypot(dx, dy) + 1)
           /\ dy = 0 => dx = Hypot(dx, dy) \/ dx = -Hypot(dx, dy)
<1>. DEFINE m == dx * dx + dy * dy
            b == Abs(dx) + Abs(dy)
<1>1. Abs(dx) \in Nat /\ Abs(dy) \in Nat /\ (dx = Abs(dx) \/ dx = -Abs(dx))
      /\ (dy = Abs(dy) \/ dy = -Abs(dy))
  BY DEF Abs
<1>2. Abs(dx) * Abs(dx) = dx * dx /\ Abs(dy) * Abs(dy) = dy * dy
  <2>1. \A x, y \in Int : x = y \/ x = -y => y * y = x * x
    OBVIOUS
  <2>. QED
    BY <1>1, <2>1
<1>3. CASE dx = 0 \/ dy = 0
  <2>1. Hypot(dx, dy) = b
    BY <1>3 DEF Hypot
  <2>2. b * b = m /\ b \in Nat /\ (dy = 0 => dx = b \/ dx = -b)
    <3>1. CASE dx = 0
      BY <1>1, <1>2, <3>1
    <3>2. CASE dy = 0
      BY <1>1, <1>2, <3>2
    <3>. QED
      BY <1>3, <3>1, <3>2
  <2>. HIDE DEF b
  <2>3. b * b < (b + 1) * (b + 1)
    BY <2>2
  <2>. QED
    BY <2>1, <2>2, <2>3
<1>4. CASE ~ (dx = 0 \/ dy = 0)
  <2>. DEFINE root(n) == n * n <= dx * dx + dy * dy /\ dx * dx + dy * dy < (n + 1) * (n + 1)
  <2>1. Hypot(dx, dy) = CHOOSE n \in 0..b : root(n)
    BY <1>4 DEF Hypot
  <2>2. m \in Nat /\ b \in Nat
    BY <1>1, <1>2
  <2>3. (b + 1) * (b + 1) = m + 2 * (Abs(dx) * Abs(dy)) + 2 * b + 1
    <3>1. \A x, y \in Int : (x + y + 1) * (x + y + 1) = x * x + y * y + 2 * (x * y) + 2 * (x + y) + 1
      OBVIOUS
    <3>2. (Abs(dx) + Abs(dy) + 1) * (Abs(dx) + Abs(dy) + 1)
              = Abs(dx) * Abs(dx) + Abs(dy) * Abs(dy) + 2 * (Abs(dx) * Abs(dy))
                    + 2 * (Abs(dx) + Abs(dy)) + 1
      BY <1>1, <3>1
    <3>. QED
      BY <1>2, <3>2
  <2>4. Abs(dx) * Abs(dy) \in Nat
    BY <1>1
  <2>5. m < (b + 1) * (b + 1)
    BY <2>2, <2>3, <2>4
  <2>6. \E n \in 0..b : root(n)
    <3>. HIDE DEF b
    <3>. QED
      BY <2>2, <2>5, RootExists
  <2>. HIDE DEF root, b
  <2>7. Hypot(dx, dy) \in 0..b /\ root(Hypot(dx, dy))
    BY <2>1, <2>6
  <2>8. Hypot(dx, dy) \in Nat
    BY <2>2, <2>7
  <2>. QED
    BY <1>4, <2>7, <2>8 DEF root
<1>. QED
  BY <1>3, <1>4

\* Rounding down
LEMMA RoundedDown ==
    ASSUME NEW a \in Int, NEW d \in Nat \ {0}
    PROVE  /\ a \div d \in Int
           /\ d * (a \div d) <= a /\ a < d * (a \div d) + d
OBVIOUS

\* Exact multiples
LEMMA RoundedExactly ==
    ASSUME NEW a \in Int, NEW d \in Nat \ {0}
    PROVE  (d * a) \div d = a /\ ((-d) * a) \div d = -a
<1>1. \A q, r \in Int : d * q <= d * r /\ d * r < d * q + d => q = r
  OBVIOUS
<1>. DEFINE q == (d * a) \div d
            r == ((-d) * a) \div d
<1>2. d * a \in Int /\ (-d) * a \in Int /\ (-d) * a = d * (-a) /\ -a \in Int
  OBVIOUS
<1>3. q \in Int /\ d * q <= d * a /\ d * a < d * q + d
  BY <1>2, RoundedDown
<1>4. r \in Int /\ d * r <= d * (-a) /\ d * (-a) < d * r + d
  BY <1>2, RoundedDown
<1>. HIDE DEF q, r
<1>5. q = a /\ r = -a
  BY <1>1, <1>2, <1>3, <1>4
<1>. QED
  BY <1>5 DEF q, r

\* Two numbers times two others, not below 0: the square of their product.
LEMMA OnOneLeg ==
    ASSUME NEW dx \in Int, NEW dy \in Int, NEW len \in Nat \ {0}, len = Hypot(dx, dy),
           NEW u \in Nat, NEW w \in Nat, u <= w, w <= len,
           NEW X, X = (dx * w) \div len - (dx * u) \div len,
           NEW Y, Y = (dy * w) \div len - (dy * u) \div len
    PROVE  X \in Int /\ Y \in Int /\ X * X + Y * Y < (w - u + 3) * (w - u + 3)
<1>. DEFINE m == w - u
            e == len * X - dx * m
            f == len * Y - dy * m
            hh == dx * dx + dy * dy
            ee == e * e + f * f
            me == dx * e + dy * f
            cr == dx * f - dy * e
<1>1. m \in Nat /\ m <= len
  OBVIOUS
<1>2. ASSUME NEW d \in Int, NEW Z, Z = (d * w) \div len - (d * u) \div len
      PROVE  Z \in Int /\ len * Z - d * m < len /\ -len < len * Z - d * m
  <2>. DEFINE a == (d * w) \div len
              b == (d * u) \div len
  <2>1. d * w \in Int /\ d * u \in Int /\ d * m = d * w - d * u
    OBVIOUS
  <2>2. a \in Int /\ len * a <= d * w /\ d * w < len * a + len
    BY <2>1, RoundedDown
  <2>3. b \in Int /\ len * b <= d * u /\ d * u < len * b + len
    BY <2>1, RoundedDown
  <2>. HIDE DEF a, b, m
  <2>4. len * (a - b) = len * a - len * b
    BY <2>2, <2>3
  <2>. QED
    BY <1>2, <2>1, <2>2, <2>3, <2>4 DEF a, b
<1>3. /\ X \in Int /\ e < len /\ -len < e
      /\ Y \in Int /\ f < len /\ -len < f
  BY <1>2
<1>4. hh < (len + 1) * (len + 1) /\ hh \in Nat
  <2>1. \A x \in Int : x * x \in Nat
    OBVIOUS
  <2>2. dx * dx \in Nat /\ dy * dy \in Nat
    BY <2>1
  <2>3. dx * dx + dy * dy < (Hypot(dx, dy) + 1) * (Hypot(dx, dy) + 1)
    BY HypotIs
  <2>. QED
    BY <2>2, <2>3
<1>5. e \in Int /\ f \in Int
  BY <1>1, <1>3
<1>. HIDE DEF m, e, f
<1>6. ee \in Nat /\ me \in Int /\ cr * cr \in Nat
  BY <1>5
<1>7. ee < 2 * (len * len)
  <2>1. \A x \in Int : x < len /\ -len < x => x * x < len * len
    OBVIOUS
  <2>2. e * e < len * len /\ f * f < len * len
    BY <1>3, <1>5, <2>1
  <2>. QED
    BY <1>5, <2>2
<1>8. me * me + cr * cr = hh * ee
  BY <1>5
<1>. HIDE DEF hh, ee, me, cr
<1>9. hh * ee <= ((len + 1) * (len + 1)) * (2 * (len * len))
  <2>1. (len + 1) * (len + 1) \in Nat /\ 2 * (len * len) \in Nat
    OBVIOUS
  <2>2. hh <= (len + 1) * (len + 1) /\ ee <= 2 * (len * len)
    BY <1>4, <1>6, <1>7
  <2>. QED
    BY <1>4, <1>6, <2>1, <2>2, Products, Zenon
<1>10. 2 * me <= 3 * (len * (len + 1))
  <2>. DEFINE k == len * (len + 1)
  <2>1. ((len + 1) * (len + 1)) * (2 * (len * len)) = 2 * (k * k) /\ k \in Nat
    OBVIOUS
  <2>. HIDE DEF k
  <2>2. me * me <= 2 * (k * k) /\ me * me \in Int /\ k * k \in Nat
    BY <1>6, <1>8, <1>9, <2>1
  <2>3. (2 * me) * (2 * me) = 4 * (me * me) /\ (3 * k) * (3 * k) = 9 * (k * k) /\ 3 * k \in Nat
    BY <1>6, <2>1
  <2>4. (2 * me) * (2 * me) <= (3 * k) * (3 * k) /\ 2 * me \in Int
    BY <1>6, <2>2, <2>3
  <2>. QED
    BY <2>3, <2>4, Squares DEF k
<1>11. (len * len) * (X * X + Y * Y) = (m * m) * hh + m * (2 * me) + ee
  <2>1. len * X = dx * m + e /\ len * Y = dy * m + f
    BY <1>1, <1>3, <1>5 DEF e, f
  <2>2. \A x, y, a, b, c, p, q \in Int : x = a * c + p /\ y = b * c + q =>
            x * x + y * y = (c * c) * (a * a + b * b) + c * (2 * (a * p + b * q)) + (p * p + q * q)
    OBVIOUS
  <2>3. (len * X) * (len * X) + (len * Y) * (len * Y) = (m * m) * hh + m * (2 * me) + ee
    <3>1. len * X \in Int /\ len * Y \in Int
      BY <1>3
    <3>. QED
      BY <1>1, <1>5, <2>1, <2>2, <3>1 DEF hh, me, ee
  <2>4. (len * X) * (len * X) + (len * Y) * (len * Y) = (len * len) * (X * X + Y * Y)
    BY <1>3
  <2>. QED
    BY <2>3, <2>4
<1>12. (m * m) * hh <= (m * m) * (len * len + 2 * len)
  <2>1. hh <= len * len + 2 * len
    BY <1>4
  <2>2. m * m \in Nat
    BY <1>1
  <2>. QED
    BY <1>4, <2>1, <2>2
<1>13. m * (2 * me) <= m * (3 * (len * (len + 1)))
  BY <1>1, <1>6, <1>10
<1>14. (len * len) * (X * X + Y * Y)
            < (m * m) * (len * len + 2 * len) + m * (3 * (len * (len + 1))) + 2 * (len * len)
  <2>1. /\ (m * m) * hh \in Int /\ m * (2 * me) \in Int /\ (m * m) * (len * len + 2 * len) \in Int
        /\ m * (3 * (len * (len + 1))) \in Int /\ 2 * (len * len) \in Int
    BY <1>1, <1>4, <1>6
  <2>. QED
    BY <1>6, <1>7, <1>11, <1>12, <1>13, <2>1
<1>15. (m * m) * (len * len + 2 * len) + m * (3 * (len * (len + 1))) + 2 * (len * len)
            <= (len * len) * ((m + 3) * (m + 3))
  <2>1. m * m <= m * len /\ m * len \in Nat /\ m * m \in Nat
    BY <1>1
  <2>2. 3 * (m * len) + 7 * len - 2 * (m * m) - 3 * m \in Nat
    BY <1>1, <2>1
  <2>3. (len * len) * ((m + 3) * (m + 3))
            - ((m * m) * (len * len + 2 * len) + m * (3 * (len * (len + 1))) + 2 * (len * len))
          = len * (3 * (m * len) + 7 * len - 2 * (m * m) - 3 * m)
    BY <1>1
  <2>4. \A a, b, c, d \in Int : a - b = c * d /\ c \in Nat /\ d \in Nat => b <= a
    OBVIOUS
  <2>. QED
    BY <1>1, <2>2, <2>3, <2>4
<1>16. (len * len) * (X * X + Y * Y) < (len * len) * ((m + 3) * (m + 3))
  BY <1>1, <1>3, <1>14, <1>15
<1>17. \A a, b, c \in Int : c > 0 /\ c * a < c * b => a < b
  OBVIOUS
<1>18. len * len \in Int /\ len * len > 0 /\ X * X + Y * Y \in Int /\ (m + 3) * (m + 3) \in Int
  BY <1>1, <1>3
<1>. QED
  BY <1>3, <1>16, <1>17, <1>18 DEF m

\* Who goes r straight on before a way of less than s is displaced by less than both.
LEMMA Further ==
    ASSUME NEW dx \in Int, NEW dy \in Int, NEW ox \in Int, NEW oy \in Int,
           NEW s \in Nat, NEW r \in Nat,
           ox * ox + oy * oy <= r * r, dx * dx + dy * dy < s * s
    PROVE  (dx + ox) * (dx + ox) + (dy + oy) * (dy + oy) < (s + r) * (s + r)
<1>. DEFINE ax == dx + ox
            ay == dy + oy
<1>. SUFFICES ASSUME ax * ax + ay * ay >= (s + r) * (s + r) PROVE FALSE
  <2>1. ax * ax + ay * ay \in Int /\ (s + r) * (s + r) \in Int
    OBVIOUS
  <2>. QED
    BY <2>1
<1>1. /\ ax \in Int /\ ay \in Int /\ -ox \in Int /\ -oy \in Int
      /\ (-ox) * (-ox) + (-oy) * (-oy) <= r * r
      /\ ax + (-ox) = dx /\ ay + (-oy) = dy
  OBVIOUS
<1>. HIDE DEF ax, ay
<1>2. (ax + (-ox)) * (ax + (-ox)) + (ay + (-oy)) * (ay + (-oy)) >= s * s
  BY <1>1, Shifted
<1>3. dx * dx + dy * dy >= s * s
  BY <1>1, <1>2
<1>. QED
  BY <1>3

\* What the routes of people and robots look like: one leg, or two of which the first goes
\* along x
Route(pts) ==
    /\ Len(pts) \in {2, 3}
    /\ \A i \in 1..Len(pts) : pts[i][1] \in Int /\ pts[i][2] \in Int
    /\ Len(pts) = 3 => pts[1][2] = pts[2][2]

\* The lengths of the legs and the way along them
LEMMA WayIs ==
    ASSUME NEW pts, Route(pts)
    PROVE  /\ \A i \in 1..(Len(pts) - 1) : SegLen(pts, i) \in Nat
           /\ Upto(pts)[0] = 0
           /\ Upto(pts)[1] = SegLen(pts, 1)
           /\ Len(pts) = 3 => Upto(pts)[2] = SegLen(pts, 1) + SegLen(pts, 2)
<1>. DEFINE n == Len(pts) - 1
<1>1. n \in {1, 2} /\ (n = 2 <=> Len(pts) = 3) /\ n + 1 = Len(pts)
  BY DEF Route
<1>2. \A i \in 1..n : SegLen(pts, i) \in Nat
  <2>1. ASSUME NEW i \in 1..n PROVE SegLen(pts, i) \in Nat
    <3>1. i \in 1..Len(pts) /\ i + 1 \in 1..Len(pts)
      BY <1>1
    <3>2. pts[i + 1][1] - pts[i][1] \in Int /\ pts[i + 1][2] - pts[i][2] \in Int
      BY <3>1 DEF Route
    <3>. QED
      BY <3>2, HypotIs DEF SegLen
  <2>. QED
    BY <2>1
<1>. DEFINE g == [i \in 0..n |-> IF i = 0 THEN 0 ELSE IF i = 1 THEN SegLen(pts, 1)
                                 ELSE SegLen(pts, 1) + SegLen(pts, 2)]
<1>3. g = [i \in 0..n |-> IF i = 0 THEN 0 ELSE g[i - 1] + SegLen(pts, i)]
  <2>1. ASSUME NEW i \in 0..n
        PROVE  g[i] = IF i = 0 THEN 0 ELSE g[i - 1] + SegLen(pts, i)
    <3>1. CASE i = 0
      BY <1>1, <3>1
    <3>2. CASE i = 1
      <4>1. 0 \in 0..n /\ 1 \in 0..n /\ 1 \in 1..n
        BY <1>1
      <4>2. g[0] = 0 /\ g[1] = SegLen(pts, 1) /\ SegLen(pts, 1) \in Nat
        BY <1>2, <4>1
      <4>. HIDE DEF g
      <4>. QED
        BY <3>2, <4>2
    <3>3. CASE i = 2
      <4>1. 1 \in 0..n /\ 2 \in 0..n
        BY <1>1, <3>3
      <4>2. g[1] = SegLen(pts, 1) /\ g[2] = SegLen(pts, 1) + SegLen(pts, 2)
        BY <4>1
      <4>. HIDE DEF g
      <4>. QED
        BY <3>3, <4>2
    <3>. QED
      BY <1>1, <3>1, <3>2, <3>3
  <2>. HIDE DEF n
  <2>. QED
    BY <2>1
<1>. HIDE DEF g
<1>. DEFINE upto == Upto(pts)
<1>4. upto = [i \in 0..n |-> IF i = 0 THEN 0 ELSE upto[i - 1] + SegLen(pts, i)]
  BY <1>3 DEF Upto
<1>. HIDE DEF upto
<1>5. \A i \in 0..n : upto[i] = IF i = 0 THEN 0 ELSE upto[i - 1] + SegLen(pts, i)
  BY <1>4, Zenon
<1>6. upto[0] = 0
  BY <1>1, <1>5
<1>7. upto[1] = SegLen(pts, 1)
  <2>1. 1 \in 0..n /\ 1 \in 1..n
    BY <1>1
  <2>2. upto[1] = upto[1 - 1] + SegLen(pts, 1)
    BY <1>5, <2>1
  <2>. QED
    BY <1>2, <1>6, <2>1, <2>2
<1>8. n = 2 => upto[2] = SegLen(pts, 1) + SegLen(pts, 2)
  <2>. SUFFICES ASSUME n = 2 PROVE upto[2] = SegLen(pts, 1) + SegLen(pts, 2)
    OBVIOUS
  <2>1. 2 \in 0..n
    BY <1>1
  <2>2. upto[2] = upto[2 - 1] + SegLen(pts, 2)
    BY <1>5, <2>1
  <2>. QED
    BY <1>7, <2>2
<1>. QED
  BY <1>1, <1>2, <1>6, <1>7, <1>8 DEF upto

\* The length of a route
Total(pts) == Upto(pts)[Len(pts) - 1]

\* The leg that is reached after s of the way, what lies before it, and the place
LegAt(pts, s) == IF SegLen(pts, 1) > 0 /\ s <= SegLen(pts, 1) THEN 1 ELSE 2
Before(pts, s) == IF LegAt(pts, s) = 1 THEN 0 ELSE SegLen(pts, 1)
PlaceAt(pts, s) ==
    LET leg == LegAt(pts, s)
    IN  [k \in 1..2 |-> pts[leg][k] + ((pts[leg + 1][k] - pts[leg][k]) * (s - Before(pts, s)))
                                         \div SegLen(pts, leg)]

\* The pose after s of the way is in the first leg that is long enough, whatever the speed.
LEMMA PoseAlongIs ==
    ASSUME NEW pts, Route(pts), NEW s \in Nat, s <= Total(pts), Total(pts) # 0
    PROVE  /\ LegAt(pts, s) \in 1..(Len(pts) - 1) /\ SegLen(pts, LegAt(pts, s)) \in Nat \ {0}
           /\ Before(pts, s) \in Nat /\ Before(pts, s) <= s
           /\ s <= Before(pts, s) + SegLen(pts, LegAt(pts, s))
           /\ \A v : PoseAlong(pts, s, v).p = PlaceAt(pts, s)
<1>. DEFINE n == Len(pts) - 1
            l1 == SegLen(pts, 1)
            l2 == SegLen(pts, 2)
            upto == Upto(pts)
            leg == LegAt(pts, s)
            long == {i \in 1..n : SegLen(pts, i) > 0 /\ upto[i] >= s}
<1>1. n \in {1, 2} /\ (n = 2 <=> Len(pts) = 3) /\ n + 1 = Len(pts)
  BY DEF Route
<1>2. /\ \A i \in 1..n : SegLen(pts, i) \in Nat
      /\ upto[0] = 0 /\ upto[1] = l1 /\ (n = 2 => upto[2] = l1 + l2)
  BY <1>1, WayIs
<1>3. l1 \in Nat /\ (n = 2 => l2 \in Nat)
  BY <1>1, <1>2
<1>4. s <= upto[n] /\ upto[n] # 0
  BY DEF Total
<1>. HIDE DEF upto, n
<1>5. /\ leg \in 1..n /\ SegLen(pts, leg) \in Nat \ {0}
      /\ Before(pts, s) = upto[leg - 1] /\ Before(pts, s) \in Nat /\ Before(pts, s) <= s
      /\ s <= Before(pts, s) + SegLen(pts, leg)
      /\ leg \in long /\ \A i \in long : leg <= i
  <2>1. CASE l1 > 0 /\ s <= l1
    <3>1. leg = 1 /\ Before(pts, s) = 0
      BY <2>1 DEF LegAt, Before
    <3>. HIDE DEF leg
    <3>2. 1 \in 1..n /\ 1 \in long
      BY <1>1, <1>2, <1>3, <2>1
    <3>. QED
      BY <1>2, <1>3, <2>1, <3>1, <3>2
  <2>2. CASE ~ (l1 > 0 /\ s <= l1)
    <3>1. leg = 2 /\ Before(pts, s) = l1
      BY <2>2 DEF LegAt, Before
    <3>. HIDE DEF leg
    <3>2. n = 2
      BY <1>1, <1>2, <1>3, <1>4, <2>2
    <3>3. s <= l1 + l2 /\ l1 <= s /\ l2 > 0
      BY <1>2, <1>3, <1>4, <2>2, <3>2
    <3>4. 1 \notin long /\ 2 \in long
      BY <1>2, <1>3, <2>2, <3>2, <3>3
    <3>5. \A i \in long : i = 1 \/ i = 2
      BY <3>2
    <3>6. \A i \in long : 2 <= i
      BY <3>4, <3>5
    <3>. QED
      BY <1>2, <1>3, <3>1, <3>2, <3>3, <3>4, <3>6
  <2>. QED
    BY <2>1, <2>2
<1>6. Min(long) = leg
  <2>1. long \subseteq Nat /\ long # {}
    BY <1>5
  <2>3. \A i \in long : i \in Int
    BY <2>1
  <2>. HIDE DEF long, leg
  <2>2. Min(long) \in long /\ \A i \in long : Min(long) <= i
    BY <2>1, LeastOf
  <2>. QED
    <3>1. leg \in Int /\ Min(long) \in Int
      <4>1. leg \in long /\ Min(long) \in long
        BY <1>5, <2>2
      <4>. QED
        BY <2>3, <4>1
    <3>2. leg <= Min(long) /\ Min(long) <= leg
      BY <1>5, <2>2
    <3>. QED
      BY <3>1, <3>2
<1>7. ASSUME NEW v
      PROVE  PoseAlong(pts, s, v).p = PlaceAt(pts, s)
  <2>. DEFINE at(j) == [k \in 1..2 |-> pts[j][k] + ((pts[j + 1][k] - pts[j][k]) * (s - upto[j - 1]))
                                             \div SegLen(pts, j)]
  <2>1. PoseAlong(pts, s, v).p = at(Min(long))
    BY DEF PoseAlong, upto, n
  <2>2. PlaceAt(pts, s) = at(leg)
    BY <1>5 DEF PlaceAt
  <2>. HIDE DEF long, leg, at
  <2>. QED
    BY <1>6, <2>1, <2>2
<1>. QED
  BY <1>5, <1>7 DEF n

\* What Closer says of the differences
LEMMA CloserIs ==
    ASSUME NEW p, NEW q, NEW d \in Int, NEW x \in Int, NEW y \in Int,
           p[1] \in Int, p[2] \in Int, q[1] \in Int, q[2] \in Int,
           x = p[1] - q[1], y = p[2] - q[2]
    PROVE  /\ Closer(p, q, d) <=> x * x + y * y < d * d
           /\ Closer(q, p, d) <=> x * x + y * y < d * d
<1>1. q[1] - p[1] = -x /\ q[2] - p[2] = -y
  OBVIOUS
<1>2. (-x) * (-x) = x * x /\ (-y) * (-y) = y * y
  OBVIOUS
<1>. QED
  BY <1>1, <1>2 DEF Closer

\* A walk of m along a route displaces by little more than m.
LEMMA PlacesAreClose ==
    ASSUME NEW pts, Route(pts), Total(pts) # 0,
           NEW s \in Nat, NEW z \in Nat, s <= z, z <= Total(pts)
    PROVE  LET x == PlaceAt(pts, z)[1] - PlaceAt(pts, s)[1]
               y == PlaceAt(pts, z)[2] - PlaceAt(pts, s)[2]
           IN  /\ \A k \in 1..2 : PlaceAt(pts, s)[k] \in Int /\ PlaceAt(pts, z)[k] \in Int
               /\ x * x + y * y < (z - s + 3) * (z - s + 3)
<1>. DEFINE n == Len(pts) - 1
            d(j, k) == pts[j + 1][k] - pts[j][k]
            len(j) == SegLen(pts, j)
            at(j, o, k) == (d(j, k) * o) \div len(j)
            i == LegAt(pts, s)
            j == LegAt(pts, z)
            u == s - Before(pts, s)
            w == z - Before(pts, z)
            x == PlaceAt(pts, z)[1] - PlaceAt(pts, s)[1]
            y == PlaceAt(pts, z)[2] - PlaceAt(pts, s)[2]
<1>1. n \in {1, 2} /\ (n = 2 <=> Len(pts) = 3) /\ n + 1 = Len(pts)
  BY DEF Route
<1>2. s <= Total(pts)
  <2>1. Total(pts) \in Int
    <3>1. Total(pts) = Upto(pts)[n]
      BY DEF Total
    <3>2. /\ SegLen(pts, 1) \in Nat /\ Upto(pts)[1] = SegLen(pts, 1)
          /\ n = 2 => SegLen(pts, 2) \in Nat /\ Upto(pts)[2] = SegLen(pts, 1) + SegLen(pts, 2)
      <4>1. 1 \in 1..n /\ (n = 2 => 2 \in 1..n)
        BY <1>1
      <4>2. \A a \in 1..n : SegLen(pts, a) \in Nat
        BY WayIs
      <4>. HIDE DEF n
      <4>. QED
        BY <1>1, <4>1, <4>2, WayIs
    <3>. HIDE DEF n
    <3>3. CASE n = 1
      BY <3>1, <3>2, <3>3
    <3>4. CASE n = 2
      BY <3>1, <3>2, <3>4
    <3>. QED
      BY <1>1, <3>3, <3>4
  <2>. QED
    BY <2>1
<1>3. /\ i \in 1..n /\ len(i) \in Nat \ {0} /\ u \in Nat /\ u <= len(i)
      /\ j \in 1..n /\ len(j) \in Nat \ {0} /\ w \in Nat /\ w <= len(j)
      /\ Before(pts, s) \in Nat /\ Before(pts, z) \in Nat
  <2>1. /\ i \in 1..n /\ len(i) \in Nat \ {0} /\ Before(pts, s) \in Nat /\ Before(pts, s) <= s
        /\ s <= Before(pts, s) + len(i)
    BY <1>2, PoseAlongIs
  <2>2. /\ j \in 1..n /\ len(j) \in Nat \ {0} /\ Before(pts, z) \in Nat /\ Before(pts, z) <= z
        /\ z <= Before(pts, z) + len(j)
    BY PoseAlongIs
  <2>. HIDE DEF i, j, len, n
  <2>. QED
    BY <2>1, <2>2
<1>4. /\ \A a \in 1..(n + 1), k \in 1..2 : pts[a][k] \in Int
      /\ \A a \in 1..n, k \in 1..2 : d(a, k) \in Int
      /\ \A a \in 1..n : len(a) = Hypot(d(a, 1), d(a, 2))
  <2>1. \A a \in 1..(n + 1), k \in 1..2 : pts[a][k] \in Int
    BY <1>1 DEF Route
  <2>2. \A a \in 1..n : a \in 1..(n + 1) /\ a + 1 \in 1..(n + 1)
    BY <1>1
  <2>3. \A a \in 1..n, k \in 1..2 : d(a, k) \in Int
    <3>. HIDE DEF n
    <3>. QED
      BY <2>1, <2>2
  <2>. QED
    BY <2>1, <2>3 DEF SegLen
<1>5. \A k \in 1..2 : /\ PlaceAt(pts, s)[k] = pts[i][k] + at(i, u, k)
                      /\ PlaceAt(pts, z)[k] = pts[j][k] + at(j, w, k)
  BY DEF PlaceAt
<1>6. \A k \in 1..2 : at(i, u, k) \in Int /\ at(j, w, k) \in Int /\ pts[i][k] \in Int /\ pts[j][k] \in Int
  <2>. HIDE DEF d, i, j, len, u, w
  <2>1. \A k \in 1..2 : d(i, k) \in Int /\ d(j, k) \in Int /\ pts[i][k] \in Int /\ pts[j][k] \in Int
    BY <1>1, <1>3, <1>4
  <2>2. \A k \in 1..2 : d(i, k) * u \in Int /\ d(j, k) * w \in Int
    BY <1>3, <2>1
  <2>. QED
    BY <1>3, <2>1, <2>2, RoundedDown
<1>7. CASE i = j
  <2>. DEFINE X == at(i, w, 1) - at(i, u, 1)
              Y == at(i, w, 2) - at(i, u, 2)
  <2>1. Before(pts, s) = Before(pts, z)
    BY <1>7 DEF Before
  <2>2. u <= w /\ w - u = z - s
    BY <1>3, <2>1
  <2>3. X * X + Y * Y < (w - u + 3) * (w - u + 3)
    <3>. HIDE DEF d, i, j, len, u, w, n
    <3>1. d(i, 1) \in Int /\ d(i, 2) \in Int /\ len(i) = Hypot(d(i, 1), d(i, 2))
      BY <1>3, <1>4
    <3>2. /\ len(i) \in Nat \ {0} /\ u \in Nat /\ w \in Nat /\ u <= w /\ w <= len(i)
          /\ X = (d(i, 1) * w) \div len(i) - (d(i, 1) * u) \div len(i)
          /\ Y = (d(i, 2) * w) \div len(i) - (d(i, 2) * u) \div len(i)
      BY <1>3, <1>7, <2>2
    <3>. HIDE DEF X, Y
    <3>. QED
      BY <3>1, <3>2, OnOneLeg, Zenon
  <2>4. x = X /\ y = Y
    <3>. HIDE DEF at, i, j, u, w
    <3>. QED
      BY <1>5, <1>6, <1>7
  <2>5. \A k \in 1..2 : PlaceAt(pts, s)[k] \in Int /\ PlaceAt(pts, z)[k] \in Int
    <3>. HIDE DEF at, i, j, u, w
    <3>. QED
      BY <1>5, <1>6
  <2>. HIDE DEF x, y, X, Y, u, w
  <2>. QED
    BY <2>2, <2>3, <2>4, <2>5 DEF x, y
<1>8. CASE i # j
  <2>1. i = 1 /\ j = 2 /\ n = 2
    <3>1. i \in {1, 2} /\ j \in {1, 2}
      <4>. HIDE DEF i, j, n
      <4>. QED
        BY <1>1, <1>3
    <3>2. ~ (i = 2 /\ j = 1)
      <4>1. SegLen(pts, 1) \in Int
        BY <1>1, WayIs
      <4>. QED
        BY <4>1 DEF LegAt
    <3>3. j = 2 => n = 2
      BY <1>1, <1>3
    <3>. HIDE DEF i, j, n
    <3>. QED
      BY <1>8, <3>1, <3>2, <3>3
  <2>2. Before(pts, s) = 0 /\ Before(pts, z) = len(1)
    BY <2>1 DEF Before
  <2>. DEFINE X == at(2, w, 1) - at(2, 0, 1)
              Y == at(2, w, 2) - at(2, 0, 2)
              r == len(1) - s
              ox == pts[2][1] - PlaceAt(pts, s)[1]
              oy == pts[2][2] - PlaceAt(pts, s)[2]
  <2>3. d(2, 1) \in Int /\ d(2, 2) \in Int /\ len(2) = Hypot(d(2, 1), d(2, 2)) /\ len(2) \in Nat \ {0}
        /\ d(1, 1) \in Int /\ d(1, 2) = 0 /\ len(1) = Hypot(d(1, 1), d(1, 2)) /\ len(1) \in Nat \ {0}
    <3>1. d(1, 2) = 0
      BY <1>1, <1>4, <2>1 DEF Route
    <3>. HIDE DEF d, len, i, j
    <3>. QED
      BY <1>3, <1>4, <2>1, <3>1
  <2>4. X \in Int /\ Y \in Int /\ X * X + Y * Y < (w - 0 + 3) * (w - 0 + 3)
    <3>. HIDE DEF d, i, j, len, w
    <3>1. /\ w \in Nat /\ 0 \in Nat /\ 0 <= w /\ w <= len(2)
          /\ X = (d(2, 1) * w) \div len(2) - (d(2, 1) * 0) \div len(2)
          /\ Y = (d(2, 2) * w) \div len(2) - (d(2, 2) * 0) \div len(2)
      BY <1>3, <2>1
    <3>. HIDE DEF X, Y
    <3>. QED
      BY <2>3, <3>1, OnOneLeg, Zenon
  <2>5. at(2, 0, 1) = 0 /\ at(2, 0, 2) = 0
    <3>1. \A a \in Int, b \in Nat \ {0} : (a * 0) \div b = 0
      OBVIOUS
    <3>. HIDE DEF d, len
    <3>. QED
      BY <2>3, <3>1
  <2>6. (at(1, s, 1) = s /\ d(1, 1) = len(1)) \/ (at(1, s, 1) = -s /\ d(1, 1) = -len(1))
    <3>1. d(1, 1) = len(1) \/ d(1, 1) = -len(1)
      <4>. HIDE DEF d, len
      <4>. QED
        BY <2>3, HypotIs
    <3>2. (len(1) * s) \div len(1) = s /\ ((-len(1)) * s) \div len(1) = -s
      <4>. HIDE DEF len, d
      <4>1. len(1) \in Nat \ {0} /\ s \in Int
        BY <2>3
      <4>. QED
        BY <4>1, RoundedExactly, Zenon
    <3>. HIDE DEF d, len
    <3>. QED
      BY <3>1, <3>2
  <2>7. at(1, s, 2) = 0
    <3>1. \A b \in Nat \ {0} : (0 * s) \div b = 0
      OBVIOUS
    <3>. HIDE DEF d, len
    <3>. QED
      BY <2>3, <3>1
  <2>8. /\ ox = d(1, 1) - at(1, s, 1) /\ oy = 0 /\ ox \in Int
        /\ PlaceAt(pts, s)[1] \in Int /\ PlaceAt(pts, s)[2] \in Int
    <3>1. u = s
      BY <2>2
    <3>2. /\ PlaceAt(pts, s)[1] = pts[1][1] + at(1, s, 1)
          /\ PlaceAt(pts, s)[2] = pts[1][2] + at(1, s, 2)
      <4>. HIDE DEF i, u, at
      <4>. QED
        BY <1>5, <2>1, <3>1
    <3>3. /\ pts[1][1] \in Int /\ pts[1][2] \in Int /\ pts[2][1] \in Int /\ pts[2][2] \in Int
          /\ pts[2][2] = pts[1][2]
      BY <1>1, <1>4, <2>1 DEF Route
    <3>4. at(1, s, 1) \in Int
      <4>. HIDE DEF at, d, len
      <4>. QED
        BY <2>6
    <3>. HIDE DEF at
    <3>. QED
      BY <2>7, <3>2, <3>3, <3>4
  <2>9. r \in Nat /\ ox * ox + oy * oy <= r * r
    <3>1. u = s /\ i = 1
      BY <2>1, <2>2
    <3>2. r \in Nat
      <4>. HIDE DEF u, i, len
      <4>. QED
        BY <1>3, <3>1
    <3>3. ox = r \/ ox = -r
      <4>. HIDE DEF at, d, len, ox, oy
      <4>. QED
        BY <2>3, <2>6, <2>8
    <3>4. \A a, b \in Int : (a = b \/ a = -b) => a * a + 0 * 0 <= b * b
      OBVIOUS
    <3>. HIDE DEF r, ox, oy
    <3>. QED
      BY <2>8, <3>2, <3>3, <3>4
  <2>10. /\ x = X + ox /\ y = Y + oy
         /\ PlaceAt(pts, z)[1] \in Int /\ PlaceAt(pts, z)[2] \in Int
    <3>1. /\ PlaceAt(pts, z)[1] = pts[2][1] + at(2, w, 1)
          /\ PlaceAt(pts, z)[2] = pts[2][2] + at(2, w, 2)
          /\ at(2, w, 1) \in Int /\ at(2, w, 2) \in Int
      <4>. HIDE DEF j, w, at
      <4>. QED
        BY <1>5, <1>6, <2>1
    <3>2. pts[2][1] \in Int /\ pts[2][2] \in Int
      BY <1>1, <1>4, <2>1
    <3>. HIDE DEF at, w
    <3>. QED
      BY <2>5, <2>8, <3>1, <3>2
  <2>11. w + 3 \in Nat /\ w + 3 + r = z - s + 3
    <3>1. w = z - len(1)
      BY <2>2
    <3>. HIDE DEF w, len, d, i, j
    <3>2. w \in Nat /\ len(1) \in Nat
      BY <1>3, <2>3
    <3>. QED
      BY <3>1, <3>2
  <2>12. X * X + Y * Y < (w + 3) * (w + 3)
    <3>1. w - 0 + 3 = w + 3
      BY <1>3
    <3>. HIDE DEF X, Y, w
    <3>. QED
      BY <2>4, <3>1
  <2>13. (X + ox) * (X + ox) + (Y + oy) * (Y + oy) < (w + 3 + r) * (w + 3 + r)
    <3>1. oy \in Int
      BY <2>8
    <3>. HIDE DEF X, Y, w, ox, oy, r
    <3>. QED
      BY <2>4, <2>8, <2>9, <2>11, <2>12, <3>1, Further
  <2>14. \A k \in 1..2 : PlaceAt(pts, s)[k] \in Int /\ PlaceAt(pts, z)[k] \in Int
    <3>1. \A k \in 1..2 : k = 1 \/ k = 2
      OBVIOUS
    <3>. QED
      BY <2>8, <2>10, <3>1
  <2>. HIDE DEF x, y, X, Y, w, ox, oy, r
  <2>. QED
    BY <2>10, <2>11, <2>13, <2>14 DEF x, y
<1>. QED
  BY <1>7, <1>8

\* Where on a route of some length somebody is who has walked out and back
Out(total, dist) ==
    IF dist % (2 * total) <= total THEN dist % (2 * total)
    ELSE 2 * total - (dist % (2 * total))

\* At the turns nobody gets anywhere faster than on foot.
LEMMA OutAndBack ==
    ASSUME NEW T \in Nat \ {0}, NEW a \in Nat, NEW b \in Nat, a <= b
    PROVE  /\ Out(T, a) \in 0..T /\ Out(T, b) \in 0..T
           /\ Out(T, a) - Out(T, b) <= b - a /\ Out(T, b) - Out(T, a) <= b - a
<1>. DEFINE p == 2 * T
            qa == a \div p
            ra == a % p
            qb == b \div p
            rb == b % p
<1>1. p \in Nat \ {0} /\ p = T + T
  OBVIOUS
<1>2. \A n \in Nat, d \in Nat \ {0} :
          n \div d \in Nat /\ n % d \in 0..(d - 1) /\ n = d * (n \div d) + (n % d)
  OBVIOUS
<1>3. /\ qa \in Nat /\ ra \in 0..(p - 1) /\ a = p * qa + ra
      /\ qb \in Nat /\ rb \in 0..(p - 1) /\ b = p * qb + rb
  <2>. HIDE DEF p
  <2>. QED
    BY <1>1, <1>2
<1>4. /\ Out(T, a) = (IF ra <= T THEN ra ELSE p - ra)
      /\ Out(T, b) = (IF rb <= T THEN rb ELSE p - rb)
  BY DEF Out
<1>. HIDE DEF p, qa, ra, qb, rb
<1>5. Out(T, a) \in 0..T /\ Out(T, b) \in 0..T
  BY <1>1, <1>3, <1>4
<1>6. \A x, y \in Nat : x < y => p * x + p <= p * y
  <2>1. ASSUME NEW x \in Nat, NEW y \in Nat, x < y
        PROVE  p * x + p <= p * y
    <3>1. p * (x + 1) <= p * y
      BY <1>1, <2>1, Products
    <3>2. p * (x + 1) = p * x + p
      BY <1>1
    <3>. QED
      BY <3>1, <3>2
  <2>. QED
    BY <2>1
<1>7. p * qa \in Int /\ p * qb \in Int
  BY <1>1, <1>3
<1>8. CASE qa = qb
  BY <1>1, <1>3, <1>4, <1>7, <1>8
<1>9. CASE qa < qb
  <2>1. p * qa + p <= p * qb
    BY <1>3, <1>6, <1>9
  <2>. QED
    BY <1>1, <1>3, <1>4, <1>7, <2>1
<1>10. CASE qb < qa
  <2>1. p * qb + p <= p * qa
    BY <1>3, <1>6, <1>10
  <2>. QED
    BY <1>1, <1>3, <1>7, <2>1
<1>. QED
  BY <1>3, <1>5, <1>8, <1>9, <1>10

\* What pose_at_time takes of a person or a robot
Walks(ped) ==
    Route(ped.waypoints) /\ ped.speed \in Nat /\ ped.stop \in Int /\ ped.hold \in Nat

\* Who is in the way of nobody is closer than any larger distance, too.
LEMMA CloserGrows ==
    ASSUME NEW p, NEW q, NEW d \in Nat, NEW e \in Nat, d <= e, Closer(p, q, d),
           p[1] \in Int, p[2] \in Int, q[1] \in Int, q[2] \in Int
    PROVE  Closer(p, q, e)
<1>. DEFINE x == p[1] - q[1]
            y == p[2] - q[2]
<1>1. x \in Int /\ y \in Int
  OBVIOUS
<1>2. x * x + y * y < d * d
  BY DEF Closer
<1>3. d * d <= e * e /\ d * d \in Int /\ e * e \in Int
  <2>1. d * d <= e * e
    BY Products
  <2>. QED
    BY <2>1
<1>4. x * x + y * y \in Int
  BY <1>1
<1>5. x * x + y * y < e * e
  <2>. HIDE DEF x, y
  <2>. QED
    BY <1>2, <1>3, <1>4
<1>. QED
  BY <1>5 DEF Closer

\* The pose after a walk, out and back
LEMMA PoseOnRouteIs ==
    ASSUME NEW ped, Walks(ped), NEW dist \in Nat
    PROVE  LET pts == ped.waypoints
           IN  /\ Total(pts) \in Nat
               /\ Total(pts) = 0 \/ ped.speed = 0 => PoseOnRoute(ped, dist).p = pts[1]
               /\ Total(pts) # 0 /\ ped.speed # 0 =>
                        PoseOnRoute(ped, dist).p = PlaceAt(pts, Out(Total(pts), dist))
<1>. DEFINE pts == ped.waypoints
            T == Total(pts)
            d == dist % (2 * T)
            n == Len(pts) - 1
<1>1. Route(pts) /\ ped.speed \in Nat
  BY DEF Walks
<1>2. T \in Nat
  <2>1. n = 1 \/ (n = 2 /\ Len(pts) = 3)
    BY <1>1 DEF Route
  <2>2. \A i \in 1..n : SegLen(pts, i) \in Nat
    BY <1>1, WayIs
  <2>3. /\ Upto(pts)[1] = SegLen(pts, 1)
        /\ Len(pts) = 3 => Upto(pts)[2] = SegLen(pts, 1) + SegLen(pts, 2)
    BY <1>1, WayIs
  <2>4. T = Upto(pts)[n]
    BY DEF Total
  <2>. HIDE DEF n, pts, T
  <2>5. CASE n = 1
    BY <2>2, <2>3, <2>4, <2>5
  <2>6. CASE n = 2 /\ Len(pts) = 3
    BY <2>2, <2>3, <2>4, <2>6
  <2>. QED
    BY <2>1, <2>5, <2>6
<1>3. PoseOnRoute(ped, dist) = IF T = 0 \/ ped.speed <= 0 THEN Standing(pts[1])
                               ELSE IF d <= T THEN PoseAlong(pts, d, ped.speed)
                               ELSE PoseAlong(pts, 2 * T - d, -ped.speed)
  BY DEF PoseOnRoute, Total
<1>4. CASE T = 0 \/ ped.speed = 0
  <2>1. PoseOnRoute(ped, dist) = Standing(pts[1])
    BY <1>1, <1>3, <1>4
  <2>2. PoseOnRoute(ped, dist).p = pts[1]
    BY <2>1 DEF Standing
  <2>. HIDE DEF T, pts
  <2>. QED
    BY <1>2, <1>4, <2>2 DEF T, pts
<1>5. CASE T # 0 /\ ped.speed # 0
  <2>. DEFINE out == Out(T, dist)
  <2>1. out \in 0..T
    <3>1. dist <= dist
      OBVIOUS
    <3>. HIDE DEF T
    <3>. QED
      BY <1>2, <1>5, <3>1, OutAndBack
  <2>2. \E v : PoseOnRoute(ped, dist) = PoseAlong(pts, out, v)
    <3>1. ~ (ped.speed <= 0)
      BY <1>1, <1>5
    <3>2. CASE d <= T
      BY <1>3, <1>5, <3>1, <3>2 DEF Out
    <3>3. CASE ~ (d <= T)
      BY <1>3, <1>5, <3>1, <3>3 DEF Out
    <3>. QED
      BY <3>2, <3>3
  <2>3. \A v : PoseAlong(pts, out, v).p = PlaceAt(pts, out)
    <3>1. out \in Nat /\ out <= T
      BY <1>2, <2>1
    <3>. HIDE DEF out
    <3>. QED
      BY <1>1, <1>5, <3>1, PoseAlongIs
  <2>. HIDE DEF out
  <2>4. PoseOnRoute(ped, dist).p = PlaceAt(pts, out)
    BY <2>2, <2>3
  <2>. HIDE DEF T, pts
  <2>. QED
    BY <1>2, <1>5, <2>4 DEF T, pts, out
<1>. QED
  BY <1>4, <1>5

\* A walk from a to b, however often it turns, displaces by little more than b - a.
LEMMA WalkIsShort ==
    ASSUME NEW ped, Walks(ped), NEW a \in Nat, NEW b \in Nat, a <= b
    PROVE  LET p == PoseOnRoute(ped, a).p
               q == PoseOnRoute(ped, b).p
           IN  /\ p[1] \in Int /\ p[2] \in Int /\ q[1] \in Int /\ q[2] \in Int
               /\ Closer(q, p, b - a + 3)
<1>. DEFINE pts == ped.waypoints
            T == Total(pts)
            p == PoseOnRoute(ped, a).p
            q == PoseOnRoute(ped, b).p
<1>1. Route(pts) /\ pts[1][1] \in Int /\ pts[1][2] \in Int
  <2>1. Route(pts)
    BY DEF Walks
  <2>2. 1 \in 1..Len(pts)
    BY <2>1 DEF Route
  <2>. HIDE DEF pts
  <2>. QED
    BY <2>1, <2>2 DEF Route
<1>2. T \in Nat /\ b - a + 3 \in Nat
  BY PoseOnRouteIs
<1>3. CASE T = 0 \/ ped.speed = 0
  <2>1. p = pts[1] /\ q = pts[1]
    BY <1>3, PoseOnRouteIs
  <2>. HIDE DEF pts, T, p, q
  <2>2. p[1] - q[1] = 0 /\ p[2] - q[2] = 0 /\ q[1] - p[1] = 0 /\ q[2] - p[2] = 0
    BY <1>1, <2>1
  <2>3. 0 * 0 + 0 * 0 < (b - a + 3) * (b - a + 3)
    BY <1>2
  <2>4. Closer(q, p, b - a + 3)
    BY <2>2, <2>3 DEF Closer
  <2>. QED
    BY <1>1, <2>1, <2>4 DEF p, q
<1>4. CASE T # 0 /\ ped.speed # 0
  <2>. DEFINE s == Out(T, a)
              z == Out(T, b)
  <2>1. p = PlaceAt(pts, s) /\ q = PlaceAt(pts, z)
    BY <1>4, PoseOnRouteIs
  <2>2. s \in 0..T /\ z \in 0..T /\ s - z <= b - a /\ z - s <= b - a
    <3>. HIDE DEF T
    <3>. QED
      BY <1>2, <1>4, OutAndBack
  <2>. HIDE DEF s, z, p, q
  <2>. DEFINE x == PlaceAt(pts, z)[1] - PlaceAt(pts, s)[1]
              y == PlaceAt(pts, z)[2] - PlaceAt(pts, s)[2]
              xx == PlaceAt(pts, s)[1] - PlaceAt(pts, z)[1]
              yy == PlaceAt(pts, s)[2] - PlaceAt(pts, z)[2]
  <2>3. s \in Nat /\ z \in Nat /\ s <= T /\ z <= T
    BY <1>2, <2>2
  <2>4. CASE s <= z
    <3>1. /\ \A k \in 1..2 : PlaceAt(pts, s)[k] \in Int /\ PlaceAt(pts, z)[k] \in Int
          /\ x * x + y * y < (z - s + 3) * (z - s + 3)
      BY <1>1, <1>4, <2>3, <2>4, PlacesAreClose
    <3>2. 1 \in 1..2 /\ 2 \in 1..2 /\ z - s + 3 \in Nat /\ z - s + 3 <= b - a + 3
      BY <2>2, <2>3, <2>4
    <3>. HIDE DEF pts, T
    <3>3. p[1] \in Int /\ p[2] \in Int /\ q[1] \in Int /\ q[2] \in Int
      BY <2>1, <3>1, <3>2
    <3>4. Closer(q, p, z - s + 3)
      BY <2>1, <3>1 DEF Closer
    <3>5. Closer(q, p, b - a + 3)
      BY <1>2, <3>2, <3>3, <3>4, CloserGrows
    <3>. QED
      BY <3>3, <3>5 DEF p, q
  <2>5. CASE z <= s
    <3>1. /\ \A k \in 1..2 : PlaceAt(pts, s)[k] \in Int /\ PlaceAt(pts, z)[k] \in Int
          /\ xx * xx + yy * yy < (s - z + 3) * (s - z + 3)
      BY <1>1, <1>4, <2>3, <2>5, PlacesAreClose
    <3>2. 1 \in 1..2 /\ 2 \in 1..2 /\ s - z + 3 \in Nat /\ s - z + 3 <= b - a + 3
      BY <2>2, <2>3, <2>5
    <3>. HIDE DEF pts, T
    <3>3. p[1] \in Int /\ p[2] \in Int /\ q[1] \in Int /\ q[2] \in Int
      BY <2>1, <3>1, <3>2
    <3>4. Closer(q, p, s - z + 3)
      <4>1. xx = p[1] - q[1] /\ yy = p[2] - q[2] /\ xx \in Int /\ yy \in Int
        BY <2>1, <3>3
      <4>2. xx * xx + yy * yy < (s - z + 3) * (s - z + 3)
        BY <3>1
      <4>3. s - z + 3 \in Int
        BY <3>2
      <4>. HIDE DEF xx, yy
      <4>. QED
        BY <3>3, <4>1, <4>2, <4>3, CloserIs
    <3>5. Closer(q, p, b - a + 3)
      BY <1>2, <3>2, <3>3, <3>4, CloserGrows
    <3>. QED
      BY <3>3, <3>5 DEF p, q
  <2>. QED
    BY <2>3, <2>4, <2>5
<1>. QED
  BY <1>2, <1>3, <1>4

\* How far somebody has walked at a time, whom a stop may have held up
Walked(ped, at) ==
    LET walked == ped.speed * at
        held   == ped.speed * ped.hold
    IN  IF ped.stop < 0 \/ walked < ped.stop THEN walked
        ELSE IF walked < ped.stop + held THEN ped.stop
        ELSE walked - held

\* Between two times nobody is displaced by much more than a walk at the planned speed.
LEMMA PoseIsClose ==
    ASSUME NEW ped, Walks(ped), NEW a \in Nat, NEW b \in Nat, a <= b
    PROVE  Closer(PoseAtTime(ped, b).p, PoseAtTime(ped, a).p, ped.speed * (b - a) + 3)
<1>. DEFINE v == ped.speed
            h == v * ped.hold
            m == Walked(ped, a)
            n == Walked(ped, b)
<1>1. v \in Nat /\ ped.stop \in Int /\ h \in Nat
  BY DEF Walks
<1>2. ASSUME NEW at \in Nat
      PROVE  PoseAtTime(ped, at).p = PoseOnRoute(ped, Walked(ped, at)).p
  <2>. DEFINE w == ped.speed * at
  <2>1. CASE ped.stop < 0 \/ w < ped.stop
    BY <2>1 DEF PoseAtTime, Walked
  <2>2. CASE ~ (ped.stop < 0 \/ w < ped.stop)
    <3>1. CASE w < ped.stop + h
      BY <2>2, <3>1 DEF PoseAtTime, Walked, Standing
    <3>2. CASE ~ (w < ped.stop + h)
      BY <2>2, <3>2 DEF PoseAtTime, Walked
    <3>. QED
      BY <3>1, <3>2
  <2>. QED
    BY <2>1, <2>2
<1>3. v * a \in Nat /\ v * b \in Nat /\ v * (b - a) = v * b - v * a /\ v * (b - a) \in Nat
  BY <1>1
<1>4. m \in Nat /\ n \in Nat /\ m <= n /\ n - m <= v * (b - a)
  <2>. DEFINE x == v * a
              y == v * b
              c == ped.stop
  <2>1. /\ m = (IF c < 0 \/ x < c THEN x ELSE IF x < c + h THEN c ELSE x - h)
        /\ n = (IF c < 0 \/ y < c THEN y ELSE IF y < c + h THEN c ELSE y - h)
    BY DEF Walked
  <2>2. x \in Nat /\ y \in Nat /\ x <= y /\ c \in Int /\ h \in Nat /\ v * (b - a) = y - x
    BY <1>1, <1>3
  <2>. HIDE DEF x, y, c, h, m, n, v
  <2>. QED
    BY <2>1, <2>2
<1>. HIDE DEF m, n, v
<1>. DEFINE p == PoseOnRoute(ped, m).p
            q == PoseOnRoute(ped, n).p
<1>5. /\ p[1] \in Int /\ p[2] \in Int /\ q[1] \in Int /\ q[2] \in Int
      /\ Closer(q, p, n - m + 3)
  BY <1>4, WalkIsShort
<1>. HIDE DEF p, q
<1>6. Closer(q, p, v * (b - a) + 3)
  <2>1. n - m + 3 \in Nat /\ v * (b - a) + 3 \in Nat /\ n - m + 3 <= v * (b - a) + 3
    BY <1>3, <1>4
  <2>. QED
    BY <1>5, <2>1, CloserGrows
<1>. QED
  BY <1>2, <1>6 DEF p, q, m, n, v

\* A plan of people and robots who walk
AllWalk(people) == \A i \in DOMAIN people : Walks(people[i])

\* Fields of a person
LEMMA PedestrianWalks ==
    ASSUME NEW behavior, NEW route, NEW speed \in Nat, NEW group, Route(route)
    PROVE  /\ Walks(Pedestrian(behavior, route, speed, group))
           /\ \A stop \in Int, hold \in Nat :
                Walks([Pedestrian(behavior, route, speed, group) EXCEPT !.stop = stop, !.hold = hold])
<1>. DEFINE ped == Pedestrian(behavior, route, speed, group)
<1>1. /\ ped.waypoints = route /\ ped.speed = speed /\ ped.stop = -1 /\ ped.hold = 0
      /\ DOMAIN ped = {"behavior", "waypoints", "speed", "group", "stop", "hold"}
  BY DEF Pedestrian
<1>2. Walks(ped)
  BY <1>1 DEF Walks
<1>3. ASSUME NEW stop \in Int, NEW hold \in Nat
      PROVE  Walks([ped EXCEPT !.stop = stop, !.hold = hold])
  <2>. DEFINE held == [ped EXCEPT !.stop = stop, !.hold = hold]
  <2>. HIDE DEF ped
  <2>1. /\ held.waypoints = route /\ held.speed = speed /\ held.stop = stop /\ held.hold = hold
    BY <1>1
  <2>. HIDE DEF held
  <2>2. Walks(held)
    BY <2>1 DEF Walks
  <2>. QED
    BY <2>2 DEF held
<1>. QED
  BY <1>2, <1>3

\* Two points make a route.
LEMMA StraightRoute ==
    ASSUME NEW x1 \in Int, NEW y1 \in Int, NEW x2 \in Int, NEW y2 \in Int
    PROVE  Route(<< <<x1, y1>>, <<x2, y2>> >>)
<1>. DEFINE pts == << <<x1, y1>>, <<x2, y2>> >>
<1>1. Len(pts) = 2 /\ pts[1] = <<x1, y1>> /\ pts[2] = <<x2, y2>>
  OBVIOUS
<1>. HIDE DEF pts
<1>2. \A i \in 1..2 : pts[i][1] \in Int /\ pts[i][2] \in Int
  <2>1. \A i \in 1..2 : i = 1 \/ i = 2
    OBVIOUS
  <2>. QED
    BY <1>1, <2>1
<1>3. Route(pts)
  BY <1>1, <1>2 DEF Route
<1>. QED
  BY <1>3 DEF pts

\* So do three, if the first two are abreast.
LEMMA BentRoute ==
    ASSUME NEW x1 \in Int, NEW y1 \in Int, NEW x2 \in Int, NEW x3 \in Int, NEW y3 \in Int
    PROVE  Route(<< <<x1, y1>>, <<x2, y1>>, <<x3, y3>> >>)
<1>. DEFINE pts == << <<x1, y1>>, <<x2, y1>>, <<x3, y3>> >>
<1>1. Len(pts) = 3 /\ pts[1] = <<x1, y1>> /\ pts[2] = <<x2, y1>> /\ pts[3] = <<x3, y3>>
  OBVIOUS
<1>. HIDE DEF pts
<1>2. \A i \in 1..3 : pts[i][1] \in Int /\ pts[i][2] \in Int
  <2>1. \A i \in 1..3 : i = 1 \/ i = 2 \/ i = 3
    OBVIOUS
  <2>. QED
    BY <1>1, <2>1
<1>3. Route(pts)
  BY <1>1, <1>2 DEF Route
<1>. QED
  BY <1>3 DEF pts

\* Those who walk, and the centres of groups, go along x.
LEMMA WalkRouteIs ==
    ASSUME NEW cfg, NEW spawn \in Int \X Int, cfg.walk_xmin \in Int, cfg.walk_xmax \in Int
    PROVE  \E far \in Int : WalkRoute(cfg, spawn) = <<spawn, <<far, spawn[2]>> >>
BY DEF WalkRoute

\* The fixed routes
LEMMA FixedRouteIs ==
    ASSUME NEW cfg, NEW behavior \in FixedRoutes, NEW i \in Nat,
           cfg.walk_xmax \in Int, cfg.crossing_x \in Int, cfg.crossing_north \in Int,
           cfg.crossing_south \in Int
    PROVE  Route(FixedRoute(cfg, behavior, i))
<1>. DEFINE y == LaneY(i)
            m == Min({cfg.walk_xmax, 800})
<1>1. y \in Int
  BY DEF LaneY
<1>2. m \in Int
  <2>1. \A b \in Int : Min({cfg.walk_xmax, b}) \in {cfg.walk_xmax, b}
    BY MaxOfTwo, Zenon
  <2>2. \A b \in Int : Min({cfg.walk_xmax, b}) \in Int
    BY <2>1
  <2>. QED
    BY <2>2
<1>. HIDE DEF y, m
<1>3. CASE behavior = "head_on"
  <2>1. FixedRoute(cfg, behavior, i) = << <<m - i * 160, y>>, <<150, y>> >>
    BY <1>3 DEF FixedRoute, m, y
  <2>2. m - i * 160 \in Int /\ 150 \in Int
    BY <1>2
  <2>. QED
    BY <1>1, <2>1, <2>2, StraightRoute
<1>4. CASE behavior = "turning"
  <2>1. FixedRoute(cfg, behavior, i) =
            << <<200 + i * 120, 100>>, <<600 + i * 100, 100>>, <<600 + i * 100, -50>> >>
    BY <1>4 DEF FixedRoute
  <2>2. 200 + i * 120 \in Int /\ 600 + i * 100 \in Int /\ 100 \in Int /\ -50 \in Int
    OBVIOUS
  <2>. QED
    BY <2>1, <2>2, BentRoute
<1>5. CASE behavior = "same_direction"
  <2>1. FixedRoute(cfg, behavior, i) = << <<200 + i * 120, y>>, <<cfg.walk_xmax, y>> >>
    BY <1>5 DEF FixedRoute, y
  <2>2. 200 + i * 120 \in Int
    OBVIOUS
  <2>. QED
    BY <1>1, <2>1, <2>2, StraightRoute
<1>6. CASE behavior = "blocker"
  <2>1. FixedRoute(cfg, behavior, i) = << <<450 + i * 150, 0>>, <<450 + i * 150, 0>> >>
    BY <1>6 DEF FixedRoute
  <2>2. 450 + i * 150 \in Int /\ 0 \in Int
    OBVIOUS
  <2>. QED
    BY <2>1, <2>2, StraightRoute
<1>7. CASE behavior = "stop_go"
  <2>1. FixedRoute(cfg, behavior, i) =
            << <<cfg.crossing_x + i * 100, cfg.crossing_north>>,
               <<cfg.crossing_x + i * 100, cfg.crossing_south>> >>
    BY <1>7 DEF FixedRoute
  <2>2. cfg.crossing_x + i * 100 \in Int
    OBVIOUS
  <2>. QED
    BY <2>1, <2>2, StraightRoute
<1>. QED
  BY <1>3, <1>4, <1>5, <1>6, <1>7 DEF FixedRoutes

\* The member of a group goes beside its centre.
LEMMA MemberWalks ==
    ASSUME NEW cfg, NEW gid, NEW j \in Int, NEW x1 \in Int, NEW y1 \in Int,
           NEW x2 \in Int, NEW y2 \in Int,
           cfg.group_spacing \in Int, cfg.speed \in Nat
    PROVE  Walks(Member(cfg, gid, << <<x1, y1>>, <<x2, y2>> >>, j))
<1>. DEFINE u == IF x2 < x1 THEN -1 ELSE 1
            ox == -u * (j \div 2) * cfg.group_spacing
            oy == (u * (2 * (j % 2) - 1) * cfg.group_spacing) \div 2
            route == << <<x1 + ox, y1 + oy>>, <<x2 + ox, y2 + oy>> >>
<1>1. Member(cfg, gid, << <<x1, y1>>, <<x2, y2>> >>, j) = Pedestrian("group", route, cfg.speed, gid)
  BY DEF Member
<1>2. u \in Int /\ j \div 2 \in Int /\ 2 * (j % 2) - 1 \in Int
  OBVIOUS
<1>3. ox \in Int /\ oy \in Int
  <2>. HIDE DEF u
  <2>1. ox \in Int /\ u * (2 * (j % 2) - 1) * cfg.group_spacing \in Int
    BY <1>2
  <2>2. \A a \in Int : a \div 2 \in Int
    OBVIOUS
  <2>. QED
    BY <2>1, <2>2
<1>. HIDE DEF ox, oy, u
<1>4. Route(route)
  <2>1. x1 + ox \in Int /\ y1 + oy \in Int /\ x2 + ox \in Int /\ y2 + oy \in Int
    BY <1>3
  <2>. QED
    BY <2>1, StraightRoute
<1>. HIDE DEF route
<1>5. \A behavior : Walks(Pedestrian(behavior, route, cfg.speed, gid))
  BY <1>4, PedestrianWalks
<1>. QED
  BY <1>1, <1>5, Zenon

\* Whom a round adds to the plan of people or robots, walks.
LEMMA NextWalk ==
    ASSUME manager \in Managers, manager.kind \in {"pedestrian", "amr"},
           Len(plan) \in Nat, NEW more \in NextAgents
    PROVE  AllWalk(more)
<1>. DEFINE cfg == manager.cfg
<1>1. cfg.speed \in Nat
  BY ConfigAssumption
<1>2. CASE manager.kind = "amr"
  <2>. DEFINE lanes == <<0, -100, 100>>
              y(i) == lanes[((i - 1) % 3) + 1]
  <2>1. more = RobotAgents(cfg.num_agents, cfg.speed)
    BY <1>2 DEF NextAgents
  <2>2. ASSUME NEW i \in DOMAIN more PROVE Walks(more[i])
    <3>1. i \in Int
      BY <2>1, <2>2 DEF RobotAgents
    <3>2. y(i) \in Int
      <4>1. ((i - 1) % 3) + 1 \in 1..3
        BY <3>1
      <4>2. \A k \in 1..3 : lanes[k] \in Int
        <5>1. \A k \in 1..3 : k = 1 \/ k = 2 \/ k = 3
          OBVIOUS
        <5>2. lanes[1] = 0 /\ lanes[2] = -100 /\ lanes[3] = 100
          OBVIOUS
        <5>. HIDE DEF lanes
        <5>. QED
          BY <5>1, <5>2
      <4>. HIDE DEF lanes
      <4>. QED
        BY <4>1, <4>2
    <3>. DEFINE east == << <<300, y(i)>>, <<1100, y(i)>> >>
                west == << <<1100, y(i)>>, <<300, y(i)>> >>
    <3>3. more[i] = Pedestrian("amr", IF i % 2 = 1 THEN east ELSE west, cfg.speed, -1)
      BY <2>1, <2>2 DEF RobotAgents
    <3>. HIDE DEF y
    <3>4. Route(east) /\ Route(west)
      <4>1. 300 \in Int /\ 1100 \in Int
        OBVIOUS
      <4>. QED
        BY <3>2, <4>1, StraightRoute
    <3>. HIDE DEF east, west
    <3>5. Route(IF i % 2 = 1 THEN east ELSE west)
      BY <3>4
    <3>6. \A behavior : Walks(Pedestrian(behavior, IF i % 2 = 1 THEN east ELSE west, cfg.speed, -1))
      BY <1>1, <3>5, PedestrianWalks
    <3>. QED
      BY <3>3, <3>6, Zenon
  <2>. QED
    BY <2>2 DEF AllWalk
<1>3. CASE manager.kind = "pedestrian"
  <2>1. /\ cfg.profile \in PROFILES /\ cfg.num_humans \in Nat /\ cfg.group_size \in Int
        /\ cfg.group_spacing \in Int /\ cfg.min_separation \in Nat
        /\ cfg.crossing_x \in Int /\ cfg.crossing_north \in Int /\ cfg.crossing_south \in Int
        /\ cfg.walk_xmin \in Int /\ cfg.walk_xmax \in Int /\ SpawnPoints \subseteq Int \X Int
    BY <1>3, ConfigAssumption
  <2>2. NextAgents = NextPeople(cfg, plan)
    BY <1>3 DEF NextAgents
  <2>3. CASE cfg.profile = "group"
    <3>. DEFINE gid == GroupsPlanned(plan)
                size == GroupSizes(cfg.num_humans, cfg.group_size)[gid + 1]
                radius == cfg.group_spacing * (1 + (size - 1) \div 2)
    <3>1. PICK centre \in SampleSpawn(cfg, Placed(plan), radius) :
            more = [j \in 1..size |-> Member(cfg, gid, WalkRoute(cfg, centre), j - 1)]
      BY <2>2, <2>3 DEF NextPeople, NextGroup
    <3>2. centre \in Int \X Int
      BY <2>1, <3>1 DEF SampleSpawn
    <3>3. PICK far \in Int : WalkRoute(cfg, centre) = <<centre, <<far, centre[2]>> >>
      BY <2>1, <3>2, WalkRouteIs
    <3>4. centre = <<centre[1], centre[2]>> /\ centre[1] \in Int /\ centre[2] \in Int
      BY <3>2
    <3>5. ASSUME NEW j \in DOMAIN more PROVE Walks(more[j])
      <4>1. j \in 1..size /\ j - 1 \in Int
        BY <3>1, <3>5
      <4>2. more[j] = Member(cfg, gid, << <<centre[1], centre[2]>>, <<far, centre[2]>> >>, j - 1)
        BY <3>1, <3>3, <3>4, <4>1
      <4>. QED
        BY <1>1, <2>1, <3>4, <4>1, <4>2, MemberWalks
    <3>. QED
      BY <3>5 DEF AllWalk
  <2>4. CASE cfg.profile = "merge"
    <3>. DEFINE per_group == Max({2, cfg.num_humans \div 2})
                merge_x == (200 + cfg.walk_xmax) \div 2
                sx(k) == 200 + ((k - 1) % per_group) * 60
                lane(k) == IF k <= per_group THEN 120 ELSE -120
                route(k) == << <<sx(k), lane(k)>>, <<merge_x, lane(k)>>, <<cfg.walk_xmax, 0>> >>
    <3>1. more = Merge(cfg)
      BY <2>2, <2>4 DEF NextPeople
    <3>2. per_group \in Nat \ {0}
      <4>1. cfg.num_humans \div 2 \in Int /\ 2 \in Int
        BY <2>1
      <4>2. per_group \in {2, cfg.num_humans \div 2} /\ per_group >= 2
        BY <4>1, MaxOfTwo, Zenon
      <4>. HIDE DEF per_group
      <4>. QED
        BY <4>1, <4>2
    <3>3. merge_x \in Int
      BY <2>1
    <3>4. ASSUME NEW k \in DOMAIN more PROVE Walks(more[k])
      <4>1. k \in 1..(2 * per_group)
        BY <3>1, <3>4 DEF Merge
      <4>2. more[k] = Pedestrian("merge", route(k), cfg.speed, IF k <= per_group THEN 0 ELSE 1)
        BY <3>1, <4>1 DEF Merge
      <4>. HIDE DEF per_group, merge_x
      <4>3. sx(k) \in Int /\ lane(k) \in Int /\ 0 \in Int
        BY <3>2, <4>1
      <4>. HIDE DEF sx, lane
      <4>4. Route(route(k))
        BY <2>1, <3>3, <4>3, BentRoute
      <4>. HIDE DEF route
      <4>5. \A behavior, g : Walks(Pedestrian(behavior, route(k), cfg.speed, g))
        BY <1>1, <4>4, PedestrianWalks
      <4>. QED
        BY <4>2, <4>5, Zenon
    <3>. QED
      BY <3>4 DEF AllWalk
  <2>5. CASE cfg.profile \notin {"group", "merge"}
    <3>. DEFINE i == Len(plan)
                behavior == BehaviorFor(cfg.profile, i)
    <3>1. PICK ped : more = <<ped>> /\ ped \in NextPedestrian(cfg, plan)
      BY <2>2, <2>5 DEF NextPeople
    <3>2. behavior \in FixedRoutes \union {"crossing", "walking"}
      BY <2>1, <2>5 DEF BehaviorFor, PROFILES, FixedRoutes
    <3>3. Walks(ped)
      <4>1. CASE behavior = "crossing"
        <5>1. PICK x \in PlaceCrossingX(cfg, Placed(plan)) :
                ped = Pedestrian(behavior, << <<x, cfg.crossing_north>>, <<x, cfg.crossing_south>> >>,
                                 cfg.speed, -1)
          BY <3>1, <4>1 DEF NextPedestrian
        <5>2. x \in Int
          <6>. DEFINE free == {n \in 1..23 : LaneFree(cfg, Placed(plan), CrossingLane(cfg, n))}
          <6>1. free # {} /\ x = CrossingLane(cfg, Min(free))
            BY <5>1 DEF PlaceCrossingX
          <6>2. free \subseteq Nat /\ \A n \in free : n \in Nat
            OBVIOUS
          <6>. HIDE DEF free
          <6>3. Min(free) \in Nat
            BY <6>1, <6>2, LeastOf
          <6>4. Max({cfg.min_separation, 50}) \in Int
            <7>1. cfg.min_separation \in Int /\ 50 \in Int
              BY <2>1
            <7>2. Max({cfg.min_separation, 50}) \in {cfg.min_separation, 50}
              BY <7>1, MaxOfTwo, Zenon
            <7>. QED
              BY <7>1, <7>2
          <6>5. \A n \in Nat : (IF n % 2 = 0 THEN n \div 2 ELSE -(n \div 2)) \in Int
            OBVIOUS
          <6>6. \A a, b, c \in Int : a + b * c \in Int
            OBVIOUS
          <6>. QED
            BY <2>1, <6>1, <6>3, <6>4, <6>5, <6>6, Zenon DEF CrossingLane
        <5>3. Route(<< <<x, cfg.crossing_north>>, <<x, cfg.crossing_south>> >>)
          BY <2>1, <5>2, StraightRoute
        <5>. QED
          BY <1>1, <5>1, <5>3, PedestrianWalks
      <4>2. CASE behavior = "walking"
        <5>1. PICK spawn \in SampleSpawn(cfg, Placed(plan), 0) :
                ped = Pedestrian(behavior, WalkRoute(cfg, spawn), cfg.speed, -1)
          BY <3>1, <4>2 DEF NextPedestrian
        <5>2. spawn \in Int \X Int
          BY <2>1, <5>1 DEF SampleSpawn
        <5>3. PICK far \in Int : WalkRoute(cfg, spawn) = <<spawn, <<far, spawn[2]>> >>
          BY <2>1, <5>2, WalkRouteIs
        <5>4. spawn = <<spawn[1], spawn[2]>> /\ spawn[1] \in Int /\ spawn[2] \in Int
          BY <5>2
        <5>5. Route(<< <<spawn[1], spawn[2]>>, <<far, spawn[2]>> >>)
          BY <5>4, StraightRoute
        <5>6. Route(WalkRoute(cfg, spawn))
          BY <5>3, <5>4, <5>5
        <5>. QED
          BY <1>1, <5>1, <5>6, PedestrianWalks
      <4>3. CASE behavior \in FixedRoutes
        <5>. DEFINE route == FixedRoute(cfg, behavior, i)
                    one == Pedestrian(behavior, route, cfg.speed, -1)
        <5>1. ped \in {one, [one EXCEPT !.stop = cfg.crossing_north, !.hold = 4]}
          BY <3>1, <4>3 DEF NextPedestrian, FixedRoutes
        <5>2. Route(route)
          BY <2>1, <4>3, FixedRouteIs
        <5>. HIDE DEF route
        <5>3. Walks(one) /\ Walks([one EXCEPT !.stop = cfg.crossing_north, !.hold = 4])
          <6>1. 4 \in Nat
            OBVIOUS
          <6>. QED
            BY <1>1, <2>1, <5>2, <6>1, PedestrianWalks
        <5>. HIDE DEF one
        <5>. QED
          BY <5>1, <5>3
      <4>. QED
        BY <3>2, <4>1, <4>2, <4>3
    <3>4. DOMAIN more = 1..1 /\ more[1] = ped
      BY <3>1
    <3>. QED
      BY <3>3, <3>4 DEF AllWalk
  <2>. QED
    BY <2>3, <2>4, <2>5
<1>. QED
  BY <1>2, <1>3

\* People and robots walk; so does whoever is added to them.
LEMMA AllWalkStep ==
    ASSUME PeopleTypes, manager.kind # "worker", AllWalk(plan), [Next]_vars
    PROVE  AllWalk(plan') /\ manager' = manager
<1>1. /\ manager \in Managers /\ manager.kind \in {"pedestrian", "amr"} /\ IsSequence(plan)
      /\ Len(plan) \in Nat
  <2>1. manager \in Managers /\ IsSequence(plan)
    BY DEF PeopleTypes, TypeOK
  <2>2. manager.kind \in Kinds
    BY <2>1, ManagerAssumption
  <2>. QED
    BY <2>1, <2>2, LenProperties DEF IsSequence, Kinds
<1>2. CASE PlanMore
  <2>1. PICK more \in NextAgents : plan' = plan \o more
    BY <1>2 DEF PlanMore
  <2>2. AllWalk(more)
    BY <1>1, NextWalk
  <2>3. IsSequence(more)
    BY <1>1, <1>2, NextAgentsType DEF PeopleTypes, PlanMore
  <2>4. /\ DOMAIN plan = 1..Len(plan) /\ Len(more) \in Nat
        /\ DOMAIN (plan \o more) = 1..(Len(plan) + Len(more))
        /\ \A i \in 1..(Len(plan) + Len(more)) :
                 (plan \o more)[i] = IF i <= Len(plan) THEN plan[i] ELSE more[i - Len(plan)]
    BY <1>1, <2>3, Appended, LenProperties DEF IsSequence
  <2>5. DOMAIN more = 1..Len(more)
    BY <2>3, LenProperties DEF IsSequence
  <2>6. ASSUME NEW i \in DOMAIN plan' PROVE Walks(plan'[i])
    <3>1. i \in 1..(Len(plan) + Len(more))
      BY <2>1, <2>4, <2>6
    <3>2. CASE i <= Len(plan)
      <4>1. i \in DOMAIN plan /\ plan'[i] = plan[i]
        BY <1>1, <2>1, <2>4, <3>1, <3>2
      <4>. QED
        BY <4>1 DEF AllWalk
    <3>3. CASE ~ (i <= Len(plan))
      <4>1. i - Len(plan) \in DOMAIN more /\ plan'[i] = more[i - Len(plan)]
        BY <1>1, <2>1, <2>4, <2>5, <3>1, <3>3
      <4>. QED
        BY <2>2, <4>1 DEF AllWalk
    <3>. QED
      BY <3>2, <3>3
  <2>7. manager' = manager
    BY <1>2 DEF PlanMore
  <2>. QED
    BY <2>6, <2>7 DEF AllWalk
<1>3. CASE ~ PlanMore
  <2>1. plan' = plan /\ manager' = manager
    BY <1>3
    DEF Next, vars, planVars, PlanRaises, Initialised, SpawnServiceFound, SpawnServiceMissing,
        CallSpawn, SpawnReturns, SpawnLoopEnds, Tick, Clock, SetServiceUp, GazeboSpawns,
        GazeboMoves, MoveLost
  <2>. QED
    BY <2>1
<1>. QED
  BY <1>2, <1>3

\* People and other robots do not jump: between two ticks, however far apart, nobody is
\* displaced by more than a walk at the planned speed and the rounding of a pose, at the
\* ends of routes, at bends and at a sudden stop either.
THEOREM PeopleDoNotJump == Spec /\ manager.kind # "worker" => NoTeleport
<1>. DEFINE Inv == manager.kind # "worker" /\ AllWalk(plan)
            Step == t' # t =>
                \A i \in Agents : Closer(PoseOf(plan[i], t').p, PoseOf(plan[i], t).p,
                                         plan[i].speed * (t' - t) + Rounding)
<1>1. Init /\ manager.kind # "worker" => Inv
  BY DEF Init, AllWalk
<1>2. PeopleTypes /\ Inv /\ [Next]_vars => Inv'
  BY AllWalkStep
<1>3. PeopleTypes /\ Inv /\ [Next]_vars => [Step]_vars
  <2>. SUFFICES ASSUME PeopleTypes, Inv, Next, t' # t,
                       NEW i \in Agents
                PROVE  Closer(PoseOf(plan[i], t').p, PoseOf(plan[i], t).p,
                              plan[i].speed * (t' - t) + Rounding)
    OBVIOUS
  <2>1. Tick
    BY DEF Next, tickVars, PlanMore, PlanRaises, Initialised, SpawnServiceFound, SpawnServiceMissing,
        CallSpawn, SpawnReturns, SpawnLoopEnds, Clock, SetServiceUp, GazeboSpawns,
        GazeboMoves, MoveLost
  <2>2. t \in Nat /\ t' \in Nat /\ t <= t'
    <3>1. t' = Elapsed
      BY <2>1 DEF Tick
    <3>2. t <= Elapsed /\ Elapsed \in Nat /\ t \in Nat
      BY <2>1, TickTypes, TimesType DEF PeopleTypes, TypeOK
    <3>. QED
      BY <3>1, <3>2
  <2>3. manager' = manager
    BY <2>1 DEF Tick, planVars
  <2>4. Walks(plan[i])
    BY DEF AllWalk, Agents
  <2>5. Closer(PoseAtTime(plan[i], t').p, PoseAtTime(plan[i], t).p, plan[i].speed * (t' - t) + 3)
    BY <2>2, <2>4, PoseIsClose
  <2>. QED
    BY <2>5 DEF PoseOf, Rounding
<1>. QED
  BY <1>1, <1>2, <1>3, TypesHold, PTL DEF Spec, NoTeleport
=============================================================================
