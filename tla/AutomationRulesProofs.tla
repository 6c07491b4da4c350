----------------------- MODULE AutomationRulesProofs -----------------------
(***************************************************************************)
(* The use counts of topics stay exact, rules stay heard, nothing of a     *)
(* rule is left behind and a job fails only for a stated reason, for any   *)
(* rules, devices, documents and requests in progress, as long as a rule   *)
(* is edited or deleted by one request at a time.                          *)
(*                                                                         *)
(* None of these is inductive.  A request gives up the topics of the       *)
(* triggers it read when it arrived: the counts stay exact only if those   *)
(* are stored still, and nobody else is about to delete them.  So the      *)
(* first invariant says whose triggers are whose (Apart), how far a        *)
(* request is (Phases, whose ground is the order of the stages, Ordered),  *)
(* and that what a rule lists once its request is over is what that        *)
(* request made (Kept).  The second one, LeftInv, says what a request has  *)
(* yet to do (Halfway), what it has done to the collections (Underway),    *)
(* and that every stored trigger and action has a rule at rest or a        *)
(* request that minds it (TriggersMinded, ActionsMinded).                  *)
(***************************************************************************)
EXTENDS AutomationRules, SequenceTheorems, FiniteSetTheorems, TLAPS

Writers == {"rule", "update", "remove"}

RuleType    == [state : {"unused", "stored", "deleted"}, if : SUBSET Triggers, then : SUBSET Actions]
TriggerType == [state : {"unused", "stored", "deleted"}, devices : SUBSET Devices]
BuildType   == [devices : SUBSET Devices, counted : SUBSET Devices]
Working     == [todo : Seq(StageNames \cup Users), rule : Rules,
                loaded : [if : SUBSET Triggers, then : SUBSET Actions],
                if : SUBSET Triggers, then : SUBSET Actions, drop : SUBSET Triggers,
                users : SUBSET Users, build : SUBSET BuildType]

Typed ==
    /\ rule \in [Rules -> RuleType]
    /\ trigger \in [Triggers -> TriggerType]
    /\ count \in [Devices -> Nat]
    /\ \A s \in Slots : /\ request[s] = Idle \/ request[s] \in Working
                        /\ Busy(s) => IsFiniteSet(request[s].build)
    /\ DOMAIN request = Slots

\* The topics are given up first, right before the triggers are deleted; once the rule
\* is written, its triggers are left alone.
Ordered(todo) ==
    /\ \A i \in 1..Len(todo) : todo[i] = "forget" => i = 1 /\ Len(todo) > 1 /\ todo[2] = "drop"
    /\ \A i \in 1..Len(todo) : todo[i] = "drop" => i = 1 \/ (i = 2 /\ todo[1] = "forget")
    /\ \A i, j \in 1..Len(todo) : i < j /\ todo[i] \in Writers =>
          todo[j] \notin Writers \cup {"forget", "drop", "triggers"}

Phase(q) ==
    /\ Ordered(q.todo)
    /\ q.if \subseteq Exists(Triggers)
    /\ Head(q.todo) = "forget" => q.if = q.loaded.if /\ q.drop = q.loaded.if
    /\ Head(q.todo) = "drop" => q.if = {}
    /\ Head(q.todo) # "triggers" => \A b \in q.build : b.counted = {}
    /\ \A b, c \in q.build : b.devices = c.devices => b = c

Phases == \A s \in Slots : Busy(s) => Phase(request[s])

\* What a request holds of the triggers; whose a trigger is.
Holds(q, t) == t \in q.loaded.if \cup q.if \cup q.drop
Owns(r, t) == t \in rule[r].if \/ \E s \in On(r) : Holds(request[s], t)

Apart == \A t \in Triggers : \A r1, r2 \in Rules : Owns(r1, t) /\ Owns(r2, t) => r1 = r2
Known == \A t \in Triggers, r \in Rules : Owns(r, t) => trigger[t].state # "unused"
Alone == \A s1, s2 \in Slots : Busy(s1) /\ Busy(s2) /\ request[s1].rule = request[s2].rule => s1 = s2

\* A request that has written its rule.
Through(q) == \A i \in 1..Len(q.todo) : q.todo[i] \notin Writers

Kept ==
    \A r \in Rules : rule[r].state = "stored" /\ r \notin interrupted =>
        /\ On(r) = {} => rule[r].if \subseteq Exists(Triggers)
        /\ \A s \in On(r) : Through(request[s]) =>
              /\ rule[r].if = request[s].if
              /\ \A i \in 1..Len(request[s].todo) : request[s].todo[i] \notin {"forget", "triggers"}

CountedAreHeard ==
    \A dev \in Devices : count[dev] > 0 /\ ProjectOf[dev] \in clients => dev \in subscribed

IInv == Typed /\ Phases /\ Apart /\ Known /\ Alone /\ Kept /\ CountedAreHeard /\ CountsExact

-----------------------------------------------------------------------------
(* Sequences, finite sets and numbers.                                     *)

LEMMA Tails ==
  ASSUME NEW S, NEW q \in Seq(S), q # <<>>
  PROVE  /\ Len(q) \in Nat /\ Len(q) > 0 /\ Head(q) = q[1] /\ Head(q) \in S
         /\ Tail(q) \in Seq(S) /\ Len(Tail(q)) = Len(q) - 1
         /\ \A i \in 1..Len(Tail(q)) : i + 1 \in 1..Len(q) /\ Tail(q)[i] = q[i + 1]
  BY HeadTailProperties

LEMMA Joined ==
  ASSUME NEW S, NEW p \in Seq(S), NEW q \in Seq(S), NEW whole \in Seq(S),
         Len(whole) = Len(p) + Len(q),
         \A i \in 1..Len(p) : whole[i] = p[i],
         \A i \in 1..Len(q) : whole[Len(p) + i] = q[i]
  PROVE  p \o q = whole
<1>1. /\ p \o q \in Seq(S) /\ Len(p \o q) = Len(p) + Len(q) /\ Len(p) \in Nat /\ Len(q) \in Nat
      /\ \A i \in 1..(Len(p) + Len(q)) : (p \o q)[i] = IF i <= Len(p) THEN p[i] ELSE q[i - Len(p)]
  BY ConcatProperties, LenProperties
<1>2. ASSUME NEW i \in 1..Len(whole) PROVE (p \o q)[i] = whole[i]
  <2>1. CASE i <= Len(p)
    BY <2>1, <1>1
  <2>2. CASE i > Len(p)
    <3>1. PICK k : k = i - Len(p)
      OBVIOUS
    <3>2. k \in 1..Len(q) /\ i = Len(p) + k
      BY <3>1, <2>2, <1>1
    <3>3. whole[i] = q[k]
      BY <3>2
    <3>4. (p \o q)[i] = q[k]
      BY <3>1, <2>2, <1>1
    <3> QED
      BY <3>3, <3>4
  <2> QED
    BY <2>1, <2>2, <1>1
<1> QED
  BY <1>1, <1>2, SeqEqual

LEMMA OrderedTail ==
  ASSUME NEW S, NEW q \in Seq(S), q # <<>>, Ordered(q)
  PROVE  /\ Ordered(Tail(q))
         /\ \A i \in 1..Len(Tail(q)) : Tail(q)[i] # "forget"
         /\ \A i \in 1..Len(Tail(q)) : Tail(q)[i] = "drop" => q[1] = "forget" /\ i = 1
         /\ q[1] = "forget" => Tail(q) # <<>> /\ Head(Tail(q)) = "drop"
         /\ q[1] \in Writers => \A i \in 1..Len(Tail(q)) :
               Tail(q)[i] \notin Writers \cup {"forget", "drop", "triggers"}
<1>1. /\ Len(q) \in Nat /\ Len(q) > 0 /\ Head(q) = q[1]
      /\ Tail(q) \in Seq(S) /\ Len(Tail(q)) = Len(q) - 1
      /\ \A i \in 1..Len(Tail(q)) : i + 1 \in 1..Len(q) /\ Tail(q)[i] = q[i + 1]
  BY Tails
<1>2. \A i \in 1..Len(Tail(q)) : Tail(q)[i] # "forget"
  BY <1>1 DEF Ordered
<1>3. \A i \in 1..Len(Tail(q)) : Tail(q)[i] = "drop" => q[1] = "forget" /\ i = 1
  BY <1>1 DEF Ordered
<1>4. q[1] = "forget" => Tail(q) # <<>> /\ Head(Tail(q)) = "drop"
  <2> SUFFICES ASSUME q[1] = "forget" PROVE Tail(q) # <<>> /\ Head(Tail(q)) = "drop"
    OBVIOUS
  <2>1. Len(q) > 1 /\ q[2] = "drop"
    BY <1>1 DEF Ordered
  <2>2. Tail(q) # <<>> /\ Len(Tail(q)) \in Nat /\ Len(Tail(q)) > 0
    BY SMTT(30), <1>1, <2>1
  <2>3. Tail(q)[1] = q[2]
    BY <1>1, <2>2
  <2> QED
    BY <2>1, <2>2, <2>3, <1>1, HeadTailProperties
<1>5. \A i, j \in 1..Len(Tail(q)) : i < j /\ Tail(q)[i] \in Writers =>
          Tail(q)[j] \notin Writers \cup {"forget", "drop", "triggers"}
  <2> TAKE i, j \in 1..Len(Tail(q))
  <2>1. i + 1 \in 1..Len(q) /\ j + 1 \in 1..Len(q) /\ Tail(q)[i] = q[i + 1] /\ Tail(q)[j] = q[j + 1]
    BY <1>1
  <2> QED
    BY <2>1, <1>1 DEF Ordered
<1>6. q[1] \in Writers => \A i \in 1..Len(Tail(q)) :
          Tail(q)[i] \notin Writers \cup {"forget", "drop", "triggers"}
  BY <1>1 DEF Ordered
<1> QED
  BY <1>2, <1>3, <1>4, <1>5, <1>6 DEF Ordered

\* A user is put before the look-up of the next one.
LEMMA OrderedUser ==
  ASSUME NEW S, NEW q \in Seq(S), NEW u \in Users \cap S, q # <<>>, Ordered(q), Head(q) = "subscribe"
  PROVE  /\ <<u>> \o q \in Seq(S) /\ Ordered(<<u>> \o q)
         /\ Head(<<u>> \o q) = u /\ <<u>> \o q # <<>> /\ u \notin StageNames
         /\ Len(<<u>> \o q) = Len(q) + 1
         /\ \A i \in 1..Len(q) : (<<u>> \o q)[i + 1] = q[i]
<1>1. Len(q) \in Nat /\ Len(q) > 0 /\ q[1] = "subscribe"
  BY Tails
<1>2. u \notin StageNames
  BY RulesAssumption
<1>3. /\ <<u>> \o q \in Seq(S) /\ Len(<<u>> \o q) = Len(q) + 1 /\ (<<u>> \o q)[1] = u
      /\ \A i \in 1..Len(q) : (<<u>> \o q)[i + 1] = q[i]
      /\ \A i \in 2..(Len(q) + 1) : i - 1 \in 1..Len(q) /\ (<<u>> \o q)[i] = q[i - 1]
  BY <1>1
<1>4. Head(<<u>> \o q) = u /\ <<u>> \o q # <<>>
  BY <1>1, <1>3, HeadTailProperties
<1>5. \A i \in 1..Len(q) : q[i] # "forget" /\ q[i] # "drop"
  BY <1>1 DEF Ordered
<1>6. \A i \in 1..(Len(q) + 1) : (<<u>> \o q)[i] # "forget" /\ (<<u>> \o q)[i] # "drop"
  <2> TAKE i \in 1..(Len(q) + 1)
  <2>1. CASE i = 1
    BY <2>1, <1>2, <1>3 DEF StageNames
  <2>2. CASE i # 1
    BY <2>2, <1>1, <1>3, <1>5
  <2> QED
    BY <2>1, <2>2
<1>7. \A i, j \in 1..(Len(q) + 1) : i < j /\ (<<u>> \o q)[i] \in Writers =>
          (<<u>> \o q)[j] \notin Writers \cup {"forget", "drop", "triggers"}
  <2> SUFFICES ASSUME NEW i \in 1..(Len(q) + 1), NEW j \in 1..(Len(q) + 1), i < j,
                      (<<u>> \o q)[i] \in Writers
               PROVE  (<<u>> \o q)[j] \notin Writers \cup {"forget", "drop", "triggers"}
    OBVIOUS
  <2>1. i # 1
    BY <1>2, <1>3 DEF StageNames, Writers
  <2>2. /\ i - 1 \in 1..Len(q) /\ j - 1 \in 1..Len(q) /\ i - 1 < j - 1
        /\ (<<u>> \o q)[i] = q[i - 1] /\ (<<u>> \o q)[j] = q[j - 1]
    BY <2>1, <1>1, <1>3
  <2> QED
    BY <2>2 DEF Ordered
<1> QED
  BY <1>2, <1>3, <1>4, <1>6, <1>7 DEF Ordered

LEMMA UsesNat ==
  ASSUME NEW ts \in SUBSET Triggers, NEW dev
  PROVE  Uses(ts, dev) \in Nat /\ IsFiniteSet({t \in ts : dev \in trigger[t].devices})
<1>1. IsFiniteSet({t \in ts : dev \in trigger[t].devices})
  BY RulesAssumption, FS_Subset
<1> QED
  BY <1>1, FS_CardinalityType DEF Uses

LEMMA UsesWithout ==
  ASSUME NEW A \in SUBSET Triggers, NEW B \in SUBSET A, NEW dev
  PROVE  /\ Uses(A \ B, dev) = Uses(A, dev) - Uses(B, dev)
         /\ Uses(B, dev) <= Uses(A, dev)
<1> DEFINE of(ts) == {t \in ts : dev \in trigger[t].devices}
<1>1. IsFiniteSet(of(A)) /\ IsFiniteSet(of(B)) /\ IsFiniteSet(of(A \ B))
  BY UsesNat
<1>2. of(A \ B) = of(A) \ of(B) /\ of(B) \subseteq of(A) /\ of(A) \cap of(B) = of(B)
  OBVIOUS
<1>3. Cardinality(of(A) \ of(B)) = Cardinality(of(A)) - Cardinality(of(B))
  <2> HIDE DEF of
  <2>1. Cardinality(of(A) \ of(B)) = Cardinality(of(A)) - Cardinality(of(A) \cap of(B))
    BY <1>1, FS_Difference, Zenon
  <2> QED
    BY <2>1, <1>2
<1>4. Cardinality(of(B)) <= Cardinality(of(A))
  <2> HIDE DEF of
  <2> QED
    BY <1>1, <1>2, FS_Subset
<1> QED
  BY <1>2, <1>3, <1>4 DEF Uses

LEMMA SmallerOf ==
  ASSUME NEW a \in Nat, NEW b \in Nat
  PROVE  Min({a, b}) = IF a <= b THEN a ELSE b
<1>1. CASE a <= b
  BY <1>1 DEF Min
<1>2. CASE ~(a <= b)
  <2>1. Min({a, b}) \in {a, b} /\ \A y \in {a, b} : Min({a, b}) <= y
    BY <1>2 DEF Min
  <2> QED
    BY <1>2, <2>1
<1> QED
  BY <1>1, <1>2

-----------------------------------------------------------------------------
(* One slot changes.                                                       *)

LEMMA Working1 ==
  ASSUME IInv, NEW s \in Slots, Busy(s)
  PROVE  /\ request[s] \in Working /\ request[s] # Idle /\ request[s].todo # <<>>
         /\ request[s].todo \in Seq(StageNames \cup Users)
         /\ Stage(s) = request[s].todo[1] /\ Stage(s) \in StageNames \cup Users
         /\ IsFiniteSet(request[s].build) /\ Phase(request[s])
         /\ On(request[s].rule) = {s} /\ request[s].rule \in Rules
<1>1. request[s] # Idle /\ request[s].todo # <<>>
  BY DEF Busy, Idle
<1>2. request[s] \in Working /\ IsFiniteSet(request[s].build) /\ Phase(request[s])
  BY <1>1 DEF IInv, Typed, Phases
<1>3. request[s].todo \in Seq(StageNames \cup Users) /\ request[s].rule \in Rules
  BY <1>2 DEF Working
<1>4. Stage(s) = request[s].todo[1] /\ Stage(s) \in StageNames \cup Users
  BY <1>1, <1>3, Tails DEF Stage
<1>5. On(request[s].rule) = {s}
  BY DEF IInv, Alone, On
<1> QED
  BY <1>1, <1>2, <1>3, <1>4, <1>5

LEMMA NotIdle ==
  ASSUME NEW n \in Working, n.todo # <<>>
  PROVE  n # Idle
  BY DEF Idle

LEMMA OneSlot ==
  ASSUME Typed, Alone, NEW s \in Slots, NEW n, request' = [request EXCEPT ![s] = n],
         \/ n = Idle
         \/ n \in Working /\ n.todo # <<>> /\ IsFiniteSet(n.build) /\ On(n.rule) \subseteq {s}
  PROVE  /\ DOMAIN request' = Slots
         /\ request'[s] = n /\ \A x \in Slots \ {s} : request'[x] = request[x]
         /\ Busy(s)' <=> n # Idle
         /\ \A x \in Slots \ {s} : Busy(x)' <=> Busy(x)
         /\ \A x \in Slots \ {s} : Stage(x)' = Stage(x)
         /\ \A x \in Slots : /\ request'[x] = Idle \/ request'[x] \in Working
                             /\ Busy(x)' => IsFiniteSet(request'[x].build)
         /\ Alone'
         /\ \A r : \A x \in Slots \ {s} : x \in On(r)' <=> x \in On(r)
         /\ \A r : s \in On(r)' <=> n # Idle /\ n.rule = r
<1>1. /\ DOMAIN request' = Slots
      /\ request'[s] = n /\ \A x \in Slots \ {s} : request'[x] = request[x]
  BY DEF Typed
<1>2. n # Idle => n.todo # <<>>
  OBVIOUS
<1>3. Busy(s)' <=> n # Idle
  BY <1>1, <1>2 DEF Busy, Idle
<1>4. \A x \in Slots \ {s} : Busy(x)' <=> Busy(x)
  BY <1>1 DEF Busy
<1>5. \A x \in Slots \ {s} : Stage(x)' = Stage(x)
  BY <1>1 DEF Stage
<1>6. \A x \in Slots : /\ request'[x] = Idle \/ request'[x] \in Working
                       /\ Busy(x)' => IsFiniteSet(request'[x].build)
  <2> TAKE x \in Slots
  <2>1. CASE x = s
    BY <2>1, <1>1, <1>3
  <2>2. CASE x # s
    BY <2>2, <1>1, <1>4 DEF Typed
  <2> QED
    BY <2>1, <2>2
<1>7. Alone'
  BY <1>1, <1>3, <1>4 DEF Alone, On
<1>8. \A r : \A x \in Slots \ {s} : x \in On(r)' <=> x \in On(r)
  BY <1>1, <1>4 DEF On
<1>9. \A r : s \in On(r)' <=> n # Idle /\ n.rule = r
  BY <1>1, <1>3 DEF On
<1> QED
  BY <1>1, <1>3, <1>4, <1>5, <1>6, <1>7, <1>8, <1>9

\* What Advanced makes of a request.
LEMMA Advancing ==
  ASSUME IInv, NEW s \in Slots, Busy(s), NEW q \in Working, q.todo = request[s].todo,
         q.rule = request[s].rule, IsFiniteSet(q.build), Advanced(s, q)
  PROVE  \E n : /\ request' = [request EXCEPT ![s] = n]
                /\ \/ n = Idle /\ Len(q.todo) = 1
                   \/ /\ n = [q EXCEPT !.todo = Tail(q.todo)] /\ n \in Working /\ n.todo # <<>>
                      /\ IsFiniteSet(n.build) /\ On(n.rule) \subseteq {s} /\ n # Idle
                      /\ n.todo = Tail(q.todo) /\ n.rule = q.rule /\ n.loaded = q.loaded /\ n.if = q.if
                      /\ n.drop = q.drop /\ n.build = q.build
<1>1. CASE Len(q.todo) = 1
  BY <1>1 DEF Advanced
<1>2. CASE Len(q.todo) # 1
  <2> DEFINE n == [q EXCEPT !.todo = Tail(q.todo)]
  <2>1. request' = [request EXCEPT ![s] = n]
    BY <1>2 DEF Advanced
  <2>2. Tail(q.todo) \in Seq(StageNames \cup Users) /\ Tail(q.todo) # <<>>
    <3>1. q.todo \in Seq(StageNames \cup Users) /\ q.todo # <<>>
      BY Working1
    <3>2. /\ Tail(q.todo) \in Seq(StageNames \cup Users) /\ Len(Tail(q.todo)) = Len(q.todo) - 1
          /\ Len(q.todo) \in Nat
      BY <3>1, Tails
    <3>3. Len(Tail(q.todo)) # 0
      BY <3>2, <1>2
    <3>4. Tail(q.todo) # <<>>
      BY <3>3, EmptySeq
    <3> QED
      BY <3>2, <3>4
  <2>3. /\ n \in Working /\ n.todo = Tail(q.todo) /\ n.rule = q.rule /\ n.loaded = q.loaded /\ n.if = q.if
        /\ n.drop = q.drop /\ n.build = q.build
    BY <2>2 DEF Working
  <2>4. n # Idle /\ On(n.rule) \subseteq {s}
    BY <2>2, <2>3, Working1, NotIdle
  <2> QED
    BY <2>1, <2>2, <2>3, <2>4
<1> QED
  BY <1>1, <1>2

LEMMA ForgottenAre ==
  \A t : t \in Forgotten <=> \E x \in Slots : Busy(x) /\ Stage(x) = "drop" /\ t \in request[x].drop
  BY DEF Forgotten

LEMMA AnnouncedAre ==
  \A dev : \A p : p \in Announced(dev) <=>
      \E x \in Slots : \E b \in request[x].build : Busy(x) /\ dev \in b.counted /\ p = <<x, b>>
  BY DEF Announced

LEMMA AnnouncedFinite ==
  ASSUME Typed, NEW dev
  PROVE  IsFiniteSet(Announced(dev)) /\ Cardinality(Announced(dev)) \in Nat
<1> DEFINE S == {y \in Slots : Busy(y)}
           f == [x \in S |-> {x} \X request[x].build]
           T == {f[x] : x \in S}
<1>1. IsFiniteSet(S)
  BY RulesAssumption, FS_Subset
<1>2. f \in Surjection(S, T)
  BY DEF Surjection
<1>3. IsFiniteSet(T)
  <2> HIDE DEF S, f, T
  <2> QED
    BY <1>1, <1>2, FS_Surjection
<1>4. \A x \in S : IsFiniteSet(f[x])
  BY FS_Singleton, FS_Product DEF Typed
<1>5. IsFiniteSet(UNION T)
  <2>1. \A X \in T : IsFiniteSet(X)
    BY <1>4
  <2> HIDE DEF T
  <2> QED
    BY <1>3, <2>1, FS_UNION
<1>6. Announced(dev) \subseteq UNION T
  BY DEF Announced
<1>7. IsFiniteSet(Announced(dev))
  <2> HIDE DEF T
  <2> QED
    BY <1>5, <1>6, FS_Subset
<1> QED
  BY <1>7, FS_CardinalityType

\* Nobody comes to own what was somebody else's.
LEMMA Fewer ==
  ASSUME IInv, \A r \in Rules, t \in Triggers : Owns(r, t)' => Owns(r, t),
         \A t \in Triggers : trigger[t].state # "unused" => trigger'[t].state # "unused"
  PROVE  Apart' /\ Known'
  BY DEF IInv, Apart, Known

\* A stage that leaves rules, triggers and counts alone ends.
LEMMA Onward ==
  ASSUME IInv, NEW s \in Slots, Busy(s), NEW q \in Working, q.todo = request[s].todo,
         q.rule = request[s].rule, q.loaded = request[s].loaded, q.if = request[s].if,
         q.drop = request[s].drop, q.build = request[s].build,
         Stage(s) \notin Writers \cup {"forget"},
         Stage(s) = "drop" => q.drop = {}, Stage(s) = "triggers" => q.build = {},
         Advanced(s, q), UNCHANGED <<rule, trigger, memory, interrupted>>
  PROVE  IInv'
<1>1. PICK n : /\ request' = [request EXCEPT ![s] = n]
               /\ \/ n = Idle /\ Len(q.todo) = 1
                  \/ /\ n \in Working /\ n.todo # <<>>
                     /\ IsFiniteSet(n.build) /\ On(n.rule) \subseteq {s} /\ n # Idle
                     /\ n.todo = Tail(q.todo) /\ n.rule = q.rule /\ n.loaded = q.loaded /\ n.if = q.if
                     /\ n.drop = q.drop /\ n.build = q.build
  <2>1. IsFiniteSet(q.build)
    BY Working1
  <2> QED
    BY <2>1, Advancing
<1>2. /\ DOMAIN request' = Slots
      /\ request'[s] = n /\ \A x \in Slots \ {s} : request'[x] = request[x]
      /\ Busy(s)' <=> n # Idle
      /\ \A x \in Slots \ {s} : Busy(x)' <=> Busy(x)
      /\ \A x \in Slots \ {s} : Stage(x)' = Stage(x)
      /\ \A x \in Slots : /\ request'[x] = Idle \/ request'[x] \in Working
                          /\ Busy(x)' => IsFiniteSet(request'[x].build)
      /\ Alone'
      /\ \A r : \A x \in Slots \ {s} : x \in On(r)' <=> x \in On(r)
      /\ \A r : s \in On(r)' <=> n # Idle /\ n.rule = r
  <2>1. \/ n = Idle
        \/ n \in Working /\ n.todo # <<>> /\ IsFiniteSet(n.build) /\ On(n.rule) \subseteq {s}
    BY <1>1
  <2> QED
    BY <1>1, <2>1, OneSlot DEF IInv
<1>3. /\ Len(q.todo) \in Nat /\ Len(q.todo) > 0 /\ Stage(s) = q.todo[1]
      /\ Len(Tail(q.todo)) = Len(q.todo) - 1 /\ Tail(q.todo) \in Seq(StageNames \cup Users)
      /\ \A i \in 1..Len(Tail(q.todo)) : i + 1 \in 1..Len(q.todo) /\ Tail(q.todo)[i] = q.todo[i + 1]
      /\ Ordered(Tail(q.todo))
      /\ \A i \in 1..Len(Tail(q.todo)) : Tail(q.todo)[i] \notin {"forget", "drop"}
  <2>1. Ordered(q.todo) /\ q.todo \in Seq(StageNames \cup Users) /\ q.todo # <<>> /\ Stage(s) = q.todo[1]
    BY Working1 DEF Phase
  <2>2. \A i \in 1..Len(Tail(q.todo)) : Tail(q.todo)[i] \notin {"forget", "drop"}
    BY <2>1, OrderedTail
  <2> QED
    BY <2>1, <2>2, Tails, OrderedTail
<1>4. n # Idle => n.todo = Tail(q.todo) /\ Head(n.todo) \notin {"forget", "drop"} /\ n \in Working
  <2> SUFFICES ASSUME n # Idle PROVE n.todo = Tail(q.todo) /\ Head(n.todo) \notin {"forget", "drop"} /\ n \in Working
    OBVIOUS
  <2>1. n.todo = Tail(q.todo) /\ n.todo # <<>> /\ n \in Working
    BY <1>1
  <2>2. Head(n.todo) = n.todo[1] /\ 1 \in 1..Len(n.todo)
    BY <2>1, <1>3, Tails
  <2> QED
    BY <2>1, <2>2, <1>3
<1>5. Typed'
  BY <1>2 DEF IInv, Typed, memory
<1>6. Exists(Triggers)' = Exists(Triggers)
  BY DEF Exists
<1>7. Phases'
  <2> SUFFICES ASSUME NEW x \in Slots, Busy(x)' PROVE Phase(request[x])'
    BY DEF Phases
  <2>1. CASE x # s
    BY <2>1, <1>2, <1>6 DEF IInv, Phases, Phase
  <2>2. CASE x = s
    <3>1. n # Idle /\ request'[x] = n
      BY <2>2, <1>2
    <3>2. n.if = request[s].if /\ n.build = request[s].build
      BY <3>1, <1>1
    <3>3. Phase(request[s]) /\ (Stage(s) = "triggers" => n.build = {})
      BY <3>1, <1>1, Working1
    <3>4. \A b \in n.build : b.counted = {}
      BY <3>2, <3>3 DEF Phase, Stage
    <3> QED
      BY <3>1, <3>2, <3>3, <3>4, <1>3, <1>4, <1>6 DEF Phase
  <2> QED
    BY <2>1, <2>2
<1>8. \A r \in Rules, t \in Triggers : Owns(r, t)' => Owns(r, t)
  <2> SUFFICES ASSUME NEW r \in Rules, NEW t \in Triggers, NEW x \in On(r)', Holds(request'[x], t)
               PROVE  Owns(r, t)
    BY DEF Owns
  <2>1. x \in Slots
    BY DEF On
  <2>2. CASE x # s
    BY <2>1, <2>2, <1>2 DEF Owns
  <2>3. CASE x = s
    <3>1. n # Idle /\ n.rule = r /\ Holds(n, t)
      BY <2>3, <1>2
    <3>2. Holds(request[s], t) /\ request[s].rule = r
      BY <3>1, <1>1 DEF Holds
    <3> QED
      BY <3>2 DEF Owns, On
  <2> QED
    BY <2>2, <2>3
<1>9. Apart' /\ Known'
  BY <1>8, Fewer
<1>10. Kept'
  <2> SUFFICES ASSUME NEW r \in Rules, rule[r].state = "stored", r \notin interrupted
               PROVE  /\ On(r)' = {} => rule[r].if \subseteq Exists(Triggers)
                      /\ \A x \in On(r)' : Through(request'[x]) =>
                            /\ rule[r].if = request'[x].if
                            /\ \A i \in 1..Len(request'[x].todo) : request'[x].todo[i] \notin {"forget", "triggers"}
    BY <1>6 DEF Kept
  <2>1. CASE r # request[s].rule
    <3>1. s \notin On(r) /\ s \notin On(r)'
      BY <2>1, <1>1, <1>2 DEF On
    <3>2. On(r)' = On(r) /\ \A x \in On(r) : request'[x] = request[x]
      BY <3>1, <1>2 DEF On
    <3> QED
      BY <3>2 DEF IInv, Kept
  <2>2. CASE r = request[s].rule
    <3>1. On(r) = {s}
      BY <2>2, Working1
    <3>2. Through(request[s]) => /\ rule[r].if = request[s].if
             /\ \A i \in 1..Len(request[s].todo) : request[s].todo[i] \notin {"forget", "triggers"}
      BY <3>1 DEF IInv, Kept
    <3>3. CASE n = Idle
      <4>1. On(r)' = {}
        BY <3>1, <3>3, <1>2 DEF On
      <4>2. Through(request[s])
        BY <3>3, <1>1, <1>3, NotIdle DEF Through
      <4> QED
        BY <4>1, <4>2, <3>2, Working1 DEF Phase
    <3>4. CASE n # Idle
      <4>1. On(r)' = {s} /\ request'[s] = n /\ n.todo = Tail(q.todo) /\ n.if = request[s].if
        BY <3>1, <3>4, <2>2, <1>1, <1>2 DEF On
      <4>2. ASSUME Through(n) PROVE Through(request[s])
        <5> SUFFICES ASSUME NEW i \in 1..Len(q.todo) PROVE q.todo[i] \notin Writers
          BY DEF Through
        <5>1. CASE i = 1
          BY <5>1, <1>3
        <5>2. CASE i # 1
          <6>1. i - 1 \in 1..Len(Tail(q.todo)) /\ Tail(q.todo)[i - 1] = q.todo[i]
            BY <5>2, <1>3
          <6> QED
            BY <6>1, <4>1, <4>2 DEF Through
        <5> QED
          BY <5>1, <5>2
      <4>3. ASSUME Through(n)
            PROVE  /\ rule[r].if = n.if
                   /\ \A i \in 1..Len(n.todo) : n.todo[i] \notin {"forget", "triggers"}
        BY <4>1, <4>2, <4>3, <3>2, <1>3
      <4> QED
        BY <4>1, <4>3
    <3> QED
      BY <3>3, <3>4
  <2> QED
    BY <2>1, <2>2
<1>11. CountedAreHeard'
  BY DEF IInv, CountedAreHeard, memory
<1>12. CountsExact'
  <2>1. Forgotten' = Forgotten
    <3>1. \A t : t \in Forgotten' <=> \E x \in Slots \ {s} : Busy(x) /\ Stage(x) = "drop" /\ t \in request[x].drop
      <4>1. n # Idle => Stage(s)' # "drop"
        BY <1>2, <1>4 DEF Stage
      <4> QED
        BY <4>1, <1>2 DEF Forgotten
    <3>2. \A t : t \in Forgotten <=> \E x \in Slots \ {s} : Busy(x) /\ Stage(x) = "drop" /\ t \in request[x].drop
      BY ForgottenAre
    <3> QED
      BY <3>1, <3>2
  <2>2. \A dev \in Devices : Announced(dev)' = Announced(dev)
    <3> TAKE dev \in Devices
    <3>1. \A b \in request[s].build : dev \notin b.counted
      BY Working1 DEF Phase, Stage
    <3>2. n # Idle => \A b \in n.build : dev \notin b.counted
      BY <3>1, <1>1
    <3>3. \A p : p \in Announced(dev)' <=>
              \E x \in Slots \ {s} : \E b \in request[x].build : Busy(x) /\ dev \in b.counted /\ p = <<x, b>>
      BY <3>2, <1>2 DEF Announced
    <3>4. \A p : p \in Announced(dev) <=>
              \E x \in Slots \ {s} : \E b \in request[x].build : Busy(x) /\ dev \in b.counted /\ p = <<x, b>>
      BY <3>1, AnnouncedAre
    <3> QED
      BY <3>3, <3>4
  <2>3. \A dev \in Devices : Uses(Exists(Triggers) \ Forgotten, dev)' = Uses(Exists(Triggers) \ Forgotten, dev)
    BY <1>6, <2>1 DEF Uses
  <2>4. \A dev \in Devices : Cardinality(Announced(dev))' = Cardinality(Announced(dev))
    BY <2>2
  <2> QED
    BY <2>3, <2>4 DEF IInv, CountsExact, memory
<1> QED
  BY <1>2, <1>5, <1>7, <1>9, <1>10, <1>11, <1>12 DEF IInv

-----------------------------------------------------------------------------
(* What a step of slot s leaves alone.                                     *)

Changed(s, n) ==
    /\ request' = [request EXCEPT ![s] = n]
    /\ \/ n = Idle
       \/ n \in Working /\ n.todo # <<>> /\ IsFiniteSet(n.build) /\ n.rule = request[s].rule

LEMMA ChangedIs ==
  ASSUME IInv, NEW s \in Slots, Busy(s), NEW n, Changed(s, n)
  PROVE  /\ DOMAIN request' = Slots
         /\ request'[s] = n /\ \A x \in Slots \ {s} : request'[x] = request[x]
         /\ Busy(s)' <=> n # Idle
         /\ \A x \in Slots \ {s} : Busy(x)' <=> Busy(x)
         /\ \A x \in Slots \ {s} : Stage(x)' = Stage(x)
         /\ \A x \in Slots : /\ request'[x] = Idle \/ request'[x] \in Working
                             /\ Busy(x)' => IsFiniteSet(request'[x].build)
         /\ Alone'
         /\ \A r : \A x \in Slots \ {s} : x \in On(r)' <=> x \in On(r)
         /\ \A r : s \in On(r)' <=> n # Idle /\ n.rule = r
<1>1. \/ n = Idle
      \/ n \in Working /\ n.todo # <<>> /\ IsFiniteSet(n.build) /\ On(n.rule) \subseteq {s}
  BY Working1 DEF Changed
<1> QED
  BY <1>1, OneSlot DEF IInv, Changed

LEMMA PhaseElsewhere ==
  ASSUME IInv, NEW s \in Slots, Busy(s), NEW n, Changed(s, n),
         \A x \in Slots \ {s} : Busy(x) => request[x].if \subseteq Exists(Triggers)',
         n # Idle => Phase(n)'
  PROVE  Phases'
<1>1. /\ request'[s] = n /\ \A x \in Slots \ {s} : request'[x] = request[x]
      /\ Busy(s)' <=> n # Idle
      /\ \A x \in Slots \ {s} : Busy(x)' <=> Busy(x)
  BY ChangedIs
<1>2. \A x \in Slots \ {s} : Busy(x) => Phase(request[x])
  BY DEF IInv, Phases
<1> SUFFICES ASSUME NEW x \in Slots, Busy(x)' PROVE Phase(request[x])'
  BY DEF Phases
<1>3. CASE x = s
  BY <1>1, <1>3 DEF Phase
<1>4. CASE x # s
  <2>1. request'[x] = request[x] /\ Phase(request[x]) /\ request[x].if \subseteq Exists(Triggers)'
    BY <1>1, <1>2, <1>4
  <2> QED
    BY <2>1 DEF Phase
<1> QED
  BY <1>3, <1>4

LEMMA OwnsElsewhere ==
  ASSUME IInv, NEW s \in Slots, Busy(s), NEW n, Changed(s, n),
         NEW r \in Rules, NEW t \in Triggers, Owns(r, t)',
         n # Idle /\ Holds(n, t) => Holds(request[s], t),
         t \in rule'[r].if => Owns(r, t)
  PROVE  Owns(r, t)
<1>1. /\ request'[s] = n /\ \A x \in Slots \ {s} : request'[x] = request[x]
      /\ \A x \in Slots \ {s} : x \in On(r)' <=> x \in On(r)
      /\ s \in On(r)' <=> n # Idle /\ n.rule = r
  BY ChangedIs
<1>2. CASE t \in rule'[r].if
  BY <1>2
<1>3. CASE \E x \in On(r)' : Holds(request'[x], t)
  <2>1. PICK x \in On(r)' : Holds(request'[x], t)
    BY <1>3
  <2>2. x \in Slots
    BY DEF On
  <2>3. CASE x # s
    BY <2>1, <2>2, <2>3, <1>1 DEF Owns
  <2>4. CASE x = s
    <3>1. n # Idle /\ n.rule = r /\ Holds(n, t)
      BY <2>1, <2>4, <1>1
    <3>2. Holds(request[s], t) /\ request[s].rule = r
      BY <3>1 DEF Changed
    <3> QED
      BY <3>2 DEF Owns, On
  <2> QED
    BY <2>3, <2>4
<1> QED
  BY <1>2, <1>3 DEF Owns

\* A rule, as Kept says it.
KeptRule(r) ==
    rule[r].state = "stored" /\ r \notin interrupted =>
        /\ On(r) = {} => rule[r].if \subseteq Exists(Triggers)
        /\ \A s \in On(r) : Through(request[s]) =>
              /\ rule[r].if = request[s].if
              /\ \A i \in 1..Len(request[s].todo) : request[s].todo[i] \notin {"forget", "triggers"}

LEMMA KeptElsewhere ==
  ASSUME IInv, NEW s \in Slots, Busy(s), NEW n, Changed(s, n),
         UNCHANGED interrupted, NEW r \in Rules, r # request[s].rule, rule'[r] = rule[r],
         \A t \in rule[r].if : t \in Exists(Triggers) => t \in Exists(Triggers)'
  PROVE  KeptRule(r)'
<1>1. /\ request'[s] = n /\ \A x \in Slots \ {s} : request'[x] = request[x]
      /\ \A x \in Slots \ {s} : x \in On(r)' <=> x \in On(r)
      /\ s \in On(r)' <=> n # Idle /\ n.rule = r
  BY ChangedIs
<1>2. s \notin On(r) /\ s \notin On(r)'
  BY <1>1 DEF On, Changed
<1>3. On(r)' = On(r) /\ \A x \in On(r) : request'[x] = request[x]
  BY <1>1, <1>2 DEF On
<1>4. KeptRule(r)
  BY DEF IInv, Kept, KeptRule
<1> QED
  BY <1>3, <1>4 DEF KeptRule, Through

LEMMA KeptIs == Kept <=> \A r \in Rules : KeptRule(r)
  BY DEF Kept, KeptRule

\* A trigger that a request is to delete, or gives up, is in no other list.
LEMMA OnlyMine ==
  ASSUME IInv, NEW s \in Slots, Busy(s), NEW t \in Triggers, Holds(request[s], t)
  PROVE  /\ \A x \in Slots \ {s} : Busy(x) => ~Holds(request[x], t)
         /\ \A r \in Rules : r # request[s].rule => t \notin rule[r].if
<1>1. s \in On(request[s].rule) /\ request[s].rule \in Rules
  BY Working1
<1>2. Owns(request[s].rule, t)
  BY <1>1 DEF Owns
<1>3. ASSUME NEW x \in Slots \ {s}, Busy(x), Holds(request[x], t) PROVE FALSE
  <2>1. x \in On(request[x].rule) /\ request[x].rule \in Rules
    BY <1>3, Working1
  <2>2. Owns(request[x].rule, t)
    BY <2>1, <1>3 DEF Owns
  <2>3. request[x].rule = request[s].rule
    BY <1>1, <1>2, <2>1, <2>2 DEF IInv, Apart
  <2> QED
    BY <2>3, <1>3 DEF IInv, Alone
<1>4. ASSUME NEW r \in Rules, r # request[s].rule, t \in rule[r].if PROVE FALSE
  <2>1. Owns(r, t)
    BY <1>4 DEF Owns
  <2> QED
    BY <1>1, <1>2, <1>4, <2>1 DEF IInv, Apart
<1> QED
  BY <1>3, <1>4

-----------------------------------------------------------------------------
(* The stages that touch triggers and counts.                              *)

LEMMA AdvancingTo ==
  ASSUME IInv, NEW s \in Slots, Busy(s), NEW q \in Working, q.todo = request[s].todo,
         q.rule = request[s].rule, IsFiniteSet(q.build), Advanced(s, q)
  PROVE  \E n : /\ Changed(s, n)
                /\ \/ n = Idle /\ Len(q.todo) = 1
                   \/ /\ n # Idle /\ n \in Working /\ n.todo # <<>>
                      /\ n.todo = Tail(q.todo) /\ n.rule = q.rule /\ n.loaded = q.loaded /\ n.if = q.if
                      /\ n.drop = q.drop /\ n.build = q.build
<1>1. PICK n : /\ request' = [request EXCEPT ![s] = n]
               /\ \/ n = Idle /\ Len(q.todo) = 1
                  \/ /\ n = [q EXCEPT !.todo = Tail(q.todo)] /\ n \in Working /\ n.todo # <<>>
                     /\ IsFiniteSet(n.build) /\ On(n.rule) \subseteq {s} /\ n # Idle
                     /\ n.todo = Tail(q.todo) /\ n.rule = q.rule /\ n.loaded = q.loaded /\ n.if = q.if
                     /\ n.drop = q.drop /\ n.build = q.build
  BY Advancing
<1>2. Changed(s, n)
  BY <1>1 DEF Changed
<1> QED
  BY <1>1, <1>2

\* What is left to do after the stage at hand.
LEMMA Remaining ==
  ASSUME IInv, NEW s \in Slots, Busy(s)
  PROVE  LET q == request[s].todo
         IN  /\ q \in Seq(StageNames \cup Users) /\ q # <<>> /\ Ordered(q) /\ Stage(s) = q[1]
             /\ Len(q) \in Nat /\ Len(q) > 0 /\ Tail(q) \in Seq(StageNames \cup Users)
             /\ Len(Tail(q)) = Len(q) - 1 /\ Ordered(Tail(q))
             /\ \A i \in 1..Len(Tail(q)) : i + 1 \in 1..Len(q) /\ Tail(q)[i] = q[i + 1]
             /\ \A i \in 1..Len(Tail(q)) : Tail(q)[i] # "forget"
             /\ \A i \in 1..Len(Tail(q)) : Tail(q)[i] = "drop" => q[1] = "forget" /\ i = 1
             /\ q[1] = "forget" => Tail(q) # <<>> /\ Head(Tail(q)) = "drop"
             /\ q[1] \in Writers => \A i \in 1..Len(Tail(q)) :
                   Tail(q)[i] \notin Writers \cup {"forget", "drop", "triggers"}
             /\ Tail(q) # <<>> => Head(Tail(q)) = Tail(q)[1] /\ 1 \in 1..Len(Tail(q))
<1> DEFINE q == request[s].todo
<1>1. q \in Seq(StageNames \cup Users) /\ q # <<>> /\ Ordered(q) /\ Stage(s) = q[1]
  BY Working1 DEF Phase
<1>2. /\ Len(q) \in Nat /\ Len(q) > 0 /\ Tail(q) \in Seq(StageNames \cup Users) /\ Len(Tail(q)) = Len(q) - 1
      /\ \A i \in 1..Len(Tail(q)) : i + 1 \in 1..Len(q) /\ Tail(q)[i] = q[i + 1]
  BY <1>1, Tails
<1>3. Tail(q) # <<>> => Head(Tail(q)) = Tail(q)[1] /\ 1 \in 1..Len(Tail(q))
  BY <1>2, Tails
<1> QED
  BY <1>1, <1>2, <1>3, OrderedTail

\* While the stage at hand does not write the rule, a request that is through was before.
LEMMA ThroughBefore ==
  ASSUME IInv, NEW s \in Slots, Busy(s), Stage(s) \notin Writers, NEW n, n.todo = Tail(request[s].todo), Through(n)
  PROVE  Through(request[s])
<1> DEFINE q == request[s].todo
<1>1. /\ Stage(s) = q[1] /\ Len(q) \in Nat /\ Len(Tail(q)) = Len(q) - 1
      /\ \A i \in 1..Len(Tail(q)) : i + 1 \in 1..Len(q) /\ Tail(q)[i] = q[i + 1]
  BY Remaining
<1> SUFFICES ASSUME NEW i \in 1..Len(q) PROVE q[i] \notin Writers
  BY DEF Through
<1>2. CASE i = 1
  BY <1>1, <1>2
<1>3. CASE i # 1
  <2>1. i - 1 \in 1..Len(Tail(q)) /\ Tail(q)[i - 1] = q[i]
    BY <1>1, <1>3
  <2> QED
    BY <2>1 DEF Through
<1> QED
  BY <1>2, <1>3

\* A request that still has topics to give up or triggers to make has its rule to write.
LEMMA NotThrough ==
  ASSUME IInv, NEW s \in Slots, Busy(s), Stage(s) \in {"forget", "triggers"},
         rule[request[s].rule].state = "stored", request[s].rule \notin interrupted
  PROVE  ~Through(request[s])
<1>1. s \in On(request[s].rule) /\ request[s].rule \in Rules
  BY Working1
<1>2. 1 \in 1..Len(request[s].todo) /\ request[s].todo[1] \in {"forget", "triggers"}
  BY Remaining
<1> QED
  BY <1>1, <1>2 DEF IInv, Kept

LEMMA ForgetKeeps ==
  ASSUME IInv, NEW s \in Slots, Forget(s)
  PROVE  IInv'
<1> DEFINE q == [request[s] EXCEPT !.if = {}]
           B == request[s].loaded.if
<1>1. Busy(s) /\ Stage(s) = "forget" /\ Dropped(B) /\ Advanced(s, q) /\ UNCHANGED <<database, jobs, interrupted>>
  BY DEF Forget
<1>2. /\ request[s] \in Working /\ Phase(request[s]) /\ IsFiniteSet(request[s].build)
      /\ On(request[s].rule) = {s} /\ request[s].rule \in Rules
  BY <1>1, Working1
<1>3. /\ q \in Working /\ q.todo = request[s].todo /\ q.rule = request[s].rule /\ q.loaded = request[s].loaded
      /\ q.if = {} /\ q.drop = request[s].drop /\ q.build = request[s].build
  BY <1>2 DEF Working
<1>4. PICK n : /\ Changed(s, n)
               /\ \/ n = Idle /\ Len(request[s].todo) = 1
                  \/ /\ n # Idle /\ n \in Working /\ n.todo # <<>>
                     /\ n.todo = Tail(request[s].todo) /\ n.rule = request[s].rule
                     /\ n.loaded = request[s].loaded /\ n.if = {}
                     /\ n.drop = request[s].drop /\ n.build = request[s].build
  <2> HIDE DEF q
  <2> QED
    BY <1>1, <1>2, <1>3, AdvancingTo
<1>5. /\ n # Idle /\ n \in Working /\ n.todo = Tail(request[s].todo) /\ n.rule = request[s].rule
      /\ n.loaded = request[s].loaded /\ n.if = {} /\ n.drop = request[s].drop /\ n.build = request[s].build
      /\ Head(n.todo) = "drop" /\ Ordered(n.todo)
  <2>1. /\ Tail(request[s].todo) # <<>> /\ Head(Tail(request[s].todo)) = "drop" /\ Ordered(Tail(request[s].todo))
        /\ Len(request[s].todo) # 1
    BY SMTT(30), <1>1, Remaining, EmptySeq
  <2> QED
    BY <2>1, <1>4
<1>6. /\ DOMAIN request' = Slots
      /\ request'[s] = n /\ \A x \in Slots \ {s} : request'[x] = request[x]
      /\ Busy(s)' /\ Stage(s)' = "drop"
      /\ \A x \in Slots \ {s} : Busy(x)' <=> Busy(x)
      /\ \A x \in Slots \ {s} : Stage(x)' = Stage(x)
      /\ \A x \in Slots : /\ request'[x] = Idle \/ request'[x] \in Working
                          /\ Busy(x)' => IsFiniteSet(request'[x].build)
      /\ Alone'
      /\ \A r : \A x \in Slots \ {s} : x \in On(r)' <=> x \in On(r)
      /\ \A r : s \in On(r)' <=> n.rule = r
  <2>1. /\ DOMAIN request' = Slots
        /\ request'[s] = n /\ \A x \in Slots \ {s} : request'[x] = request[x]
        /\ Busy(s)'
        /\ \A x \in Slots \ {s} : Busy(x)' <=> Busy(x)
        /\ \A x \in Slots \ {s} : Stage(x)' = Stage(x)
        /\ \A x \in Slots : /\ request'[x] = Idle \/ request'[x] \in Working
                            /\ Busy(x)' => IsFiniteSet(request'[x].build)
        /\ Alone'
        /\ \A r : \A x \in Slots \ {s} : x \in On(r)' <=> x \in On(r)
        /\ \A r : s \in On(r)' <=> n # Idle /\ n.rule = r
    BY <1>1, <1>4, <1>5, ChangedIs
  <2>2. Stage(s)' = "drop"
    BY <2>1, <1>5 DEF Stage
  <2> QED
    BY <2>1, <2>2, <1>5
<1>7. B = request[s].drop /\ B = request[s].if /\ B \in SUBSET Exists(Triggers) /\ B \in SUBSET Triggers
  BY <1>1, <1>2 DEF Phase, Stage, Working
<1>8. \A t \in B : t \notin Forgotten
  <2> SUFFICES ASSUME NEW t \in B, NEW x \in Slots, Busy(x), Stage(x) = "drop", t \in request[x].drop
               PROVE  FALSE
    BY ForgottenAre
  <2>1. t \in Triggers /\ x # s /\ Holds(request[s], t) /\ Holds(request[x], t)
    BY <1>1, <1>7 DEF Holds
  <2> QED
    BY <2>1, <1>1, OnlyMine
<1> DEFINE A == Exists(Triggers) \ Forgotten
<1>9. A \in SUBSET Triggers /\ B \in SUBSET A
  BY <1>7, <1>8 DEF Exists
<1>10. Exists(Triggers)' = Exists(Triggers)
  BY <1>1 DEF Exists, database
<1>11. Forgotten' = Forgotten \cup B
  <2>1. \A t : t \in Forgotten' <=> \E x \in Slots : Busy(x)' /\ Stage(x)' = "drop" /\ t \in request'[x].drop
    BY DEF Forgotten
  <2>2. \A t : t \in Forgotten' <=> t \in n.drop \/ \E x \in Slots \ {s} : Busy(x) /\ Stage(x) = "drop" /\ t \in request[x].drop
    BY <2>1, <1>6
  <2>3. \A t : t \in Forgotten <=> \E x \in Slots \ {s} : Busy(x) /\ Stage(x) = "drop" /\ t \in request[x].drop
    BY ForgottenAre, <1>1
  <2> QED
    BY <2>2, <2>3, <1>5, <1>7
<1>12. \A dev \in Devices : Announced(dev)' = Announced(dev)
  <2> TAKE dev \in Devices
  <2>1. \A b \in request[s].build : dev \notin b.counted
    BY <1>1, <1>2 DEF Phase, Stage
  <2>2. \A p : p \in Announced(dev)' <=>
            \E x \in Slots \ {s} : \E b \in request[x].build : Busy(x) /\ dev \in b.counted /\ p = <<x, b>>
    BY <2>1, <1>5, <1>6 DEF Announced
  <2>3. \A p : p \in Announced(dev) <=>
            \E x \in Slots \ {s} : \E b \in request[x].build : Busy(x) /\ dev \in b.counted /\ p = <<x, b>>
    BY <2>1, AnnouncedAre
  <2> QED
    BY <2>2, <2>3
<1>13. \A dev \in Devices :
          /\ Uses(B, dev) \in Nat /\ Uses(B, dev) <= count[dev] /\ count[dev] \in Nat
          /\ count'[dev] = count[dev] - Uses(B, dev)
          /\ count'[dev] = Uses(A \ B, dev) + Cardinality(Announced(dev))
          /\ count'[dev] \in Nat
  <2> TAKE dev \in Devices
  <2>1. /\ Uses(B, dev) \in Nat /\ Uses(A, dev) \in Nat /\ Uses(A \ B, dev) \in Nat
        /\ Uses(A \ B, dev) = Uses(A, dev) - Uses(B, dev) /\ Uses(B, dev) <= Uses(A, dev)
    <3> HIDE DEF A, B
    <3> QED
      BY <1>9, UsesNat, UsesWithout
  <2>2. count[dev] = Uses(A, dev) + Cardinality(Announced(dev)) /\ count[dev] \in Nat
    BY DEF IInv, CountsExact, Typed
  <2>3. Cardinality(Announced(dev)) = count[dev] - Uses(A, dev)
        /\ (Cardinality(Announced(dev)) \in Nat)
    <3>1. Cardinality(Announced(dev)) \in Nat
      BY AnnouncedFinite DEF IInv
    <3> QED
      BY <2>1, <2>2, <3>1
  <2>4. Uses(B, dev) <= count[dev]
    BY <2>1, <2>2, <2>3
  <2>5. count'[dev] = count[dev] - Min({count[dev], Uses(B, dev)})
    BY <1>1 DEF Dropped
  <2>6. Min({count[dev], Uses(B, dev)}) = Uses(B, dev)
    <3>1. PICK c, b : c = count[dev] /\ b = Uses(B, dev)
      OBVIOUS
    <3>2. c \in Nat /\ b \in Nat /\ b <= c
      <4> HIDE DEF A, B
      <4> QED
        BY <3>1, <2>1, <2>2, <2>4
    <3>3. Min({c, b}) = b
      BY <3>2, SmallerOf
    <3> QED
      BY <3>1, <3>3
  <2>7. count'[dev] = count[dev] - Uses(B, dev)
    BY <2>5, <2>6
  <2>8. count'[dev] = Uses(A \ B, dev) + Cardinality(Announced(dev)) /\ count'[dev] \in Nat
    <3> DEFINE ub == Uses(B, dev)  ua == Uses(A, dev)  un == Uses(A \ B, dev)
               an == Cardinality(Announced(dev))  c == count[dev]  d == count'[dev]
    <3>1. /\ ub \in Nat /\ ua \in Nat /\ un \in Nat /\ an \in Nat /\ c \in Nat
          /\ un = ua - ub /\ ub <= c /\ c = ua + an /\ d = c - ub
      BY <2>1, <2>2, <2>3, <2>4, <2>7
    <3>2. d = un + an /\ d \in Nat
      <4> HIDE DEF ub, ua, un, an, c, d
      <4> QED
        BY <3>1
    <3> QED
      BY <3>2
  <2> QED
    BY <2>1, <2>2, <2>4, <2>7, <2>8
<1>14. Typed'
  <2>1. count' \in [Devices -> Nat]
    BY <1>1, <1>13 DEF Dropped
  <2> QED
    BY <2>1, <1>1, <1>6 DEF IInv, Typed, database
<1>15. Phases'
  <2>1. \A x \in Slots \ {s} : Busy(x) => request[x].if \subseteq Exists(Triggers)'
    BY <1>10, Working1 DEF Phase
  <2>2. Phase(n)'
    BY <1>1, <1>2, <1>5 DEF Phase, Stage
  <2> QED
    BY <2>1, <2>2, <1>1, <1>4, PhaseElsewhere
<1>16. Apart' /\ Known'
  <2>1. \A r \in Rules, t \in Triggers : Owns(r, t)' => Owns(r, t)
    BY <1>1, <1>4, <1>5, OwnsElsewhere DEF Holds, Owns, database
  <2> QED
    BY <2>1, <1>1, Fewer DEF database
<1>17. Kept'
  <2>1. \A r \in Rules : r # request[s].rule => KeptRule(r)'
    BY <1>1, <1>4, <1>10, KeptElsewhere DEF database
  <2>2. ASSUME NEW r \in Rules, r = request[s].rule PROVE KeptRule(r)'
    <3>1. On(r)' = {s}
      BY <2>2, <1>2, <1>5, <1>6 DEF On
    <3>2. rule[r].state = "stored" /\ r \notin interrupted => ~Through(n)
      BY <2>2, <1>1, <1>5, ThroughBefore, NotThrough DEF Writers
    <3> QED
      BY <3>1, <3>2, <1>1, <1>6 DEF KeptRule, database, Through
  <2> QED
    BY <2>1, <2>2 DEF Kept, KeptRule
<1>18. CountedAreHeard'
  <2> SUFFICES ASSUME NEW dev \in Devices, count'[dev] > 0, ProjectOf[dev] \in clients'
               PROVE  dev \in subscribed'
    BY DEF CountedAreHeard
  <2>1. count[dev] > 0 /\ ProjectOf[dev] \in clients
    BY <1>1, <1>13 DEF Dropped
  <2> QED
    BY <2>1, <1>1, <1>13 DEF Dropped, IInv, CountedAreHeard
<1>19. CountsExact'
  <2> SUFFICES ASSUME NEW dev \in Devices
               PROVE  count'[dev] = Uses(Exists(Triggers) \ Forgotten, dev)' + Cardinality(Announced(dev))'
    BY DEF CountsExact
  <2>1. (Exists(Triggers) \ Forgotten)' = A \ B
    BY <1>10, <1>11
  <2>2. Uses(Exists(Triggers) \ Forgotten, dev)' = Uses(A \ B, dev)
    BY <2>1, <1>1 DEF Uses, database
  <2> QED
    BY <2>2, <1>12, <1>13
<1> QED
  BY <1>6, <1>14, <1>15, <1>16, <1>17, <1>18, <1>19 DEF IInv

LEMMA AnnouncedSame ==
  ASSUME IInv, NEW s \in Slots, Busy(s), NEW n, Changed(s, n), Stage(s) # "triggers",
         n # Idle => n.build = request[s].build, NEW dev
  PROVE  Announced(dev)' = Announced(dev)
<1>1. \A b \in request[s].build : dev \notin b.counted
  BY Working1 DEF Phase, Stage
<1>2. \A p : p \in Announced(dev)' <=>
          \E x \in Slots \ {s} : \E b \in request[x].build : Busy(x) /\ dev \in b.counted /\ p = <<x, b>>
  <2>1. /\ request'[s] = n /\ \A x \in Slots \ {s} : request'[x] = request[x]
        /\ Busy(s)' <=> n # Idle
        /\ \A x \in Slots \ {s} : Busy(x)' <=> Busy(x)
    BY ChangedIs
  <2> QED
    BY <1>1, <2>1 DEF Announced
<1>3. \A p : p \in Announced(dev) <=>
          \E x \in Slots \ {s} : \E b \in request[x].build : Busy(x) /\ dev \in b.counted /\ p = <<x, b>>
  BY <1>1, AnnouncedAre
<1> QED
  BY <1>2, <1>3

LEMMA DropTriggerKeeps ==
  ASSUME IInv, NEW s \in Slots, DropTrigger(s)
  PROVE  IInv'
<1>1. CASE request[s].drop = {} /\ Advanced(s, request[s]) /\ UNCHANGED trigger
  <2>1. Busy(s) /\ Stage(s) = "drop" /\ UNCHANGED <<rule, trigger, memory, interrupted>>
    BY <1>1 DEF DropTrigger
  <2>2. request[s] \in Working
    BY <2>1, Working1
  <2> QED
    BY <1>1, <2>1, <2>2, Onward DEF Writers
<1>2. CASE \E t \in request[s].drop :
             /\ trigger' = [trigger EXCEPT ![t].state = "deleted"]
             /\ request' = [request EXCEPT ![s].drop = @ \ {t}]
  <2>1. Busy(s) /\ Stage(s) = "drop" /\ UNCHANGED <<rule, memory, interrupted>>
    BY DEF DropTrigger
  <2>2. PICK t \in request[s].drop : /\ trigger' = [trigger EXCEPT ![t].state = "deleted"]
                                     /\ request' = [request EXCEPT ![s].drop = @ \ {t}]
    BY <1>2
  <2>3. /\ request[s] \in Working /\ Phase(request[s]) /\ IsFiniteSet(request[s].build)
        /\ request[s].todo # <<>> /\ On(request[s].rule) = {s} /\ request[s].rule \in Rules
    BY <2>1, Working1
  <2>4. PICK n : n = [request[s] EXCEPT !.drop = @ \ {t}]
    OBVIOUS
  <2>5. /\ n \in Working /\ n.todo = request[s].todo /\ n.rule = request[s].rule
        /\ n.loaded = request[s].loaded /\ n.if = request[s].if /\ n.build = request[s].build
        /\ n.drop = request[s].drop \ {t} /\ t \in Triggers
    BY <2>3, <2>4 DEF Working
  <2>6. request' = [request EXCEPT ![s] = n]
    BY <2>2, <2>4 DEF IInv, Typed
  <2>7. n # Idle /\ Changed(s, n)
    BY <2>3, <2>5, <2>6, NotIdle DEF Changed
  <2>8. /\ DOMAIN request' = Slots
        /\ request'[s] = n /\ \A x \in Slots \ {s} : request'[x] = request[x]
        /\ Busy(s)' /\ Alone'
        /\ \A x \in Slots \ {s} : Busy(x)' <=> Busy(x)
        /\ \A x \in Slots \ {s} : Stage(x)' = Stage(x)
        /\ \A x \in Slots : /\ request'[x] = Idle \/ request'[x] \in Working
                            /\ Busy(x)' => IsFiniteSet(request'[x].build)
        /\ \A r : \A x \in Slots \ {s} : x \in On(r)' <=> x \in On(r)
        /\ \A r : s \in On(r)' <=> n.rule = r
    BY <2>1, <2>7, ChangedIs
  <2>9. Stage(s)' = "drop"
    BY <2>1, <2>5, <2>8 DEF Stage
  <2>10. /\ trigger' \in [Triggers -> TriggerType] /\ \A u \in Triggers \ {t} : trigger'[u] = trigger[u]
         /\ trigger'[t].state = "deleted" /\ \A u \in Triggers : trigger'[u].devices = trigger[u].devices
    BY <2>2, <2>5 DEF IInv, Typed, TriggerType
  <2>11. Exists(Triggers)' = Exists(Triggers) \ {t}
    BY <2>10 DEF Exists
  <2>12. Holds(request[s], t)
    BY DEF Holds
  <2>13. Typed'
    BY <2>1, <2>8, <2>10 DEF IInv, Typed, memory
  <2>14. Phases'
    <3>1. \A x \in Slots \ {s} : Busy(x) => request[x].if \subseteq Exists(Triggers)'
      <4> SUFFICES ASSUME NEW x \in Slots \ {s}, Busy(x), NEW u \in request[x].if PROVE u \in Exists(Triggers)'
        OBVIOUS
      <4>1. u \in Exists(Triggers)
        BY Working1 DEF Phase
      <4>2. u # t
        BY <2>1, <2>5, <2>12, OnlyMine DEF Holds
      <4> QED
        BY <4>1, <4>2, <2>11
    <3>2. Phase(n)'
      BY <2>1, <2>3, <2>5 DEF Phase, Stage
    <3> QED
      BY <3>1, <3>2, <2>1, <2>7, PhaseElsewhere
  <2>15. Apart' /\ Known'
    <3>1. \A r \in Rules, u \in Triggers : Owns(r, u)' => Owns(r, u)
      BY <2>1, <2>5, <2>7, OwnsElsewhere DEF Holds, Owns
    <3>2. \A u \in Triggers : trigger[u].state # "unused" => trigger'[u].state # "unused"
      BY <2>10
    <3> QED
      BY <3>1, <3>2, Fewer
  <2>16. Kept'
    <3>1. ASSUME NEW r \in Rules, r # request[s].rule PROVE KeptRule(r)'
      <4>1. t \notin rule[r].if
        BY <3>1, <2>1, <2>5, <2>12, OnlyMine
      <4> QED
        BY <3>1, <4>1, <2>1, <2>7, <2>11, KeptElsewhere
    <3>2. ASSUME NEW r \in Rules, r = request[s].rule PROVE KeptRule(r)'
      <4>1. On(r)' = {s} /\ On(r) = {s}
        BY <3>2, <2>3, <2>5, <2>8 DEF On
      <4>2. KeptRule(r)
        BY DEF IInv, Kept, KeptRule
      <4> QED
        BY <4>1, <4>2, <2>1, <2>5, <2>8 DEF KeptRule, Through
    <3> QED
      BY <3>1, <3>2 DEF Kept, KeptRule
  <2>17. CountedAreHeard'
    BY <2>1 DEF IInv, CountedAreHeard, memory
  <2>18. CountsExact'
    <3> SUFFICES ASSUME NEW dev \in Devices
                 PROVE  count'[dev] = Uses(Exists(Triggers) \ Forgotten, dev)' + Cardinality(Announced(dev))'
      BY DEF CountsExact
    <3>1. \A u : u \in Forgotten' <=> u \in n.drop \/ \E x \in Slots \ {s} : Busy(x) /\ Stage(x) = "drop" /\ u \in request[x].drop
      BY <2>8, <2>9 DEF Forgotten
    <3>2. \A u : u \in Forgotten <=> u \in request[s].drop \/ \E x \in Slots \ {s} : Busy(x) /\ Stage(x) = "drop" /\ u \in request[x].drop
      BY <2>1, ForgottenAre
    <3>3. (Exists(Triggers) \ Forgotten)' = Exists(Triggers) \ Forgotten
      BY <3>1, <3>2, <2>5, <2>11
    <3>4. Exists(Triggers) \subseteq Triggers
      BY DEF Exists
    <3>5. Uses(Exists(Triggers) \ Forgotten, dev)' = Uses(Exists(Triggers) \ Forgotten, dev)
      <4>1. {u \in Exists(Triggers) \ Forgotten : dev \in trigger'[u].devices}
              = {u \in Exists(Triggers) \ Forgotten : dev \in trigger[u].devices}
        BY <3>4, <2>10
      <4> QED
        BY <3>3, <4>1 DEF Uses
    <3>6. Announced(dev)' = Announced(dev)
      BY <2>1, <2>5, <2>7, AnnouncedSame
    <3> QED
      BY <3>5, <3>6, <2>1 DEF IInv, CountsExact, memory
  <2> QED
    BY <2>8, <2>13, <2>14, <2>15, <2>16, <2>17, <2>18 DEF IInv
<1> QED
  BY <1>1, <1>2 DEF DropTrigger

LEMMA CountTopicKeeps ==
  ASSUME IInv, NEW s \in Slots, CountTopic(s)
  PROVE  IInv'
<1>1. Busy(s) /\ Stage(s) = "triggers" /\ UNCHANGED <<rule, trigger, interrupted>>
  BY DEF CountTopic, database
<1>2. PICK b \in request[s].build : \E dev \in b.devices \ b.counted :
        /\ Counted(dev)
        /\ request' = [request EXCEPT ![s].build = (@ \ {b}) \cup {[b EXCEPT !.counted = @ \cup {dev}]}]
  BY DEF CountTopic
<1>3. PICK dev \in b.devices \ b.counted :
        /\ Counted(dev)
        /\ request' = [request EXCEPT ![s].build = (@ \ {b}) \cup {[b EXCEPT !.counted = @ \cup {dev}]}]
  BY <1>2
<1>4. /\ request[s] \in Working /\ Phase(request[s]) /\ IsFiniteSet(request[s].build)
      /\ request[s].todo # <<>> /\ On(request[s].rule) = {s} /\ request[s].rule \in Rules
  BY <1>1, Working1
<1>5. PICK c : c = [b EXCEPT !.counted = @ \cup {dev}]
  OBVIOUS
<1>6. /\ b \in BuildType /\ dev \in Devices /\ c \in BuildType
      /\ c.devices = b.devices /\ c.counted = b.counted \cup {dev}
  BY <1>4, <1>5 DEF Working, BuildType
<1>7. c \notin request[s].build /\ c # b
  BY <1>4, <1>6 DEF Phase
<1>8. PICK n : n = [request[s] EXCEPT !.build = (@ \ {b}) \cup {c}]
  OBVIOUS
<1>9. /\ n \in Working /\ n.todo = request[s].todo /\ n.rule = request[s].rule
      /\ n.loaded = request[s].loaded /\ n.if = request[s].if /\ n.drop = request[s].drop
      /\ n.build = (request[s].build \ {b}) \cup {c}
  BY <1>4, <1>6, <1>8 DEF Working
<1>10. IsFiniteSet(n.build)
  <2>1. IsFiniteSet(request[s].build \ {b})
    BY <1>4, FS_RemoveElement
  <2> QED
    BY <2>1, <1>9, FS_AddElement
<1>11. n # Idle /\ Changed(s, n)
  <2>1. request' = [request EXCEPT ![s] = n]
    BY <1>3, <1>5, <1>8 DEF IInv, Typed
  <2> QED
    BY <2>1, <1>4, <1>9, <1>10, NotIdle DEF Changed
<1>12. /\ DOMAIN request' = Slots
       /\ request'[s] = n /\ \A x \in Slots \ {s} : request'[x] = request[x]
       /\ Busy(s)' /\ Alone'
       /\ \A x \in Slots \ {s} : Busy(x)' <=> Busy(x)
       /\ \A x \in Slots \ {s} : Stage(x)' = Stage(x)
       /\ \A x \in Slots : /\ request'[x] = Idle \/ request'[x] \in Working
                           /\ Busy(x)' => IsFiniteSet(request'[x].build)
       /\ \A r : \A x \in Slots \ {s} : x \in On(r)' <=> x \in On(r)
       /\ \A r : s \in On(r)' <=> n.rule = r
  BY <1>1, <1>11, ChangedIs
<1>13. Stage(s)' = "triggers"
  BY <1>1, <1>9, <1>12 DEF Stage
<1>14. Exists(Triggers)' = Exists(Triggers)
  BY <1>1 DEF Exists
<1>15. /\ count' \in [Devices -> Nat] /\ count'[dev] = count[dev] + 1
       /\ \A d \in Devices \ {dev} : count'[d] = count[d]
  BY <1>3, <1>6 DEF Counted, IInv, Typed
<1>16. Typed'
  BY <1>1, <1>12, <1>15 DEF IInv, Typed
<1>17. Phases'
  <2>1. \A x \in Slots \ {s} : Busy(x) => request[x].if \subseteq Exists(Triggers)'
    BY <1>14, Working1 DEF Phase
  <2>2. \A d, e \in n.build : d.devices = e.devices => d = e
    BY <1>4, <1>6, <1>9 DEF Phase
  <2>3. Phase(n)'
    BY <1>1, <1>4, <1>9, <1>14, <2>2 DEF Phase, Stage
  <2> QED
    BY <2>1, <2>3, <1>1, <1>11, PhaseElsewhere
<1>18. Apart' /\ Known'
  <2>1. \A r \in Rules, t \in Triggers : Owns(r, t)' => Owns(r, t)
    BY <1>1, <1>9, <1>11, OwnsElsewhere DEF Holds, Owns
  <2> QED
    BY <2>1, <1>1, Fewer
<1>19. Kept'
  <2>1. ASSUME NEW r \in Rules, r # request[s].rule PROVE KeptRule(r)'
    BY <2>1, <1>1, <1>11, <1>14, KeptElsewhere
  <2>2. ASSUME NEW r \in Rules, r = request[s].rule PROVE KeptRule(r)'
    <3>1. On(r)' = {s} /\ On(r) = {s}
      BY <2>2, <1>4, <1>9, <1>12 DEF On
    <3>2. KeptRule(r)
      BY DEF IInv, Kept, KeptRule
    <3> QED
      BY <3>1, <3>2, <1>1, <1>9, <1>12 DEF KeptRule, Through
  <2> QED
    BY <2>1, <2>2 DEF Kept, KeptRule
<1>20. CountedAreHeard'
  BY <1>3, <1>6, <1>15 DEF Counted, IInv, CountedAreHeard, Typed
<1>21. CountsExact'
  <2>1. Forgotten' = Forgotten
    <3>1. \A t : t \in Forgotten' <=> \E x \in Slots \ {s} : Busy(x) /\ Stage(x) = "drop" /\ t \in request[x].drop
      BY <1>12, <1>13 DEF Forgotten
    <3>2. \A t : t \in Forgotten <=> \E x \in Slots \ {s} : Busy(x) /\ Stage(x) = "drop" /\ t \in request[x].drop
      BY <1>1, ForgottenAre
    <3> QED
      BY <3>1, <3>2
  <2>2. ASSUME NEW d \in Devices
        PROVE  Cardinality(Announced(d)') = Cardinality(Announced(d)) + (IF d = dev THEN 1 ELSE 0)
    <3>1. \A p : p \in Announced(d)' <=>
              \/ \E e \in n.build : d \in e.counted /\ p = <<s, e>>
              \/ \E x \in Slots \ {s} : \E e \in request[x].build : Busy(x) /\ d \in e.counted /\ p = <<x, e>>
      BY <1>12 DEF Announced
    <3>2. \A p : p \in Announced(d) <=>
              \/ \E e \in request[s].build : d \in e.counted /\ p = <<s, e>>
              \/ \E x \in Slots \ {s} : \E e \in request[x].build : Busy(x) /\ d \in e.counted /\ p = <<x, e>>
      BY <1>1, AnnouncedAre
    <3>3. <<s, c>> \notin Announced(d)
      BY <3>2, <1>7
    <3>4. IsFiniteSet(Announced(d)) /\ Cardinality(Announced(d)) \in Nat
      BY AnnouncedFinite DEF IInv
    <3>5. CASE d = dev
      <4>1. <<s, b>> \notin Announced(d)
        BY <3>2, <3>5
      <4>2. Announced(d)' = Announced(d) \cup {<<s, c>>}
        BY <3>1, <3>2, <3>5, <1>6, <1>9
      <4> QED
        BY <3>3, <3>4, <3>5, <4>2, FS_AddElement
    <3>6. CASE d # dev /\ d \in b.counted
      <4>1. <<s, b>> \in Announced(d)
        BY <3>2, <3>6
      <4>2. Announced(d)' = (Announced(d) \ {<<s, b>>}) \cup {<<s, c>>}
        BY <3>1, <3>2, <3>6, <1>6, <1>9
      <4>3. /\ IsFiniteSet(Announced(d) \ {<<s, b>>})
            /\ Cardinality(Announced(d) \ {<<s, b>>}) = Cardinality(Announced(d)) - 1
        BY <3>4, <4>1, FS_RemoveElement
      <4>4. Cardinality((Announced(d) \ {<<s, b>>}) \cup {<<s, c>>}) = Cardinality(Announced(d) \ {<<s, b>>}) + 1
        BY <3>3, <4>3, FS_AddElement
      <4> QED
        BY <3>4, <3>6, <4>2, <4>3, <4>4
    <3>7. CASE d # dev /\ d \notin b.counted
      <4>1. Announced(d)' = Announced(d)
        BY <3>1, <3>2, <3>7, <1>6, <1>9
      <4> QED
        BY <3>4, <3>7, <4>1
    <3> QED
      BY <3>5, <3>6, <3>7
  <2>3. ASSUME NEW d \in Devices
        PROVE  count'[d] = Uses(Exists(Triggers) \ Forgotten, d)' + Cardinality(Announced(d))'
    <3>1. Uses(Exists(Triggers) \ Forgotten, d)' = Uses(Exists(Triggers) \ Forgotten, d)
      BY <1>1, <1>14, <2>1 DEF Uses
    <3>2. Uses(Exists(Triggers) \ Forgotten, d) \in Nat
      <4>1. Exists(Triggers) \ Forgotten \in SUBSET Triggers
        BY DEF Exists
      <4> QED
        BY <4>1, UsesNat
    <3>3. count[d] = Uses(Exists(Triggers) \ Forgotten, d) + Cardinality(Announced(d))
      BY DEF IInv, CountsExact
    <3>4. Cardinality(Announced(d)) \in Nat
      BY AnnouncedFinite DEF IInv
    <3>5. Cardinality(Announced(d))' = Cardinality(Announced(d)) + (IF d = dev THEN 1 ELSE 0)
      BY <2>2
    <3>6. count'[d] = count[d] + (IF d = dev THEN 1 ELSE 0)
      BY <1>15 DEF IInv, Typed
    <3> DEFINE u == Uses(Exists(Triggers) \ Forgotten, d)  a == Cardinality(Announced(d))
    <3>7. u \in Nat /\ a \in Nat /\ count'[d] = (u + a) + (IF d = dev THEN 1 ELSE 0)
      BY <3>2, <3>3, <3>4, <3>6
    <3>8. count'[d] = u + (a + (IF d = dev THEN 1 ELSE 0))
      <4> HIDE DEF u, a
      <4> QED
        BY <3>7
    <3> QED
      BY <3>1, <3>5, <3>8
  <2> QED
    BY <2>3 DEF CountsExact
<1> QED
  BY <1>12, <1>16, <1>17, <1>18, <1>19, <1>20, <1>21 DEF IInv

LEMMA CreateTriggerKeeps ==
  ASSUME IInv, NEW s \in Slots, CreateTrigger(s)
  PROVE  IInv'
<1>1. Busy(s) /\ Stage(s) = "triggers" /\ UNCHANGED <<rule, memory, interrupted>>
  BY DEF CreateTrigger
<1>2. PICK b \in request[s].build, t \in Triggers :
        /\ b.counted = b.devices
        /\ trigger[t].state = "unused"
        /\ trigger' = [trigger EXCEPT ![t] = [state |-> "stored", devices |-> b.devices]]
        /\ request' = [request EXCEPT ![s].build = @ \ {b}, ![s].if = @ \cup {t}]
  BY DEF CreateTrigger
<1>3. /\ request[s] \in Working /\ Phase(request[s]) /\ IsFiniteSet(request[s].build)
      /\ request[s].todo # <<>> /\ On(request[s].rule) = {s} /\ request[s].rule \in Rules
  BY <1>1, Working1
<1>4. PICK n : n = [request[s] EXCEPT !.build = @ \ {b}, !.if = @ \cup {t}]
  OBVIOUS
<1>5. /\ n \in Working /\ n.todo = request[s].todo /\ n.rule = request[s].rule
      /\ n.loaded = request[s].loaded /\ n.if = request[s].if \cup {t} /\ n.drop = request[s].drop
      /\ n.build = request[s].build \ {b} /\ b \in BuildType
  BY <1>3, <1>4 DEF Working
<1>6. n # Idle /\ Changed(s, n)
  <2>1. request' = [request EXCEPT ![s] = n]
    BY <1>2, <1>4 DEF IInv, Typed
  <2>2. IsFiniteSet(n.build)
    BY <1>3, <1>5, FS_RemoveElement
  <2> QED
    BY <2>1, <2>2, <1>3, <1>5, NotIdle DEF Changed
<1>7. /\ DOMAIN request' = Slots
      /\ request'[s] = n /\ \A x \in Slots \ {s} : request'[x] = request[x]
      /\ Busy(s)' /\ Alone'
      /\ \A x \in Slots \ {s} : Busy(x)' <=> Busy(x)
      /\ \A x \in Slots \ {s} : Stage(x)' = Stage(x)
      /\ \A x \in Slots : /\ request'[x] = Idle \/ request'[x] \in Working
                          /\ Busy(x)' => IsFiniteSet(request'[x].build)
      /\ \A r : \A x \in Slots \ {s} : x \in On(r)' <=> x \in On(r)
      /\ \A r : s \in On(r)' <=> n.rule = r
  BY <1>1, <1>6, ChangedIs
<1>8. Stage(s)' = "triggers"
  BY <1>1, <1>5, <1>7 DEF Stage
<1>9. /\ trigger' \in [Triggers -> TriggerType] /\ \A u \in Triggers \ {t} : trigger'[u] = trigger[u]
      /\ trigger'[t].state = "stored" /\ trigger'[t].devices = b.devices
  BY <1>2, <1>5 DEF IInv, Typed, TriggerType, BuildType
<1>10. Exists(Triggers)' = Exists(Triggers) \cup {t} /\ t \notin Exists(Triggers)
  BY <1>2, <1>9 DEF Exists
<1>11. \A r \in Rules : ~Owns(r, t)
  BY <1>2 DEF IInv, Known
<1>12. Typed'
  BY <1>1, <1>7, <1>9 DEF IInv, Typed, memory
<1>13. Phases'
  <2>1. \A x \in Slots \ {s} : Busy(x) => request[x].if \subseteq Exists(Triggers)'
    BY <1>10, Working1 DEF Phase
  <2>2. Phase(n)'
    BY <1>1, <1>3, <1>5, <1>10 DEF Phase, Stage
  <2> QED
    BY <2>1, <2>2, <1>1, <1>6, PhaseElsewhere
<1>14. \A r \in Rules, u \in Triggers : Owns(r, u)' => Owns(r, u) \/ (u = t /\ r = request[s].rule)
  <2> SUFFICES ASSUME NEW r \in Rules, NEW u \in Triggers, Owns(r, u)', ~(u = t /\ r = request[s].rule)
               PROVE  Owns(r, u)
    OBVIOUS
  <2>1. u \in rule'[r].if => Owns(r, u)
    BY <1>1 DEF Owns
  <2>2. CASE u # t
    <3>1. Holds(n, u) => Holds(request[s], u)
      BY <2>2, <1>5 DEF Holds
    <3> QED
      BY <2>1, <3>1, <1>1, <1>6, OwnsElsewhere
  <2>3. CASE u = t
    <3>1. r # request[s].rule
      BY <2>3
    <3>2. s \notin On(r)'
      BY <3>1, <1>5, <1>7
    <3>3. \A x \in On(r)' : x \in Slots /\ x # s /\ x \in On(r) /\ request'[x] = request[x]
      BY <3>2, <1>7 DEF On
    <3> QED
      BY <2>1, <3>3 DEF Owns
  <2> QED
    BY <2>2, <2>3
<1>15. Apart'
  <2> SUFFICES ASSUME NEW u \in Triggers, NEW r1 \in Rules, NEW r2 \in Rules, Owns(r1, u)', Owns(r2, u)'
               PROVE  r1 = r2
    BY DEF Apart
  <2>1. CASE u = t
    BY <2>1, <1>11, <1>14
  <2>2. CASE u # t
    BY <2>2, <1>14 DEF IInv, Apart
  <2> QED
    BY <2>1, <2>2
<1>16. Known'
  <2> SUFFICES ASSUME NEW u \in Triggers, NEW r \in Rules, Owns(r, u)' PROVE trigger'[u].state # "unused"
    BY DEF Known
  <2>1. CASE u = t
    BY <2>1, <1>9
  <2>2. CASE u # t
    BY <2>2, <1>9, <1>14 DEF IInv, Known
  <2> QED
    BY <2>1, <2>2
<1>17. Kept'
  <2>1. ASSUME NEW r \in Rules, r # request[s].rule PROVE KeptRule(r)'
    BY <2>1, <1>1, <1>6, <1>10, KeptElsewhere
  <2>2. ASSUME NEW r \in Rules, r = request[s].rule PROVE KeptRule(r)'
    <3>1. On(r)' = {s}
      BY <2>2, <1>3, <1>5, <1>7 DEF On
    <3>2. rule[r].state = "stored" /\ r \notin interrupted => ~Through(request[s])
      BY <2>2, <1>1, NotThrough
    <3>3. Through(n) => Through(request[s])
      BY <1>5 DEF Through
    <3> QED
      BY <3>1, <3>2, <3>3, <1>1, <1>7 DEF KeptRule, Through
  <2> QED
    BY <2>1, <2>2 DEF Kept, KeptRule
<1>18. CountedAreHeard'
  BY <1>1 DEF IInv, CountedAreHeard, memory
<1>19. CountsExact'
  <2>1. Forgotten' = Forgotten
    <3>1. \A u : u \in Forgotten' <=> \E x \in Slots \ {s} : Busy(x) /\ Stage(x) = "drop" /\ u \in request[x].drop
      BY <1>7, <1>8 DEF Forgotten
    <3>2. \A u : u \in Forgotten <=> \E x \in Slots \ {s} : Busy(x) /\ Stage(x) = "drop" /\ u \in request[x].drop
      BY <1>1, ForgottenAre
    <3> QED
      BY <3>1, <3>2
  <2>2. t \notin Forgotten
    <3> SUFFICES ASSUME NEW x \in Slots, Busy(x), t \in request[x].drop PROVE FALSE
      BY ForgottenAre
    <3>1. x \in On(request[x].rule) /\ request[x].rule \in Rules
      BY Working1
    <3> QED
      BY <3>1, <1>11 DEF Owns, Holds
  <2> DEFINE A == Exists(Triggers) \ Forgotten
  <2>3. (Exists(Triggers) \ Forgotten)' = A \cup {t} /\ t \notin A /\ A \in SUBSET Triggers
    BY <2>1, <2>2, <1>10 DEF Exists
  <2>4. ASSUME NEW d \in Devices
        PROVE  count'[d] = Uses(Exists(Triggers) \ Forgotten, d)' + Cardinality(Announced(d))'
    <3> DEFINE of == {u \in A : d \in trigger[u].devices}
               more == IF d \in b.devices THEN 1 ELSE 0
    <3>1. IsFiniteSet(of) /\ Cardinality(of) = Uses(A, d) /\ Cardinality(of) \in Nat /\ t \notin of
      BY <2>3, UsesNat DEF Uses
    <3>2. Uses(Exists(Triggers) \ Forgotten, d)' = Cardinality({u \in A \cup {t} : d \in trigger'[u].devices})
      BY <2>3 DEF Uses
    <3>3. {u \in A \cup {t} : d \in trigger'[u].devices} = IF d \in b.devices THEN of \cup {t} ELSE of
      BY <2>3, <1>9
    <3>4. Uses(Exists(Triggers) \ Forgotten, d)' = Uses(A, d) + more
      <4>1. CASE d \in b.devices
        <5> HIDE DEF of
        <5>1. Cardinality(of \cup {t}) = Cardinality(of) + 1
          BY <3>1, FS_AddElement
        <5> QED
          BY <3>1, <3>2, <3>3, <4>1, <5>1
      <4>2. CASE d \notin b.devices
        <5>1. Uses(Exists(Triggers) \ Forgotten, d)' = Uses(A, d)
          BY <3>1, <3>2, <3>3, <4>2
        <5>2. Uses(A, d) \in Nat /\ more = 0
          BY <3>1, <4>2
        <5> HIDE DEF more, A
        <5> QED
          BY <5>1, <5>2
      <4> QED
        BY <4>1, <4>2
    <3>5. \A p : p \in Announced(d)' <=>
              \/ \E e \in n.build : d \in e.counted /\ p = <<s, e>>
              \/ \E x \in Slots \ {s} : \E e \in request[x].build : Busy(x) /\ d \in e.counted /\ p = <<x, e>>
      BY <1>7 DEF Announced
    <3>6. \A p : p \in Announced(d) <=>
              \/ \E e \in request[s].build : d \in e.counted /\ p = <<s, e>>
              \/ \E x \in Slots \ {s} : \E e \in request[x].build : Busy(x) /\ d \in e.counted /\ p = <<x, e>>
      BY <1>1, AnnouncedAre
    <3>7. IsFiniteSet(Announced(d)) /\ Cardinality(Announced(d)) \in Nat
      BY AnnouncedFinite DEF IInv
    <3>8. Cardinality(Announced(d))' = Cardinality(Announced(d)) - more
      <4>1. CASE d \in b.devices
        <5>1. <<s, b>> \in Announced(d)
          BY <3>6, <4>1, <1>2
        <5>2. Announced(d)' = Announced(d) \ {<<s, b>>}
          BY <3>5, <3>6, <1>5
        <5>3. Cardinality(Announced(d) \ {<<s, b>>}) = Cardinality(Announced(d)) - 1
          BY <3>7, <5>1, FS_RemoveElement
        <5> QED
          BY <4>1, <5>2, <5>3
      <4>2. CASE d \notin b.devices
        <5>1. Announced(d)' = Announced(d)
          BY <3>5, <3>6, <4>2, <1>2, <1>5
        <5> QED
          BY <3>7, <4>2, <5>1
      <4> QED
        BY <4>1, <4>2
    <3>9. count'[d] = count[d] /\ count[d] = Uses(A, d) + Cardinality(Announced(d))
      BY <1>1 DEF IInv, CountsExact, memory
    <3> DEFINE u == Uses(A, d)  a == Cardinality(Announced(d))
    <3>10. count'[d] = (u + more) + (a - more)
      <4>1. u \in Nat /\ a \in Nat /\ more \in Nat /\ count'[d] = u + a
        BY <3>1, <3>7, <3>9
      <4> HIDE DEF u, a, more
      <4> QED
        BY <4>1
    <3> QED
      BY <3>4, <3>8, <3>10
  <2> QED
    BY <2>4 DEF CountsExact
<1> QED
  BY <1>7, <1>12, <1>13, <1>15, <1>16, <1>17, <1>18, <1>19 DEF IInv

-----------------------------------------------------------------------------
(* The stages about actions, subscriptions and the rule itself.            *)

LEMMA TriggersDoneKeeps ==
  ASSUME IInv, NEW s \in Slots, TriggersDone(s)
  PROVE  IInv'
<1>1. /\ Busy(s) /\ Stage(s) = "triggers" /\ request[s].build = {} /\ Advanced(s, request[s])
      /\ UNCHANGED <<rule, trigger, memory, interrupted>>
  BY DEF TriggersDone, database
<1>2. request[s] \in Working
  BY <1>1, Working1
<1> QED
  BY <1>1, <1>2, Onward DEF Writers

LEMMA ClearActionKeeps ==
  ASSUME IInv, NEW s \in Slots, ClearAction(s)
  PROVE  IInv'
<1>1. /\ Busy(s) /\ Stage(s) = "clear" /\ Advanced(s, [request[s] EXCEPT !.then = {}])
      /\ UNCHANGED <<rule, trigger, memory, interrupted>>
  BY DEF ClearAction
<1>2. PICK q : q = [request[s] EXCEPT !.then = {}]
  OBVIOUS
<1>3. /\ q \in Working /\ q.todo = request[s].todo /\ q.rule = request[s].rule /\ q.loaded = request[s].loaded
      /\ q.if = request[s].if /\ q.drop = request[s].drop /\ q.build = request[s].build
  BY SMTT(30), <1>1, <1>2, Working1 DEF Working
<1> QED
  BY <1>1, <1>2, <1>3, Onward DEF Writers

LEMMA CreateActionKeeps ==
  ASSUME IInv, NEW s \in Slots, CreateAction(s)
  PROVE  IInv'
<1>1. Busy(s) /\ Stage(s) = "action" /\ UNCHANGED <<rule, trigger, memory, interrupted>>
  BY DEF CreateAction
<1>2. request[s] \in Working
  BY <1>1, Working1
<1>3. CASE Advanced(s, request[s])
  BY <1>1, <1>2, <1>3, Onward DEF Writers
<1>4. CASE \E a \in Actions : Advanced(s, [request[s] EXCEPT !.then = {a}])
  <2>1. PICK a \in Actions : Advanced(s, [request[s] EXCEPT !.then = {a}])
    BY <1>4
  <2>2. PICK q : q = [request[s] EXCEPT !.then = {a}]
    OBVIOUS
  <2>3. /\ q \in Working /\ q.todo = request[s].todo /\ q.rule = request[s].rule /\ q.loaded = request[s].loaded
        /\ q.if = request[s].if /\ q.drop = request[s].drop /\ q.build = request[s].build
    BY <1>2, <2>2 DEF Working
  <2> QED
    BY <1>1, <2>1, <2>2, <2>3, Onward DEF Writers
<1> QED
  BY <1>3, <1>4 DEF CreateAction

LEMMA UnsubscribeKeeps ==
  ASSUME IInv, NEW s \in Slots, Unsubscribe(s)
  PROVE  IInv'
<1>1. /\ Busy(s) /\ Stage(s) = "unsubscribe" /\ Advanced(s, request[s])
      /\ UNCHANGED <<rule, trigger, memory, interrupted>>
  BY DEF Unsubscribe
<1>2. request[s] \in Working
  BY <1>1, Working1
<1> QED
  BY <1>1, <1>2, Onward DEF Writers

LEMMA SubscribeKeeps ==
  ASSUME IInv, NEW s \in Slots, Subscribe(s)
  PROVE  IInv'
<1>1. /\ Busy(s) /\ Stage(s) \in Users /\ Advanced(s, request[s])
      /\ UNCHANGED <<rule, trigger, memory, interrupted>>
  BY DEF Subscribe
<1>2. Stage(s) \notin Writers \cup {"forget", "drop", "triggers"}
  BY <1>1, RulesAssumption DEF StageNames, Writers
<1>3. request[s] \in Working
  BY <1>1, Working1
<1> QED
  BY <1>1, <1>2, <1>3, Onward

LEMMA LookupKeeps ==
  ASSUME IInv, NEW s \in Slots, Lookup(s)
  PROVE  IInv'
<1>1. Busy(s) /\ Stage(s) = "subscribe" /\ UNCHANGED <<rule, trigger, memory, interrupted>>
  BY DEF Lookup, database
<1>2. /\ request[s] \in Working /\ Phase(request[s]) /\ IsFiniteSet(request[s].build)
      /\ request[s].todo # <<>> /\ On(request[s].rule) = {s} /\ request[s].rule \in Rules
  BY <1>1, Working1
<1>3. CASE Advanced(s, request[s])
  BY <1>1, <1>2, <1>3, Onward DEF Writers
<1>4. CASE \E u \in request[s].users :
             request' = [request EXCEPT ![s].users = @ \ {u},
                ![s].todo = IF subscription[request[s].rule][u] = 0 THEN <<u>> \o @ ELSE @]
  <2> DEFINE todo == request[s].todo
  <2>1. PICK u \in request[s].users :
             request' = [request EXCEPT ![s].users = @ \ {u},
                ![s].todo = IF subscription[request[s].rule][u] = 0 THEN <<u>> \o @ ELSE @]
    BY <1>4
  <2>2. PICK new : new = IF subscription[request[s].rule][u] = 0 THEN <<u>> \o todo ELSE todo
    OBVIOUS
  <2>3. u \in Users
    BY <1>2 DEF Working
  <2>4. /\ new \in Seq(StageNames \cup Users) /\ new # <<>> /\ Ordered(new)
        /\ Head(new) \notin {"forget", "drop", "triggers"} /\ Len(new) \in Nat
        /\ \A i \in 1..Len(todo) : \E j \in 1..Len(new) : new[j] = todo[i]
        /\ \A j \in 1..Len(new) : new[j] \in Users \/ \E i \in 1..Len(todo) : new[j] = todo[i]
    <3>1. /\ todo \in Seq(StageNames \cup Users) /\ Ordered(todo) /\ Head(todo) = "subscribe" /\ Len(todo) \in Nat
      BY <1>1, <1>2, Remaining DEF Stage
    <3>2. CASE new = todo
      BY <3>1, <3>2, <1>2
    <3>3. CASE new = <<u>> \o todo
      <4>1. /\ new \in Seq(StageNames \cup Users) /\ Ordered(new) /\ Head(new) = u /\ new # <<>>
            /\ u \notin StageNames /\ Len(new) = Len(todo) + 1
            /\ \A i \in 1..Len(todo) : new[i + 1] = todo[i]
        BY <3>1, <3>3, <2>3, <1>2, OrderedUser
      <4>2. \A i \in 1..Len(todo) : i + 1 \in 1..Len(new)
        BY <4>1, <3>1
      <4>3. \A j \in 1..Len(new) : j = 1 \/ (j - 1 \in 1..Len(todo) /\ new[j] = todo[j - 1])
        <5> TAKE j \in 1..Len(new)
        <5>1. CASE j # 1
          <6>1. j - 1 \in 1..Len(todo) /\ (j - 1) + 1 = j
            BY <5>1, <4>1, <3>1
          <6> QED
            BY <6>1, <4>1
        <5> QED
          BY <5>1
      <4>4. new[1] = u /\ Head(new) \notin {"forget", "drop", "triggers"}
        BY <4>1, Tails DEF StageNames
      <4> QED
        BY <4>1, <4>2, <4>3, <4>4, <3>1, <2>3
    <3> QED
      BY <3>2, <3>3, <2>2
  <2>5. PICK n : n = [request[s] EXCEPT !.users = @ \ {u}, !.todo = new]
    OBVIOUS
  <2>6. /\ n \in Working /\ n.todo = new /\ n.rule = request[s].rule
        /\ n.loaded = request[s].loaded /\ n.if = request[s].if /\ n.drop = request[s].drop
        /\ n.build = request[s].build
    BY <1>2, <2>4, <2>5 DEF Working
  <2>7. n # Idle /\ Changed(s, n)
    <3>1. request' = [request EXCEPT ![s] = n]
      BY <2>1, <2>2, <2>5 DEF IInv, Typed
    <3> QED
      BY <3>1, <1>2, <2>4, <2>6, NotIdle DEF Changed
  <2>8. /\ DOMAIN request' = Slots
        /\ request'[s] = n /\ \A x \in Slots \ {s} : request'[x] = request[x]
        /\ Busy(s)' /\ Alone'
        /\ \A x \in Slots \ {s} : Busy(x)' <=> Busy(x)
        /\ \A x \in Slots \ {s} : Stage(x)' = Stage(x)
        /\ \A x \in Slots : /\ request'[x] = Idle \/ request'[x] \in Working
                            /\ Busy(x)' => IsFiniteSet(request'[x].build)
        /\ \A r : \A x \in Slots \ {s} : x \in On(r)' <=> x \in On(r)
        /\ \A r : s \in On(r)' <=> n.rule = r
    BY <1>1, <2>7, ChangedIs
  <2>9. Stage(s)' # "drop"
    BY <2>4, <2>6, <2>8 DEF Stage
  <2>10. Exists(Triggers)' = Exists(Triggers)
    BY <1>1 DEF Exists
  <2>11. Typed'
    BY <1>1, <2>8 DEF IInv, Typed, memory
  <2>12. Phases'
    <3>1. \A x \in Slots \ {s} : Busy(x) => request[x].if \subseteq Exists(Triggers)'
      BY <2>10, Working1 DEF Phase
    <3>2. \A b \in n.build : b.counted = {}
      BY <1>1, <1>2, <2>6 DEF Phase, Stage
    <3>3. Phase(n)'
      BY <1>2, <2>4, <2>6, <2>10, <3>2 DEF Phase
    <3> QED
      BY <3>1, <3>3, <1>1, <2>7, PhaseElsewhere
  <2>13. Apart' /\ Known'
    <3>1. \A r \in Rules, t \in Triggers : Owns(r, t)' => Owns(r, t)
      BY <1>1, <2>6, <2>7, OwnsElsewhere DEF Holds, Owns
    <3> QED
      BY <3>1, <1>1, Fewer
  <2>14. Kept'
    <3>1. ASSUME NEW r \in Rules, r # request[s].rule PROVE KeptRule(r)'
      BY <3>1, <1>1, <2>7, <2>10, KeptElsewhere
    <3>2. ASSUME NEW r \in Rules, r = request[s].rule PROVE KeptRule(r)'
      <4>1. On(r)' = {s} /\ On(r) = {s}
        BY <3>2, <1>2, <2>6, <2>8 DEF On
      <4>2. KeptRule(r)
        BY DEF IInv, Kept, KeptRule
      <4>3. Through(n) => Through(request[s])
        BY <2>4, <2>6 DEF Through
      <4>4. (\A i \in 1..Len(todo) : todo[i] \notin {"forget", "triggers"}) =>
               \A i \in 1..Len(n.todo) : n.todo[i] \notin {"forget", "triggers"}
        BY <2>4, <2>6, RulesAssumption DEF StageNames
      <4> QED
        BY <4>1, <4>2, <4>3, <4>4, <1>1, <2>6, <2>8 DEF KeptRule, Through
    <3> QED
      BY <3>1, <3>2 DEF Kept, KeptRule
  <2>15. CountedAreHeard'
    BY <1>1 DEF IInv, CountedAreHeard, memory
  <2>16. CountsExact'
    <3>1. \A t : t \in Forgotten' <=> \E x \in Slots \ {s} : Busy(x) /\ Stage(x) = "drop" /\ t \in request[x].drop
      BY <2>8, <2>9 DEF Forgotten
    <3>2. \A t : t \in Forgotten <=> \E x \in Slots \ {s} : Busy(x) /\ Stage(x) = "drop" /\ t \in request[x].drop
      BY <1>1, ForgottenAre
    <3>3. Forgotten' = Forgotten
      BY <3>1, <3>2
    <3>4. \A d \in Devices : Uses(Exists(Triggers) \ Forgotten, d)' = Uses(Exists(Triggers) \ Forgotten, d)
      BY <1>1, <2>10, <3>3 DEF Uses
    <3>5. \A d \in Devices : Announced(d)' = Announced(d)
      BY <1>1, <2>6, <2>7, AnnouncedSame
    <3> QED
      BY <3>4, <3>5, <1>1 DEF IInv, CountsExact, memory
  <2> QED
    BY <2>8, <2>11, <2>12, <2>13, <2>14, <2>15, <2>16 DEF IInv
<1> QED
  BY <1>3, <1>4 DEF Lookup

\* The rule is written, brought up to date or removed.
LEMMA WritesKeep ==
  ASSUME IInv, NEW s \in Slots, Busy(s), Stage(s) \in Writers, Advanced(s, request[s]),
         UNCHANGED <<trigger, memory, interrupted>>, rule' \in [Rules -> RuleType],
         \A r \in Rules : r # request[s].rule => rule'[r] = rule[r],
         \/ rule'[request[s].rule].if = request[s].if
         \/ /\ rule'[request[s].rule].state # "stored"
            /\ rule'[request[s].rule].if \subseteq rule[request[s].rule].if
  PROVE  IInv'
<1>1. /\ request[s] \in Working /\ Phase(request[s]) /\ IsFiniteSet(request[s].build)
      /\ request[s].todo # <<>> /\ On(request[s].rule) = {s} /\ request[s].rule \in Rules
  BY Working1
<1>2. PICK n : /\ Changed(s, n)
               /\ \/ n = Idle /\ Len(request[s].todo) = 1
                  \/ /\ n # Idle /\ n \in Working /\ n.todo # <<>>
                     /\ n.todo = Tail(request[s].todo) /\ n.rule = request[s].rule
                     /\ n.loaded = request[s].loaded /\ n.if = request[s].if
                     /\ n.drop = request[s].drop /\ n.build = request[s].build
  BY <1>1, AdvancingTo
<1>3. /\ DOMAIN request' = Slots
      /\ request'[s] = n /\ \A x \in Slots \ {s} : request'[x] = request[x]
      /\ Busy(s)' <=> n # Idle
      /\ Alone'
      /\ \A x \in Slots \ {s} : Busy(x)' <=> Busy(x)
      /\ \A x \in Slots \ {s} : Stage(x)' = Stage(x)
      /\ \A x \in Slots : /\ request'[x] = Idle \/ request'[x] \in Working
                          /\ Busy(x)' => IsFiniteSet(request'[x].build)
      /\ \A r : \A x \in Slots \ {s} : x \in On(r)' <=> x \in On(r)
      /\ \A r : s \in On(r)' <=> n # Idle /\ n.rule = r
  BY <1>2, ChangedIs
<1>4. n # Idle => /\ Ordered(n.todo) /\ Head(n.todo) \notin {"forget", "drop", "triggers"}
                  /\ \A i \in 1..Len(n.todo) : n.todo[i] \notin Writers \cup {"forget", "drop", "triggers"}
  <2>1. /\ Ordered(Tail(request[s].todo))
        /\ \A i \in 1..Len(Tail(request[s].todo)) :
              Tail(request[s].todo)[i] \notin Writers \cup {"forget", "drop", "triggers"}
        /\ Tail(request[s].todo) # <<>> =>
              /\ Head(Tail(request[s].todo)) = Tail(request[s].todo)[1] /\ 1 \in 1..Len(Tail(request[s].todo))
    BY Remaining
  <2>2. Tail(request[s].todo) # <<>> => Head(Tail(request[s].todo)) \notin {"forget", "drop", "triggers"}
    BY <2>1
  <2> QED
    BY <2>1, <2>2, <1>2
<1>5. Stage(s) \notin {"forget", "drop", "triggers"}
  BY DEF Writers
<1>6. Exists(Triggers)' = Exists(Triggers)
  BY DEF Exists
<1>7. Typed'
  BY <1>3 DEF IInv, Typed, memory
<1>8. Phases'
  <2>1. \A x \in Slots \ {s} : Busy(x) => request[x].if \subseteq Exists(Triggers)'
    BY <1>6, Working1 DEF Phase
  <2>2. ASSUME n # Idle PROVE Phase(n)'
    <3>1. \A b \in n.build : b.counted = {}
      BY <2>2, <1>1, <1>2, <1>5 DEF Phase, Stage
    <3> QED
      BY <2>2, <3>1, <1>1, <1>2, <1>4, <1>6 DEF Phase
  <2> QED
    BY <2>1, <2>2, <1>2, PhaseElsewhere
<1>9. Apart' /\ Known'
  <2>1. ASSUME NEW r \in Rules, NEW t \in Triggers, Owns(r, t)' PROVE Owns(r, t)
    <3>1. n # Idle /\ Holds(n, t) => Holds(request[s], t)
      BY <1>2 DEF Holds
    <3>2. t \in rule'[r].if => Owns(r, t)
      <4>1. CASE r # request[s].rule
        BY <4>1 DEF Owns
      <4>2. CASE r = request[s].rule
        <5>1. s \in On(r)
          BY <4>2, <1>1
        <5> QED
          BY <4>2, <5>1 DEF Owns, Holds
      <4> QED
        BY <4>1, <4>2
    <3> QED
      BY <2>1, <3>1, <3>2, <1>2, OwnsElsewhere
  <2> QED
    BY <2>1, Fewer
<1>10. Kept'
  <2>1. ASSUME NEW r \in Rules, r # request[s].rule PROVE KeptRule(r)'
    BY <2>1, <1>2, <1>6, KeptElsewhere
  <2>2. ASSUME NEW r \in Rules, r = request[s].rule PROVE KeptRule(r)'
    <3>1. rule'[r].state = "stored" => rule'[r].if = request[s].if /\ rule'[r].if \subseteq Exists(Triggers)'
      BY <2>2, <1>1, <1>6 DEF Phase
    <3>2. \A x \in On(r)' : x = s /\ n # Idle
      BY <2>2, <1>1, <1>3 DEF On
    <3>3. n # Idle => n.if = request[s].if
      BY <1>2
    <3> QED
      BY <3>1, <3>2, <3>3, <1>3, <1>4 DEF KeptRule
  <2> QED
    BY <2>1, <2>2 DEF Kept, KeptRule
<1>11. CountedAreHeard'
  BY DEF IInv, CountedAreHeard, memory
<1>12. CountsExact'
  <2>1. \A t : t \in Forgotten' <=> \E x \in Slots \ {s} : Busy(x) /\ Stage(x) = "drop" /\ t \in request[x].drop
    <3>1. n # Idle => Stage(s)' # "drop"
      BY <1>3, <1>4 DEF Stage
    <3> QED
      BY <3>1, <1>3 DEF Forgotten
  <2>2. \A t : t \in Forgotten <=> \E x \in Slots \ {s} : Busy(x) /\ Stage(x) = "drop" /\ t \in request[x].drop
    BY <1>5, ForgottenAre
  <2>3. Forgotten' = Forgotten
    BY <2>1, <2>2
  <2>4. \A d \in Devices : Uses(Exists(Triggers) \ Forgotten, d)' = Uses(Exists(Triggers) \ Forgotten, d)
    BY <1>6, <2>3 DEF Uses
  <2>5. \A d \in Devices : Announced(d)' = Announced(d)
    BY <1>2, <1>5, AnnouncedSame
  <2> QED
    BY <2>4, <2>5 DEF IInv, CountsExact, memory
<1> QED
  BY <1>3, <1>7, <1>8, <1>9, <1>10, <1>11, <1>12 DEF IInv

-----------------------------------------------------------------------------
(* Requests arrive.                                                        *)

LEMMA BuildsFinite ==
  ASSUME NEW new, IsFiniteSet(new)
  PROVE  IsFiniteSet({[devices |-> ds, counted |-> {}] : ds \in new})
<1> DEFINE f == [ds \in new |-> [devices |-> ds, counted |-> {}]]
           T == {[devices |-> ds, counted |-> {}] : ds \in new}
<1>1. f \in Surjection(new, T)
  BY DEF Surjection
<1> HIDE DEF f, T
<1> QED
  BY <1>1, FS_Surjection DEF T

LEMMA BeginKeeps ==
  ASSUME IInv, NEW s \in Slots, NEW r \in Rules, On(r) = {},
         NEW todo \in Seq(StageNames), todo # <<>>, Ordered(todo), Head(todo) # "drop",
         \E i \in 1..Len(todo) : todo[i] \in Writers,
         NEW new \in SUBSET (SUBSET Devices), IsFiniteSet(new), NEW users \in SUBSET Users,
         Begin(s, r, todo, new, users)
  PROVE  IInv'
<1>1. ~Busy(s) /\ UNCHANGED <<rule, trigger, memory, interrupted>>
  BY DEF Begin, database
<1>2. PICK n : n = [todo |-> todo, rule |-> r, loaded |-> Loaded(r), if |-> Loaded(r).if,
                    then |-> Loaded(r).then, drop |-> Loaded(r).if, users |-> users,
                    build |-> {[devices |-> ds, counted |-> {}] : ds \in new}]
  OBVIOUS
<1>3. request' = [request EXCEPT ![s] = n]
  BY <1>2 DEF Begin
<1>4. /\ n.todo = todo /\ n.rule = r /\ n.loaded.if = Loaded(r).if /\ n.if = Loaded(r).if /\ n.drop = Loaded(r).if
      /\ n.build = {[devices |-> ds, counted |-> {}] : ds \in new}
  BY <1>2
<1>5. /\ Loaded(r).if \subseteq rule[r].if /\ Loaded(r).if \subseteq Exists(Triggers)
      /\ Loaded(r) \in [if : SUBSET Triggers, then : SUBSET Actions]
  BY DEF Loaded, Exists, IInv, Typed, RuleType
<1>6. n \in Working /\ n.todo # <<>> /\ IsFiniteSet(n.build) /\ n # Idle
  <2>1. todo \in Seq(StageNames \cup Users)
    OBVIOUS
  <2>2. {[devices |-> ds, counted |-> {}] : ds \in new} \subseteq BuildType
    BY DEF BuildType
  <2>3. n \in Working
    BY <1>2, <1>5, <2>1, <2>2 DEF Working
  <2> QED
    BY <2>3, <1>4, BuildsFinite, NotIdle
<1>7. /\ DOMAIN request' = Slots
      /\ request'[s] = n /\ \A x \in Slots \ {s} : request'[x] = request[x]
      /\ Busy(s)'
      /\ \A x \in Slots \ {s} : Busy(x)' <=> Busy(x)
      /\ \A x \in Slots \ {s} : Stage(x)' = Stage(x)
      /\ \A x \in Slots : /\ request'[x] = Idle \/ request'[x] \in Working
                          /\ Busy(x)' => IsFiniteSet(request'[x].build)
      /\ Alone'
      /\ \A q : \A x \in Slots \ {s} : x \in On(q)' <=> x \in On(q)
      /\ \A q : s \in On(q)' <=> q = r
  <2>1. \/ n = Idle
        \/ n \in Working /\ n.todo # <<>> /\ IsFiniteSet(n.build) /\ On(n.rule) \subseteq {s}
    BY <1>4, <1>6
  <2> QED
    BY <1>3, <1>4, <1>6, <2>1, OneSlot DEF IInv
<1>8. Stage(s)' # "drop"
  BY <1>4, <1>7 DEF Stage
<1>9. Exists(Triggers)' = Exists(Triggers)
  BY <1>1 DEF Exists
<1>10. Typed'
  BY <1>1, <1>7 DEF IInv, Typed, memory
<1>11. \A b \in n.build : b.counted = {}
  BY <1>4
<1>12. Phases'
  <2> SUFFICES ASSUME NEW x \in Slots, Busy(x)' PROVE Phase(request[x])'
    BY DEF Phases
  <2>1. CASE x # s
    BY <2>1, <1>7, <1>9 DEF IInv, Phases, Phase
  <2>2. CASE x = s
    <3>1. \A b, c \in n.build : b.devices = c.devices => b = c
      <4> TAKE b, c \in n.build
      <4>1. PICK ds1 \in new : b = [devices |-> ds1, counted |-> {}]
        BY <1>4
      <4>2. PICK ds2 \in new : c = [devices |-> ds2, counted |-> {}]
        BY <1>4
      <4> QED
        BY <4>1, <4>2
    <3> QED
      BY <2>2, <3>1, <1>4, <1>5, <1>7, <1>9, <1>11 DEF Phase
  <2> QED
    BY <2>1, <2>2
<1>13. Apart' /\ Known'
  <2>1. ASSUME NEW q \in Rules, NEW t \in Triggers, Owns(q, t)' PROVE Owns(q, t)
    <3>1. CASE t \in rule'[q].if
      BY <3>1, <1>1 DEF Owns
    <3>2. CASE \E x \in On(q)' : Holds(request'[x], t)
      <4>1. PICK x \in On(q)' : Holds(request'[x], t)
        BY <3>2
      <4>2. x \in Slots
        BY DEF On
      <4>3. CASE x # s
        BY <4>1, <4>2, <4>3, <1>7 DEF Owns
      <4>4. CASE x = s
        <5>1. q = r /\ t \in Loaded(r).if
          BY <4>1, <4>4, <1>4, <1>7 DEF Holds
        <5> QED
          BY <5>1, <1>5 DEF Owns
      <4> QED
        BY <4>3, <4>4
    <3> QED
      BY <2>1, <3>1, <3>2 DEF Owns
  <2> QED
    BY <2>1, <1>1, Fewer
<1>14. Kept'
  <2> SUFFICES ASSUME NEW q \in Rules PROVE KeptRule(q)'
    BY DEF Kept, KeptRule
  <2>1. CASE q = r
    <3>1. On(q)' = {s}
      BY <2>1, <1>7 DEF On
    <3>2. ~Through(n)
      BY <1>4 DEF Through
    <3> QED
      BY <3>1, <3>2, <1>7 DEF KeptRule, Through
  <2>2. CASE q # r
    <3>1. On(q)' = On(q) /\ \A x \in On(q) : request'[x] = request[x]
      <4>1. s \notin On(q) /\ s \notin On(q)'
        BY <2>2, <1>1, <1>7 DEF On
      <4> QED
        BY <4>1, <1>7 DEF On
    <3>2. KeptRule(q)
      BY DEF IInv, Kept, KeptRule
    <3> QED
      BY <3>1, <3>2, <1>1, <1>9 DEF KeptRule, Through
  <2> QED
    BY <2>1, <2>2
<1>15. CountedAreHeard'
  BY <1>1 DEF IInv, CountedAreHeard, memory
<1>16. CountsExact'
  <2>1. \A t : t \in Forgotten' <=> \E x \in Slots \ {s} : Busy(x) /\ Stage(x) = "drop" /\ t \in request[x].drop
    BY <1>7, <1>8 DEF Forgotten
  <2>2. \A t : t \in Forgotten <=> \E x \in Slots \ {s} : Busy(x) /\ Stage(x) = "drop" /\ t \in request[x].drop
    BY <1>1, ForgottenAre
  <2>3. Forgotten' = Forgotten
    BY <2>1, <2>2
  <2>4. \A d \in Devices : Uses(Exists(Triggers) \ Forgotten, d)' = Uses(Exists(Triggers) \ Forgotten, d)
    BY <1>1, <1>9, <2>3 DEF Uses
  <2>5. ASSUME NEW d \in Devices PROVE Announced(d)' = Announced(d)
    <3>1. \A p : p \in Announced(d)' <=>
              \E x \in Slots \ {s} : \E b \in request[x].build : Busy(x) /\ d \in b.counted /\ p = <<x, b>>
      BY <1>7, <1>11 DEF Announced
    <3>2. \A p : p \in Announced(d) <=>
              \E x \in Slots \ {s} : \E b \in request[x].build : Busy(x) /\ d \in b.counted /\ p = <<x, b>>
      BY <1>1, AnnouncedAre
    <3> QED
      BY <3>1, <3>2
  <2> QED
    BY <1>1, <2>4, <2>5 DEF IInv, CountsExact, memory
<1> QED
  BY <1>7, <1>10, <1>12, <1>13, <1>14, <1>15, <1>16 DEF IInv

LEMMA CreateRuleKeeps ==
  ASSUME IInv, NEW s \in Slots, NEW r \in Rules, CreateRule(s, r)
  PROVE  IInv'
<1> DEFINE todo == <<"triggers", "action", "rule", "unsubscribe", "subscribe">>
<1>1. PICK new \in Inputs, users \in SUBSET Users : Begin(s, r, todo, new, users)
  BY DEF CreateRule
<1>2. /\ todo \in Seq(StageNames) /\ todo # <<>> /\ Head(todo) # "drop" /\ Ordered(todo)
      /\ \E i \in 1..Len(todo) : todo[i] \in Writers
  BY DEF StageNames, Writers, Ordered
<1>3. new \in SUBSET (SUBSET Devices) /\ IsFiniteSet(new) /\ On(r) = {}
  BY RulesAssumption DEF CreateRule
<1> HIDE DEF todo
<1> QED
  BY <1>1, <1>2, <1>3, BeginKeeps

LEMMA DeleteRuleKeeps ==
  ASSUME IInv, Exclusive, NEW s \in Slots, NEW r \in Rules, DeleteRule(s, r)
  PROVE  IInv'
<1> DEFINE todo == <<"forget", "drop", "clear", "unsubscribe", "remove">>
<1>1. Begin(s, r, todo, {}, {}) /\ On(r) = {}
  BY DEF DeleteRule, Begin
<1>2. /\ todo \in Seq(StageNames) /\ todo # <<>> /\ Head(todo) # "drop" /\ Ordered(todo)
      /\ \E i \in 1..Len(todo) : todo[i] \in Writers
  BY DEF StageNames, Writers, Ordered
<1>3. IsFiniteSet({})
  BY FS_EmptySet
<1> HIDE DEF todo
<1> QED
  BY <1>1, <1>2, <1>3, BeginKeeps

\* The stages of the three kinds of edit.
LEMMA EditPlans ==
  /\ IfStages \o <<"update">> = <<"forget", "drop", "triggers", "update">>
  /\ ThenStages \o <<"update">> = <<"clear", "action", "unsubscribe", "subscribe", "update">>
  /\ IfStages \o ThenStages \o <<"update">> =
        <<"forget", "drop", "triggers", "clear", "action", "unsubscribe", "subscribe", "update">>
<1> DEFINE todo1 == <<"forget", "drop", "triggers", "update">>
           todo2 == <<"clear", "action", "unsubscribe", "subscribe", "update">>
           todo3 == <<"forget", "drop", "triggers", "clear", "action", "unsubscribe", "subscribe", "update">>
<1>1. IfStages \o <<"update">> = todo1
  <2> DEFINE p == <<"forget", "drop", "triggers">>
             q == <<"update">>
  <2>1. /\ p \in Seq(StageNames) /\ q \in Seq(StageNames) /\ todo1 \in Seq(StageNames)
        /\ Len(todo1) = Len(p) + Len(q)
        /\ \A i \in 1..Len(p) : todo1[i] = p[i]
        /\ \A i \in 1..Len(q) : todo1[Len(p) + i] = q[i]
    BY DEF StageNames
  <2>2. p \o q = todo1
    <3> HIDE DEF p, q, todo1
    <3> QED
      BY <2>1, Joined
  <2> QED
    BY <2>2 DEF IfStages
<1>2. ThenStages \o <<"update">> = todo2
  <2> DEFINE p == <<"clear", "action", "unsubscribe", "subscribe">>
             q == <<"update">>
  <2>1. /\ p \in Seq(StageNames) /\ q \in Seq(StageNames) /\ todo2 \in Seq(StageNames)
        /\ Len(todo2) = Len(p) + Len(q)
        /\ \A i \in 1..Len(p) : todo2[i] = p[i]
        /\ \A i \in 1..Len(q) : todo2[Len(p) + i] = q[i]
    BY DEF StageNames
  <2>2. p \o q = todo2
    <3> HIDE DEF p, q, todo2
    <3> QED
      BY <2>1, Joined
  <2> QED
    BY <2>2 DEF ThenStages
<1>3. IfStages \o ThenStages \o <<"update">> = todo3
  <2> DEFINE p == <<"forget", "drop", "triggers">>
             q == <<"clear", "action", "unsubscribe", "subscribe">>
             both == <<"forget", "drop", "triggers", "clear", "action", "unsubscribe", "subscribe">>
             last == <<"update">>
  <2>1. /\ p \in Seq(StageNames) /\ q \in Seq(StageNames) /\ both \in Seq(StageNames)
        /\ Len(both) = Len(p) + Len(q)
        /\ \A i \in 1..Len(p) : both[i] = p[i]
        /\ \A i \in 1..Len(q) : both[Len(p) + i] = q[i]
    BY DEF StageNames
  <2>2. /\ last \in Seq(StageNames) /\ todo3 \in Seq(StageNames)
        /\ Len(todo3) = Len(both) + Len(last)
        /\ \A i \in 1..Len(both) : todo3[i] = both[i]
        /\ \A i \in 1..Len(last) : todo3[Len(both) + i] = last[i]
    BY DEF StageNames
  <2>3. p \o q = both /\ both \o last = todo3
    <3> HIDE DEF p, q, both, last, todo3
    <3> QED
      BY <2>1, <2>2, Joined
  <2> QED
    BY <2>3 DEF IfStages, ThenStages
<1> QED
  BY <1>1, <1>2, <1>3

LEMMA EditRuleKeeps ==
  ASSUME IInv, Exclusive, NEW s \in Slots, NEW r \in Rules, EditRule(s, r)
  PROVE  IInv'
<1> DEFINE todo1 == <<"forget", "drop", "triggers", "update">>
           todo2 == <<"clear", "action", "unsubscribe", "subscribe", "update">>
           todo3 == <<"forget", "drop", "triggers", "clear", "action", "unsubscribe", "subscribe", "update">>
<1>1. /\ IfStages \o <<"update">> = todo1
      /\ ThenStages \o <<"update">> = todo2
      /\ IfStages \o ThenStages \o <<"update">> = todo3
  BY EditPlans
<1>2. /\ todo1 \in Seq(StageNames) /\ todo1 # <<>> /\ Head(todo1) # "drop" /\ Ordered(todo1)
      /\ \E i \in 1..Len(todo1) : todo1[i] \in Writers
  BY DEF StageNames, Writers, Ordered
<1>3. /\ todo2 \in Seq(StageNames) /\ todo2 # <<>> /\ Head(todo2) # "drop" /\ Ordered(todo2)
      /\ \E i \in 1..Len(todo2) : todo2[i] \in Writers
  BY DEF StageNames, Writers, Ordered
<1>4. /\ todo3 \in Seq(StageNames) /\ todo3 # <<>> /\ Head(todo3) # "drop" /\ Ordered(todo3)
      /\ \E i \in 1..Len(todo3) : todo3[i] \in Writers
  BY DEF StageNames, Writers, Ordered
<1>5. IsFiniteSet({}) /\ \A new \in Inputs : new \in SUBSET (SUBSET Devices) /\ IsFiniteSet(new)
  BY FS_EmptySet, RulesAssumption
<1>6. On(r) = {}
  BY DEF EditRule, Begin
<1>7. \/ \E new \in Inputs : Begin(s, r, todo1, new, {})
      \/ \E users \in SUBSET Users : Begin(s, r, todo2, {}, users)
      \/ \E new \in Inputs, users \in SUBSET Users : Begin(s, r, todo3, new, users)
  BY <1>1 DEF EditRule
<1> HIDE DEF todo1, todo2, todo3
<1>8. CASE \E new \in Inputs : Begin(s, r, todo1, new, {})
  BY <1>2, <1>5, <1>6, <1>8, BeginKeeps
<1>9. CASE \E users \in SUBSET Users : Begin(s, r, todo2, {}, users)
  BY <1>3, <1>5, <1>6, <1>9, BeginKeeps
<1>10. CASE \E new \in Inputs, users \in SUBSET Users : Begin(s, r, todo3, new, users)
  BY <1>4, <1>5, <1>6, <1>10, BeginKeeps
<1> QED
  BY <1>7, <1>8, <1>9, <1>10

-----------------------------------------------------------------------------
(* Rules are written.                                                      *)

LEMMA WrittenIs ==
  ASSUME IInv, NEW s \in Slots, Busy(s)
  PROVE  Written(s) \in RuleType /\ Written(s).if = request[s].if
  BY Working1 DEF Written, RuleType, Working

LEMMA StoreRuleKeeps ==
  ASSUME IInv, NEW s \in Slots, StoreRule(s)
  PROVE  IInv'
<1>1. /\ Busy(s) /\ Stage(s) \in Writers /\ Advanced(s, request[s])
      /\ UNCHANGED <<trigger, memory, interrupted>>
      /\ rule' = [rule EXCEPT ![request[s].rule] = Written(s)]
  BY DEF StoreRule, Writers
<1>2. rule \in [Rules -> RuleType] /\ request[s].rule \in Rules
  BY <1>1, Working1 DEF IInv, Typed
<1>3. /\ rule' \in [Rules -> RuleType] /\ rule'[request[s].rule].if = request[s].if
      /\ \A r \in Rules : r # request[s].rule => rule'[r] = rule[r]
  BY <1>1, <1>2, WrittenIs
<1> QED
  BY <1>1, <1>3, WritesKeep

LEMMA UpdateRuleKeeps ==
  ASSUME IInv, NEW s \in Slots, UpdateRule(s)
  PROVE  IInv'
<1>1. /\ Busy(s) /\ Stage(s) \in Writers /\ Advanced(s, request[s])
      /\ UNCHANGED <<trigger, memory, interrupted>>
  BY DEF UpdateRule, Writers
<1>2. rule \in [Rules -> RuleType] /\ request[s].rule \in Rules
  BY <1>1, Working1 DEF IInv, Typed
<1>3. CASE rule[request[s].rule].state = "stored"
  <2>1. rule' = [rule EXCEPT ![request[s].rule] = Written(s)]
    BY <1>3 DEF UpdateRule
  <2>2. /\ rule' \in [Rules -> RuleType] /\ rule'[request[s].rule].if = request[s].if
        /\ \A r \in Rules : r # request[s].rule => rule'[r] = rule[r]
    BY <2>1, <1>1, <1>2, WrittenIs
  <2> QED
    BY <1>1, <2>2, WritesKeep
<1>4. CASE rule[request[s].rule].state # "stored"
  <2>1. rule' = rule
    BY <1>4 DEF UpdateRule
  <2> QED
    BY <1>1, <1>2, <1>4, <2>1, WritesKeep
<1> QED
  BY <1>3, <1>4

LEMMA RemoveRuleKeeps ==
  ASSUME IInv, NEW s \in Slots, RemoveRule(s)
  PROVE  IInv'
<1>1. /\ Busy(s) /\ Stage(s) \in Writers /\ Advanced(s, request[s])
      /\ UNCHANGED <<trigger, memory, interrupted>>
      /\ rule' = [rule EXCEPT ![request[s].rule] = DeletedRule]
  BY DEF RemoveRule, Writers
<1>2. rule \in [Rules -> RuleType] /\ request[s].rule \in Rules
  BY <1>1, Working1 DEF IInv, Typed
<1>3. DeletedRule \in RuleType /\ DeletedRule.state # "stored" /\ DeletedRule.if = {}
  BY DEF DeletedRule, RuleType
<1>4. /\ rule' \in [Rules -> RuleType] /\ rule'[request[s].rule] = DeletedRule
      /\ \A r \in Rules : r # request[s].rule => rule'[r] = rule[r]
  BY <1>1, <1>2, <1>3
<1> QED
  BY <1>1, <1>3, <1>4, WritesKeep

-----------------------------------------------------------------------------
(* The other steps.                                                        *)

\* Messages, jobs and steps that change nothing.
LEMMA UntouchedKeeps ==
  ASSUME IInv, UNCHANGED <<rule, trigger, memory, request, interrupted>>
  PROVE  IInv'
<1>1. \A s \in Slots : (Busy(s)' <=> Busy(s)) /\ Stage(s)' = Stage(s)
  BY DEF Busy, Stage
<1>2. \A r : On(r)' = On(r)
  BY <1>1 DEF On
<1>3. Exists(Triggers)' = Exists(Triggers)
  BY DEF Exists
<1>4. Typed' /\ Alone'
  BY <1>1 DEF IInv, Typed, Alone, memory
<1>5. Phases'
  BY <1>1, <1>3 DEF IInv, Phases, Phase
<1>6. Apart' /\ Known'
  <2>1. \A r \in Rules, t \in Triggers : Owns(r, t)' => Owns(r, t)
    BY <1>2 DEF Owns
  <2> QED
    BY <2>1, Fewer
<1>7. Kept'
  BY <1>2, <1>3 DEF IInv, Kept, Through
<1>8. CountedAreHeard'
  BY DEF IInv, CountedAreHeard, memory
<1>9. CountsExact'
  <2>1. Forgotten' = Forgotten
    BY <1>1 DEF Forgotten
  <2>2. \A d \in Devices : Uses(Exists(Triggers) \ Forgotten, d)' = Uses(Exists(Triggers) \ Forgotten, d)
    BY <1>3, <2>1 DEF Uses
  <2>3. \A d \in Devices : Announced(d)' = Announced(d)
    BY <1>1 DEF Announced
  <2> QED
    BY <2>2, <2>3 DEF IInv, CountsExact, memory
<1> QED
  BY <1>4, <1>5, <1>6, <1>7, <1>8, <1>9 DEF IInv

LEMMA RestartKeeps ==
  ASSUME IInv, Restart
  PROVE  IInv'
<1>1. /\ UNCHANGED <<rule, trigger>> /\ request' = [s \in Slots |-> Idle]
      /\ count' = [dev \in Devices |-> Recount(dev)]
      /\ subscribed' = {dev \in Devices : Recount(dev) > 0}
      /\ interrupted' = interrupted \cup {r \in Rules : On(r) # {}}
  BY DEF Restart, database
<1>2. /\ \A s \in Slots : ~Busy(s)' /\ request'[s] = Idle
      /\ \A r : On(r)' = {}
      /\ Forgotten' = {}
      /\ \A d : Cardinality(Announced(d))' = 0
  <2>1. \A s \in Slots : ~Busy(s)' /\ request'[s] = Idle
    BY <1>1 DEF Busy, Idle
  <2>2. \A r : On(r)' = {}
    BY <2>1 DEF On
  <2>3. Forgotten' = {}
    BY <2>1 DEF Forgotten
  <2>4. \A d : Announced(d)' = {}
    BY <2>1 DEF Announced
  <2> QED
    BY <2>1, <2>2, <2>3, <2>4, FS_EmptySet
<1>3. Exists(Triggers)' = Exists(Triggers) /\ Exists(Triggers) \in SUBSET Triggers
  BY <1>1 DEF Exists
<1>4. \A d \in Devices : count'[d] = Uses(Exists(Triggers), d) /\ count'[d] \in Nat
  BY <1>1, <1>3, UsesNat DEF Recount, Exists
<1>5. Typed'
  BY <1>1, <1>2, <1>4 DEF IInv, Typed
<1>6. Phases' /\ Alone'
  BY <1>2 DEF Phases, Alone
<1>7. Apart' /\ Known'
  <2>1. \A r \in Rules, t \in Triggers : Owns(r, t)' => Owns(r, t)
    BY <1>1, <1>2 DEF Owns
  <2> QED
    BY <2>1, <1>1, Fewer
<1>8. Kept'
  BY <1>1, <1>2, <1>3 DEF IInv, Kept
<1>9. CountedAreHeard'
  BY <1>1 DEF CountedAreHeard
<1>10. CountsExact'
  <2>1. \A d \in Devices : Uses(Exists(Triggers) \ Forgotten, d)' = Uses(Exists(Triggers), d)
    BY <1>1, <1>2, <1>3 DEF Uses
  <2>2. \A d \in Devices : Uses(Exists(Triggers), d) \in Nat
    BY <1>3, UsesNat
  <2> QED
    BY <1>2, <1>4, <2>1, <2>2 DEF CountsExact
<1> QED
  BY <1>5, <1>6, <1>7, <1>8, <1>9, <1>10 DEF IInv

\* With no request in progress nothing is given up or announced.
LEMMA AllIdle ==
  ASSUME request = [s \in Slots |-> Idle]
  PROVE  /\ \A s \in Slots : ~Busy(s) /\ request[s] = Idle
         /\ \A r : On(r) = {}
         /\ Forgotten = {}
         /\ \A d : Announced(d) = {} /\ Cardinality(Announced(d)) = 0
<1>1. \A s \in Slots : ~Busy(s) /\ request[s] = Idle
  BY DEF Busy, Idle
<1>2. \A r : On(r) = {}
  BY <1>1 DEF On
<1>3. Forgotten = {}
  BY <1>1 DEF Forgotten
<1>4. \A d : Announced(d) = {}
  BY <1>1 DEF Announced
<1> QED
  BY <1>1, <1>2, <1>3, <1>4, FS_EmptySet

LEMMA InitHolds ==
  ASSUME Init
  PROVE  IInv
<1>1. /\ \A s \in Slots : ~Busy(s) /\ request[s] = Idle
      /\ \A r : On(r) = {}
      /\ Forgotten = {}
      /\ \A d : Cardinality(Announced(d)) = 0
  BY AllIdle DEF Init
<1>2. Typed
  BY <1>1 DEF Init, Typed, RuleType, TriggerType
<1>3. Phases /\ Alone
  BY <1>1 DEF Phases, Alone
<1>4. Apart /\ Known
  BY <1>1 DEF Init, Apart, Known, Owns
<1>5. Kept /\ CountedAreHeard
  BY DEF Init, Kept, CountedAreHeard
<1>6. CountsExact
  <2>1. Exists(Triggers) = {}
    BY DEF Init, Exists
  <2>2. \A d \in Devices : Uses(Exists(Triggers) \ Forgotten, d) = 0
    BY <2>1, FS_EmptySet DEF Uses
  <2> QED
    BY <1>1, <2>2 DEF Init, CountsExact
<1> QED
  BY <1>2, <1>3, <1>4, <1>5, <1>6 DEF IInv

LEMMA StepKeeps ==
  ASSUME IInv, Exclusive, [Next]_vars
  PROVE  IInv'
<1>1. ASSUME NEW s \in Slots, Serve(s) PROVE IInv'
  <2>1. ASSUME NEW r \in Rules, CreateRule(s, r) \/ EditRule(s, r) \/ DeleteRule(s, r) PROVE IInv'
    BY <2>1, CreateRuleKeeps, EditRuleKeeps, DeleteRuleKeeps
  <2>2. CASE Forget(s) \/ DropTrigger(s) \/ CountTopic(s)
    BY <2>2, ForgetKeeps, DropTriggerKeeps, CountTopicKeeps
  <2>3. CASE CreateTrigger(s) \/ TriggersDone(s) \/ ClearAction(s)
    BY <2>3, CreateTriggerKeeps, TriggersDoneKeeps, ClearActionKeeps
  <2>4. CASE CreateAction(s) \/ StoreRule(s) \/ UpdateRule(s) \/ RemoveRule(s)
    BY <2>4, CreateActionKeeps, StoreRuleKeeps, UpdateRuleKeeps, RemoveRuleKeeps
  <2>5. CASE Unsubscribe(s) \/ Lookup(s) \/ Subscribe(s)
    BY <2>5, UnsubscribeKeeps, LookupKeeps, SubscribeKeeps
  <2> QED
    BY <1>1, <2>1, <2>2, <2>3, <2>4, <2>5 DEF Serve
<1>2. ASSUME NEW dev \in Devices, Message(dev) PROVE IInv'
  BY <1>2, UntouchedKeeps DEF Message, database
<1>3. CASE Process
  <2>1. UNCHANGED <<rule, trigger, memory, request, interrupted>>
    BY <1>3 DEF Process, TakeJob, JobFails, Notify, JobDone, database
  <2> QED
    BY <2>1, UntouchedKeeps
<1>4. CASE Restart
  BY <1>4, RestartKeeps
<1>5. CASE UNCHANGED vars
  BY <1>5, UntouchedKeeps DEF vars, database
<1> QED
  BY <1>1, <1>2, <1>3, <1>4, <1>5 DEF Next

-----------------------------------------------------------------------------
(* The theorems.                                                           *)

\* The invariant holds as long as a rule is edited or deleted by one request at a
\* time: createRule, editRule and deleteRule with addMqttTopic, deleteMqttTopic and
\* the restart (onModuleInit).
THEOREM InductiveInvariant ==
  ASSUME Exclusive
  PROVE  Spec => []IInv
<1>1. Init => IInv
  BY InitHolds
<1>2. IInv /\ [Next]_vars => IInv'
  BY StepKeeps
<1> QED
  BY <1>1, <1>2, PTL DEF Spec

\* The use count of every topic is the number of stored triggers that need it, give
\* or take what the requests in flight have half done.
THEOREM CountsStayExact ==
  ASSUME Exclusive
  PROVE  Spec => []CountsExact
<1>1. IInv => CountsExact
  BY DEF IInv
<1> QED
  BY <1>1, InductiveInvariant, PTL

LEMMA SettledAreHeard ==
  ASSUME IInv
  PROVE  RuleHeard
<1> SUFFICES ASSUME NEW r \in Rules, rule[r].state = "stored", Settled(r), NEW t \in rule[r].if
             PROVE  /\ trigger[t].state = "stored"
                    /\ \A dev \in trigger[t].devices : ProjectOf[dev] \in clients => dev \in subscribed
  BY DEF RuleHeard
<1>1. t \in Exists(Triggers) /\ t \in Triggers /\ trigger[t].state = "stored"
  BY DEF IInv, Kept, Settled, Exists
<1>2. trigger[t].devices \subseteq Devices
  BY <1>1 DEF IInv, Typed, TriggerType
<1>3. t \notin Forgotten
  <2> SUFFICES ASSUME t \in Forgotten PROVE FALSE
    OBVIOUS
  <2>1. PICK x \in Slots : Busy(x) /\ t \in request[x].drop
    BY ForgottenAre
  <2>2. x \in On(request[x].rule) /\ request[x].rule \in Rules
    BY <2>1, Working1
  <2>3. Owns(request[x].rule, t) /\ Owns(r, t)
    BY <2>1, <2>2 DEF Owns, Holds
  <2>4. request[x].rule = r
    BY <2>2, <2>3, <1>1 DEF IInv, Apart
  <2> QED
    BY <2>2, <2>4 DEF Settled
<1>4. ASSUME NEW dev \in trigger[t].devices PROVE count[dev] > 0
  <2> DEFINE of == {u \in Exists(Triggers) \ Forgotten : dev \in trigger[u].devices}
  <2>1. Exists(Triggers) \ Forgotten \in SUBSET Triggers
    BY DEF Exists
  <2>2. IsFiniteSet(of) /\ Cardinality(of) \in Nat
    BY <2>1, UsesNat, FS_CardinalityType
  <2>3. of # {}
    BY <1>1, <1>3
  <2>4. Cardinality(of) > 0
    <3> HIDE DEF of
    <3> QED
      BY <2>2, <2>3, FS_EmptySet
  <2>5. Cardinality(Announced(dev)) \in Nat
    BY AnnouncedFinite DEF IInv
  <2>6. count[dev] = Cardinality(of) + Cardinality(Announced(dev))
    BY <1>2 DEF IInv, CountsExact, Uses
  <2> HIDE DEF of
  <2> QED
    BY <2>2, <2>4, <2>5, <2>6
<1> QED
  BY <1>1, <1>2, <1>4 DEF IInv, CountedAreHeard

\* Nobody else's edit or delete silences a rule: once no request works on it, its
\* triggers are stored and their topics subscribed.
THEOREM RulesAreHeard ==
  ASSUME Exclusive
  PROVE  Spec => []RuleHeard
<1>1. IInv => RuleHeard
  BY SettledAreHeard
<1> QED
  BY <1>1, InductiveInvariant, PTL

(***************************************************************************)
(* What is left of a rule, and why a job fails.                            *)
(***************************************************************************)
ActionType == [state : {"unused", "stored", "deleted"}, users : SUBSET Users]
JobType    == [rule : Rules, todo : SUBSET Users, undisturbed : BOOLEAN]

LeftTyped ==
    /\ action \in [Actions -> ActionType]
    /\ subscription \in [Rules -> [Users -> {0, 1}]]
    /\ queue \in Seq(Rules)
    /\ interrupted \subseteq Rules
    /\ job = <<>> \/ \E j \in JobType : job = <<j>>

\* Where a stage comes in every request: a user is subscribed before the next is looked up.
Place(x) ==
    CASE x = "forget" -> 1 [] x = "drop" -> 2 [] x = "triggers" -> 3 [] x = "clear" -> 4
      [] x = "action" -> 5 [] x = "rule" -> 6 [] x = "unsubscribe" -> 7
      [] x = "subscribe" -> 9 [] x = "remove" -> 10 [] x = "update" -> 11 [] OTHER -> 8

Sorted(todo) == \A i, j \in 1..Len(todo) : i < j => Place(todo[i]) < Place(todo[j])

\* The stages left to a request.
Left(todo) == {todo[i] : i \in 1..Len(todo)}

StoredActions == {a \in Actions : action[a].state = "stored"}

Targets(as) == UNION {action[a].users : a \in as}

\* The stages left are those of one plan: whatever is made or deleted is written, new
\* users are told after the old ones, and a removal makes nothing.
Planned(left) ==
    /\ \A x, y \in left \cap Writers : x = y
    /\ left \cap {"forget", "drop", "triggers", "clear", "action"} # {} => left \cap Writers # {}
    /\ left \cap {"clear", "action"} # {} => "unsubscribe" \in left
    /\ "forget" \in left => "drop" \in left
    /\ {"clear", "subscribe"} \subseteq left => "action" \in left
    /\ "remove" \in left => left \cap ({"triggers", "action", "subscribe"} \cup Users) = {}

\* What a request holds, by how far it is.
Halfway(q) ==
    /\ Planned(Left(q.todo)) /\ Sorted(q.todo)
    /\ "remove" \in Left(q.todo) => /\ "forget" \in Left(q.todo) \/ q.if = {}
                                    /\ "clear" \in Left(q.todo) \/ q.then = {}
    /\ "clear" \in Left(q.todo) => q.then = q.loaded.then
    /\ "action" \in Left(q.todo) /\ "clear" \notin Left(q.todo) => q.then = {}
    /\ "subscribe" \notin Left(q.todo) => q.users = {}
    /\ \A u \in Users \cap Left(q.todo) :
          u \notin q.users /\ "subscribe" \in Left(q.todo) /\ "unsubscribe" \notin Left(q.todo)

\* Users to be subscribed who may have no subscription yet.
Waiting(q) == q.users \cup (Users \cap Left(q.todo))

\* What a request has done to the collections.
Underway(q) ==
    /\ "update" \in Left(q.todo) => rule[q.rule].state = "stored"
    /\ Left(q.todo) \cap Writers = {} => rule[q.rule].if = q.if /\ rule[q.rule].then = q.then
    /\ q.then \subseteq StoredActions
    /\ \A u \in Users \cap Left(q.todo) : subscription[q.rule][u] = 0
    /\ "unsubscribe" \in Left(q.todo) /\ Left(q.todo) \cap {"clear", "action"} = {} =>
          Targets(q.then) = q.users
    /\ "unsubscribe" \notin Left(q.todo) /\ q.rule \notin interrupted =>
          /\ Waiting(q) \subseteq Targets(q.then)
          /\ \A u \in Users \ Waiting(q) :
                subscription[q.rule][u] = IF u \in Targets(q.then) THEN 1 ELSE 0

\* A rule at rest.
AtRest(r) ==
    /\ rule[r].then \subseteq StoredActions
    /\ \A u \in Users : subscription[r][u] = IF u \in Targets(rule[r].then) THEN 1 ELSE 0

\* Whose an action is.
OwnsAction(r, a) ==
    a \in rule[r].then \/ \E s \in On(r) : a \in request[s].then \cup request[s].loaded.then

ActionsApart ==
    \A a \in Actions : \A r1, r2 \in Rules : OwnsAction(r1, a) /\ OwnsAction(r2, a) => r1 = r2
ActionsKnown == \A a \in Actions, r \in Rules : OwnsAction(r, a) => action[a].state # "unused"

Emptied == \A r \in Rules : rule[r].state # "stored" => rule[r].if = {} /\ rule[r].then = {}

\* The triggers a request makes, keeps or has yet to delete.
Minding(q) == q.if \cup IF "drop" \in Left(q.todo) THEN q.drop ELSE {}

Minds(r, t) == \/ On(r) = {} /\ t \in rule[r].if
               \/ \E s \in On(r) : t \in Minding(request[s])

MindsAction(r, a) == \/ On(r) = {} /\ a \in rule[r].then
                     \/ \E s \in On(r) : a \in request[s].then

TriggersMinded == \A t \in Exists(Triggers) : \E r \in Rules : Minds(r, t)
ActionsMinded == \A a \in StoredActions : \E r \in Rules : MindsAction(r, a)

JobSound ==
    job # <<>> /\ job[1].undisturbed =>
        /\ On(job[1].rule) = {} /\ job[1].rule \notin interrupted
        /\ \A u \in job[1].todo : subscription[job[1].rule][u] = 1

Rests == \A r \in Rules : On(r) = {} /\ r \notin interrupted => AtRest(r)
Goings == \A s \in Slots : Busy(s) => Halfway(request[s]) /\ Underway(request[s])

LeftInv ==
    /\ LeftTyped /\ ActionsApart /\ ActionsKnown /\ Emptied /\ Goings /\ Rests /\ JobSound
    /\ interrupted = {} => TriggersMinded /\ ActionsMinded

-----------------------------------------------------------------------------
(* The stages left.                                                        *)

LEMMA Places ==
  /\ Place("forget") = 1 /\ Place("drop") = 2 /\ Place("triggers") = 3 /\ Place("clear") = 4
  /\ Place("action") = 5 /\ Place("rule") = 6 /\ Place("unsubscribe") = 7 /\ Place("subscribe") = 9
  /\ Place("remove") = 10 /\ Place("update") = 11
  /\ \A u \in Users : Place(u) = 8
  /\ \A x : Place(x) \in Nat /\ Place(x) <= 11
<1>1. \A x : Place(x) \in Nat /\ Place(x) <= 11
  BY DEF Place
<1>2. \A u \in Users : Place(u) = 8
  BY RulesAssumption DEF Place, StageNames
<1> QED
  BY <1>1, <1>2 DEF Place

LEMMA LeftTail ==
  ASSUME NEW q \in Seq(StageNames \cup Users), q # <<>>, Sorted(q)
  PROVE  /\ Head(q) \in Left(q) /\ Sorted(Tail(q))
         /\ Left(Tail(q)) = Left(q) \ {Head(q)}
         /\ \A x \in Left(q) : x # Head(q) => Place(Head(q)) < Place(x)
<1>1. /\ Len(q) \in Nat /\ Len(q) > 0 /\ Head(q) = q[1]
      /\ Tail(q) \in Seq(StageNames \cup Users) /\ Len(Tail(q)) = Len(q) - 1
      /\ \A i \in 1..Len(Tail(q)) : i + 1 \in 1..Len(q) /\ Tail(q)[i] = q[i + 1]
  BY Tails
<1>2. Head(q) \in Left(q) /\ 1 \in 1..Len(q)
  BY <1>1 DEF Left
<1>3. ASSUME NEW x \in Left(Tail(q)) PROVE x \in Left(q) /\ Place(Head(q)) < Place(x)
  <2>1. PICK i \in 1..Len(Tail(q)) : Tail(q)[i] = x
    BY DEF Left
  <2>2. i + 1 \in 1..Len(q) /\ q[i + 1] = x /\ 1 < i + 1
    BY <1>1, <2>1
  <2> QED
    BY <1>1, <1>2, <2>2 DEF Left, Sorted
<1>4. ASSUME NEW x \in Left(q), x # Head(q) PROVE x \in Left(Tail(q))
  <2>1. PICK i \in 1..Len(q) : q[i] = x
    BY DEF Left
  <2>2. i - 1 \in 1..Len(Tail(q)) /\ (i - 1) + 1 = i
    BY <1>1, <1>4, <2>1
  <2>3. Tail(q)[i - 1] = x
    BY <1>1, <2>1, <2>2
  <2> QED
    BY <2>2, <2>3 DEF Left
<1>5. Head(q) \notin Left(Tail(q))
  BY SMTT(30), <1>3, Places
<1>6. Sorted(Tail(q))
  <2> SUFFICES ASSUME NEW i \in 1..Len(Tail(q)), NEW j \in 1..Len(Tail(q)), i < j
               PROVE  Place(Tail(q)[i]) < Place(Tail(q)[j])
    BY DEF Sorted
  <2>1. /\ i + 1 \in 1..Len(q) /\ Tail(q)[i] = q[i + 1] /\ j + 1 \in 1..Len(q) /\ Tail(q)[j] = q[j + 1]
        /\ i + 1 < j + 1
    BY <1>1
  <2> QED
    BY <2>1 DEF Sorted
<1>7. Left(Tail(q)) = Left(q) \ {Head(q)}
  BY <1>3, <1>4, <1>5
<1> QED
  BY <1>2, <1>3, <1>4, <1>6, <1>7

LEMMA PlannedTail ==
  ASSUME NEW left, NEW h \in left, Planned(left), \A x \in left : x # h => Place(h) < Place(x)
  PROVE  Planned(left \ {h})
<1>1. ASSUME NEW x \in left, x # h, x \in {"forget", "drop", "triggers", "clear", "action"}
      PROVE  h \notin Writers \cup {"unsubscribe"}
  BY <1>1, Places DEF Writers
<1>2. "forget" \in left /\ "forget" # h => h # "drop"
  BY Places
<1>3. (left \ {h}) \cap {"forget", "drop", "triggers", "clear", "action"} # {} => (left \ {h}) \cap Writers # {}
  <2> SUFFICES ASSUME NEW x \in left, x # h, x \in {"forget", "drop", "triggers", "clear", "action"}
               PROVE  (left \ {h}) \cap Writers # {}
    OBVIOUS
  <2>1. PICK w \in left : w \in Writers
    BY DEF Planned
  <2>2. w # h
    BY <1>1, <2>1
  <2> QED
    BY <2>1, <2>2
<1>4. (left \ {h}) \cap {"clear", "action"} # {} => "unsubscribe" \in left \ {h}
  BY <1>1 DEF Planned
<1>5. {"clear", "subscribe"} \subseteq left \ {h} => "action" \in left \ {h}
  BY <1>1, Places DEF Planned
<1> QED
  BY <1>2, <1>3, <1>4, <1>5 DEF Planned

\* A user is put before the look-up of the next one.
LEMMA LeftUser ==
  ASSUME NEW q \in Seq(StageNames \cup Users), NEW u \in Users, q # <<>>, Sorted(q), Head(q) = "subscribe"
  PROVE  Left(<<u>> \o q) = {u} \cup Left(q) /\ Sorted(<<u>> \o q)
<1>1. /\ Len(q) \in Nat /\ Len(q) > 0 /\ q[1] = "subscribe"
      /\ <<u>> \o q \in Seq(StageNames \cup Users) /\ Len(<<u>> \o q) = Len(q) + 1 /\ (<<u>> \o q)[1] = u
      /\ \A i \in 1..Len(q) : i + 1 \in 1..(Len(q) + 1) /\ (<<u>> \o q)[i + 1] = q[i]
      /\ \A i \in 1..(Len(q) + 1) : i = 1 \/ (i - 1 \in 1..Len(q) /\ (<<u>> \o q)[i] = q[i - 1])
  BY Tails
<1>2. PICK w : w = <<u>> \o q
  OBVIOUS
<1>3. /\ Len(w) = Len(q) + 1 /\ w[1] = u
      /\ \A i \in 1..Len(q) : i + 1 \in 1..(Len(q) + 1) /\ w[i + 1] = q[i]
      /\ \A i \in 1..(Len(q) + 1) : i = 1 \/ (i - 1 \in 1..Len(q) /\ w[i] = q[i - 1])
  BY <1>1, <1>2
<1>4. \A i \in 1..Len(q) : Place("subscribe") <= Place(q[i])
  <2> TAKE i \in 1..Len(q)
  <2>1. CASE i = 1
    BY <2>1, <1>1, Places
  <2>2. CASE i # 1
    <3>1. 1 \in 1..Len(q) /\ 1 < i
      BY <2>2, <1>1
    <3>2. Place(q[1]) < Place(q[i])
      BY <3>1 DEF Sorted
    <3> QED
      BY SMTT(30), <3>2, <1>1, Places
  <2> QED
    BY <2>1, <2>2
<1>5. Left(w) = {u} \cup Left(q)
  <2>1. 1 \in 1..Len(w)
    BY <1>1, <1>3
  <2>2. ASSUME NEW x \in Left(w) PROVE x \in {u} \cup Left(q)
    BY SMTT(30), <1>3 DEF Left
  <2>3. ASSUME NEW x \in Left(q) PROVE x \in Left(w)
    <3>1. PICK i \in 1..Len(q) : q[i] = x
      BY DEF Left
    <3>2. i + 1 \in 1..Len(w) /\ w[i + 1] = x
      BY <1>3, <3>1
    <3> QED
      BY <3>2 DEF Left
  <2>4. u \in Left(w)
    BY <2>1, <1>3 DEF Left
  <2> QED
    BY <2>2, <2>3, <2>4
<1>6. Sorted(w)
  <2> SUFFICES ASSUME NEW i \in 1..Len(w), NEW j \in 1..Len(w), i < j PROVE Place(w[i]) < Place(w[j])
    BY DEF Sorted
  <2>1. i \in 1..(Len(q) + 1) /\ j \in 1..(Len(q) + 1) /\ j # 1
    BY <1>1, <1>3
  <2>2. j - 1 \in 1..Len(q) /\ w[j] = q[j - 1]
    BY <2>1, <1>3
  <2>3. CASE i = 1
    <3>1. Place(w[i]) = 8 /\ Place("subscribe") = 9
      BY <2>3, <1>3, Places
    <3>2. Place("subscribe") <= Place(w[j]) /\ Place(w[j]) \in Nat
      BY <2>2, <1>4, Places
    <3> QED
      BY <3>1, <3>2
  <2>4. CASE i # 1
    <3>1. i - 1 \in 1..Len(q) /\ w[i] = q[i - 1] /\ i - 1 < j - 1
      BY <2>1, <2>4, <1>3, <1>1
    <3> QED
      BY <3>1, <2>2 DEF Sorted
  <2> QED
    BY <2>3, <2>4
<1> QED
  BY <1>2, <1>5, <1>6

LEMMA TargetsAre == \A as, u : u \in Targets(as) <=> \E a \in as : u \in action[a].users
  BY DEF Targets

LEMMA SameTargets ==
  ASSUME NEW as, \A a \in as : action'[a] = action[a]
  PROVE  Targets(as)' = Targets(as)
<1>1. \A u : u \in Targets(as)' <=> \E a \in as : u \in action'[a].users
  BY DEF Targets
<1>2. \A u : u \in Targets(as)' <=> u \in Targets(as)
  BY <1>1, TargetsAre
<1> QED
  BY <1>2

LEMMA SameUnderway ==
  ASSUME NEW q, Underway(q), q.then \subseteq Actions, \A a \in q.then : action'[a] = action[a],
         rule'[q.rule] = rule[q.rule], subscription'[q.rule] = subscription[q.rule], interrupted' = interrupted
  PROVE  Underway(q)'
<1>1. Targets(q.then)' = Targets(q.then)
  BY SameTargets
<1>2. q.then \subseteq StoredActions'
  BY DEF Underway, StoredActions
<1>3. /\ "update" \in Left(q.todo) => rule'[q.rule].state = "stored"
      /\ Left(q.todo) \cap Writers = {} => rule'[q.rule].if = q.if /\ rule'[q.rule].then = q.then
      /\ \A u \in Users \cap Left(q.todo) : subscription'[q.rule][u] = 0
      /\ "unsubscribe" \in Left(q.todo) /\ Left(q.todo) \cap {"clear", "action"} = {} =>
            Targets(q.then)' = q.users
  BY <1>1 DEF Underway
<1>4. "unsubscribe" \notin Left(q.todo) /\ q.rule \notin interrupted' =>
          /\ Waiting(q) \subseteq Targets(q.then)'
          /\ \A u \in Users \ Waiting(q) :
                subscription'[q.rule][u] = IF u \in Targets(q.then)' THEN 1 ELSE 0
  BY <1>1 DEF Underway
<1> QED
  BY <1>2, <1>3, <1>4 DEF Underway, Waiting

\* A step of the request in slot s, on rule r, that leaves the rest alone: m is what the
\* request holds from now on, with nothing left to do when it is over.
LEMMA Locally ==
  ASSUME IInv, LeftInv, LeftTyped', NEW s \in Slots, NEW r \in Rules, NEW m \in Working, m.rule = r,
         On(r) \subseteq {s}, Busy(s) => request[s].rule = r,
         request' = [request EXCEPT ![s] = IF m.todo = <<>> THEN Idle ELSE m],
         interrupted' = interrupted,
         rule' \in [Rules -> RuleType],
         \A x \in Rules : x # r => rule'[x] = rule[x] /\ subscription'[x] = subscription[x],
         rule'[r].state # "stored" => rule'[r].if = {} /\ rule'[r].then = {},
         Halfway(m), Underway(m)',
         job' # <<>> /\ job'[1].undisturbed => job' = job /\ job[1].rule # r,
         \A a \in Actions : action[a].state # "unused" /\ ~OwnsAction(r, a) => action'[a] = action[a],
         \A a \in Actions : action[a].state # "unused" => action'[a].state # "unused",
         \A a \in m.then \cup m.loaded.then \cup rule'[r].then :
            action'[a].state # "unused" /\ (action[a].state # "unused" => OwnsAction(r, a)),
         \A t \in Exists(Triggers)' : t \in Minding(m) \/ (t \in Exists(Triggers) /\ ~Minds(r, t)),
         \A a \in StoredActions' : a \in m.then \/ (a \in StoredActions /\ ~MindsAction(r, a))
  PROVE  LeftInv'
<1>1. PICK n : n = IF m.todo = <<>> THEN Idle ELSE m
  OBVIOUS
<1>2. /\ request'[s] = n /\ \A x \in Slots \ {s} : request'[x] = request[x]
      /\ n # Idle <=> m.todo # <<>>
      /\ n # Idle => n = m
  BY <1>1 DEF IInv, Typed, Idle
<1>3. /\ Busy(s)' <=> m.todo # <<>>
      /\ \A x \in Slots \ {s} : Busy(x)' <=> Busy(x)
  BY <1>1, <1>2 DEF Busy, Idle
<1>4. \A x \in Rules : x # r => /\ s \notin On(x) /\ s \notin On(x)'
                                /\ \A y : y \in On(x)' <=> y \in On(x)
  BY <1>2, <1>3 DEF On
<1>5. On(r)' = IF m.todo = <<>> THEN {} ELSE {s}
  <2>1. \A y \in Slots \ {s} : y \notin On(r)'
    BY <1>2, <1>3 DEF On
  <2> QED
    BY <2>1, <1>2, <1>3 DEF On
<1>6. \A x \in Rules : x # r => On(x)' = On(x) /\ \A y \in On(x) : y \in Slots \ {s} /\ request'[y] = request[y]
  BY <1>2, <1>4 DEF On
<1>7. \A x \in Rules : \A a : x # r => (OwnsAction(x, a)' <=> OwnsAction(x, a))
  BY <1>6 DEF OwnsAction
<1>8. \A a : OwnsAction(r, a)' => a \in m.then \cup m.loaded.then \cup rule'[r].then
  BY <1>2, <1>5 DEF OwnsAction
<1>9. ASSUME NEW x \in Rules, x # r, NEW a \in Actions, OwnsAction(x, a)
      PROVE  action[a].state # "unused" /\ ~OwnsAction(r, a) /\ action'[a] = action[a]
  BY <1>9 DEF LeftInv, ActionsKnown, ActionsApart
<1>10. ActionsKnown'
  <2> SUFFICES ASSUME NEW a \in Actions, NEW x \in Rules, OwnsAction(x, a)' PROVE action'[a].state # "unused"
    BY DEF ActionsKnown
  <2>1. CASE x = r
    BY <2>1, <1>8
  <2>2. CASE x # r
    BY <2>2, <1>7, <1>9
  <2> QED
    BY <2>1, <2>2
<1>11. ActionsApart'
  <2>1. ASSUME NEW a \in Actions, NEW x \in Rules, x # r, OwnsAction(x, a)', OwnsAction(r, a)' PROVE FALSE
    BY <2>1, <1>7, <1>8, <1>9
  <2> SUFFICES ASSUME NEW a \in Actions, NEW r1 \in Rules, NEW r2 \in Rules,
                      OwnsAction(r1, a)', OwnsAction(r2, a)'
               PROVE  r1 = r2
    BY DEF ActionsApart
  <2>2. CASE r1 # r /\ r2 # r
    BY <2>2, <1>7 DEF LeftInv, ActionsApart
  <2> QED
    BY <2>1, <2>2
<1>12. Emptied'
  BY DEF LeftInv, Emptied
<1>13. Goings'
  <2> SUFFICES ASSUME NEW x \in Slots, Busy(x)' PROVE Halfway(request[x])' /\ Underway(request[x])'
    BY DEF Goings
  <2>1. CASE x = s
    BY <2>1, <1>2, <1>3
  <2>2. CASE x # s
    <3>1. PICK q : q = request[x]
      OBVIOUS
    <3>2. request'[x] = q /\ Busy(x) /\ q \in Working /\ q.rule \in Rules
      BY <2>2, <3>1, <1>2, <1>3, Working1
    <3>3. q.rule # r /\ q.then \subseteq Actions
      BY <2>2, <3>1, <3>2 DEF On, Working
    <3>4. \A a \in q.then : OwnsAction(q.rule, a)
      BY <3>1, <3>2 DEF OwnsAction, On
    <3>5. \A a \in q.then : action'[a] = action[a]
      BY <3>2, <3>3, <3>4, <1>9
    <3>6. Halfway(q) /\ Underway(q)
      BY <3>1, <3>2 DEF LeftInv, Goings
    <3>7. Underway(q)'
      BY <3>2, <3>3, <3>5, <3>6, SameUnderway
    <3> QED
      BY <3>2, <3>6, <3>7
  <2> QED
    BY <2>1, <2>2
<1>14. Rests'
  <2> SUFFICES ASSUME NEW x \in Rules, On(x)' = {}, x \notin interrupted' PROVE AtRest(x)'
    BY DEF Rests
  <2>1. CASE x = r
    <3>1. m.todo = <<>> /\ Left(m.todo) = {}
      BY <2>1, <1>5 DEF Left
    <3>2. rule'[r].then = m.then /\ m.then \subseteq StoredActions' /\ m.users = {} /\ Waiting(m) = {}
      BY <3>1 DEF Underway, Halfway, Waiting
    <3>3. \A u \in Users : subscription'[r][u] = IF u \in Targets(m.then)' THEN 1 ELSE 0
      BY <2>1, <3>1, <3>2 DEF Underway
    <3> QED
      BY <2>1, <3>2, <3>3 DEF AtRest, Targets
  <2>2. CASE x # r
    <3>1. AtRest(x) /\ rule'[x] = rule[x] /\ subscription'[x] = subscription[x]
      BY <2>2, <1>6 DEF LeftInv, Rests
    <3>2. PICK as : as = rule[x].then
      OBVIOUS
    <3>3. \A a \in as : a \in Actions /\ OwnsAction(x, a)
      BY <3>1, <3>2 DEF AtRest, StoredActions, OwnsAction
    <3>4. \A a \in as : action'[a] = action[a]
      BY <2>2, <3>3, <1>9
    <3>5. Targets(as)' = Targets(as) /\ as \subseteq StoredActions'
      BY <3>1, <3>2, <3>4, SameTargets DEF AtRest, StoredActions
    <3>6. rule'[x].then = as
      BY <3>1, <3>2
    <3> QED
      BY <3>1, <3>2, <3>5, <3>6 DEF AtRest, Targets
  <2> QED
    BY <2>1, <2>2
<1>15. JobSound'
  <2> SUFFICES ASSUME job' # <<>>, job'[1].undisturbed
               PROVE  /\ On(job[1].rule)' = {} /\ job'[1].rule \notin interrupted'
                      /\ \A u \in job'[1].todo : subscription'[job'[1].rule][u] = 1
    BY DEF JobSound
  <2>1. job' = job /\ job[1].rule # r /\ job[1].rule \in Rules
    BY DEF LeftInv, LeftTyped, JobType
  <2>2. PICK x \in Rules : x = job[1].rule
    BY <2>1
  <2>3. On(x) = {} /\ x \notin interrupted /\ \A u \in job[1].todo : subscription[x][u] = 1
    BY <2>1, <2>2 DEF LeftInv, JobSound
  <2>4. job'[1].rule = x /\ x # r /\ On(x)' = {} /\ subscription'[x] = subscription[x]
    BY <2>1, <2>2, <2>3, <1>6
  <2> QED
    BY <2>1, <2>3, <2>4
<1>16. ASSUME interrupted' = {} PROVE TriggersMinded' /\ ActionsMinded'
  <2>1. TriggersMinded /\ ActionsMinded
    BY <1>16 DEF LeftInv
  <2>2. m.todo = <<>> => Minding(m) = rule'[r].if /\ m.then = rule'[r].then
    <3> SUFFICES ASSUME m.todo = <<>> PROVE Minding(m) = rule'[r].if /\ m.then = rule'[r].then
      OBVIOUS
    <3>1. Left(m.todo) = {}
      BY DEF Left
    <3> QED
      BY <3>1 DEF Underway, Minding
  <2>3. ASSUME NEW t \in Exists(Triggers)' PROVE \E x \in Rules : Minds(x, t)'
    <3>1. CASE t \in Minding(m)
      <4>1. Minds(r, t)'
        BY <3>1, <2>2, <1>2, <1>5 DEF Minds
      <4> QED
        BY <4>1
    <3>2. CASE t \in Exists(Triggers) /\ ~Minds(r, t)
      <4>1. PICK x \in Rules : Minds(x, t)
        BY <3>2, <2>1 DEF TriggersMinded
      <4>2. x # r
        BY <3>2, <4>1
      <4>3. Minds(x, t)'
        BY <4>1, <4>2, <1>6 DEF Minds
      <4> QED
        BY <4>3
    <3> QED
      BY <3>1, <3>2
  <2>4. ASSUME NEW a \in StoredActions' PROVE \E x \in Rules : MindsAction(x, a)'
    <3>1. CASE a \in m.then
      <4>1. MindsAction(r, a)'
        BY <3>1, <2>2, <1>2, <1>5 DEF MindsAction
      <4> QED
        BY <4>1
    <3>2. CASE a \in StoredActions /\ ~MindsAction(r, a)
      <4>1. PICK x \in Rules : MindsAction(x, a)
        BY <3>2, <2>1 DEF ActionsMinded
      <4>2. x # r
        BY <3>2, <4>1
      <4>3. MindsAction(x, a)'
        BY <4>1, <4>2, <1>6 DEF MindsAction
      <4> QED
        BY <4>3
    <3> QED
      BY <3>1, <3>2
  <2> QED
    BY <2>3, <2>4 DEF TriggersMinded, ActionsMinded
<1> QED
  BY <1>10, <1>11, <1>12, <1>13, <1>14, <1>15, <1>16 DEF LeftInv

-----------------------------------------------------------------------------
(* The stages.                                                             *)

\* Where the request of a slot stands.
LEMMA Stands ==
  ASSUME IInv, LeftInv, NEW s \in Slots, Busy(s), NEW q, q = request[s]
  PROVE  /\ q \in Working /\ q.rule \in Rules /\ On(q.rule) = {s}
         /\ q.todo \in Seq(StageNames \cup Users) /\ q.todo # <<>> /\ Head(q.todo) = Stage(s)
         /\ Halfway(q) /\ Underway(q) /\ Phase(q)
         /\ Stage(s) \in Left(q.todo)
         /\ \A x \in Left(q.todo) : x # Stage(s) => Place(Stage(s)) < Place(x)
         /\ \A a : OwnsAction(q.rule, a) <=> a \in rule[q.rule].then \cup q.then \cup q.loaded.then
         /\ \A t : Minds(q.rule, t) <=> t \in Minding(q)
         /\ \A a : MindsAction(q.rule, a) <=> a \in q.then
<1>1. /\ q \in Working /\ q.rule \in Rules /\ On(q.rule) = {s} /\ Phase(q)
      /\ q.todo \in Seq(StageNames \cup Users) /\ q.todo # <<>>
  BY Working1
<1>2. Head(q.todo) = Stage(s) /\ Halfway(q) /\ Underway(q)
  BY DEF Stage, LeftInv, Goings
<1>3. /\ Stage(s) \in Left(q.todo)
      /\ \A x \in Left(q.todo) : x # Stage(s) => Place(Stage(s)) < Place(x)
  BY <1>1, <1>2, LeftTail DEF Halfway
<1>4. /\ \A a : OwnsAction(q.rule, a) <=> a \in rule[q.rule].then \cup q.then \cup q.loaded.then
      /\ \A t : Minds(q.rule, t) <=> t \in Minding(q)
      /\ \A a : MindsAction(q.rule, a) <=> a \in q.then
  BY <1>1 DEF OwnsAction, Minds, MindsAction
<1> QED
  BY <1>1, <1>2, <1>3, <1>4

\* What a request holds once a stage is over.
LEMMA Goes ==
  ASSUME IInv, LeftInv, NEW s \in Slots, Busy(s), NEW q \in Working, q.todo = request[s].todo, Advanced(s, q)
  PROVE  \E m \in Working :
            /\ m.rule = q.rule /\ m.loaded = q.loaded /\ m.if = q.if /\ m.then = q.then
            /\ m.drop = q.drop /\ m.users = q.users /\ m.build = q.build
            /\ request' = [request EXCEPT ![s] = IF m.todo = <<>> THEN Idle ELSE m]
            /\ Left(m.todo) = Left(q.todo) \ {Stage(s)} /\ Sorted(m.todo)
<1>1. PICK old : old = request[s]
  OBVIOUS
<1>2. /\ q.todo \in Seq(StageNames \cup Users) /\ q.todo # <<>> /\ Head(q.todo) = Stage(s) /\ Sorted(q.todo)
  BY <1>1, Stands DEF Halfway
<1>3. PICK m : m = [q EXCEPT !.todo = Tail(q.todo)]
  OBVIOUS
<1>4. /\ Tail(q.todo) \in Seq(StageNames \cup Users) /\ Len(Tail(q.todo)) = Len(q.todo) - 1 /\ Len(q.todo) \in Nat
      /\ Left(Tail(q.todo)) = Left(q.todo) \ {Stage(s)} /\ Sorted(Tail(q.todo))
  BY <1>2, Tails, LeftTail
<1>5. /\ m \in Working /\ m.todo = Tail(q.todo)
      /\ m.rule = q.rule /\ m.loaded = q.loaded /\ m.if = q.if /\ m.then = q.then
      /\ m.drop = q.drop /\ m.users = q.users /\ m.build = q.build
  BY <1>3, <1>4 DEF Working
<1>6. m.todo = <<>> <=> Len(q.todo) = 1
  <2>1. Tail(q.todo) = <<>> <=> Len(Tail(q.todo)) = 0
    BY <1>4, EmptySeq
  <2> QED
    BY <2>1, <1>4, <1>5
<1>7. request' = [request EXCEPT ![s] = IF m.todo = <<>> THEN Idle ELSE m]
  BY <1>3, <1>6 DEF Advanced
<1> QED
  BY <1>4, <1>5, <1>7

LEMMA HalfwayOn ==
  ASSUME NEW q, NEW m, NEW h \in Left(q.todo), Halfway(q), Sorted(m.todo), Left(m.todo) = Left(q.todo) \ {h},
         \A x \in Left(q.todo) : x # h => Place(h) < Place(x),
         m.loaded = q.loaded, m.users = q.users,
         m.if = q.if \/ m.if = {}, h = "forget" => m.if = {},
         h = "clear" => m.then = {}, h \notin {"clear", "action"} => m.then = q.then,
         h = "subscribe" => q.users = {}
  PROVE  Halfway(m)
<1>1. Planned(Left(m.todo))
  BY PlannedTail DEF Halfway
<1>2. h = "action" => "clear" \notin Left(q.todo) /\ "remove" \notin Left(q.todo)
  BY Places DEF Halfway, Planned
<1>3. "remove" \in Left(m.todo) => /\ "forget" \in Left(m.todo) \/ m.if = {}
                                   /\ "clear" \in Left(m.todo) \/ m.then = {}
  BY <1>2 DEF Halfway
<1>4. "clear" \in Left(m.todo) => m.then = m.loaded.then
  BY <1>2 DEF Halfway
<1>5. "action" \in Left(m.todo) /\ "clear" \notin Left(m.todo) => m.then = {}
  BY DEF Halfway
<1>6. "subscribe" \notin Left(m.todo) => m.users = {}
  BY DEF Halfway
<1>7. \A u \in Users \cap Left(m.todo) :
          u \notin m.users /\ "subscribe" \in Left(m.todo) /\ "unsubscribe" \notin Left(m.todo)
  <2> TAKE u \in Users \cap Left(m.todo)
  <2>1. Place(h) < Place(u) /\ Place(u) = 8
    BY Places
  <2>2. h # "subscribe"
    BY <2>1, Places
  <2> QED
    BY <2>2 DEF Halfway
<1> QED
  BY <1>1, <1>3, <1>4, <1>5, <1>6, <1>7 DEF Halfway

LEMMA UnderwayOn ==
  ASSUME NEW q, NEW m, NEW h \in Left(q.todo), Halfway(q), Underway(q), Left(m.todo) = Left(q.todo) \ {h},
         \A x \in Left(q.todo) : x # h => Place(h) < Place(x),
         h \in {"forget", "drop", "triggers", "action", "subscribe"},
         h = "action" => q.users = {},
         m.rule = q.rule, m.then = q.then, m.users = q.users, m.if = q.if \/ h = "forget"
  PROVE  Underway(m)
<1>1. h \notin Writers /\ h \notin Users /\ h # "unsubscribe"
  BY RulesAssumption DEF StageNames, Writers
<1>2. Left(m.todo) \cap Writers = Left(q.todo) \cap Writers /\ Users \cap Left(m.todo) = Users \cap Left(q.todo)
      /\ ("unsubscribe" \in Left(m.todo) <=> "unsubscribe" \in Left(q.todo))
      /\ ("update" \in Left(m.todo) => "update" \in Left(q.todo))
  BY <1>1
<1>3. h = "forget" => Left(m.todo) \cap Writers # {}
  BY <1>2 DEF Halfway, Planned
<1>4. h = "action" => q.then = {} /\ Targets(q.then) = {}
  <2>1. h = "action" => q.then = {}
    BY Places DEF Halfway
  <2> QED
    BY <2>1 DEF Targets
<1>5. "unsubscribe" \in Left(m.todo) /\ Left(m.todo) \cap {"clear", "action"} = {} => Targets(m.then) = m.users
  <2>1. CASE h = "action"
    BY <2>1, <1>4
  <2>2. CASE h # "action"
    <3>1. Left(m.todo) \cap {"clear", "action"} = Left(q.todo) \cap {"clear", "action"}
      BY <2>2
    <3> QED
      BY <3>1, <1>2 DEF Underway
  <2> QED
    BY <2>1, <2>2
<1>6. Waiting(m) = Waiting(q)
  BY <1>2 DEF Waiting
<1>7. /\ "update" \in Left(m.todo) => rule[m.rule].state = "stored"
      /\ m.then \subseteq StoredActions
      /\ \A u \in Users \cap Left(m.todo) : subscription[m.rule][u] = 0
  BY <1>2 DEF Underway
<1>8. Left(m.todo) \cap Writers = {} => rule[m.rule].if = m.if /\ rule[m.rule].then = m.then
  BY <1>2, <1>3 DEF Underway
<1>9. "unsubscribe" \notin Left(m.todo) /\ m.rule \notin interrupted =>
          /\ Waiting(m) \subseteq Targets(m.then)
          /\ \A u \in Users \ Waiting(m) :
                subscription[m.rule][u] = IF u \in Targets(m.then) THEN 1 ELSE 0
  BY <1>2, <1>6 DEF Underway
<1> QED
  BY <1>5, <1>7, <1>8, <1>9 DEF Underway

\* The step of a request that leaves rules, actions and subscriptions alone.
LEMMA TriggerStep ==
  ASSUME IInv, LeftInv, NEW s \in Slots, Busy(s), NEW m \in Working, m.rule = request[s].rule,
         request' = [request EXCEPT ![s] = IF m.todo = <<>> THEN Idle ELSE m],
         UNCHANGED <<rule, action, subscription, jobs, interrupted>>,
         Halfway(m), Underway(m), m.then = request[s].then, m.loaded = request[s].loaded,
         \A t \in Exists(Triggers)' :
            t \in Minding(m) \/ (t \in Exists(Triggers) /\ t \notin Minding(request[s]))
  PROVE  LeftInv'
<1>1. PICK q : q = request[s]
  OBVIOUS
<1>2. PICK r \in Rules : r = q.rule
  BY <1>1, Stands
<1>3. /\ q \in Working /\ On(r) = {s} /\ Underway(q)
      /\ \A a : OwnsAction(r, a) <=> a \in rule[r].then \cup q.then \cup q.loaded.then
      /\ \A t : Minds(r, t) <=> t \in Minding(q)
      /\ \A a : MindsAction(r, a) <=> a \in q.then
  BY <1>1, <1>2, Stands
<1>4. LeftTyped'
  BY DEF LeftInv, LeftTyped, jobs
<1>5. m.then \subseteq Actions
  BY DEF Working
<1>6. Underway(m)'
  BY <1>5, SameUnderway
<1>7. rule' \in [Rules -> RuleType]
  BY DEF IInv, Typed
<1>8. rule'[r].state # "stored" => rule'[r].if = {} /\ rule'[r].then = {}
  BY DEF LeftInv, Emptied
<1>9. job' # <<>> /\ job'[1].undisturbed => job' = job /\ job[1].rule # r
  BY <1>3 DEF LeftInv, JobSound, jobs
<1>10. \A a \in m.then \cup m.loaded.then \cup rule'[r].then : a \in Actions /\ OwnsAction(r, a)
  <2>1. m.then \cup m.loaded.then \subseteq Actions /\ rule[r].then \subseteq Actions
    BY DEF Working, IInv, Typed, RuleType
  <2> QED
    BY <2>1, <1>1, <1>3
<1>11. \A a \in m.then \cup m.loaded.then \cup rule'[r].then :
          action'[a].state # "unused" /\ (action[a].state # "unused" => OwnsAction(r, a))
  BY <1>10 DEF LeftInv, ActionsKnown
<1>12. \A t \in Exists(Triggers)' : t \in Minding(m) \/ (t \in Exists(Triggers) /\ ~Minds(r, t))
  BY <1>1, <1>3
<1>13. \A a \in StoredActions' : a \in m.then \/ (a \in StoredActions /\ ~MindsAction(r, a))
  BY <1>1, <1>3 DEF StoredActions
<1>14. On(r) \subseteq {s} /\ (Busy(s) => request[s].rule = r) /\ m.rule = r
  BY <1>1, <1>2, <1>3
<1>15. /\ \A x \in Rules : x # r => rule'[x] = rule[x] /\ subscription'[x] = subscription[x]
       /\ \A a \in Actions : action[a].state # "unused" /\ ~OwnsAction(r, a) => action'[a] = action[a]
       /\ \A a \in Actions : action[a].state # "unused" => action'[a].state # "unused"
       /\ interrupted' = interrupted
  OBVIOUS
<1> QED
  BY <1>4, <1>6, <1>7, <1>8, <1>9, <1>11, <1>12, <1>13, <1>14, <1>15, Locally

LEMMA ForgetLeft ==
  ASSUME IInv, LeftInv, NEW s \in Slots, Forget(s)
  PROVE  LeftInv'
<1>1. /\ Busy(s) /\ Stage(s) = "forget" /\ Advanced(s, [request[s] EXCEPT !.if = {}])
      /\ UNCHANGED <<rule, trigger, action, subscription, jobs, interrupted>>
  BY DEF Forget, database
<1>2. PICK q : q = request[s]
  OBVIOUS
<1>3. /\ q \in Working /\ Halfway(q) /\ Underway(q) /\ "forget" \in Left(q.todo) /\ Phase(q) /\ Head(q.todo) = "forget"
      /\ \A x \in Left(q.todo) : x # "forget" => Place("forget") < Place(x)
  BY <1>1, <1>2, Stands
<1>4. PICK p : p = [q EXCEPT !.if = {}]
  OBVIOUS
<1>5. /\ p \in Working /\ p.todo = q.todo /\ p.rule = q.rule /\ p.loaded = q.loaded /\ p.if = {} /\ p.then = q.then
      /\ p.drop = q.drop /\ p.users = q.users
  BY <1>3, <1>4 DEF Working
<1>6. PICK m \in Working :
            /\ m.rule = p.rule /\ m.loaded = p.loaded /\ m.if = p.if /\ m.then = p.then
            /\ m.drop = p.drop /\ m.users = p.users
            /\ request' = [request EXCEPT ![s] = IF m.todo = <<>> THEN Idle ELSE m]
            /\ Left(m.todo) = Left(p.todo) \ {Stage(s)} /\ Sorted(m.todo)
  <2>1. Advanced(s, p)
    BY <1>1, <1>2, <1>4
  <2> QED
    BY <2>1, <1>1, <1>2, <1>5, Goes
<1>7. Halfway(m)
  BY <1>1, <1>3, <1>5, <1>6, HalfwayOn
<1>8. Underway(m)
  BY <1>1, <1>3, <1>5, <1>6, UnderwayOn
<1>9. Minding(q) \subseteq Minding(m)
  <2>1. "drop" \in Left(m.todo)
    BY <1>1, <1>3, <1>5, <1>6 DEF Halfway, Planned
  <2> QED
    BY <2>1, <1>3, <1>5, <1>6 DEF Minding, Phase
<1>10. Exists(Triggers)' = Exists(Triggers)
  BY <1>1 DEF Exists
<1> QED
  BY <1>1, <1>2, <1>5, <1>6, <1>7, <1>8, <1>9, <1>10, TriggerStep

\* A stage without effect ends.
LEMMA NothingDone ==
  ASSUME IInv, LeftInv, NEW s \in Slots, Busy(s), Advanced(s, request[s]),
         UNCHANGED <<rule, trigger, action, subscription, jobs, interrupted>>,
         Stage(s) \in {"drop", "triggers", "action", "subscribe"},
         Stage(s) = "drop" => request[s].drop = {},
         Stage(s) \in {"action", "subscribe"} => request[s].users = {}
  PROVE  LeftInv'
<1>1. PICK q : q = request[s]
  OBVIOUS
<1>2. /\ q \in Working /\ Halfway(q) /\ Underway(q) /\ Stage(s) \in Left(q.todo)
      /\ \A x \in Left(q.todo) : x # Stage(s) => Place(Stage(s)) < Place(x)
  BY <1>1, Stands
<1>3. PICK m \in Working :
            /\ m.rule = q.rule /\ m.loaded = q.loaded /\ m.if = q.if /\ m.then = q.then
            /\ m.drop = q.drop /\ m.users = q.users
            /\ request' = [request EXCEPT ![s] = IF m.todo = <<>> THEN Idle ELSE m]
            /\ Left(m.todo) = Left(q.todo) \ {Stage(s)} /\ Sorted(m.todo)
  BY <1>1, <1>2, Goes
<1>4. PICK h : h = Stage(s)
  OBVIOUS
<1>5. h = "action" => m.then = q.then
  BY <1>3
<1>6. h # "clear" /\ h # "forget"
  BY <1>4
<1>7. Halfway(m)
  BY <1>1, <1>2, <1>3, <1>4, <1>6, HalfwayOn
<1>8. Underway(m)
  BY SMTT(30), <1>1, <1>2, <1>3, <1>4, UnderwayOn
<1>9. Minding(q) \subseteq Minding(m)
  BY <1>1, <1>3 DEF Minding
<1>10. Exists(Triggers)' = Exists(Triggers)
  BY DEF Exists
<1> QED
  BY <1>1, <1>3, <1>7, <1>8, <1>9, <1>10, TriggerStep

LEMMA DropTriggerLeft ==
  ASSUME IInv, LeftInv, NEW s \in Slots, DropTrigger(s)
  PROVE  LeftInv'
<1>1. Busy(s) /\ Stage(s) = "drop" /\ UNCHANGED <<rule, action, subscription, jobs, interrupted>>
  BY DEF DropTrigger
<1>2. CASE request[s].drop = {} /\ Advanced(s, request[s]) /\ UNCHANGED trigger
  BY <1>1, <1>2, NothingDone
<1>3. CASE \E t \in request[s].drop :
             /\ trigger' = [trigger EXCEPT ![t].state = "deleted"]
             /\ request' = [request EXCEPT ![s].drop = @ \ {t}]
  <2>1. PICK t \in request[s].drop : /\ trigger' = [trigger EXCEPT ![t].state = "deleted"]
                                     /\ request' = [request EXCEPT ![s].drop = @ \ {t}]
    BY <1>3
  <2>2. PICK q : q = request[s]
    OBVIOUS
  <2>3. q \in Working /\ Halfway(q) /\ Underway(q) /\ q.todo # <<>> /\ "drop" \in Left(q.todo)
    BY <1>1, <2>2, Stands
  <2>4. PICK m : m = [q EXCEPT !.drop = @ \ {t}]
    OBVIOUS
  <2>5. /\ m \in Working /\ m.todo = q.todo /\ m.rule = q.rule /\ m.loaded = q.loaded /\ m.if = q.if
        /\ m.then = q.then /\ m.drop = q.drop \ {t} /\ m.users = q.users
    BY <2>3, <2>4 DEF Working
  <2>6. request' = [request EXCEPT ![s] = IF m.todo = <<>> THEN Idle ELSE m]
    BY <2>1, <2>2, <2>3, <2>4, <2>5 DEF IInv, Typed
  <2>7. Halfway(m) /\ Underway(m)
    BY <2>3, <2>5 DEF Halfway, Underway, Waiting
  <2>8. \A x \in Exists(Triggers)' : x \in Exists(Triggers) /\ x # t
    <3>1. t \in Triggers
      BY <2>1, <2>2, <2>3 DEF Working
    <3> QED
      BY <2>1, <3>1 DEF Exists, IInv, Typed, TriggerType
  <2>9. \A x \in Minding(q) : x # t => x \in Minding(m)
    BY <2>3, <2>5 DEF Minding
  <2> QED
    BY <1>1, <2>2, <2>5, <2>6, <2>7, <2>8, <2>9, TriggerStep
<1> QED
  BY <1>2, <1>3 DEF DropTrigger

LEMMA CountTopicLeft ==
  ASSUME IInv, LeftInv, NEW s \in Slots, CountTopic(s)
  PROVE  LeftInv'
<1>1. /\ Busy(s) /\ Stage(s) = "triggers" /\ UNCHANGED <<rule, trigger, action, subscription, jobs, interrupted>>
  BY DEF CountTopic, database
<1>2. PICK b \in request[s].build : \E dev \in b.devices \ b.counted :
          request' = [request EXCEPT ![s].build = (@ \ {b}) \cup {[b EXCEPT !.counted = @ \cup {dev}]}]
  BY DEF CountTopic
<1>3. PICK dev \in b.devices \ b.counted :
          request' = [request EXCEPT ![s].build = (@ \ {b}) \cup {[b EXCEPT !.counted = @ \cup {dev}]}]
  BY <1>2
<1>4. PICK q : q = request[s]
  OBVIOUS
<1>5. q \in Working /\ Halfway(q) /\ Underway(q) /\ q.todo # <<>>
  BY <1>1, <1>4, Stands
<1>6. PICK c : c = [b EXCEPT !.counted = @ \cup {dev}]
  OBVIOUS
<1>7. b \in BuildType /\ c \in BuildType
  BY <1>3, <1>4, <1>5, <1>6 DEF Working, BuildType
<1>8. PICK m : m = [q EXCEPT !.build = (@ \ {b}) \cup {c}]
  OBVIOUS
<1>9. /\ m \in Working /\ m.todo = q.todo /\ m.rule = q.rule /\ m.loaded = q.loaded /\ m.if = q.if
      /\ m.then = q.then /\ m.drop = q.drop /\ m.users = q.users
  BY <1>5, <1>7, <1>8 DEF Working
<1>10. request' = [request EXCEPT ![s] = IF m.todo = <<>> THEN Idle ELSE m]
  BY <1>3, <1>4, <1>5, <1>6, <1>8, <1>9 DEF IInv, Typed
<1>11. Halfway(m) /\ Underway(m)
  BY <1>5, <1>9 DEF Halfway, Underway, Waiting
<1>12. Exists(Triggers)' = Exists(Triggers) /\ Minding(m) = Minding(q)
  BY <1>1, <1>9 DEF Exists, Minding
<1> QED
  BY <1>1, <1>4, <1>9, <1>10, <1>11, <1>12, TriggerStep

LEMMA CreateTriggerLeft ==
  ASSUME IInv, LeftInv, NEW s \in Slots, CreateTrigger(s)
  PROVE  LeftInv'
<1>1. Busy(s) /\ Stage(s) = "triggers" /\ UNCHANGED <<rule, action, subscription, jobs, interrupted>>
  BY DEF CreateTrigger
<1>2. PICK b \in request[s].build, t \in Triggers :
        /\ trigger' = [trigger EXCEPT ![t] = [state |-> "stored", devices |-> b.devices]]
        /\ request' = [request EXCEPT ![s].build = @ \ {b}, ![s].if = @ \cup {t}]
  BY DEF CreateTrigger
<1>3. PICK q : q = request[s]
  OBVIOUS
<1>4. q \in Working /\ Halfway(q) /\ Underway(q) /\ q.todo # <<>> /\ "triggers" \in Left(q.todo)
  BY <1>1, <1>3, Stands
<1>5. PICK m : m = [q EXCEPT !.build = @ \ {b}, !.if = @ \cup {t}]
  OBVIOUS
<1>6. /\ m \in Working /\ m.todo = q.todo /\ m.rule = q.rule /\ m.loaded = q.loaded /\ m.if = q.if \cup {t}
      /\ m.then = q.then /\ m.drop = q.drop /\ m.users = q.users
  BY <1>4, <1>5 DEF Working
<1>7. request' = [request EXCEPT ![s] = IF m.todo = <<>> THEN Idle ELSE m]
  BY <1>2, <1>3, <1>4, <1>5, <1>6 DEF IInv, Typed
<1>8. Left(q.todo) \cap Writers # {} /\ "remove" \notin Left(q.todo)
  BY <1>4 DEF Halfway, Planned
<1>9. Halfway(m) /\ Underway(m)
  BY <1>4, <1>6, <1>8 DEF Halfway, Underway, Waiting
<1>10. \A x \in Exists(Triggers)' : x \in Exists(Triggers) \/ x = t
  BY <1>2 DEF Exists, IInv, Typed
<1>11. t \in Minding(m) /\ Minding(q) \subseteq Minding(m)
  BY <1>6 DEF Minding
<1> QED
  BY <1>1, <1>3, <1>6, <1>7, <1>9, <1>10, <1>11, TriggerStep

LEMMA TriggersDoneLeft ==
  ASSUME IInv, LeftInv, NEW s \in Slots, TriggersDone(s)
  PROVE  LeftInv'
<1>1. /\ Busy(s) /\ Stage(s) = "triggers" /\ Advanced(s, request[s])
      /\ UNCHANGED <<rule, trigger, action, subscription, jobs, interrupted>>
  BY DEF TriggersDone, database
<1> QED
  BY <1>1, NothingDone

\* The step of a request that leaves triggers and jobs alone.
LEMMA OtherStep ==
  ASSUME IInv, LeftInv, LeftTyped', NEW s \in Slots, Busy(s), NEW q, q = request[s],
         NEW m \in Working, m.rule = q.rule,
         request' = [request EXCEPT ![s] = IF m.todo = <<>> THEN Idle ELSE m],
         UNCHANGED <<trigger, jobs, interrupted>>,
         rule' \in [Rules -> RuleType],
         \A x \in Rules : x # q.rule => rule'[x] = rule[x] /\ subscription'[x] = subscription[x],
         rule'[q.rule].state # "stored" => rule'[q.rule].if = {} /\ rule'[q.rule].then = {},
         Halfway(m), Underway(m)', Minding(q) \subseteq Minding(m),
         \A a \in Actions : action[a].state # "unused" /\ a \notin q.then \cup q.loaded.then =>
            action'[a] = action[a],
         \A a \in Actions : action[a].state # "unused" => action'[a].state # "unused",
         \A a \in m.then \cup m.loaded.then \cup rule'[q.rule].then :
            \/ a \in rule[q.rule].then \cup q.then \cup q.loaded.then
            \/ action[a].state = "unused" /\ action'[a].state # "unused",
         \A a \in StoredActions' : a \in m.then \/ (a \in StoredActions /\ a \notin q.then)
  PROVE  LeftInv'
<1>1. PICK r \in Rules : r = q.rule
  BY Stands
<1>2. /\ q \in Working /\ On(r) = {s}
      /\ \A a : OwnsAction(r, a) <=> a \in rule[r].then \cup q.then \cup q.loaded.then
      /\ \A t : Minds(r, t) <=> t \in Minding(q)
      /\ \A a : MindsAction(r, a) <=> a \in q.then
  BY <1>1, Stands
<1>3. job' # <<>> /\ job'[1].undisturbed => job' = job /\ job[1].rule # r
  BY <1>2 DEF LeftInv, JobSound, jobs
<1>4. rule[r].then \cup q.then \cup q.loaded.then \subseteq Actions
  BY <1>2 DEF Working, IInv, Typed, RuleType
<1>5. \A a \in rule[r].then \cup q.then \cup q.loaded.then : action[a].state # "unused"
  BY <1>2, <1>4 DEF LeftInv, ActionsKnown
<1>6. \A a \in m.then \cup m.loaded.then \cup rule'[r].then :
          action'[a].state # "unused" /\ (action[a].state # "unused" => OwnsAction(r, a))
  BY <1>1, <1>2, <1>4, <1>5
<1>7. \A t \in Exists(Triggers)' : t \in Minding(m) \/ (t \in Exists(Triggers) /\ ~Minds(r, t))
  <2>1. Exists(Triggers)' = Exists(Triggers)
    BY DEF Exists
  <2> QED
    BY <2>1, <1>2
<1>8. \A a \in StoredActions' : a \in m.then \/ (a \in StoredActions /\ ~MindsAction(r, a))
  BY <1>2
<1>9. \A a \in Actions : action[a].state # "unused" /\ ~OwnsAction(r, a) => action'[a] = action[a]
  BY <1>2
<1>10. /\ On(r) \subseteq {s} /\ (Busy(s) => request[s].rule = r) /\ m.rule = r /\ interrupted' = interrupted
       /\ \A x \in Rules : x # r => rule'[x] = rule[x] /\ subscription'[x] = subscription[x]
       /\ rule'[r].state # "stored" => rule'[r].if = {} /\ rule'[r].then = {}
  BY <1>1, <1>2
<1> QED
  BY <1>3, <1>6, <1>7, <1>8, <1>9, <1>10, Locally

LEMMA ClearActionLeft ==
  ASSUME IInv, LeftInv, NEW s \in Slots, ClearAction(s)
  PROVE  LeftInv'
<1>1. /\ Busy(s) /\ Stage(s) = "clear" /\ Advanced(s, [request[s] EXCEPT !.then = {}])
      /\ UNCHANGED <<rule, trigger, subscription, jobs, interrupted>>
      /\ action' = [a \in Actions |-> IF a \in request[s].loaded.then
                                      THEN [action[a] EXCEPT !.state = "deleted"] ELSE action[a]]
  BY DEF ClearAction
<1>2. PICK q : q = request[s]
  OBVIOUS
<1>3. /\ q \in Working /\ q.rule \in Rules /\ Halfway(q) /\ Underway(q) /\ "clear" \in Left(q.todo)
      /\ \A x \in Left(q.todo) : x # "clear" => Place("clear") < Place(x)
  BY <1>1, <1>2, Stands
<1>4. PICK p : p = [q EXCEPT !.then = {}]
  OBVIOUS
<1>5. /\ p \in Working /\ p.todo = q.todo /\ p.rule = q.rule /\ p.loaded = q.loaded /\ p.if = q.if /\ p.then = {}
      /\ p.drop = q.drop /\ p.users = q.users /\ Advanced(s, p)
  BY <1>1, <1>2, <1>3, <1>4 DEF Working
<1>6. PICK m \in Working :
            /\ m.rule = p.rule /\ m.loaded = p.loaded /\ m.if = p.if /\ m.then = p.then
            /\ m.drop = p.drop /\ m.users = p.users
            /\ request' = [request EXCEPT ![s] = IF m.todo = <<>> THEN Idle ELSE m]
            /\ Left(m.todo) = Left(p.todo) \ {Stage(s)} /\ Sorted(m.todo)
  BY <1>1, <1>2, <1>5, Goes
<1>7. Halfway(m)
  BY <1>1, <1>3, <1>5, <1>6, HalfwayOn
<1>8. /\ \A a \in Actions : a \notin q.then => action'[a] = action[a]
      /\ \A a \in Actions : action[a].state # "unused" => action'[a].state # "unused"
      /\ \A a \in q.then : action'[a].state = "deleted"
      /\ action' \in [Actions -> ActionType]
      /\ q.then \subseteq Actions
  <2>1. q.then = q.loaded.then /\ q.then \subseteq Actions
    BY <1>3 DEF Halfway, Working
  <2> QED
    BY <2>1, <1>1, <1>2 DEF LeftInv, LeftTyped, ActionType
<1>9. Underway(m)'
  <2>1. /\ Left(m.todo) \cap Writers # {} /\ "unsubscribe" \in Left(m.todo)
        /\ "update" \in Left(m.todo) => rule'[m.rule].state = "stored"
    <3>1. Left(m.todo) = Left(q.todo) \ {"clear"}
      BY <1>1, <1>5, <1>6
    <3> QED
      BY <3>1, <1>1, <1>3, <1>5, <1>6 DEF Halfway, Planned, Underway, Writers
  <2>2. m.then = {} /\ Targets({})' = {}
    BY <1>5, <1>6 DEF Targets
  <2>3. "action" \notin Left(m.todo) => m.users = {}
    <3>1. "action" \notin Left(m.todo) => "subscribe" \notin Left(m.todo)
      BY <1>1, <1>3, <1>5, <1>6 DEF Halfway, Planned
    <3> QED
      BY <3>1, <1>7 DEF Halfway
  <2>4. Users \cap Left(m.todo) = {}
    BY <2>1, <1>7 DEF Halfway
  <2> QED
    BY <2>1, <2>2, <2>3, <2>4 DEF Underway, Targets
<1>10. LeftTyped'
  BY <1>1, <1>8 DEF LeftInv, LeftTyped, jobs
<1>11. Minding(q) \subseteq Minding(m)
  BY <1>1, <1>5, <1>6 DEF Minding
<1>12. /\ rule' \in [Rules -> RuleType]
       /\ rule'[q.rule].state # "stored" => rule'[q.rule].if = {} /\ rule'[q.rule].then = {}
       /\ \A x \in Rules : x # q.rule => rule'[x] = rule[x] /\ subscription'[x] = subscription[x]
  BY <1>1, <1>3 DEF IInv, Typed, LeftInv, Emptied
<1>13. \A a \in StoredActions' : a \in StoredActions /\ a \notin q.then
  BY <1>8 DEF StoredActions
<1>14. \A a \in m.then \cup m.loaded.then \cup rule'[q.rule].then :
          a \in rule[q.rule].then \cup q.then \cup q.loaded.then
  BY <1>1, <1>5, <1>6
<1>15. m.rule = q.rule /\ UNCHANGED <<trigger, jobs, interrupted>>
  BY <1>1, <1>5, <1>6
<1>16. /\ \A a \in Actions : action[a].state # "unused" /\ a \notin q.then \cup q.loaded.then => action'[a] = action[a]
       /\ \A a \in Actions : action[a].state # "unused" => action'[a].state # "unused"
  BY <1>8
<1> QED
  BY <1>1, <1>2, <1>6, <1>7, <1>9, <1>10, <1>11, <1>12, <1>13, <1>14, <1>15, <1>16, OtherStep

LEMMA CreateActionLeft ==
  ASSUME IInv, LeftInv, NEW s \in Slots, CreateAction(s)
  PROVE  LeftInv'
<1>1. Busy(s) /\ Stage(s) = "action" /\ UNCHANGED <<rule, trigger, subscription, jobs, interrupted>>
  BY DEF CreateAction
<1>2. CASE request[s].users = {} /\ Advanced(s, request[s]) /\ UNCHANGED action
  BY <1>1, <1>2, NothingDone
<1>3. CASE \E a \in Actions :
                /\ action[a].state = "unused"
                /\ action' = [action EXCEPT ![a] = [state |-> "stored", users |-> request[s].users]]
                /\ Advanced(s, [request[s] EXCEPT !.then = {a}])
  <2>1. PICK a \in Actions :
                /\ action[a].state = "unused"
                /\ action' = [action EXCEPT ![a] = [state |-> "stored", users |-> request[s].users]]
                /\ Advanced(s, [request[s] EXCEPT !.then = {a}])
    BY <1>3
  <2>2. PICK q : q = request[s]
    OBVIOUS
  <2>3. /\ q \in Working /\ q.rule \in Rules /\ Halfway(q) /\ Underway(q) /\ "action" \in Left(q.todo)
        /\ \A x \in Left(q.todo) : x # "action" => Place("action") < Place(x)
    BY <1>1, <2>2, Stands
  <2>4. PICK p : p = [q EXCEPT !.then = {a}]
    OBVIOUS
  <2>5. /\ p \in Working /\ p.todo = q.todo /\ p.rule = q.rule /\ p.loaded = q.loaded /\ p.if = q.if /\ p.then = {a}
        /\ p.drop = q.drop /\ p.users = q.users /\ Advanced(s, p)
    BY <2>1, <2>2, <2>3, <2>4 DEF Working
  <2>6. PICK m \in Working :
            /\ m.rule = p.rule /\ m.loaded = p.loaded /\ m.if = p.if /\ m.then = p.then
            /\ m.drop = p.drop /\ m.users = p.users
            /\ request' = [request EXCEPT ![s] = IF m.todo = <<>> THEN Idle ELSE m]
            /\ Left(m.todo) = Left(p.todo) \ {Stage(s)} /\ Sorted(m.todo)
    BY <1>1, <2>2, <2>5, Goes
  <2>7. Halfway(m)
    BY <1>1, <2>3, <2>5, <2>6, HalfwayOn
  <2>8. /\ action' \in [Actions -> ActionType] /\ action'[a] = [state |-> "stored", users |-> q.users]
        /\ \A x \in Actions : x # a => action'[x] = action[x]
    BY <2>1, <2>2, <2>3 DEF LeftInv, LeftTyped, ActionType, Working
  <2>9. q.then = {}
    BY <2>3, Places DEF Halfway
  <2>10. Underway(m)'
    <3>1. /\ Left(m.todo) \cap Writers # {} /\ "unsubscribe" \in Left(m.todo)
          /\ "update" \in Left(m.todo) => rule'[m.rule].state = "stored"
      <4>1. Left(m.todo) = Left(q.todo) \ {"action"}
        BY <1>1, <2>5, <2>6
      <4> QED
        BY <4>1, <1>1, <2>3, <2>5, <2>6 DEF Halfway, Planned, Underway, Writers
    <3>2. m.then = {a} /\ m.users = q.users
      BY <2>5, <2>6
    <3>3. Targets({a})' = q.users
      <4>1. UNION {action'[x].users : x \in {a}} = action'[a].users
        OBVIOUS
      <4> QED
        BY <4>1, <2>8 DEF Targets
    <3>4. Users \cap Left(m.todo) = {}
      BY <3>1, <2>7 DEF Halfway
    <3>5. m.then \subseteq StoredActions'
      BY <3>2, <2>8 DEF StoredActions
    <3>6. Targets(m.then)' = m.users
      BY <3>2, <3>3
    <3> QED
      BY <3>1, <3>4, <3>5, <3>6 DEF Underway
  <2>11. LeftTyped'
    BY <1>1, <2>8 DEF LeftInv, LeftTyped, jobs
  <2>12. Minding(q) \subseteq Minding(m)
    BY <1>1, <2>5, <2>6 DEF Minding
  <2>13. /\ rule' \in [Rules -> RuleType]
         /\ rule'[q.rule].state # "stored" => rule'[q.rule].if = {} /\ rule'[q.rule].then = {}
         /\ \A x \in Rules : x # q.rule => rule'[x] = rule[x] /\ subscription'[x] = subscription[x]
    BY <1>1, <2>3 DEF IInv, Typed, LeftInv, Emptied
  <2>14. \A x \in StoredActions' : x \in m.then \/ (x \in StoredActions /\ x \notin q.then)
    BY <2>5, <2>6, <2>8, <2>9 DEF StoredActions
  <2>15. \A x \in m.then \cup m.loaded.then \cup rule'[q.rule].then :
            \/ x \in rule[q.rule].then \cup q.then \cup q.loaded.then
            \/ action[x].state = "unused" /\ action'[x].state # "unused"
    BY <1>1, <2>1, <2>5, <2>6, <2>8
  <2>16. /\ \A x \in Actions : action[x].state # "unused" => action'[x] = action[x]
         /\ \A x \in Actions : action[x].state # "unused" => action'[x].state # "unused"
    BY <2>1, <2>8
  <2> QED
    BY ZenonT(60), <1>1, <2>2, <2>5, <2>6, <2>7, <2>10, <2>11, <2>12, <2>13, <2>14, <2>15, <2>16, OtherStep
<1> QED
  BY <1>2, <1>3 DEF CreateAction

\* The step of a request that touches its rule or its subscriptions alone.
LEMMA NoteStep ==
  ASSUME IInv, LeftInv, LeftTyped', NEW s \in Slots, Busy(s), NEW q, q = request[s],
         NEW m \in Working, m.rule = q.rule, m.if = q.if, m.then = q.then, m.loaded = q.loaded, m.drop = q.drop,
         request' = [request EXCEPT ![s] = IF m.todo = <<>> THEN Idle ELSE m],
         UNCHANGED <<trigger, action, jobs, interrupted>>,
         rule' \in [Rules -> RuleType],
         \A x \in Rules : x # q.rule => rule'[x] = rule[x] /\ subscription'[x] = subscription[x],
         rule'[q.rule].state # "stored" => rule'[q.rule].if = {} /\ rule'[q.rule].then = {},
         rule'[q.rule].then \subseteq rule[q.rule].then \cup q.then,
         Halfway(m), Underway(m)', "drop" \in Left(q.todo) => "drop" \in Left(m.todo)
  PROVE  LeftInv'
<1>1. Minding(q) \subseteq Minding(m)
  BY DEF Minding
<1>2. \A a \in StoredActions' : a \in m.then \/ (a \in StoredActions /\ a \notin q.then)
  BY DEF StoredActions
<1>3. \A a \in m.then \cup m.loaded.then \cup rule'[q.rule].then :
          a \in rule[q.rule].then \cup q.then \cup q.loaded.then
  OBVIOUS
<1>4. /\ \A a \in Actions : action[a].state # "unused" /\ a \notin q.then \cup q.loaded.then => action'[a] = action[a]
      /\ \A a \in Actions : action[a].state # "unused" => action'[a].state # "unused"
      /\ UNCHANGED <<trigger, jobs, interrupted>>
  OBVIOUS
<1> QED
  BY <1>1, <1>2, <1>3, <1>4, OtherStep

LEMMA UnsubscribeLeft ==
  ASSUME IInv, LeftInv, NEW s \in Slots, Unsubscribe(s)
  PROVE  LeftInv'
<1>1. /\ Busy(s) /\ Stage(s) = "unsubscribe" /\ Advanced(s, request[s])
      /\ UNCHANGED <<rule, trigger, action, jobs, interrupted>>
      /\ subscription' = Unsubscribed(request[s].rule, request[s].users)
  BY DEF Unsubscribe
<1>2. PICK q : q = request[s]
  OBVIOUS
<1>3. /\ q \in Working /\ q.rule \in Rules /\ Halfway(q) /\ Underway(q) /\ "unsubscribe" \in Left(q.todo)
      /\ \A x \in Left(q.todo) : x # "unsubscribe" => Place("unsubscribe") < Place(x)
  BY <1>1, <1>2, Stands
<1>4. PICK m \in Working :
            /\ m.rule = q.rule /\ m.loaded = q.loaded /\ m.if = q.if /\ m.then = q.then
            /\ m.drop = q.drop /\ m.users = q.users
            /\ request' = [request EXCEPT ![s] = IF m.todo = <<>> THEN Idle ELSE m]
            /\ Left(m.todo) = Left(q.todo) \ {"unsubscribe"} /\ Sorted(m.todo)
  BY <1>1, <1>2, <1>3, Goes
<1>5. Halfway(m)
  BY <1>3, <1>4, HalfwayOn
<1>6. /\ subscription' \in [Rules -> [Users -> {0, 1}]]
      /\ \A u \in Users : subscription'[q.rule][u] = IF u \in q.users THEN subscription[q.rule][u] ELSE 0
      /\ \A x \in Rules : x # q.rule => subscription'[x] = subscription[x]
  BY <1>1, <1>2, <1>3 DEF Unsubscribed, LeftInv, LeftTyped
<1>7. Users \cap Left(m.todo) = {}
  BY <1>3, <1>4 DEF Halfway
<1>8. Targets(q.then) = q.users
  <2>1. Left(q.todo) \cap {"clear", "action"} = {}
    BY <1>3, Places
  <2> QED
    BY <2>1, <1>3 DEF Underway
<1>9. Targets(m.then)' = q.users /\ StoredActions' = StoredActions
  BY <1>1, <1>4, <1>8 DEF Targets, StoredActions
<1>10. Waiting(m) = q.users
  BY <1>4, <1>7 DEF Waiting
<1>11. Underway(m)'
  <2>1. /\ "update" \in Left(m.todo) => rule'[m.rule].state = "stored"
        /\ Left(m.todo) \cap Writers = {} => rule'[m.rule].if = m.if /\ rule'[m.rule].then = m.then
        /\ m.then \subseteq StoredActions'
    BY <1>1, <1>3, <1>4, <1>9 DEF Underway, Writers
  <2>2. /\ \A u \in Users \cap Left(m.todo) : subscription'[m.rule][u] = 0
        /\ "unsubscribe" \notin Left(m.todo)
    BY <1>4, <1>7
  <2>3. /\ Waiting(m) \subseteq Targets(m.then)'
        /\ \A u \in Users \ Waiting(m) :
                subscription'[m.rule][u] = IF u \in Targets(m.then)' THEN 1 ELSE 0
    BY <1>4, <1>6, <1>9, <1>10
  <2> QED
    BY <2>1, <2>2, <2>3 DEF Underway, Waiting
<1>12. LeftTyped'
  BY <1>1, <1>6 DEF LeftInv, LeftTyped, jobs
<1>13. /\ rule' \in [Rules -> RuleType]
       /\ rule'[q.rule].state # "stored" => rule'[q.rule].if = {} /\ rule'[q.rule].then = {}
       /\ \A x \in Rules : x # q.rule => rule'[x] = rule[x] /\ subscription'[x] = subscription[x]
       /\ rule'[q.rule].then \subseteq rule[q.rule].then \cup q.then
  BY <1>1, <1>3, <1>6 DEF IInv, Typed, LeftInv, Emptied
<1>14. "drop" \in Left(q.todo) => "drop" \in Left(m.todo)
  BY <1>4
<1>15. Busy(s) /\ UNCHANGED <<trigger, action, jobs, interrupted>>
  BY <1>1
<1> QED
  BY ZenonT(60), <1>2, <1>4, <1>5, <1>11, <1>12, <1>13, <1>14, <1>15, NoteStep

LEMMA SubscribeLeft ==
  ASSUME IInv, LeftInv, NEW s \in Slots, Subscribe(s)
  PROVE  LeftInv'
<1>1. /\ Busy(s) /\ Stage(s) \in Users /\ Advanced(s, request[s])
      /\ UNCHANGED <<rule, trigger, action, jobs, interrupted>>
      /\ subscription' = [subscription EXCEPT ![request[s].rule][Stage(s)] = @ + 1]
  BY DEF Subscribe
<1>2. PICK q : q = request[s]
  OBVIOUS
<1>3. PICK u \in Users : u = Stage(s)
  BY <1>1
<1>4. /\ q \in Working /\ q.rule \in Rules /\ Halfway(q) /\ Underway(q) /\ u \in Left(q.todo)
      /\ \A x \in Left(q.todo) : x # u => Place(u) < Place(x)
  BY <1>1, <1>2, <1>3, Stands
<1>5. PICK m \in Working :
            /\ m.rule = q.rule /\ m.loaded = q.loaded /\ m.if = q.if /\ m.then = q.then
            /\ m.drop = q.drop /\ m.users = q.users
            /\ request' = [request EXCEPT ![s] = IF m.todo = <<>> THEN Idle ELSE m]
            /\ Left(m.todo) = Left(q.todo) \ {u} /\ Sorted(m.todo)
  BY <1>1, <1>2, <1>3, <1>4, Goes
<1>6. u \notin StageNames
  BY RulesAssumption
<1>7. Halfway(m)
  BY <1>4, <1>5, <1>6, HalfwayOn DEF StageNames
<1>8. subscription[q.rule][u] = 0 /\ u \notin q.users /\ "unsubscribe" \notin Left(q.todo)
  BY <1>4 DEF Underway, Halfway
<1>9. /\ subscription' \in [Rules -> [Users -> {0, 1}]]
      /\ subscription'[q.rule][u] = 1
      /\ \A x \in Users : x # u => subscription'[q.rule][x] = subscription[q.rule][x]
      /\ \A x \in Rules : x # q.rule => subscription'[x] = subscription[x]
  <2>1. subscription \in [Rules -> [Users -> {0, 1}]]
    BY DEF LeftInv, LeftTyped
  <2>2. PICK all \in [Rules -> [Users -> {0, 1}]] : all = subscription
    BY <2>1
  <2>3. PICK r \in Rules : r = q.rule
    BY <1>4
  <2>4. subscription' = [all EXCEPT ![r][u] = @ + 1] /\ all[r][u] = 0
    BY <1>1, <1>2, <1>3, <1>8, <2>2, <2>3
  <2>5. subscription' = [all EXCEPT ![r] = [all[r] EXCEPT ![u] = 1]]
    BY <2>4
  <2>6. [all[r] EXCEPT ![u] = 1] \in [Users -> {0, 1}]
    OBVIOUS
  <2> QED
    BY <2>2, <2>3, <2>5, <2>6
<1>10. Users \cap Left(m.todo) = {}
  <2> SUFFICES ASSUME NEW x \in Users, x \in Left(q.todo), x # u PROVE FALSE
    BY <1>5
  <2> QED
    BY <1>4, Places
<1>11. Waiting(q) = q.users \cup {u} /\ Waiting(m) = q.users
  BY <1>4, <1>5, <1>10 DEF Waiting
<1>12. Targets(m.then)' = Targets(q.then) /\ StoredActions' = StoredActions
  BY <1>1, <1>5 DEF Targets, StoredActions
<1>13. Underway(m)'
  <2>1. Left(m.todo) \cap Writers = Left(q.todo) \cap Writers
    BY <1>5, <1>6 DEF StageNames, Writers
  <2>2. /\ "update" \in Left(m.todo) => rule'[m.rule].state = "stored"
        /\ Left(m.todo) \cap Writers = {} => rule'[m.rule].if = m.if /\ rule'[m.rule].then = m.then
        /\ m.then \subseteq StoredActions'
    BY <1>1, <1>4, <1>5, <1>12, <2>1 DEF Underway
  <2>3. /\ \A x \in Users \cap Left(m.todo) : subscription'[m.rule][x] = 0
        /\ "unsubscribe" \notin Left(m.todo)
    BY <1>5, <1>8, <1>10
  <2>4. m.rule \notin interrupted' =>
          /\ Waiting(m) \subseteq Targets(m.then)'
          /\ \A x \in Users \ Waiting(m) :
                subscription'[m.rule][x] = IF x \in Targets(m.then)' THEN 1 ELSE 0
    <3> SUFFICES ASSUME q.rule \notin interrupted
                 PROVE  /\ q.users \subseteq Targets(q.then)
                        /\ \A x \in Users \ q.users :
                              subscription'[q.rule][x] = IF x \in Targets(q.then) THEN 1 ELSE 0
      BY <1>1, <1>5, <1>11, <1>12
    <3>1. /\ Waiting(q) \subseteq Targets(q.then)
          /\ \A x \in Users \ Waiting(q) :
                subscription[q.rule][x] = IF x \in Targets(q.then) THEN 1 ELSE 0
      BY <1>4, <1>8 DEF Underway
    <3> QED
      BY <3>1, <1>9, <1>11
  <2> QED
    BY <2>2, <2>3, <2>4 DEF Underway, Waiting
<1>14. LeftTyped'
  BY <1>1, <1>9 DEF LeftInv, LeftTyped, jobs
<1>15. /\ rule' \in [Rules -> RuleType]
       /\ rule'[q.rule].state # "stored" => rule'[q.rule].if = {} /\ rule'[q.rule].then = {}
       /\ \A x \in Rules : x # q.rule => rule'[x] = rule[x] /\ subscription'[x] = subscription[x]
       /\ rule'[q.rule].then \subseteq rule[q.rule].then \cup q.then
  BY <1>1, <1>4, <1>9 DEF IInv, Typed, LeftInv, Emptied
<1>16. "drop" \in Left(q.todo) => "drop" \in Left(m.todo)
  BY <1>5, <1>6 DEF StageNames
<1>17. Busy(s) /\ UNCHANGED <<trigger, action, jobs, interrupted>>
  BY <1>1
<1> QED
  BY ZenonT(60), <1>2, <1>5, <1>7, <1>13, <1>14, <1>15, <1>16, <1>17, NoteStep

LEMMA LookupLeft ==
  ASSUME IInv, LeftInv, NEW s \in Slots, Lookup(s)
  PROVE  LeftInv'
<1>1. /\ Busy(s) /\ Stage(s) = "subscribe"
      /\ UNCHANGED <<rule, trigger, action, subscription, jobs, interrupted>>
  BY DEF Lookup, database
<1>2. CASE request[s].users = {} /\ Advanced(s, request[s])
  BY <1>1, <1>2, NothingDone
<1>3. CASE \E u \in request[s].users :
             request' = [request EXCEPT ![s].users = @ \ {u},
                ![s].todo = IF subscription[request[s].rule][u] = 0 THEN <<u>> \o @ ELSE @]
  <2>1. PICK u \in request[s].users :
             request' = [request EXCEPT ![s].users = @ \ {u},
                ![s].todo = IF subscription[request[s].rule][u] = 0 THEN <<u>> \o @ ELSE @]
    BY <1>3
  <2>2. PICK q : q = request[s]
    OBVIOUS
  <2>3. /\ q \in Working /\ q.rule \in Rules /\ Halfway(q) /\ Underway(q) /\ "subscribe" \in Left(q.todo)
        /\ \A x \in Left(q.todo) : x # "subscribe" => Place("subscribe") < Place(x)
        /\ q.todo \in Seq(StageNames \cup Users) /\ q.todo # <<>> /\ Head(q.todo) = "subscribe"
    BY <1>1, <2>2, Stands
  <2>4. u \in Users /\ u \in q.users /\ u \notin StageNames
    BY <2>1, <2>2, <2>3, RulesAssumption DEF Working
  <2>5. PICK new : new = IF subscription[q.rule][u] = 0 THEN <<u>> \o q.todo ELSE q.todo
    OBVIOUS
  <2>6. /\ new \in Seq(StageNames \cup Users) /\ new # <<>> /\ Sorted(new)
        /\ Left(new) = Left(q.todo) \cup (IF subscription[q.rule][u] = 0 THEN {u} ELSE {})
    <3>1. CASE subscription[q.rule][u] = 0
      <4>1. Left(<<u>> \o q.todo) = {u} \cup Left(q.todo) /\ Sorted(<<u>> \o q.todo)
        BY <2>3, <2>4, LeftUser DEF Halfway
      <4>2. <<u>> \o q.todo \in Seq(StageNames \cup Users) /\ <<u>> \o q.todo # <<>>
        <5>1. <<u>> \o q.todo \in Seq(StageNames \cup Users) /\ Len(<<u>> \o q.todo) = Len(q.todo) + 1
              /\ Len(q.todo) \in Nat
          BY <2>3, <2>4, Tails
        <5>2. Len(<<u>> \o q.todo) # 0
          BY <5>1
        <5> QED
          BY <5>1, <5>2, EmptySeq
      <4> QED
        BY <3>1, <2>5, <4>1, <4>2
    <3>2. CASE subscription[q.rule][u] # 0
      BY <3>2, <2>3, <2>5 DEF Halfway
    <3> QED
      BY <3>1, <3>2
  <2>7. PICK m : m = [q EXCEPT !.users = @ \ {u}, !.todo = new]
    OBVIOUS
  <2>8. /\ m \in Working /\ m.todo = new /\ m.rule = q.rule /\ m.loaded = q.loaded /\ m.if = q.if
        /\ m.then = q.then /\ m.drop = q.drop /\ m.users = q.users \ {u}
    BY <2>3, <2>6, <2>7 DEF Working
  <2>9. request' = [request EXCEPT ![s] = IF m.todo = <<>> THEN Idle ELSE m]
    BY <2>1, <2>2, <2>5, <2>6, <2>7, <2>8 DEF IInv, Typed
  <2>10. /\ \A x \in Users : x # u => x \notin Left(q.todo)
         /\ "unsubscribe" \notin Left(q.todo) /\ u \notin Left(q.todo)
    BY SMTT(30), <2>3, <2>4, Places DEF Halfway
  <2>11. \A x \in StageNames : x \in Left(m.todo) <=> x \in Left(q.todo)
    BY <2>4, <2>6, <2>8
  <2>12. "remove" \notin Left(q.todo)
    BY <2>3 DEF Halfway, Planned
  <2>13. Halfway(m)
    <3>1. /\ Left(m.todo) \cap Writers = Left(q.todo) \cap Writers
          /\ Left(m.todo) \cap {"forget", "drop", "triggers", "clear", "action"}
                = Left(q.todo) \cap {"forget", "drop", "triggers", "clear", "action"}
          /\ Left(m.todo) \cap {"clear", "action"} = Left(q.todo) \cap {"clear", "action"}
          /\ "unsubscribe" \notin Left(m.todo) /\ "remove" \notin Left(m.todo) /\ "subscribe" \in Left(m.todo)
      BY <2>3, <2>10, <2>11, <2>12 DEF StageNames, Writers
    <3>2. Planned(Left(m.todo))
      BY <3>1, <2>3, <2>11 DEF Halfway, Planned, StageNames
    <3>3. "clear" \notin Left(m.todo) /\ "action" \notin Left(m.todo)
      BY SMTT(30), <2>3, <2>11, Places DEF StageNames
    <3>4. \A x \in Users \cap Left(m.todo) : x \notin m.users
      BY <2>6, <2>8, <2>10
    <3> QED
      BY <3>1, <3>2, <3>3, <3>4, <2>6, <2>8 DEF Halfway
  <2>14. Waiting(q) = q.users
    BY <2>4, <2>10 DEF Waiting
  <2>15. Waiting(m) = IF subscription[q.rule][u] = 0 THEN q.users ELSE q.users \ {u}
    <3>1. Users \cap Left(m.todo) = IF subscription[q.rule][u] = 0 THEN {u} ELSE {}
      BY <2>4, <2>6, <2>8, <2>10
    <3> QED
      BY <3>1, <2>4, <2>8 DEF Waiting
  <2>16. Underway(m)
    <3>1. /\ Left(m.todo) \cap Writers = Left(q.todo) \cap Writers
          /\ "unsubscribe" \notin Left(m.todo)
          /\ "update" \in Left(m.todo) <=> "update" \in Left(q.todo)
      BY <2>10, <2>11 DEF StageNames, Writers
    <3>2. /\ "update" \in Left(m.todo) => rule[m.rule].state = "stored"
          /\ Left(m.todo) \cap Writers = {} => rule[m.rule].if = m.if /\ rule[m.rule].then = m.then
          /\ m.then \subseteq StoredActions
      BY <3>1, <2>3, <2>8 DEF Underway
    <3>3. \A x \in Users \cap Left(m.todo) : subscription[m.rule][x] = 0
      BY <2>6, <2>8, <2>10
    <3>4. m.rule \notin interrupted =>
          /\ Waiting(m) \subseteq Targets(m.then)
          /\ \A x \in Users \ Waiting(m) :
                subscription[m.rule][x] = IF x \in Targets(m.then) THEN 1 ELSE 0
      <4> SUFFICES ASSUME q.rule \notin interrupted
                   PROVE  /\ Waiting(m) \subseteq Targets(q.then)
                          /\ \A x \in Users \ Waiting(m) :
                                subscription[q.rule][x] = IF x \in Targets(q.then) THEN 1 ELSE 0
        BY <2>8
      <4>1. /\ q.users \subseteq Targets(q.then)
            /\ \A x \in Users \ q.users :
                  subscription[q.rule][x] = IF x \in Targets(q.then) THEN 1 ELSE 0
        BY <2>3, <2>10, <2>14 DEF Underway
      <4>2. subscription[q.rule][u] # 0 => subscription[q.rule][u] = 1 /\ u \in Targets(q.then)
        BY <4>1, <2>3, <2>4 DEF LeftInv, LeftTyped
      <4> QED
        BY <4>1, <4>2, <2>15
    <3> QED
      BY <3>1, <3>2, <3>3, <3>4 DEF Underway
  <2>17. Exists(Triggers)' = Exists(Triggers) /\ Minding(q) \subseteq Minding(m)
    BY <1>1, <2>8, <2>11 DEF Exists, Minding, StageNames
  <2> QED
    BY <1>1, <2>2, <2>8, <2>9, <2>13, <2>16, <2>17, TriggerStep
<1> QED
  BY <1>2, <1>3 DEF Lookup

\* A rule is written.
LEMMA WriteLeft ==
  ASSUME IInv, LeftInv, NEW s \in Slots, Busy(s), Stage(s) \in Writers, Advanced(s, request[s]),
         UNCHANGED <<trigger, action, subscription, jobs, interrupted>>,
         rule' \in [Rules -> RuleType],
         \A x \in Rules : x # request[s].rule => rule'[x] = rule[x],
         rule'[request[s].rule].if = request[s].if, rule'[request[s].rule].then = request[s].then,
         \/ rule'[request[s].rule].state = "stored"
         \/ request[s].if = {} /\ request[s].then = {}
  PROVE  LeftInv'
<1>1. PICK q : q = request[s]
  OBVIOUS
<1>2. PICK h : h = Stage(s)
  OBVIOUS
<1>3. /\ q \in Working /\ q.rule \in Rules /\ Halfway(q) /\ Underway(q) /\ h \in Left(q.todo)
      /\ \A x \in Left(q.todo) : x # h => Place(h) < Place(x)
  BY <1>1, <1>2, Stands
<1>4. PICK m \in Working :
            /\ m.rule = q.rule /\ m.loaded = q.loaded /\ m.if = q.if /\ m.then = q.then
            /\ m.drop = q.drop /\ m.users = q.users
            /\ request' = [request EXCEPT ![s] = IF m.todo = <<>> THEN Idle ELSE m]
            /\ Left(m.todo) = Left(q.todo) \ {h} /\ Sorted(m.todo)
  BY <1>1, <1>2, <1>3, Goes
<1>5. h \in {"rule", "update", "remove"} /\ h \notin Users
  BY <1>2, RulesAssumption DEF Writers, StageNames
<1>6. Halfway(m)
  <2>1. h \notin {"forget", "clear", "action", "subscribe"}
    BY <1>5
  <2> QED
    BY <1>3, <1>4, <2>1, HalfwayOn
<1>7. Left(m.todo) \cap Writers = {} /\ Left(q.todo) \cap {"clear", "action", "drop"} = {}
  <2>1. Left(m.todo) \cap Writers = {}
    BY <1>2, <1>3, <1>4 DEF Halfway, Planned
  <2>2. Place(h) \in {6, 10, 11}
    BY <1>5, Places
  <2>3. \A x \in {"clear", "action", "drop"} : Place(x) <= 5 /\ x # h
    BY <1>5, Places
  <2>4. \A x \in {"clear", "action", "drop"} : x \notin Left(q.todo)
    <3> TAKE x \in {"clear", "action", "drop"}
    <3>1. x \in Left(q.todo) => Place(h) < Place(x)
      BY <1>3, <2>3
    <3>2. Place(x) <= 5 /\ Place(x) \in Nat
      BY <2>3, Places
    <3> QED
      BY <3>1, <3>2, <2>2
  <2> QED
    BY <2>1, <2>4
<1>8. /\ "unsubscribe" \in Left(m.todo) <=> "unsubscribe" \in Left(q.todo)
      /\ Users \cap Left(m.todo) = Users \cap Left(q.todo)
      /\ "update" \notin Left(m.todo)
  BY <1>4, <1>5, <1>7 DEF Writers
<1>9. Waiting(m) = Waiting(q)
  BY <1>4, <1>8 DEF Waiting
<1>10. \A as : Targets(as)' = Targets(as)
  BY DEF Targets
<1>11. Underway(m)'
  <2>1. /\ "update" \in Left(m.todo) => rule'[m.rule].state = "stored"
        /\ Left(m.todo) \cap Writers = {} => rule'[m.rule].if = m.if /\ rule'[m.rule].then = m.then
        /\ m.then \subseteq StoredActions'
        /\ \A x \in Users \cap Left(m.todo) : subscription'[m.rule][x] = 0
    BY <1>1, <1>3, <1>4, <1>8 DEF Underway, StoredActions
  <2>2. "unsubscribe" \in Left(m.todo) /\ Left(m.todo) \cap {"clear", "action"} = {} =>
          Targets(m.then)' = m.users
    BY <1>3, <1>4, <1>7, <1>8, <1>10 DEF Underway
  <2>3. "unsubscribe" \notin Left(m.todo) /\ m.rule \notin interrupted' =>
          /\ Waiting(m) \subseteq Targets(m.then)'
          /\ \A u \in Users \ Waiting(m) :
                subscription'[m.rule][u] = IF u \in Targets(m.then)' THEN 1 ELSE 0
    BY <1>3, <1>4, <1>8, <1>9, <1>10 DEF Underway
  <2> QED
    BY <2>1, <2>2, <2>3 DEF Underway, Waiting
<1>12. LeftTyped'
  BY DEF LeftInv, LeftTyped, jobs
<1>13. /\ rule' \in [Rules -> RuleType]
       /\ rule'[q.rule].state # "stored" => rule'[q.rule].if = {} /\ rule'[q.rule].then = {}
       /\ \A x \in Rules : x # q.rule => rule'[x] = rule[x] /\ subscription'[x] = subscription[x]
       /\ rule'[q.rule].then \subseteq rule[q.rule].then \cup q.then
  BY <1>1
<1>14. "drop" \in Left(q.todo) => "drop" \in Left(m.todo)
  BY <1>7
<1>15. UNCHANGED <<trigger, action, jobs, interrupted>>
  OBVIOUS
<1> QED
  BY ZenonT(60), <1>1, <1>4, <1>6, <1>11, <1>12, <1>13, <1>14, <1>15, NoteStep

LEMMA StoreRuleLeft ==
  ASSUME IInv, LeftInv, NEW s \in Slots, StoreRule(s)
  PROVE  LeftInv'
<1>1. /\ Busy(s) /\ Stage(s) \in Writers /\ Advanced(s, request[s])
      /\ UNCHANGED <<trigger, action, subscription, jobs, interrupted>>
      /\ rule' = [rule EXCEPT ![request[s].rule] = Written(s)]
  BY DEF StoreRule, Writers
<1>2. rule \in [Rules -> RuleType] /\ request[s].rule \in Rules /\ request[s] \in Working
  BY <1>1, Working1 DEF IInv, Typed
<1>3. Written(s) \in RuleType
  BY <1>1, WrittenIs
<1>4. /\ rule' \in [Rules -> RuleType] /\ rule'[request[s].rule] = Written(s)
      /\ \A r \in Rules : r # request[s].rule => rule'[r] = rule[r]
  BY <1>1, <1>2, <1>3
<1>5. Written(s).state = "stored" /\ Written(s).if = request[s].if /\ Written(s).then = request[s].then
  BY DEF Written
<1> QED
  BY <1>1, <1>4, <1>5, WriteLeft

LEMMA UpdateRuleLeft ==
  ASSUME IInv, LeftInv, NEW s \in Slots, UpdateRule(s)
  PROVE  LeftInv'
<1>1. /\ Busy(s) /\ Stage(s) = "update" /\ Advanced(s, request[s])
      /\ UNCHANGED <<trigger, action, subscription, jobs, interrupted>>
  BY DEF UpdateRule
<1>2. rule[request[s].rule].state = "stored"
  <2>1. PICK q : q = request[s]
    OBVIOUS
  <2>2. Underway(q) /\ "update" \in Left(q.todo)
    BY <1>1, <2>1, Stands
  <2> QED
    BY <2>1, <2>2 DEF Underway
<1>3. rule' = [rule EXCEPT ![request[s].rule] = Written(s)] /\ Stage(s) \in Writers
  BY <1>1, <1>2 DEF UpdateRule, Writers
<1>4. rule \in [Rules -> RuleType] /\ request[s].rule \in Rules
  BY <1>1, Working1 DEF IInv, Typed
<1>5. Written(s) \in RuleType
  BY <1>1, WrittenIs
<1>6. /\ rule' \in [Rules -> RuleType] /\ rule'[request[s].rule] = Written(s)
      /\ \A r \in Rules : r # request[s].rule => rule'[r] = rule[r]
  BY <1>3, <1>4, <1>5
<1>7. Written(s).state = "stored" /\ Written(s).if = request[s].if /\ Written(s).then = request[s].then
  BY DEF Written
<1> QED
  BY <1>1, <1>3, <1>6, <1>7, WriteLeft

LEMMA RemoveRuleLeft ==
  ASSUME IInv, LeftInv, NEW s \in Slots, RemoveRule(s)
  PROVE  LeftInv'
<1>1. /\ Busy(s) /\ Stage(s) = "remove" /\ Advanced(s, request[s])
      /\ UNCHANGED <<trigger, action, subscription, jobs, interrupted>>
      /\ rule' = [rule EXCEPT ![request[s].rule] = DeletedRule]
  BY DEF RemoveRule
<1>2. request[s].if = {} /\ request[s].then = {}
  <2>1. PICK q : q = request[s]
    OBVIOUS
  <2>2. /\ Halfway(q) /\ "remove" \in Left(q.todo)
        /\ \A x \in Left(q.todo) : x # "remove" => Place("remove") < Place(x)
    BY <1>1, <2>1, Stands
  <2>3. "forget" \notin Left(q.todo) /\ "clear" \notin Left(q.todo)
    BY <2>2, Places
  <2> QED
    BY <2>1, <2>2, <2>3 DEF Halfway
<1>3. rule \in [Rules -> RuleType] /\ request[s].rule \in Rules
  BY <1>1, Working1 DEF IInv, Typed
<1>4. DeletedRule \in RuleType /\ DeletedRule.if = {} /\ DeletedRule.then = {}
  BY DEF DeletedRule, RuleType
<1>5. /\ rule' \in [Rules -> RuleType] /\ rule'[request[s].rule] = DeletedRule /\ Stage(s) \in Writers
      /\ \A r \in Rules : r # request[s].rule => rule'[r] = rule[r]
  BY <1>1, <1>3, <1>4 DEF Writers
<1> QED
  BY <1>1, <1>2, <1>4, <1>5, WriteLeft

-----------------------------------------------------------------------------
(* New requests, jobs, restarts.                                           *)

LEMMA BeginLeft ==
  ASSUME IInv, LeftInv, NEW s \in Slots, NEW r \in Rules, On(r) = {},
         NEW todo \in Seq(StageNames), todo # <<>>, Sorted(todo), Planned(Left(todo)),
         Left(todo) \cap Writers # {}, Left(todo) \cap {"clear", "action"} # {} \/ "unsubscribe" \notin Left(todo),
         "remove" \in Left(todo) => {"forget", "clear"} \subseteq Left(todo),
         "update" \in Left(todo) => rule[r].state = "stored",
         "action" \in Left(todo) /\ "clear" \notin Left(todo) => rule[r].state # "stored",
         NEW new \in SUBSET (SUBSET Devices), NEW users \in SUBSET Users,
         {"unsubscribe", "subscribe"} \subseteq Left(todo) \/ users = {},
         Begin(s, r, todo, new, users)
  PROVE  LeftInv'
<1>1. /\ ~Busy(s) /\ UNCHANGED <<rule, trigger, action, subscription, queue, interrupted>>
      /\ job' = IF job # <<>> /\ job[1].rule = r THEN <<[job[1] EXCEPT !.undisturbed = FALSE]>> ELSE job
  BY DEF Begin, database
<1>2. PICK m : m = [todo |-> todo, rule |-> r, loaded |-> Loaded(r), if |-> Loaded(r).if,
                    then |-> Loaded(r).then, drop |-> Loaded(r).if, users |-> users,
                    build |-> {[devices |-> ds, counted |-> {}] : ds \in new}]
  OBVIOUS
<1>3. /\ Loaded(r).if = rule[r].if \cap Exists(Triggers) /\ Loaded(r).then = rule[r].then \cap StoredActions
      /\ Loaded(r) \in [if : SUBSET Triggers, then : SUBSET Actions]
      /\ rule[r].if \subseteq Triggers /\ rule[r].then \subseteq Actions
  BY DEF Loaded, Exists, StoredActions, IInv, Typed, RuleType
<1>4. /\ m.todo = todo /\ m.rule = r /\ m.loaded = Loaded(r) /\ m.if = Loaded(r).if /\ m.then = Loaded(r).then
      /\ m.drop = Loaded(r).if /\ m.users = users
  BY <1>2
<1>5. m \in Working
  <2>1. todo \in Seq(StageNames \cup Users)
    OBVIOUS
  <2>2. {[devices |-> ds, counted |-> {}] : ds \in new} \subseteq BuildType
    BY DEF BuildType
  <2> QED
    BY <1>2, <1>3, <2>1, <2>2 DEF Working
<1>6. request' = [request EXCEPT ![s] = IF m.todo = <<>> THEN Idle ELSE m]
  BY <1>2, <1>4 DEF Begin
<1>7. Users \cap Left(m.todo) = {}
  BY <1>4, RulesAssumption DEF Left
<1>8. rule[r].state # "stored" => rule[r].if = {} /\ rule[r].then = {}
  BY DEF LeftInv, Emptied
<1>9. Halfway(m)
  <2>1. "action" \in Left(m.todo) /\ "clear" \notin Left(m.todo) => m.then = {}
    BY <1>3, <1>4, <1>8
  <2> QED
    BY <2>1, <1>4, <1>7 DEF Halfway
<1>10. r \notin interrupted => AtRest(r)
  BY DEF LeftInv, Rests
<1>11. Underway(m)'
  <2>1. /\ "update" \in Left(m.todo) => rule'[m.rule].state = "stored"
        /\ Left(m.todo) \cap Writers # {}
        /\ m.then \subseteq StoredActions'
        /\ "unsubscribe" \in Left(m.todo) => Left(m.todo) \cap {"clear", "action"} # {}
    BY <1>1, <1>3, <1>4 DEF StoredActions
  <2>2. "unsubscribe" \notin Left(m.todo) => Waiting(m) = {}
    BY <1>4, <1>7 DEF Waiting
  <2>3. r \notin interrupted => \A u \in Users :
            subscription'[r][u] = IF u \in Targets(m.then)' THEN 1 ELSE 0
    <3> SUFFICES ASSUME r \notin interrupted
                 PROVE  \A u \in Users : subscription'[r][u] = IF u \in Targets(m.then)' THEN 1 ELSE 0
      OBVIOUS
    <3>1. m.then = rule[r].then /\ \A u \in Users : subscription[r][u] = IF u \in Targets(rule[r].then) THEN 1 ELSE 0
      BY <1>3, <1>4, <1>10 DEF AtRest
    <3>2. Targets(m.then)' = Targets(m.then)
      BY <1>1, SameTargets
    <3> QED
      BY <3>1, <3>2, <1>1
  <2>4. "unsubscribe" \notin Left(m.todo) /\ m.rule \notin interrupted' =>
          /\ Waiting(m) \subseteq Targets(m.then)'
          /\ \A u \in Users \ Waiting(m) :
                subscription'[m.rule][u] = IF u \in Targets(m.then)' THEN 1 ELSE 0
    BY <1>1, <1>4, <2>2, <2>3
  <2> QED
    BY <2>1, <2>4, <1>7 DEF Underway, Waiting
<1>12. LeftTyped'
  <2>1. job' = <<>> \/ \E j \in JobType : job' = <<j>>
    <3>1. CASE job # <<>> /\ job[1].rule = r
      <4>1. PICK j \in JobType : job = <<j>>
        BY <3>1 DEF LeftInv, LeftTyped
      <4>2. [j EXCEPT !.undisturbed = FALSE] \in JobType
        BY DEF JobType
      <4> QED
        BY <1>1, <3>1, <4>1, <4>2
    <3>2. CASE ~(job # <<>> /\ job[1].rule = r)
      BY <1>1, <3>2 DEF LeftInv, LeftTyped
    <3> QED
      BY <3>1, <3>2
  <2> QED
    BY <1>1, <2>1 DEF LeftInv, LeftTyped
<1>13. job' # <<>> /\ job'[1].undisturbed => job' = job /\ job[1].rule # r
  <2>1. CASE job # <<>> /\ job[1].rule = r
    <3>1. PICK j \in JobType : job = <<j>>
      BY <2>1 DEF LeftInv, LeftTyped
    <3>2. job' = <<[j EXCEPT !.undisturbed = FALSE]>>
      BY <1>1, <2>1, <3>1
    <3>3. job'[1].undisturbed = FALSE
      BY <3>2 DEF JobType
    <3> QED
      BY <3>3
  <2>2. CASE ~(job # <<>> /\ job[1].rule = r)
    BY <1>1, <2>2
  <2> QED
    BY <2>1, <2>2
<1>14. /\ \A a : OwnsAction(r, a) <=> a \in rule[r].then
       /\ \A t : Minds(r, t) <=> t \in rule[r].if
       /\ \A a : MindsAction(r, a) <=> a \in rule[r].then
  BY DEF OwnsAction, Minds, MindsAction
<1>15. \A a \in m.then \cup m.loaded.then \cup rule'[r].then :
          action'[a].state # "unused" /\ (action[a].state # "unused" => OwnsAction(r, a))
  <2>1. \A a \in m.then \cup m.loaded.then \cup rule'[r].then : a \in Actions /\ OwnsAction(r, a)
    BY <1>1, <1>3, <1>4, <1>14
  <2> QED
    BY <2>1, <1>1 DEF LeftInv, ActionsKnown
<1>16. \A t \in Exists(Triggers)' : t \in Minding(m) \/ (t \in Exists(Triggers) /\ ~Minds(r, t))
  <2>1. Exists(Triggers)' = Exists(Triggers)
    BY <1>1 DEF Exists
  <2> QED
    BY <2>1, <1>3, <1>4, <1>14 DEF Minding
<1>17. \A a \in StoredActions' : a \in m.then \/ (a \in StoredActions /\ ~MindsAction(r, a))
  BY <1>1, <1>3, <1>4, <1>14 DEF StoredActions
<1>18. /\ rule' \in [Rules -> RuleType] /\ interrupted' = interrupted
       /\ \A x \in Rules : x # r => rule'[x] = rule[x] /\ subscription'[x] = subscription[x]
       /\ rule'[r].state # "stored" => rule'[r].if = {} /\ rule'[r].then = {}
       /\ \A a \in Actions : action[a].state # "unused" /\ ~OwnsAction(r, a) => action'[a] = action[a]
       /\ \A a \in Actions : action[a].state # "unused" => action'[a].state # "unused"
  BY <1>1, <1>8 DEF IInv, Typed
<1>19. On(r) \subseteq {s} /\ (Busy(s) => request[s].rule = r) /\ m.rule = r
  BY <1>1, <1>4
<1> QED
  BY <1>5, <1>6, <1>9, <1>11, <1>12, <1>13, <1>15, <1>16, <1>17, <1>18, <1>19, Locally

LEMMA CreateRuleLeft ==
  ASSUME IInv, LeftInv, NEW s \in Slots, NEW r \in Rules, CreateRule(s, r)
  PROVE  LeftInv'
<1> DEFINE todo == <<"triggers", "action", "rule", "unsubscribe", "subscribe">>
<1>1. PICK new \in Inputs, users \in SUBSET Users : Begin(s, r, todo, new, users)
  BY DEF CreateRule
<1>2. /\ todo \in Seq(StageNames) /\ todo # <<>>
      /\ Left(todo) = {"triggers", "action", "rule", "unsubscribe", "subscribe"}
  BY DEF StageNames, Left
<1>3. Sorted(todo)
  BY Places DEF Sorted
<1>4. Planned(Left(todo))
  BY <1>2, RulesAssumption DEF Planned, Writers, StageNames
<1>5. new \in SUBSET (SUBSET Devices) /\ On(r) = {} /\ rule[r].state # "stored"
  BY RulesAssumption DEF CreateRule
<1>6. /\ Left(todo) \cap Writers # {} /\ Left(todo) \cap {"clear", "action"} # {}
      /\ "remove" \notin Left(todo) /\ "update" \notin Left(todo)
      /\ {"unsubscribe", "subscribe"} \subseteq Left(todo)
  BY <1>2 DEF Writers
<1> HIDE DEF todo
<1> QED
  BY <1>1, <1>2, <1>3, <1>4, <1>5, <1>6, BeginLeft

LEMMA DeleteRuleLeft ==
  ASSUME IInv, LeftInv, Exclusive, NEW s \in Slots, NEW r \in Rules, DeleteRule(s, r)
  PROVE  LeftInv'
<1> DEFINE todo == <<"forget", "drop", "clear", "unsubscribe", "remove">>
<1>1. Begin(s, r, todo, {}, {}) /\ On(r) = {}
  BY DEF DeleteRule, Begin
<1>2. /\ todo \in Seq(StageNames) /\ todo # <<>>
      /\ Left(todo) = {"forget", "drop", "clear", "unsubscribe", "remove"}
  BY DEF StageNames, Left
<1>3. Sorted(todo)
  BY Places DEF Sorted
<1>4. Planned(Left(todo))
  BY <1>2, RulesAssumption DEF Planned, Writers, StageNames
<1>5. /\ Left(todo) \cap Writers # {} /\ Left(todo) \cap {"clear", "action"} # {}
      /\ {"forget", "clear"} \subseteq Left(todo) /\ "update" \notin Left(todo)
      /\ "action" \notin Left(todo)
  BY <1>2 DEF Writers
<1> HIDE DEF todo
<1> QED
  BY <1>1, <1>2, <1>3, <1>4, <1>5, BeginLeft

LEMMA EditRuleLeft ==
  ASSUME IInv, LeftInv, Exclusive, NEW s \in Slots, NEW r \in Rules, EditRule(s, r)
  PROVE  LeftInv'
<1> DEFINE todo1 == <<"forget", "drop", "triggers", "update">>
           todo2 == <<"clear", "action", "unsubscribe", "subscribe", "update">>
           todo3 == <<"forget", "drop", "triggers", "clear", "action", "unsubscribe", "subscribe", "update">>
<1>1. /\ todo1 \in Seq(StageNames) /\ todo1 # <<>>
      /\ Left(todo1) = {"forget", "drop", "triggers", "update"}
  BY DEF StageNames, Left
<1>2. /\ todo2 \in Seq(StageNames) /\ todo2 # <<>>
      /\ Left(todo2) = {"clear", "action", "unsubscribe", "subscribe", "update"}
  BY DEF StageNames, Left
<1>3. /\ todo3 \in Seq(StageNames) /\ todo3 # <<>>
      /\ Left(todo3) = {"forget", "drop", "triggers", "clear", "action", "unsubscribe", "subscribe", "update"}
  BY DEF StageNames, Left
<1>4. Sorted(todo1)
  BY Places DEF Sorted
<1>5. Sorted(todo2)
  BY Places DEF Sorted
<1>6. Sorted(todo3)
  BY Places DEF Sorted
<1>7. Planned(Left(todo1)) /\ Planned(Left(todo2)) /\ Planned(Left(todo3))
  BY <1>1, <1>2, <1>3, RulesAssumption DEF Planned, Writers, StageNames
<1>8. \A new \in Inputs : new \in SUBSET (SUBSET Devices)
  BY RulesAssumption
<1>9. On(r) = {} /\ rule[r].state = "stored"
  BY DEF EditRule, Begin
<1>10. \/ \E new \in Inputs : Begin(s, r, todo1, new, {})
       \/ \E users \in SUBSET Users : Begin(s, r, todo2, {}, users)
       \/ \E new \in Inputs, users \in SUBSET Users : Begin(s, r, todo3, new, users)
  BY EditPlans DEF EditRule
<1>11. /\ Left(todo1) \cap Writers # {} /\ "unsubscribe" \notin Left(todo1)
       /\ "remove" \notin Left(todo1) /\ "action" \notin Left(todo1)
  BY <1>1 DEF Writers
<1>12. /\ Left(todo2) \cap Writers # {} /\ Left(todo2) \cap {"clear", "action"} # {} /\ "clear" \in Left(todo2)
       /\ {"unsubscribe", "subscribe"} \subseteq Left(todo2) /\ "remove" \notin Left(todo2)
  BY <1>2 DEF Writers
<1>13. /\ Left(todo3) \cap Writers # {} /\ Left(todo3) \cap {"clear", "action"} # {} /\ "clear" \in Left(todo3)
       /\ {"unsubscribe", "subscribe"} \subseteq Left(todo3) /\ "remove" \notin Left(todo3)
  BY <1>3 DEF Writers
<1> HIDE DEF todo1, todo2, todo3
<1>14. CASE \E new \in Inputs : Begin(s, r, todo1, new, {})
  BY <1>1, <1>4, <1>7, <1>8, <1>9, <1>11, <1>14, BeginLeft
<1>15. CASE \E users \in SUBSET Users : Begin(s, r, todo2, {}, users)
  BY <1>2, <1>5, <1>7, <1>9, <1>12, <1>15, BeginLeft
<1>16. CASE \E new \in Inputs, users \in SUBSET Users : Begin(s, r, todo3, new, users)
  BY <1>3, <1>6, <1>7, <1>8, <1>9, <1>13, <1>16, BeginLeft
<1> QED
  BY <1>10, <1>14, <1>15, <1>16

\* Steps of the processor and messages.
LEMMA JobsLeft ==
  ASSUME IInv, LeftInv, UNCHANGED <<rule, trigger, action, subscription, request, interrupted>>,
         queue' \in Seq(Rules), job' = <<>> \/ \E j \in JobType : job' = <<j>>,
         job' # <<>> /\ job'[1].undisturbed =>
            /\ On(job'[1].rule) = {} /\ job'[1].rule \notin interrupted
            /\ \A u \in job'[1].todo : subscription[job'[1].rule][u] = 1
  PROVE  LeftInv'
<1>1. \A r : On(r)' = On(r)
  BY DEF On, Busy
<1>2. LeftTyped' /\ Emptied'
  BY DEF LeftInv, LeftTyped, Emptied
<1>3. StoredActions' = StoredActions /\ Exists(Triggers)' = Exists(Triggers) /\ \A as : Targets(as)' = Targets(as)
  BY DEF StoredActions, Exists, Targets
<1>4. \A r, a : /\ OwnsAction(r, a)' <=> OwnsAction(r, a)
                /\ MindsAction(r, a)' <=> MindsAction(r, a)
                /\ Minds(r, a)' <=> Minds(r, a)
  BY <1>1 DEF OwnsAction, MindsAction, Minds
<1>5. ActionsApart' /\ ActionsKnown'
  BY <1>4 DEF LeftInv, ActionsApart, ActionsKnown
<1>6. Goings'
  <2> SUFFICES ASSUME NEW s \in Slots, Busy(s)' PROVE Halfway(request[s])' /\ Underway(request[s])'
    BY DEF Goings
  <2>1. PICK q : q = request[s]
    OBVIOUS
  <2>2. Busy(s) /\ request'[s] = q
    BY <2>1 DEF Busy
  <2>3. Halfway(q) /\ Underway(q) /\ q.then \subseteq Actions
    BY <2>1, <2>2, Working1 DEF LeftInv, Goings, Working
  <2>4. Underway(q)'
    BY <2>3, SameUnderway
  <2> QED
    BY <2>2, <2>3, <2>4
<1>7. Rests'
  <2> SUFFICES ASSUME NEW r \in Rules, On(r)' = {}, r \notin interrupted' PROVE AtRest(r)'
    BY DEF Rests
  <2>1. AtRest(r)
    BY <1>1 DEF LeftInv, Rests
  <2> QED
    BY <2>1, <1>3 DEF AtRest, Targets
<1>8. JobSound'
  <2> SUFFICES ASSUME job' # <<>>, job'[1].undisturbed
               PROVE  /\ On(job[1].rule)' = {} /\ job'[1].rule \notin interrupted'
                      /\ \A u \in job'[1].todo : subscription'[job'[1].rule][u] = 1
    BY DEF JobSound
  <2>1. PICK r : r = job'[1].rule
    OBVIOUS
  <2>2. On(r) = {} /\ r \notin interrupted /\ \A u \in job'[1].todo : subscription[r][u] = 1
    BY <2>1
  <2>3. On(r)' = {}
    BY <2>2, <1>1
  <2> QED
    BY <2>1, <2>2, <2>3
<1>9. interrupted' = {} => TriggersMinded' /\ ActionsMinded'
  BY <1>3, <1>4 DEF LeftInv, TriggersMinded, ActionsMinded
<1> QED
  BY <1>2, <1>5, <1>6, <1>7, <1>8, <1>9 DEF LeftInv

LEMMA MessageLeft ==
  ASSUME IInv, LeftInv, NEW dev \in Devices, Message(dev)
  PROVE  LeftInv'
<1>1. PICK added \in SetToSeqs(Concerned(dev)) : queue' = queue \o added
  BY DEF Message
<1>2. PICK of : of = Concerned(dev)
  OBVIOUS
<1>3. of \subseteq Rules /\ IsFiniteSet(of) /\ Cardinality(of) \in Nat
  BY <1>2, RulesAssumption, FS_Subset, FS_CardinalityType DEF Concerned
<1>4. added \in [1..Cardinality(of) -> of]
  BY <1>1, <1>2 DEF SetToSeqs
<1>5. added \in Seq(Rules)
  BY <1>3, <1>4
<1>6. queue' \in Seq(Rules)
  BY <1>1, <1>5 DEF LeftInv, LeftTyped
<1>7. UNCHANGED <<rule, trigger, action, subscription, request, interrupted, job>>
  BY DEF Message, database
<1> QED
  BY <1>6, <1>7, JobsLeft DEF LeftInv, LeftTyped, JobSound

LEMMA TakeJobLeft ==
  ASSUME IInv, LeftInv, TakeJob
  PROVE  LeftInv'
<1>1. UNCHANGED <<rule, trigger, action, subscription, request, interrupted>> /\ queue # <<>> /\ queue' = Tail(queue)
  BY DEF TakeJob, database
<1>2. queue \in Seq(Rules)
  BY DEF LeftInv, LeftTyped
<1>3. queue' \in Seq(Rules) /\ Head(queue) \in Rules
  BY <1>1, <1>2, HeadTailProperties
<1>4. CASE UNCHANGED job
  BY <1>1, <1>3, <1>4, JobsLeft DEF LeftInv, LeftTyped, JobSound
<1>5. CASE ~UNCHANGED job
  <2>1. PICK r \in Rules : r = Head(queue)
    BY <1>3
  <2>2. job' = <<[rule |-> r, todo |-> UNION {action[a].users : a \in Loaded(r).then},
                  undisturbed |-> On(r) = {} /\ r \notin interrupted]>>
    BY <1>5, <2>1 DEF TakeJob
  <2>3. PICK users : users = UNION {action[a].users : a \in Loaded(r).then}
    OBVIOUS
  <2>4. PICK calm \in BOOLEAN : calm = (On(r) = {} /\ r \notin interrupted)
    OBVIOUS
  <2>5. PICK j : j = [rule |-> r, todo |-> users, undisturbed |-> calm]
    OBVIOUS
  <2>6. job' = <<j>>
    BY <2>2, <2>3, <2>4, <2>5
  <2>7. \A u \in users : \E a \in rule[r].then : u \in action[a].users
    BY <2>3 DEF Loaded
  <2>8. users \subseteq Users
    BY <2>7 DEF LeftInv, LeftTyped, ActionType, IInv, Typed, RuleType
  <2>9. j \in JobType
    BY <2>5, <2>8 DEF JobType
  <2>10. calm => \A u \in users : subscription[r][u] = 1
    <3> SUFFICES ASSUME calm, NEW u \in users PROVE subscription[r][u] = 1
      OBVIOUS
    <3>1. On(r) = {} /\ r \notin interrupted
      BY <2>4
    <3>2. AtRest(r) /\ u \in Targets(rule[r].then) /\ u \in Users
      BY <3>1, <2>7, <2>8, TargetsAre DEF LeftInv, Rests
    <3> QED
      BY <3>2 DEF AtRest
  <2>11. job'[1].undisturbed => /\ On(job'[1].rule) = {} /\ job'[1].rule \notin interrupted
                                /\ \A u \in job'[1].todo : subscription[job'[1].rule][u] = 1
    <3>1. job'[1] = j /\ j.rule = r /\ j.todo = users /\ j.undisturbed = calm
      BY <2>5, <2>6
    <3> QED
      BY <3>1, <2>4, <2>10
  <2> QED
    BY <1>1, <1>3, <2>6, <2>9, <2>11, JobsLeft
<1> QED
  BY <1>4, <1>5

LEMMA ProcessLeft ==
  ASSUME IInv, LeftInv, Process
  PROVE  LeftInv'
<1>1. CASE TakeJob
  BY <1>1, TakeJobLeft
<1>2. CASE JobFails \/ JobDone
  <2>1. UNCHANGED <<rule, trigger, action, subscription, request, interrupted, queue>> /\ job' = <<>>
    BY <1>2 DEF JobFails, JobDone, database
  <2> QED
    BY <2>1, JobsLeft DEF LeftInv, LeftTyped
<1>3. CASE Notify
  <2>1. UNCHANGED <<rule, trigger, action, subscription, request, interrupted, queue>> /\ job # <<>>
    BY <1>3 DEF Notify, database
  <2>2. PICK u \in job[1].todo : job' = <<[job[1] EXCEPT !.todo = @ \ {u}]>>
    BY <1>3 DEF Notify
  <2>3. PICK j \in JobType : job = <<j>>
    BY <2>1 DEF LeftInv, LeftTyped
  <2>4. PICK n : n = [j EXCEPT !.todo = @ \ {u}]
    OBVIOUS
  <2>5. job[1] = j /\ job' = <<n>> /\ job'[1] = n
    BY <2>2, <2>3, <2>4
  <2>6. n \in JobType /\ n.rule = j.rule /\ n.undisturbed = j.undisturbed /\ n.todo \subseteq j.todo
    BY <2>4 DEF JobType
  <2>7. j.undisturbed => /\ On(j.rule) = {} /\ j.rule \notin interrupted
                         /\ \A x \in j.todo : subscription[j.rule][x] = 1
    BY <2>1, <2>5 DEF LeftInv, JobSound
  <2> QED
    BY <2>1, <2>5, <2>6, <2>7, JobsLeft DEF LeftInv, LeftTyped
<1> QED
  BY <1>1, <1>2, <1>3 DEF Process

LEMMA RestartLeft ==
  ASSUME IInv, LeftInv, Restart
  PROVE  LeftInv'
<1>1. /\ UNCHANGED <<rule, trigger, action, subscription>> /\ request' = [s \in Slots |-> Idle]
      /\ interrupted' = interrupted \cup {r \in Rules : On(r) # {}}
      /\ queue' = IF job = <<>> THEN queue ELSE <<job[1].rule>> \o queue
      /\ job' = <<>>
  BY DEF Restart, database
<1>2. \A s \in Slots : ~Busy(s)'
  BY <1>1 DEF Busy, Idle
<1>3. \A r : On(r)' = {}
  BY <1>2 DEF On
<1>4. queue' \in Seq(Rules)
  <2>1. CASE job = <<>>
    BY <1>1, <2>1 DEF LeftInv, LeftTyped
  <2>2. CASE job # <<>>
    <3>1. PICK j \in JobType : job = <<j>>
      BY <2>2 DEF LeftInv, LeftTyped
    <3>2. queue' = <<j.rule>> \o queue /\ j.rule \in Rules /\ queue \in Seq(Rules)
      BY <1>1, <2>2, <3>1 DEF JobType, LeftInv, LeftTyped
    <3> QED
      BY <3>2
  <2> QED
    BY <2>1, <2>2
<1>5. LeftTyped' /\ Emptied'
  BY <1>1, <1>4 DEF LeftInv, LeftTyped, Emptied
<1>6. \A r, a : OwnsAction(r, a)' => OwnsAction(r, a)
  BY <1>1, <1>3 DEF OwnsAction
<1>7. ActionsApart' /\ ActionsKnown'
  BY <1>1, <1>6 DEF LeftInv, ActionsApart, ActionsKnown
<1>8. Goings' /\ JobSound'
  BY <1>1, <1>2 DEF Goings, JobSound
<1>9. Rests'
  <2> SUFFICES ASSUME NEW r \in Rules, r \notin interrupted' PROVE AtRest(r)'
    BY DEF Rests
  <2>1. AtRest(r)
    BY <1>1 DEF LeftInv, Rests
  <2>2. StoredActions' = StoredActions /\ \A as : Targets(as)' = Targets(as)
    BY <1>1 DEF StoredActions, Targets
  <2> QED
    BY <1>1, <2>1, <2>2 DEF AtRest, Targets
<1>10. ASSUME interrupted' = {} PROVE TriggersMinded' /\ ActionsMinded'
  <2>1. TriggersMinded /\ ActionsMinded /\ \A r \in Rules : On(r) = {}
    BY <1>1, <1>10 DEF LeftInv
  <2>2. \A r \in Rules : \A a : (Minds(r, a) => Minds(r, a)') /\ (MindsAction(r, a) => MindsAction(r, a)')
    BY <1>1, <1>3, <2>1 DEF Minds, MindsAction
  <2>3. Exists(Triggers)' = Exists(Triggers) /\ StoredActions' = StoredActions
    BY <1>1 DEF Exists, StoredActions
  <2> QED
    BY <2>1, <2>2, <2>3 DEF TriggersMinded, ActionsMinded
<1> QED
  BY <1>5, <1>7, <1>8, <1>9, <1>10 DEF LeftInv

LEMMA InitLeft ==
  ASSUME Init
  PROVE  LeftInv
<1>1. (\A s \in Slots : ~Busy(s)) /\ \A r : On(r) = {}
  BY AllIdle DEF Init
<1>2. LeftTyped /\ Emptied
  BY DEF Init, LeftTyped, ActionType, Emptied
<1>3. StoredActions = {} /\ Exists(Triggers) = {}
  BY DEF Init, StoredActions, Exists
<1>4. ActionsApart /\ ActionsKnown
  BY <1>1 DEF Init, ActionsApart, ActionsKnown, OwnsAction
<1>5. Goings /\ JobSound
  BY <1>1 DEF Init, Goings, JobSound
<1>6. Rests
  BY DEF Init, Rests, AtRest, Targets
<1>7. TriggersMinded /\ ActionsMinded
  BY <1>3 DEF TriggersMinded, ActionsMinded
<1> QED
  BY <1>2, <1>4, <1>5, <1>6, <1>7 DEF LeftInv

LEMMA StepLeft ==
  ASSUME IInv, LeftInv, Exclusive, [Next]_vars
  PROVE  LeftInv'
<1>1. ASSUME NEW s \in Slots, Serve(s) PROVE LeftInv'
  <2>1. ASSUME NEW r \in Rules, CreateRule(s, r) \/ EditRule(s, r) \/ DeleteRule(s, r) PROVE LeftInv'
    BY <2>1, CreateRuleLeft, EditRuleLeft, DeleteRuleLeft
  <2>2. CASE Forget(s) \/ DropTrigger(s) \/ CountTopic(s)
    BY <2>2, ForgetLeft, DropTriggerLeft, CountTopicLeft
  <2>3. CASE CreateTrigger(s) \/ TriggersDone(s) \/ ClearAction(s)
    BY <2>3, CreateTriggerLeft, TriggersDoneLeft, ClearActionLeft
  <2>4. CASE CreateAction(s) \/ StoreRule(s) \/ UpdateRule(s) \/ RemoveRule(s)
    BY <2>4, CreateActionLeft, StoreRuleLeft, UpdateRuleLeft, RemoveRuleLeft
  <2>5. CASE Unsubscribe(s) \/ Lookup(s) \/ Subscribe(s)
    BY <2>5, UnsubscribeLeft, LookupLeft, SubscribeLeft
  <2> QED
    BY <1>1, <2>1, <2>2, <2>3, <2>4, <2>5 DEF Serve
<1>2. ASSUME NEW dev \in Devices, Message(dev) PROVE LeftInv'
  BY <1>2, MessageLeft
<1>3. CASE Process
  BY <1>3, ProcessLeft
<1>4. CASE Restart
  BY <1>4, RestartLeft
<1>5. CASE UNCHANGED vars
  BY <1>5, JobsLeft DEF vars, database, jobs, LeftInv, LeftTyped, JobSound
<1> QED
  BY <1>1, <1>2, <1>3, <1>4, <1>5 DEF Next

LEMMA LeftInvariant ==
  ASSUME Exclusive
  PROVE  Spec => [](IInv /\ LeftInv)
<1>1. Init => IInv /\ LeftInv
  BY InitHolds, InitLeft
<1>2. (IInv /\ LeftInv) /\ [Next]_vars => (IInv /\ LeftInv)'
  BY StepKeeps, StepLeft
<1> QED
  BY <1>1, <1>2, PTL DEF Spec

LEMMA AllSettled ==
  ASSUME IInv, LeftInv
  PROVE  NothingLeftOver
<1> SUFFICES ASSUME \A r \in Rules : Settled(r)
             PROVE  /\ Exists(Triggers) = UNION {rule[r].if : r \in Rules}
                    /\ StoredActions = UNION {rule[r].then : r \in Rules}
                    /\ \A r \in Rules, u \in Users : subscription[r][u] = IF u \in Notified(r) THEN 1 ELSE 0
  BY DEF NothingLeftOver, StoredActions
<1>1. \A r \in Rules : On(r) = {} /\ r \notin interrupted /\ AtRest(r)
  BY DEF Settled, LeftInv, Rests
<1>2. TriggersMinded /\ ActionsMinded
  BY <1>1 DEF LeftInv, LeftTyped
<1>3. \A t : t \in Exists(Triggers) => \E r \in Rules : t \in rule[r].if
  BY <1>1, <1>2 DEF TriggersMinded, Minds
<1>4. \A r \in Rules : rule[r].if \subseteq Exists(Triggers)
  BY <1>1 DEF IInv, Kept, LeftInv, Emptied
<1>5. \A a : a \in StoredActions => \E r \in Rules : a \in rule[r].then
  BY <1>1, <1>2 DEF ActionsMinded, MindsAction
<1>6. \A r \in Rules : rule[r].then \subseteq StoredActions
  BY <1>1 DEF AtRest
<1>7. \A r \in Rules, u \in Users : subscription[r][u] = IF u \in Notified(r) THEN 1 ELSE 0
  BY <1>1 DEF AtRest, Notified, Targets
<1> QED
  BY <1>3, <1>4, <1>5, <1>6, <1>7

\* Once the requests are served, no trigger or action outlives the rule it was made for
\* (createRule, editRule and deleteRule), and each user a rule notifies has one
\* subscription to it, and nobody else any.
THEOREM NothingIsLeft ==
  ASSUME Exclusive
  PROVE  Spec => []NothingLeftOver
<1>1. IInv /\ LeftInv => NothingLeftOver
  BY AllSettled
<1> QED
  BY <1>1, LeftInvariant, PTL

\* notify meets a user without a subscription only when a request worked on the rule
\* since the job was taken, or a restart cut one short.
THEOREM FailuresExplained ==
  ASSUME Exclusive
  PROVE  Spec => JobFailureExplained
<1>1. IInv /\ LeftInv /\ [Next]_vars => [JobFails => ~job[1].undisturbed]_vars
  <2> SUFFICES ASSUME LeftInv, JobFails, job[1].undisturbed PROVE FALSE
    OBVIOUS
  <2>1. PICK u \in job[1].todo : job # <<>> /\ subscription[job[1].rule][u] = 0
    BY DEF JobFails
  <2>2. subscription[job[1].rule][u] = 1
    BY <2>1 DEF LeftInv, JobSound
  <2> QED
    BY <2>1, <2>2
<1> QED
  BY <1>1, LeftInvariant, PTL DEF Spec, JobFailureExplained

============================================================================
