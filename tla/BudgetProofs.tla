---------------------------- MODULE BudgetProofs ----------------------------
(***************************************************************************)
(* Theorems about Goals, for any number of goals, clients, dates and       *)
(* amounts, and any precision of the stored dates; and about Reports, for  *)
(* any finite numbers of transactions and categories, any dates, and any   *)
(* size and number of pages.                                               *)
(***************************************************************************)
EXTENDS MCGoalsReports, FiniteSetTheorems, TLAPS

USE GoalsAssumption DEF GoalsAssumption

Tab == [pc : {"idle", "shown", "update", "refused"}, goal : Goals \cup {NoGoal},
        got : GoalDates, gotProgress : 0..MaxProgress, date : GoalDates,
        progress : 0..MaxProgress, enters : BOOLEAN, behind : BOOLEAN, moved : BOOLEAN]

(* the types, with those of what only the proof reads *)
GoalTypes ==
    /\ now \in 0..MaxTime
    /\ goals \in [Goals -> Goal]
    /\ tab \in [Tabs -> Tab]
    /\ vetted \in [Goals -> SUBSET GoalDates]
    /\ logged \in [Goals -> 0..MaxProgress]
    /\ stale \in SUBSET Goals
    /\ \A g \in Goals : goals[g].date % Milli = 0

(* A goal that was never created has no progress, and a client never shows  *)
(* such a goal.                                                             *)
KnownGoals ==
    /\ \A g \in Goals : goals[g].state = "none" => logged[g] = 0
    /\ \A b \in Tabs : /\ tab[b].pc # "idle" => tab[b].goal \in Goals
                       /\ tab[b].pc \in {"shown", "update"} => goals[tab[b].goal].state # "none"

(* what the goal will have after a PUT that was let through was vetted for it *)
PutsWereVetted ==
    \A b \in Tabs : tab[b].pc = "update" => Stored(tab[b].date) \in vetted[tab[b].goal]

(* Until another client changes it, the goal has the date of the client's   *)
(* last answer, as far as dates are stored.                                 *)
DateKnown ==
    \A b \in Tabs : LET t == tab[b] IN
        t.pc = "shown" /\ ~t.moved /\ goals[t.goal].state = "stored"
            => goals[t.goal].date = Stored(t.got)

(* A client that is not behind has the progress of its goal, and sends it   *)
(* back unless its user enters another.                                     *)
UpToDate ==
    \A b \in Tabs : LET t == tab[b] IN
        t.goal \in Goals /\ ~t.behind /\ goals[t.goal].state = "stored" =>
            /\ t.pc = "shown" => t.gotProgress = goals[t.goal].progress
            /\ t.pc = "update" /\ ~t.enters => t.progress = goals[t.goal].progress

GoalInv ==
    /\ GoalTypes /\ KnownGoals
    /\ DatesWereVetted /\ PutsWereVetted
    /\ DateKnown /\ DueGoalsTakeProgress
    /\ ProgressKept /\ UpToDate

-----------------------------------------------------------------------------
(* Dates *)

(* A multiple has no remainder. *)
LEMMA Multiples ==
    ASSUME NEW q \in Nat, NEW m \in Nat \ {0}
    PROVE  (m * q) % m = 0
  OBVIOUS

(* A stored date is a whole number of milliseconds and not later than what   *)
(* was sent, and storing it again changes nothing.                           *)
LEMMA StoredFacts ==
    ASSUME NEW d \in GoalDates
    PROVE  /\ Stored(d) \in GoalDates /\ Stored(d) % Milli = 0
           /\ d % Milli = 0 => Stored(d) = d
<1>1. d \in Nat /\ d <= LastDate /\ Milli \in Nat \ {0}
  BY DEF GoalDates
<1> DEFINE q == d \div Milli
           r == d % Milli
<1>2. q \in Nat /\ r \in Nat /\ d = Milli * q + r
  BY <1>1
<1>3. Milli * q \in Nat /\ (Milli * q) % Milli = 0
  BY <1>1, <1>2, Multiples
<1>4. Stored(d) = d - r
  BY DEF Stored
<1> HIDE DEF q, r
<1>5. Stored(d) = Milli * q
  BY <1>1, <1>2, <1>3, <1>4
<1>6. Stored(d) \in GoalDates
  BY <1>1, <1>2, <1>3, <1>5 DEF GoalDates
<1>7. r = 0 => Stored(d) = d
  BY <1>1, <1>4
<1> QED
  BY <1>3, <1>5, <1>6, <1>7 DEF r

-----------------------------------------------------------------------------
(* What the actions do to goals and clients *)

(* only client b moves, and nothing else changes *)
OnlyTab(b) ==
    /\ tab' \in [Tabs -> Tab] /\ \A c \in Tabs \ {b} : tab'[c] = tab[c]
    /\ UNCHANGED <<now, goals, logged, stale>>

(* A client at rest shows nothing. *)
LEMMA NoTabFacts ==
    /\ NoTab \in Tab
    /\ NoTab.pc = "idle" /\ NoTab.goal = NoGoal /\ NoTab.behind = FALSE
<1>1. 0 \in GoalDates /\ 0 \in 0..MaxProgress
  BY DEF GoalDates
<1> QED
  BY <1>1 DEF NoTab, Tab

(* a client that was answered *)
LEMMA ShownFacts ==
    ASSUME NEW g \in Goals, NEW d \in GoalDates, NEW p \in 0..MaxProgress
    PROVE  /\ Shown(g, d, p) \in Tab
           /\ Shown(g, d, p).pc = "shown" /\ Shown(g, d, p).goal = g
           /\ Shown(g, d, p).got = d /\ Shown(g, d, p).gotProgress = p
  BY NoTabFacts DEF Shown, NoTab, Tab

(* GET *)
LEMMA GetEffect ==
    ASSUME GoalTypes, NEW b \in Tabs, NEW g \in Goals, GoalGet(b, g)
    PROVE  /\ OnlyTab(b) /\ UNCHANGED vetted
           /\ goals[g].state = "stored"
           /\ tab'[b].pc = "shown" /\ tab'[b].goal = g
           /\ tab'[b].gotProgress = goals[g].progress
           /\ goals[g].date = Stored(tab'[b].got)
<1> DEFINE r == Shown(g, goals[g].date, goals[g].progress)
<1>1. tab' = [tab EXCEPT ![b] = r]
  BY DEF GoalGet
<1>2. /\ goals[g].date \in GoalDates /\ goals[g].progress \in 0..MaxProgress
      /\ goals[g].date % Milli = 0
  BY DEF GoalTypes, Goal
<1>3. /\ r \in Tab /\ r.pc = "shown" /\ r.goal = g
      /\ r.gotProgress = goals[g].progress /\ r.got = goals[g].date
  BY <1>2, ShownFacts
<1>4. Stored(goals[g].date) = goals[g].date
  BY <1>2, StoredFacts
<1> HIDE DEF r
<1> QED
  BY <1>1, <1>3, <1>4 DEF GoalTypes, OnlyTab, GoalGet

(* the fields of a client are of their types *)
LEMMA TabFacts ==
    ASSUME GoalTypes, NEW b \in Tabs
    PROVE  /\ tab[b].pc \in {"idle", "shown", "update", "refused"}
           /\ tab[b].goal \in Goals \cup {NoGoal}
           /\ tab[b].got \in GoalDates /\ tab[b].date \in GoalDates
           /\ tab[b].gotProgress \in 0..MaxProgress /\ tab[b].progress \in 0..MaxProgress
           /\ tab[b].enters \in BOOLEAN /\ tab[b].behind \in BOOLEAN /\ tab[b].moved \in BOOLEAN
  BY DEF GoalTypes, Tab

(* A PUT that is refused: the goal is gone, or the date is past and not its own. *)
LEMMA PutRefused ==
    ASSUME GoalTypes, KnownGoals, DateKnown,
           NEW b \in Tabs, NEW d \in GoalDates, NEW p \in 0..MaxProgress,
           NEW e \in BOOLEAN, GoalPut(b, d, p, e),
           goals[tab[b].goal].state # "stored" \/ RefusedDate(d, goals[tab[b].goal].date)
    PROVE  /\ OnlyTab(b) /\ UNCHANGED vetted
           /\ \/ tab'[b] = NoTab
              \/ /\ tab'[b].pc = "refused" /\ tab'[b].goal = tab[b].goal /\ tab[b].goal \in Goals
                 /\ tab'[b].date = tab'[b].got
                       => tab'[b].moved \/ Stored(tab'[b].got) # tab'[b].got
<1> DEFINE g == goals[tab[b].goal]
           r == [NoTab EXCEPT !.pc = "refused", !.goal = tab[b].goal, !.got = tab[b].got,
                              !.date = d, !.moved = tab[b].moved]
<1>1. tab[b].pc = "shown" /\ tab[b].goal \in Goals /\ tab[b].got \in GoalDates
      /\ tab[b].moved \in BOOLEAN
  BY TabFacts DEF GoalPut, KnownGoals
<1>3. UNCHANGED <<now, goals, vetted, logged, stale>>
  BY DEF GoalPut
<1>4. CASE g.state # "stored"
  <2>1. tab' = [tab EXCEPT ![b] = NoTab]
    BY <1>4 DEF GoalPut
  <2> QED
    BY <1>3, <2>1, NoTabFacts DEF GoalTypes, OnlyTab
<1>5. CASE g.state = "stored" /\ RefusedDate(d, g.date)
  <2>1. tab' = [tab EXCEPT ![b] = r]
    BY <1>5 DEF GoalPut
  <2>2. d = tab[b].got => tab[b].moved \/ Stored(tab[b].got) # tab[b].got
    BY <1>1, <1>5 DEF RefusedDate, DateKnown
  <2> HIDE DEF g
  <2>3. r \in Tab
    BY <1>1, NoTabFacts DEF Tab
  <2>4. /\ r.pc = "refused" /\ r.goal = tab[b].goal
        /\ r.date = d /\ r.got = tab[b].got /\ r.moved = tab[b].moved
    BY DEF NoTab
  <2> HIDE DEF r
  <2> QED
    BY <1>1, <1>3, <2>1, <2>2, <2>3, <2>4 DEF GoalTypes, OnlyTab
<1> QED
  BY <1>4, <1>5

(* A PUT that is let through: its date is vetted for the goal. *)
LEMMA PutPassed ==
    ASSUME GoalTypes, KnownGoals, DatesWereVetted,
           NEW b \in Tabs, NEW d \in GoalDates, NEW p \in 0..MaxProgress,
           NEW e \in BOOLEAN, GoalPut(b, d, p, e),
           goals[tab[b].goal].state = "stored", ~RefusedDate(d, goals[tab[b].goal].date)
    PROVE  /\ OnlyTab(b)
           /\ tab[b].pc = "shown" /\ tab[b].goal \in Goals
           /\ tab'[b].pc = "update" /\ tab'[b].goal = tab[b].goal /\ tab'[b].date = d
           /\ tab'[b].progress = p /\ tab'[b].enters = e /\ tab'[b].behind = tab[b].behind
           /\ e \/ p = tab[b].gotProgress
           /\ vetted' \in [Goals -> SUBSET GoalDates]
           /\ \A g \in Goals : vetted[g] \subseteq vetted'[g]
           /\ Stored(d) \in vetted'[tab[b].goal]
<1> DEFINE g == tab[b].goal
           r == [NoTab EXCEPT !.pc = "update", !.goal = g, !.date = d, !.progress = p,
                              !.enters = e, !.behind = tab[b].behind]
<1>1. tab[b].pc = "shown" /\ g \in Goals /\ tab[b].behind \in BOOLEAN
  BY TabFacts DEF GoalPut, KnownGoals
<1>2. tab' = [tab EXCEPT ![b] = r]
  BY DEF GoalPut
<1>3. /\ UNCHANGED <<now, goals, logged, stale>>
      /\ e \/ p = tab[b].gotProgress
  BY DEF GoalPut
<1>4. /\ d >= now => vetted' = [vetted EXCEPT ![g] = @ \cup {Stored(d)}]
      /\ ~(d >= now) => vetted' = vetted
  BY DEF GoalPut
<1>5. goals[g].date \in GoalDates /\ goals[g].date % Milli = 0 /\ goals[g].date \in vetted[g]
  BY <1>1 DEF GoalTypes, Goal, DatesWereVetted
<1>6. d >= now \/ d = goals[g].date
  BY DEF RefusedDate, GoalTypes, GoalDates
<1> HIDE DEF g
<1>7. r \in Tab
  BY <1>1, NoTabFacts DEF Tab
<1>8. /\ r.pc = "update" /\ r.goal = g /\ r.date = d /\ r.progress = p
      /\ r.enters = e /\ r.behind = tab[b].behind
  BY DEF NoTab
<1> HIDE DEF r
<1>9. /\ OnlyTab(b)
      /\ tab'[b].pc = "update" /\ tab'[b].goal = g /\ tab'[b].date = d
      /\ tab'[b].progress = p /\ tab'[b].enters = e /\ tab'[b].behind = tab[b].behind
  BY <1>2, <1>3, <1>7, <1>8 DEF GoalTypes, OnlyTab
<1>10. /\ vetted' \in [Goals -> SUBSET GoalDates]
       /\ \A h \in Goals : vetted[h] \subseteq vetted'[h]
       /\ Stored(d) \in vetted'[g]
  <2>1. Stored(d) \in GoalDates
    BY StoredFacts
  <2>2. CASE d >= now
    BY <1>1, <1>4, <2>1, <2>2 DEF GoalTypes
  <2>3. CASE ~(d >= now)
    <3>1. Stored(d) = goals[g].date
      BY <1>5, <1>6, <2>3, StoredFacts
    <3> QED
      BY <1>4, <1>5, <2>3, <3>1 DEF GoalTypes
  <2> QED
    BY <2>2, <2>3
<1> QED
  BY <1>1, <1>3, <1>9, <1>10 DEF g

(* a goal changes *)
LEMMA SetGoal ==
    ASSUME GoalTypes, NEW g \in Goals, NEW r \in Goal, r.date % Milli = 0,
           goals' = [goals EXCEPT ![g] = r]
    PROVE  /\ goals' \in [Goals -> Goal] /\ \A h \in Goals : goals'[h].date % Milli = 0
           /\ goals'[g] = r /\ \A h \in Goals \ {g} : goals'[h] = goals[h]
  BY DEF GoalTypes

(* POST *)
LEMMA CreateEffect ==
    ASSUME GoalTypes, NEW b \in Tabs, NEW g \in Goals, NEW d \in GoalDates, GoalCreate(b, g, d)
    PROVE  /\ goals' \in [Goals -> Goal] /\ \A h \in Goals : goals'[h].date % Milli = 0
           /\ goals[g].state = "none" /\ goals'[g].state = "stored"
           /\ goals'[g].date = Stored(d) /\ goals'[g].progress = 0
           /\ \A h \in Goals \ {g} : goals'[h] = goals[h]
           /\ vetted' \in [Goals -> SUBSET GoalDates] /\ vetted'[g] = {Stored(d)}
           /\ \A h \in Goals \ {g} : vetted'[h] = vetted[h]
           /\ tab' \in [Tabs -> Tab] /\ \A c \in Tabs \ {b} : tab'[c] = tab[c]
           /\ tab'[b] = tab[b] \/ tab'[b] = Shown(g, d, 0)
           /\ UNCHANGED <<now, logged, stale>>
<1> DEFINE r == Inserted(d)
<1>1. Stored(d) \in GoalDates /\ Stored(d) % Milli = 0
  BY StoredFacts
<1>2. /\ r \in Goal /\ r.date % Milli = 0
      /\ r.state = "stored" /\ r.date = Stored(d) /\ r.progress = 0
  BY <1>1 DEF Inserted, Goal
<1>3. /\ goals' = [goals EXCEPT ![g] = r] /\ goals[g].state = "none"
      /\ vetted' = [vetted EXCEPT ![g] = {Stored(d)}]
      /\ UNCHANGED <<now, logged, stale>>
  BY DEF GoalCreate
<1> HIDE DEF r
<1>4. /\ goals' \in [Goals -> Goal] /\ \A h \in Goals : goals'[h].date % Milli = 0
      /\ goals'[g] = r /\ \A h \in Goals \ {g} : goals'[h] = goals[h]
  BY <1>2, <1>3, SetGoal
<1>5. /\ vetted' \in [Goals -> SUBSET GoalDates] /\ vetted'[g] = {Stored(d)}
      /\ \A h \in Goals \ {g} : vetted'[h] = vetted[h]
  BY <1>1, <1>3 DEF GoalTypes
<1>6. /\ tab' \in [Tabs -> Tab] /\ \A c \in Tabs \ {b} : tab'[c] = tab[c]
      /\ tab'[b] = tab[b] \/ tab'[b] = Shown(g, d, 0)
  <2>1. Shown(g, d, 0) \in Tab
    BY ShownFacts
  <2> QED
    BY <2>1 DEF GoalCreate, GoalTypes
<1> QED
  BY <1>2, <1>3, <1>4, <1>5, <1>6

(* DELETE *)
LEMMA DeleteEffect ==
    ASSUME GoalTypes, NEW g \in Goals, GoalDelete(g)
    PROVE  /\ goals' \in [Goals -> Goal] /\ \A h \in Goals : goals'[h].date % Milli = 0
           /\ goals[g].state = "stored" /\ goals'[g].state = "deleted"
           /\ \A h \in Goals \ {g} : goals'[h] = goals[h]
           /\ UNCHANGED <<now, tab, vetted, logged, stale>>
<1> DEFINE r == [state |-> "deleted", date |-> 0, progress |-> 0]
<1>1. r \in Goal /\ r.date % Milli = 0 /\ r.state = "deleted"
  BY DEF Goal, GoalDates
<1>2. /\ goals' = [goals EXCEPT ![g] = r] /\ goals[g].state = "stored"
      /\ UNCHANGED <<now, tab, vetted, logged, stale>>
  BY DEF GoalDelete
<1> HIDE DEF r
<1> QED
  BY <1>1, <1>2, SetGoal

(* the write of a PUT: the other clients that show the goal are behind *)
LEMMA UpdateEffect ==
    ASSUME GoalTypes, KnownGoals, NEW b \in Tabs, GoalUpdate(b)
    PROVE  LET t == tab[b]
               g == tab[b].goal
           IN  /\ g \in Goals /\ t.pc = "update" /\ goals[g].state = "stored"
               /\ goals' \in [Goals -> Goal] /\ \A h \in Goals : goals'[h].date % Milli = 0
               /\ goals'[g].state = "stored" /\ goals'[g].date = Stored(t.date)
               /\ goals'[g].progress = t.progress
               /\ \A h \in Goals \ {g} : goals'[h] = goals[h]
               /\ tab' \in [Tabs -> Tab] /\ tab'[b] \in {NoTab, Shown(g, t.date, t.progress)}
               /\ logged' \in [Goals -> 0..MaxProgress]
               /\ logged'[g] = IF t.enters THEN t.progress ELSE logged[g]
               /\ \A h \in Goals \ {g} : logged'[h] = logged[h]
               /\ stale' \in SUBSET Goals /\ \A h \in stale : h \in stale'
               /\ t.behind => g \in stale'
               /\ UNCHANGED <<now, vetted>>
<1> DEFINE t == tab[b]
           g == tab[b].goal
           r == Set(g, t.date, t.progress)
<1>1. /\ g \in Goals /\ t.pc = "update" /\ goals[g].state = "stored"
      /\ t.date \in GoalDates /\ t.progress \in 0..MaxProgress
  BY TabFacts DEF GoalUpdate, KnownGoals, Matches
<1>2. Stored(t.date) \in GoalDates /\ Stored(t.date) % Milli = 0
  BY <1>1, StoredFacts
<1>3. /\ goals' = [goals EXCEPT ![g] = r]
      /\ logged' = IF t.enters THEN [logged EXCEPT ![g] = t.progress] ELSE logged
      /\ stale' = IF t.behind THEN stale \cup {g} ELSE stale
      /\ UNCHANGED <<now, vetted>>
  BY DEF GoalUpdate
<1>4. /\ r \in Goal /\ r.date % Milli = 0
      /\ r.state = "stored" /\ r.date = Stored(t.date) /\ r.progress = t.progress
  BY <1>1, <1>2 DEF Set, Goal
<1>5. tab' \in [Tabs -> Tab] /\ tab'[b] \in {NoTab, Shown(g, t.date, t.progress)}
  <2> DEFINE moves == Set(g, t.date, t.progress).date # goals[g].date
  <2>1. PICK mine \in {NoTab, Shown(g, t.date, t.progress)} :
           tab' = [c \in Tabs |-> IF c = b THEN mine
                                  ELSE [tab[c] EXCEPT !.behind = @ \/ tab[c].goal = g,
                                                      !.moved = @ \/ (tab[c].goal = g /\ moves)]]
    BY DEF GoalUpdate
  <2>2. mine \in Tab
    <3>1. NoTab \in Tab /\ Shown(g, t.date, t.progress) \in Tab
      BY <1>1, NoTabFacts, ShownFacts
    <3> QED
      BY <2>1, <3>1
  <2>m. moves \in BOOLEAN /\ tab \in [Tabs -> Tab]
    BY DEF GoalTypes
  <2> HIDE DEF moves, g
  <2>3. ASSUME NEW c \in Tabs
        PROVE  [tab[c] EXCEPT !.behind = @ \/ tab[c].goal = g,
                              !.moved = @ \/ (tab[c].goal = g /\ moves)] \in Tab
    BY <2>m, ZenonT(60) DEF Tab
  <2> QED
    BY <2>1, <2>2, <2>3, ZenonT(60)
<1> HIDE DEF r, g, t
<1>6. /\ goals' \in [Goals -> Goal] /\ \A h \in Goals : goals'[h].date % Milli = 0
      /\ goals'[g] = r /\ \A h \in Goals \ {g} : goals'[h] = goals[h]
  BY <1>1, <1>3, <1>4, SetGoal
<1>7. /\ logged' \in [Goals -> 0..MaxProgress]
      /\ logged'[g] = IF t.enters THEN t.progress ELSE logged[g]
      /\ \A h \in Goals \ {g} : logged'[h] = logged[h]
      /\ stale' \in SUBSET Goals /\ (\A h \in stale : h \in stale') /\ (t.behind => g \in stale')
  BY <1>1, <1>3 DEF GoalTypes
<1> QED
  BY <1>1, <1>3, <1>4, <1>5, <1>6, <1>7 DEF t, g

(* ... and otherwise as they were, but for the knowledge of its date *)
LEMMA OthersFallBehind ==
    ASSUME GoalTypes, KnownGoals, NEW b \in Tabs, NEW c \in Tabs, c # b, GoalUpdate(b)
    PROVE  /\ tab'[c].pc = tab[c].pc /\ tab'[c].goal = tab[c].goal /\ tab'[c].date = tab[c].date
           /\ tab'[c].got = tab[c].got /\ tab'[c].progress = tab[c].progress
           /\ tab'[c].gotProgress = tab[c].gotProgress /\ tab'[c].enters = tab[c].enters
           /\ tab[c].behind => tab'[c].behind
           /\ tab[c].moved => tab'[c].moved
           /\ tab[c].goal = tab[b].goal => tab'[c].behind
           /\ tab[c].goal = tab[b].goal /\ ~tab'[c].moved
                 => Stored(tab[b].date) = goals[tab[b].goal].date
<1> DEFINE moves == Set(tab[b].goal, tab[b].date, tab[b].progress).date # goals[tab[b].goal].date
<1>1. tab'[c] = [tab[c] EXCEPT !.behind = @ \/ tab[c].goal = tab[b].goal,
                               !.moved = @ \/ (tab[c].goal = tab[b].goal /\ moves)]
  BY DEF GoalUpdate
<1>2. tab[c] \in Tab
  BY DEF GoalTypes
<1>3. ~moves => Stored(tab[b].date) = goals[tab[b].goal].date
  BY DEF Set
<1> HIDE DEF moves
<1> QED
  BY <1>1, <1>2, <1>3 DEF Tab

-----------------------------------------------------------------------------
(* The invariant *)

(* It holds when nothing is stored and no client shows anything. *)
LEMMA InitInv == GoalInit => GoalInv
<1> SUFFICES ASSUME GoalInit PROVE GoalInv
  OBVIOUS
<1>1. 0 \in GoalDates /\ 0 \in 0..MaxProgress /\ 0 % Milli = 0
  BY DEF GoalDates
<1>2. GoalTypes
  BY <1>1, NoTabFacts DEF GoalInit, GoalTypes, Goal
<1>3. \A b \in Tabs : tab[b] = NoTab
  BY DEF GoalInit
<1>4. \A g \in Goals : goals[g].state = "none" /\ logged[g] = 0
  BY DEF GoalInit
<1> QED
  BY <1>2, <1>3, <1>4, NoTabFacts
     DEF GoalInv, KnownGoals, DatesWereVetted, PutsWereVetted, DateKnown, DueGoalsTakeProgress,
         ProgressKept, UpToDate

(* Only client b moves: what there is to show about it. *)
LEMMA TabMoves ==
    ASSUME GoalInv, NEW b \in Tabs, OnlyTab(b), vetted' \in [Goals -> SUBSET GoalDates],
           \A g \in Goals : vetted[g] \subseteq vetted'[g],
           tab'[b].pc # "idle" => tab'[b].goal \in Goals,
           tab'[b].pc \in {"shown", "update"} => goals[tab'[b].goal].state # "none",
           tab'[b].pc = "update" => Stored(tab'[b].date) \in vetted'[tab'[b].goal],
           tab'[b].pc = "refused" /\ tab'[b].date = tab'[b].got
               => tab'[b].moved \/ Stored(tab'[b].got) # tab'[b].got,
           tab'[b].pc = "shown" => /\ tab'[b].gotProgress = goals[tab'[b].goal].progress
                                   /\ goals[tab'[b].goal].date = Stored(tab'[b].got),
           tab'[b].pc = "update" /\ ~tab'[b].enters /\ ~tab'[b].behind
               => tab'[b].progress = goals[tab'[b].goal].progress
    PROVE  GoalInv'
<1>1. GoalTypes'
  BY DEF GoalInv, GoalTypes, OnlyTab
<1>2. KnownGoals'
  BY DEF GoalInv, KnownGoals, OnlyTab
<1>3. DatesWereVetted' /\ ProgressKept'
  BY DEF GoalInv, DatesWereVetted, ProgressKept, OnlyTab
<1>4. PutsWereVetted' /\ DueGoalsTakeProgress' /\ DateKnown'
  BY DEF GoalInv, KnownGoals, PutsWereVetted, DueGoalsTakeProgress, DateKnown, OnlyTab
<1>5. UpToDate'
  BY DEF GoalInv, UpToDate, OnlyTab
<1> QED
  BY <1>1, <1>2, <1>3, <1>4, <1>5 DEF GoalInv

(* Every step keeps it. *)
LEMMA NextInv == GoalInv /\ [GoalNext]_goalVars => GoalInv'
<1> SUFFICES ASSUME GoalInv, [GoalNext]_goalVars PROVE GoalInv'
  OBVIOUS
<1>0. GoalTypes /\ KnownGoals /\ DatesWereVetted /\ DateKnown
  BY DEF GoalInv
<1>1. CASE GoalTick
  BY <1>1 DEF GoalTick, GoalInv, GoalTypes, KnownGoals, DatesWereVetted, PutsWereVetted,
              DateKnown, DueGoalsTakeProgress, ProgressKept, UpToDate
<1>2. ASSUME NEW g \in Goals, GoalDelete(g) PROVE GoalInv'
  <2>1. GoalTypes'
    BY <1>0, <1>2, DeleteEffect DEF GoalTypes
  <2>2. KnownGoals' /\ DatesWereVetted' /\ ProgressKept'
    BY <1>0, <1>2, DeleteEffect DEF GoalInv, KnownGoals, DatesWereVetted, ProgressKept
  <2>3. PutsWereVetted' /\ DateKnown' /\ DueGoalsTakeProgress' /\ UpToDate'
    BY <1>0, <1>2, DeleteEffect
       DEF GoalInv, KnownGoals, PutsWereVetted, DateKnown, DueGoalsTakeProgress, UpToDate
  <2> QED
    BY <2>1, <2>2, <2>3 DEF GoalInv
<1>3. ASSUME NEW b \in Tabs, NEW g \in Goals, NEW d \in GoalDates, GoalCreate(b, g, d)
      PROVE  GoalInv'
  <2>1. GoalTypes'
    BY <1>0, <1>3, CreateEffect DEF GoalTypes
  <2>2. /\ Shown(g, d, 0).pc = "shown" /\ Shown(g, d, 0).goal = g
        /\ Shown(g, d, 0).got = d /\ Shown(g, d, 0).gotProgress = 0
    BY ShownFacts
  <2>3. DatesWereVetted' /\ ProgressKept'
    BY <1>0, <1>3, CreateEffect DEF GoalInv, KnownGoals, DatesWereVetted, ProgressKept
  <2>4. ASSUME NEW c \in Tabs, tab'[c] = tab[c]
        PROVE  /\ tab[c].pc \in {"shown", "update"}
                     => tab[c].goal # g /\ goals'[tab[c].goal] = goals[tab[c].goal]
               /\ tab[c].pc \in {"shown", "update"} => vetted'[tab[c].goal] = vetted[tab[c].goal]
               /\ tab[c].pc # "idle" => tab[c].goal \in Goals
    BY <1>0, <1>3, <2>4, CreateEffect DEF KnownGoals
  <2>5. \A c \in Tabs : tab'[c] = tab[c] \/ tab'[c] = Shown(g, d, 0)
    BY <1>0, <1>3, CreateEffect
  <2>6. goals'[g].date = Stored(d) /\ goals'[g].progress = 0 /\ goals'[g].state = "stored"
    BY <1>0, <1>3, CreateEffect
  <2>7. KnownGoals'
    <3>1. \A h \in Goals : goals'[h].state = "none" => goals[h].state = "none" /\ UNCHANGED logged
      BY <1>0, <1>3, CreateEffect
    <3>2. ASSUME NEW c \in Tabs
          PROVE  /\ tab'[c].pc # "idle" => tab'[c].goal \in Goals
                 /\ tab'[c].pc \in {"shown", "update"} => goals'[tab'[c].goal].state # "none"
      BY <1>0, <2>2, <2>4, <2>5, <2>6 DEF KnownGoals
    <3> QED
      BY <1>0, <3>1, <3>2 DEF KnownGoals
  <2>8. PutsWereVetted' /\ DueGoalsTakeProgress'
    BY <2>2, <2>4, <2>5 DEF GoalInv, PutsWereVetted, DueGoalsTakeProgress
  <2>9. DateKnown'
    BY <2>2, <2>4, <2>5, <2>6 DEF GoalInv, DateKnown
  <2>10. UpToDate'
    BY <2>2, <2>4, <2>5, <2>6 DEF GoalInv, UpToDate
  <2> QED
    BY <2>1, <2>3, <2>7, <2>8, <2>9, <2>10 DEF GoalInv
<1>4. ASSUME NEW b \in Tabs, NEW g \in Goals, GoalGet(b, g) PROVE GoalInv'
  BY <1>0, <1>4, GetEffect, TabMoves DEF GoalTypes
<1>5. ASSUME NEW b \in Tabs, NEW d \in GoalDates, NEW p \in 0..MaxProgress, NEW e \in BOOLEAN,
             GoalPut(b, d, p, e)
      PROVE  GoalInv'
  <2>1. CASE goals[tab[b].goal].state # "stored" \/ RefusedDate(d, goals[tab[b].goal].date)
    BY <1>0, <1>5, <2>1, PutRefused, NoTabFacts, TabMoves DEF GoalTypes
  <2>2. CASE goals[tab[b].goal].state = "stored" /\ ~RefusedDate(d, goals[tab[b].goal].date)
    <3>1. ~tab[b].behind => tab[b].gotProgress = goals[tab[b].goal].progress
      BY <1>0, <1>5, <2>2, PutPassed DEF GoalInv, UpToDate
    <3> QED
      BY <1>0, <1>5, <2>2, <3>1, PutPassed, TabMoves
  <2> QED
    BY <2>1, <2>2
<1>6. ASSUME NEW b \in Tabs, GoalUpdate(b) PROVE GoalInv'
  <2> DEFINE g == tab[b].goal
  <2>1. GoalTypes'
    BY <1>0, <1>6, UpdateEffect DEF GoalTypes
  <2>2. /\ g \in Goals /\ tab[b].pc = "update"
        /\ Stored(tab[b].date) \in vetted[g]
        /\ ~tab[b].behind /\ ~tab[b].enters => tab[b].progress = goals[g].progress
        /\ goals[g].progress = logged[g] \/ g \in stale
    BY <1>0, <1>6, UpdateEffect DEF GoalInv, PutsWereVetted, UpToDate, ProgressKept
  <2>m. \/ tab'[b].pc = "idle"
        \/ /\ tab'[b].pc = "shown" /\ tab'[b].goal = g /\ tab'[b].got = tab[b].date
           /\ tab'[b].gotProgress = tab[b].progress
    <3>1. tab'[b] = NoTab \/ tab'[b] = Shown(g, tab[b].date, tab[b].progress)
      BY <1>0, <1>6, UpdateEffect
    <3> QED
      BY <1>0, <2>2, <3>1, TabFacts, NoTabFacts, ShownFacts
  <2>3. DatesWereVetted'
    BY <1>0, <1>6, <2>2, UpdateEffect DEF DatesWereVetted
  <2>4. ProgressKept'
    BY <1>0, <1>6, <2>2, UpdateEffect DEF GoalInv, ProgressKept
  <2>5. KnownGoals'
    <3>1. \A h \in Goals : /\ goals'[h].state = "none" => goals[h].state = "none" /\ h # g
                           /\ h # g => logged'[h] = logged[h]
      BY <1>0, <1>6, UpdateEffect
    <3>2. ASSUME NEW c \in Tabs
          PROVE  /\ tab'[c].pc # "idle" => tab'[c].goal \in Goals
                 /\ tab'[c].pc \in {"shown", "update"} => goals'[tab'[c].goal].state # "none"
      <4>1. CASE c = b
        BY <1>0, <1>6, <2>2, <2>m, <3>1, <4>1, UpdateEffect
      <4>2. CASE c # b
        BY <1>0, <1>6, <3>1, <4>2, OthersFallBehind DEF KnownGoals
      <4> QED
        BY <4>1, <4>2
    <3> QED
      BY <1>0, <3>1, <3>2 DEF KnownGoals
  <2>6. ASSUME NEW c \in Tabs
        PROVE  /\ tab'[c].pc = "update" => Stored(tab'[c].date) \in vetted'[tab'[c].goal]
               /\ tab'[c].pc = "refused" /\ tab'[c].date = tab'[c].got
                     => tab'[c].moved \/ Stored(tab'[c].got) # tab'[c].got
    <3>1. CASE c = b
      BY <2>m, <3>1
    <3>2. CASE c # b
      BY <1>0, <1>6, <3>2, UpdateEffect, OthersFallBehind
         DEF GoalInv, PutsWereVetted, DueGoalsTakeProgress
    <3> QED
      BY <3>1, <3>2
  <2>8. ASSUME NEW c \in Tabs, tab'[c].pc = "shown", ~tab'[c].moved,
               goals'[tab'[c].goal].state = "stored"
        PROVE  goals'[tab'[c].goal].date = Stored(tab'[c].got)
    <3>1. CASE c = b
      BY <1>0, <1>6, <2>m, <2>8, <3>1, UpdateEffect
    <3>2. CASE c # b
      <4>1. /\ tab[c].pc = "shown" /\ ~tab[c].moved /\ tab[c].goal \in Goals
            /\ tab'[c].goal = tab[c].goal /\ tab'[c].got = tab[c].got
        BY <1>0, <1>6, <2>8, <3>2, OthersFallBehind DEF KnownGoals
      <4>2. goals[tab[c].goal].state = "stored"
        BY <1>0, <1>6, <2>8, <4>1, UpdateEffect
      <4>3. goals'[tab[c].goal].date = goals[tab[c].goal].date
        BY <1>0, <1>6, <2>8, <3>2, <4>1, UpdateEffect, OthersFallBehind
      <4> QED
        BY <1>0, <4>1, <4>2, <4>3 DEF DateKnown
    <3> QED
      BY <3>1, <3>2
  <2>7. ASSUME NEW c \in Tabs, tab'[c].goal \in Goals, ~tab'[c].behind,
               goals'[tab'[c].goal].state = "stored"
        PROVE  /\ tab'[c].pc = "shown" => tab'[c].gotProgress = goals'[tab'[c].goal].progress
               /\ tab'[c].pc = "update" /\ ~tab'[c].enters
                     => tab'[c].progress = goals'[tab'[c].goal].progress
    <3>1. CASE c = b
      BY <1>0, <1>6, <2>m, <3>1, UpdateEffect
    <3>2. CASE c # b
      <4>1. /\ tab[c].goal \in Goals \ {g} /\ ~tab[c].behind
            /\ goals'[tab[c].goal] = goals[tab[c].goal]
        BY <1>0, <1>6, <2>7, <3>2, UpdateEffect, OthersFallBehind
      <4> QED
        BY <1>0, <1>6, <2>7, <3>2, <4>1, OthersFallBehind DEF GoalInv, UpToDate
    <3> QED
      BY <3>1, <3>2
  <2> QED
    BY <2>1, <2>3, <2>4, <2>5, <2>6, <2>7, <2>8
       DEF GoalInv, PutsWereVetted, DateKnown, DueGoalsTakeProgress, UpToDate
<1>7. ASSUME NEW b \in Tabs, GoalUpdateFails(b) PROVE GoalInv'
  <2>1. OnlyTab(b) /\ tab'[b] = NoTab /\ UNCHANGED vetted
    BY <1>0, <1>7, NoTabFacts DEF GoalUpdateFails, OnlyTab, GoalTypes
  <2> QED
    BY <1>0, <2>1, NoTabFacts, TabMoves DEF GoalTypes
<1>8. CASE UNCHANGED goalVars
  BY <1>8 DEF goalVars, GoalInv, GoalTypes, KnownGoals, DatesWereVetted, PutsWereVetted,
              DateKnown, DueGoalsTakeProgress, ProgressKept, UpToDate
<1> QED
  BY <1>1, <1>2, <1>3, <1>4, <1>5, <1>6, <1>7, <1>8 DEF GoalNext

(* The invariant is one of the specification. *)
THEOREM GoalsCorrect == GoalSpec => []GoalInv
  BY InitInv, NextInv, PTL DEF GoalSpec

(* The date of a goal was not in the past when it was accepted for this goal. *)
THEOREM DatesAreVetted == GoalSpec => []DatesWereVetted
<1>1. GoalInv => DatesWereVetted
  BY DEF GoalInv
<1> QED
  BY GoalsCorrect, <1>1, PTL

(* A PUT that sends back the date of its client's last answer is not refused  *)
(* for it, unless another client has changed the date since, or the answer    *)
(* had the date of a POST or PUT with more digits than are stored.            *)
THEOREM ProgressIsTaken == GoalSpec => []DueGoalsTakeProgress
<1>1. GoalInv => DueGoalsTakeProgress
  BY DEF GoalInv
<1> QED
  BY GoalsCorrect, <1>1, PTL

(* The progress of a goal is what a user last entered, unless a client that   *)
(* had not seen the last write has written the goal.                          *)
THEOREM ProgressIsKept == GoalSpec => []ProgressKept
<1>1. GoalInv => ProgressKept
  BY DEF GoalInv
<1> QED
  BY GoalsCorrect, <1>1, PTL

(* Stored dates are whole milliseconds and what clients hold is of its type.  *)
THEOREM GoalsStayValid == GoalSpec => []GoalTypeOK
<1>1. GoalInv => GoalTypeOK
  BY TabFacts DEF GoalInv, GoalTypes, KnownGoals, GoalTypeOK
<1> QED
  BY GoalsCorrect, <1>1, PTL

-----------------------------------------------------------------------------
(* Pages of a sorted list *)

Smaller(a, b) == IF a <= b THEN a ELSE b

(* Min of two numbers. *)
LEMMA MinOfTwo == \A a, b \in Nat : Min({a, b}) = Smaller(a, b)
<1> SUFFICES ASSUME NEW a \in Nat, NEW b \in Nat PROVE Min({a, b}) = Smaller(a, b)
  OBVIOUS
<1> DEFINE P(x) == x \in {a, b} /\ \A y \in {a, b} : x <= y
<1>1. P(Smaller(a, b))
  BY DEF Smaller
<1>2. Min({a, b}) = CHOOSE x \in {a, b} : \A y \in {a, b} : x <= y
  BY DEF Min
<1>3. P(Min({a, b}))
  BY <1>1, <1>2
<1> QED
  BY <1>1, <1>3

(* expense-service does not clamp what the client asks for. *)
LEMMA LimitIsPageSize == Limit = PageSize
  BY ReportsAssumption, MinOfTwo DEF ReportsAssumption, Limit, Smaller

(* how many of a list are later than t *)
NewerIn(list, t) == Cardinality({u \in list : stored[u].date > stored[t].date})

(* A list of transactions that are there. *)
IsList(list) == IsFiniteSet(list) /\ \A t \in list : stored[t].date \in Nat

(* The first k of a list are k of it, or all when there are fewer. *)
LEMMA FirstsCount ==
    ASSUME NEW list, IsList(list), NEW k \in Nat, NEW first \in Firsts(list, k)
    PROVE  /\ first \in SUBSET list /\ IsFiniteSet(first) /\ Cardinality(list) \in Nat
           /\ Cardinality(first) = Smaller(k, Cardinality(list))
           /\ Cardinality(first) \in Nat
<1>1. first \in SUBSET list /\ Cardinality(first) = Min({k, Cardinality(list)})
  BY DEF Firsts
<1>2. IsFiniteSet(first) /\ Cardinality(list) \in Nat /\ Cardinality(first) \in Nat
  BY <1>1, FS_Subset, FS_CardinalityType DEF IsList
<1> QED
  BY <1>1, <1>2, MinOfTwo

(* Without equal dates they are those with fewer than k later ones. *)
LEMMA FirstsAreNewest ==
    ASSUME NEW list, IsList(list), NEW k \in Nat, NEW first \in Firsts(list, k),
           ~ Ties(list), NEW t \in list
    PROVE  t \in first <=> NewerIn(list, t) < k
<1> DEFINE newer == {u \in list : stored[u].date > stored[t].date}
<1>1. newer \in SUBSET list /\ NewerIn(list, t) = Cardinality(newer)
  BY DEF NewerIn
<1>2. IsFiniteSet(newer) /\ Cardinality(newer) \in Nat
  BY <1>1, FS_Subset, FS_CardinalityType DEF IsList
<1>3. /\ first \in SUBSET list /\ IsFiniteSet(first) /\ Cardinality(list) \in Nat
      /\ Cardinality(first) = Smaller(k, Cardinality(list)) /\ Cardinality(first) \in Nat
  BY FirstsCount
<1>4. \A u \in first, w \in list \ first : stored[u].date >= stored[w].date
  BY DEF Firsts
<1>5. \A u, w \in list : u # w => stored[u].date # stored[w].date
  BY DEF Ties
<1>6. CASE t \in first
  <2>1. newer \subseteq first \ {t}
    BY <1>3, <1>4, <1>6 DEF IsList
  <2>2. Cardinality(first \ {t}) = Cardinality(first) - 1 /\ IsFiniteSet(first \ {t})
    BY <1>3, <1>6, FS_RemoveElement, Zenon
  <2>3. Cardinality(newer) <= Cardinality(first \ {t})
    BY <2>1, <2>2, FS_Subset
  <2> QED
    BY <1>1, <1>2, <1>3, <1>6, <2>2, <2>3 DEF Smaller
<1>7. CASE t \notin first
  <2>1. first \subseteq newer
    BY <1>3, <1>4, <1>5, <1>7 DEF IsList
  <2>2. Cardinality(first) <= Cardinality(newer)
    BY <1>2, <2>1, FS_Subset
  <2>3. Cardinality(first) # Cardinality(list)
    BY <1>3, <1>7, FS_Subset DEF IsList
  <2> QED
    BY <1>1, <1>2, <1>3, <1>7, <2>2, <2>3 DEF Smaller
<1> QED
  BY <1>6, <1>7

(* skip and limit: how many transactions a page has, and which when no two  *)
(* have the same date.                                                      *)
LEMMA PageFacts ==
    ASSUME NEW list, IsList(list), NEW skip \in Nat, NEW page \in Pages(list, skip)
    PROVE  /\ page \in SUBSET list /\ IsFiniteSet(page)
           /\ Cardinality(page) \in Nat /\ Cardinality(list) \in Nat
           /\ Smaller(skip, Cardinality(list)) + Cardinality(page)
                 = Smaller(skip + PageSize, Cardinality(list))
           /\ ~ Ties(list) => \A t \in list :
                 t \in page <=> /\ ~ (NewerIn(list, t) < skip)
                                /\ NewerIn(list, t) < skip + PageSize
<1>1. PICK before \in Firsts(list, skip) : page \in Firsts(list \ before, PageSize)
  BY LimitIsPageSize DEF Pages
<1>2. PageSize \in Nat
  BY ReportsAssumption DEF ReportsAssumption
<1>3. /\ before \in SUBSET list /\ IsFiniteSet(before) /\ Cardinality(list) \in Nat
      /\ Cardinality(before) = Smaller(skip, Cardinality(list)) /\ Cardinality(before) \in Nat
  BY FirstsCount
<1>4. list \ before \in SUBSET list /\ IsFiniteSet(list \ before)
  BY FS_Subset DEF IsList
<1>5. IsList(list \ before)
  BY <1>4 DEF IsList
<1>6. /\ page \in SUBSET (list \ before) /\ IsFiniteSet(page)
      /\ Cardinality(list \ before) \in Nat
      /\ Cardinality(page) = Smaller(PageSize, Cardinality(list \ before))
      /\ Cardinality(page) \in Nat
  BY <1>1, <1>2, <1>5, FirstsCount
<1>7. Cardinality(list) = Cardinality(before) + Cardinality(list \ before)
  <2>1. before \cup (list \ before) = list /\ before \cap (list \ before) = {}
    BY <1>3
  <2>2. Cardinality(before \cup (list \ before))
           = Cardinality(before) + Cardinality(list \ before)
                - Cardinality(before \cap (list \ before))
    BY <1>3, <1>4, FS_Union, Zenon
  <2>3. Cardinality(before \cap (list \ before)) = 0
    BY <2>1, FS_EmptySet, Zenon
  <2>4. Cardinality(before \cup (list \ before)) = Cardinality(list)
    BY <2>1, Zenon
  <2> QED
    BY <1>3, <1>6, <2>2, <2>3, <2>4
<1>8. Cardinality(before \cup page) = Cardinality(before) + Cardinality(page)
  <2>1. before \cap page = {}
    BY <1>6
  <2>2. Cardinality(before \cup page)
           = Cardinality(before) + Cardinality(page) - Cardinality(before \cap page)
    BY <1>3, <1>6, FS_Union, Zenon
  <2>3. Cardinality(before \cap page) = 0
    BY <2>1, FS_EmptySet, Zenon
  <2> QED
    BY <1>3, <1>6, <2>2, <2>3
<1>9. Cardinality(before \cup page) = Smaller(skip + PageSize, Cardinality(list))
  BY <1>2, <1>3, <1>6, <1>7, <1>8 DEF Smaller
<1>10. before \cup page \in Firsts(list, skip + PageSize)
  <2>1. \A t \in before \cup page, u \in list \ (before \cup page) :
           stored[t].date >= stored[u].date
    <3>1. \A t \in before, u \in list \ before : stored[t].date >= stored[u].date
      BY DEF Firsts
    <3>2. \A t \in page, u \in (list \ before) \ page : stored[t].date >= stored[u].date
      BY <1>1 DEF Firsts
    <3> QED
      BY <3>1, <3>2
  <2>2. before \cup page \in SUBSET list
    BY <1>3, <1>6
  <2>3. Cardinality(before \cup page) = Min({skip + PageSize, Cardinality(list)})
    BY <1>2, <1>3, <1>9, MinOfTwo
  <2> QED
    BY <2>1, <2>2, <2>3 DEF Firsts
<1>11. ASSUME ~ Ties(list), NEW t \in list
       PROVE  t \in page <=> /\ ~ (NewerIn(list, t) < skip)
                             /\ NewerIn(list, t) < skip + PageSize
  <2>1. t \in before <=> NewerIn(list, t) < skip
    BY <1>11, FirstsAreNewest
  <2>2. t \in before \cup page <=> NewerIn(list, t) < skip + PageSize
    BY <1>2, <1>10, <1>11, FirstsAreNewest
  <2> QED
    BY <1>6, <2>1, <2>2
<1> QED
  BY <1>3, <1>6, <1>8, <1>9, <1>11

-----------------------------------------------------------------------------
(* The invariant of a report *)

Report == [pc : {"start", "lookup", "page", "summed", "answered", "failed"}, budgets : Nat,
           cat : Cats \cup {None}, page : 1..(MaxPages + 1), counted : [Txs -> Nat]]

(* the types, with those of what only the proof reads *)
ReportTypes ==
    /\ stored \in [Txs -> {NoTx} \cup [cat : Cats, date : Dates]]
    /\ named \in Seq(Cats)
    /\ report \in Report
    /\ changes \in 0..MaxChanges
    /\ seen \in [churn : Nat, moved : SUBSET Txs, tied : BOOLEAN, read : Nat]

(* A category is created once, and before its transactions. *)
NamedOnce ==
    /\ IsInjective(named)
    /\ \A t \in Txs : stored[t] # NoTx => stored[t].cat \in Range(named)

(* A page is asked for only up to maxReportPages, and no transaction is on a *)
(* page twice.                                                               *)
PagesBounded ==
    /\ report.pc = "page" => report.page <= MaxPages /\ report.cat # None
    /\ \A t \in Txs : report.counted[t] < report.page

(* the list of a loop, and how many of it are later than t *)
TheList == Listed(report.cat)
Later(t) == NewerIn(TheList, t)

(* a loop during which no transaction changed, and what its pages cover *)
QuietLoop == report.pc \in {"page", "summed"} /\ seen.churn = 0
Covered == (report.page - 1) * PageSize

(* The pages so far are as long as the list allows, and the loop ends at its *)
(* end or after maxReportPages.                                              *)
QuietRead ==
    QuietLoop /\ report.cat # None =>
        /\ seen.read = Smaller(Covered, Cardinality(TheList))
        /\ report.pc = "summed" => Cardinality(TheList) <= Covered \/ report.page = MaxPages + 1

(* Without equal dates the pages so far have the latest of the list. *)
QuietSum ==
    QuietLoop /\ report.cat # None /\ ~ seen.tied =>
        \A t \in Txs : report.counted[t] =
            IF t \in TheList \ Incomes /\ Later(t) < Covered THEN 1 ELSE 0

(* A name that nobody has is one without transactions. *)
QuietNobody ==
    QuietLoop /\ report.cat = None =>
        /\ \A t \in Txs : report.counted[t] = 0
        /\ \A t \in Txs : stored[t] = NoTx

(* The category that was found is in front of all that have transactions. *)
QuietFirst ==
    QuietLoop /\ report.cat # None =>
        \E i \in DOMAIN named :
            /\ named[i] = report.cat
            /\ \A t \in Txs : stored[t] # NoTx =>
                  \E j \in DOMAIN named : i <= j /\ named[j] = stored[t].cat

ReportInv ==
    /\ ReportTypes /\ NamedOnce /\ PagesBounded
    /\ QuietRead /\ QuietSum /\ QuietNobody /\ QuietFirst

-----------------------------------------------------------------------------

(* The list of a category is one that PageFacts is about. *)
LEMMA ListFacts ==
    ASSUME ReportTypes, NEW cat
    PROVE  /\ IsList(Listed(cat)) /\ Listed(cat) \in SUBSET Txs
           /\ Cardinality(Listed(cat)) \in Nat
           /\ \A t \in Txs : NewerIn(Listed(cat), t) \in Nat
<1>1. Listed(cat) \in SUBSET Txs
  BY DEF Listed
<1>2. IsFiniteSet(Listed(cat)) /\ Cardinality(Listed(cat)) \in Nat
  BY <1>1, FS_Subset, FS_CardinalityType, ReportsAssumption DEF ReportsAssumption
<1>3. \A t \in Listed(cat) : stored[t].date \in Nat
  BY ReportsAssumption DEF ReportTypes, Listed, ReportsAssumption
<1>4. ASSUME NEW t \in Txs PROVE NewerIn(Listed(cat), t) \in Nat
  <2> DEFINE newer == {u \in Listed(cat) : stored[u].date > stored[t].date}
  <2>1. newer \in SUBSET Listed(cat)
    OBVIOUS
  <2>2. Cardinality(newer) \in Nat
    BY <1>2, <2>1, FS_Subset, FS_CardinalityType
  <2> QED
    BY <2>2 DEF NewerIn
<1> QED
  BY <1>1, <1>2, <1>3, <1>4 DEF IsList

(* A transaction of the list is behind fewer than all. *)
LEMMA PlaceInList ==
    ASSUME ReportInv, NEW t \in TheList
    PROVE  Later(t) < Cardinality(TheList)
<1> DEFINE newer == {u \in TheList : stored[u].date > stored[t].date}
<1>1. IsList(TheList) /\ Cardinality(TheList) \in Nat
  BY ListFacts DEF ReportInv, TheList
<1>2. newer \in SUBSET TheList /\ Later(t) = Cardinality(newer)
  BY DEF Later, NewerIn
<1>3. t \notin newer
  BY <1>1 DEF IsList
<1>4. /\ Cardinality(newer) <= Cardinality(TheList) /\ Cardinality(newer) # Cardinality(TheList)
      /\ IsFiniteSet(newer)
  BY <1>1, <1>2, <1>3, FS_Subset DEF IsList
<1>5. Cardinality(newer) \in Nat
  BY <1>4, FS_CardinalityType
<1> QED
  BY <1>1, <1>2, <1>4, <1>5

(* What the pages cover is at most what the loop can read. *)
LEMMA CoveredFacts ==
    ASSUME ReportTypes
    PROVE  /\ Covered \in Nat /\ Reach \in Nat /\ Covered <= Reach
           /\ report.page = MaxPages + 1 => Covered = Reach
<1>1. report.page \in 1..(MaxPages + 1) /\ PageSize \in Nat /\ MaxPages \in Nat
  BY ReportsAssumption DEF ReportTypes, Report, ReportsAssumption
<1>2. \A a, b, c \in Nat : a <= b => a * c \in Nat /\ a * c <= c * b
  OBVIOUS
<1>3. report.page - 1 \in Nat /\ report.page - 1 <= MaxPages
  BY <1>1
<1>4. MaxPages * PageSize = PageSize * MaxPages /\ PageSize * MaxPages \in Nat
  BY <1>1
<1> QED
  BY <1>1, <1>2, <1>3, <1>4 DEF Covered, Reach

(* Every initial state satisfies the invariant. *)
LEMMA ReportInitInv == ReportInit => ReportInv
<1> SUFFICES ASSUME ReportInit PROVE ReportInv
  OBVIOUS
<1> USE ReportsAssumption DEF ReportsAssumption
<1>1. named \in Seq(Cats) /\ IsInjective(named) /\ Range(named) \subseteq Cats
  <2>1. CASE named = <<>>
    BY <2>1 DEF IsInjective, Range
  <2>2. CASE \E c \in Cats : named = <<c>>
    BY <2>2 DEF IsInjective, Range
  <2> QED
    BY <2>1, <2>2 DEF ReportInit
<1>2. stored \in [Txs -> {NoTx} \cup [cat : Cats, date : Dates]]
  BY <1>1 DEF ReportInit
<1>3. \A t \in Txs : stored[t] # NoTx => stored[t].cat \in Range(named)
  BY DEF ReportInit
<1>4. report.pc = "start" /\ report \in Report /\ \A t \in Txs : report.counted[t] < report.page
  BY DEF ReportInit, Report, Nothing
<1>5. /\ changes \in 0..MaxChanges
      /\ seen \in [churn : Nat, moved : SUBSET Txs, tied : BOOLEAN, read : Nat]
  BY DEF ReportInit, Unseen
<1> QED
  BY <1>1, <1>2, <1>3, <1>4, <1>5 DEF ReportInv, ReportTypes, NamedOnce, PagesBounded,
       QuietRead, QuietSum, QuietNobody, QuietFirst, QuietLoop

(* Outside of a loop without changes there is nothing more to show. *)
LEMMA NotQuiet ==
    ASSUME ReportTypes', NamedOnce', PagesBounded', ~ QuietLoop'
    PROVE  ReportInv'
  BY DEF ReportInv, QuietRead, QuietSum, QuietNobody, QuietFirst

(* A change to a transaction ends the quiet. *)
LEMMA ChangesInv ==
    ASSUME ReportInv, NEW t \in Txs, NEW n \in {1, 2},
           NEW new \in {NoTx} \cup [cat : Range(named), date : Dates],
           stored' = [stored EXCEPT ![t] = new],
           changes' = changes + n, changes + n <= MaxChanges,
           seen' = [seen EXCEPT !.churn = @ + 1, !.moved = @ \cup {t}],
           UNCHANGED <<named, report>>
    PROVE  ReportInv'
<1> USE ReportsAssumption DEF ReportsAssumption
<1>1. Range(named) \subseteq Cats
  BY DEF ReportInv, ReportTypes, Range
<1>2. stored' \in [Txs -> {NoTx} \cup [cat : Cats, date : Dates]]
  BY <1>1 DEF ReportInv, ReportTypes
<1>3. \A u \in Txs : stored'[u] # NoTx => stored'[u].cat \in Range(named)
  BY DEF ReportInv, ReportTypes, NamedOnce
<1>4. /\ seen' \in [churn : Nat, moved : SUBSET Txs, tied : BOOLEAN, read : Nat]
      /\ seen'.churn # 0 /\ changes' \in 0..MaxChanges
  <2>1. seen \in [churn : Nat, moved : SUBSET Txs, tied : BOOLEAN, read : Nat]
    BY DEF ReportInv, ReportTypes
  <2>2. seen.churn + 1 \in Nat /\ seen.churn + 1 # 0 /\ seen.moved \cup {t} \in SUBSET Txs
    BY <2>1
  <2>3. seen'.churn = seen.churn + 1
    BY <2>1
  <2>4. seen' \in [churn : Nat, moved : SUBSET Txs, tied : BOOLEAN, read : Nat]
    BY <2>1, <2>2
  <2>5. changes' \in 0..MaxChanges
    BY SMTT(30) DEF ReportInv, ReportTypes
  <2> QED
    BY <2>2, <2>3, <2>4, <2>5
<1>5. ReportTypes'
  BY <1>2, <1>4 DEF ReportInv, ReportTypes
<1>6. NamedOnce'
  BY <1>3 DEF ReportInv, NamedOnce, IsInjective, Range
<1>7. PagesBounded'
  BY DEF ReportInv, PagesBounded
<1> QED
  BY <1>4, <1>5, <1>6, <1>7, NotQuiet DEF QuietLoop

(* A new category of the name leaves the order of the others as it is. *)
LEMMA AddCategoryInv ==
    ASSUME ReportInv, NEW c \in Cats, AddCategory(c)
    PROVE  ReportInv'
<1> USE ReportsAssumption DEF ReportsAssumption
<1>1. /\ named' \in Seq(Cats) /\ Len(named') = Len(named) + 1 /\ named'[1] = c
      /\ \A i \in 1..Len(named) : named'[i + 1] = named[i]
  BY DEF AddCategory, ReportInv, ReportTypes
<1>2. \A i \in 1..Len(named) : named[i] # c
  BY DEF AddCategory, Range, ReportInv, ReportTypes
<1>3. DOMAIN named = 1..Len(named) /\ DOMAIN named' = 1..(Len(named) + 1) /\ Len(named) \in Nat
  BY <1>1 DEF ReportInv, ReportTypes
<1>4. \A i \in DOMAIN named : i + 1 \in DOMAIN named' /\ named'[i + 1] = named[i]
  BY <1>1, <1>3
<1>5. \A i \in DOMAIN named' : i = 1 \/ (i - 1 \in DOMAIN named /\ named'[i] = named[i - 1])
  <2> SUFFICES ASSUME NEW i \in DOMAIN named', i # 1
               PROVE  i - 1 \in DOMAIN named /\ named'[i] = named[i - 1]
    OBVIOUS
  <2>1. i - 1 \in 1..Len(named) /\ (i - 1) + 1 = i
    BY <1>3
  <2> QED
    BY <1>1, <1>3, <2>1
<1>6. IsInjective(named)'
  <2> SUFFICES ASSUME NEW a \in DOMAIN named', NEW b \in DOMAIN named', named'[a] = named'[b]
               PROVE  a = b
    BY DEF IsInjective
  <2>1. \A i, j \in DOMAIN named : named[i] = named[j] => i = j
    BY DEF ReportInv, NamedOnce, IsInjective
  <2>2. CASE a = 1 \/ b = 1
    BY <1>1, <1>2, <1>3, <1>5, <2>2
  <2>3. CASE a # 1 /\ b # 1
    <3>1. a - 1 = b - 1
      BY <1>5, <2>1, <2>3
    <3> QED
      BY <1>3, <3>1
  <2> QED
    BY <2>2, <2>3
<1>7. UNCHANGED <<stored, report, seen>> /\ changes' \in 0..MaxChanges
  BY DEF AddCategory, ReportInv, ReportTypes
<1>8. ReportTypes'
  BY <1>1, <1>7 DEF ReportInv, ReportTypes
<1>9. NamedOnce'
  <2>1. Range(named) \subseteq Range(named)'
    BY <1>4 DEF Range
  <2> QED
    BY <1>6, <1>7, <2>1 DEF ReportInv, NamedOnce
<1>10. PagesBounded'
  BY <1>7 DEF ReportInv, PagesBounded
<1>11. TheList' = TheList /\ (QuietLoop' <=> QuietLoop) /\ Covered' = Covered
  BY <1>7 DEF TheList, Listed, QuietLoop, Covered
<1>12. \A t \in Txs : Later(t)' = Later(t)
  BY <1>7, <1>11 DEF Later, NewerIn
<1>13. QuietRead' /\ QuietNobody'
  BY <1>7, <1>11 DEF ReportInv, QuietRead, QuietNobody
<1>14. QuietSum'
  BY <1>7, <1>11, <1>12 DEF ReportInv, QuietSum
<1>15. QuietFirst'
  <2> SUFFICES ASSUME QuietLoop, report.cat # None
               PROVE  \E i \in DOMAIN named' :
                         /\ named'[i] = report.cat
                         /\ \A t \in Txs : stored[t] # NoTx =>
                               \E j \in DOMAIN named' : i <= j /\ named'[j] = stored[t].cat
    BY <1>7, <1>11 DEF QuietFirst
  <2>1. PICK i \in DOMAIN named :
            /\ named[i] = report.cat
            /\ \A t \in Txs : stored[t] # NoTx =>
                  \E j \in DOMAIN named : i <= j /\ named[j] = stored[t].cat
    BY DEF ReportInv, QuietFirst
  <2>2. i + 1 \in DOMAIN named' /\ named'[i + 1] = report.cat
    BY <1>4, <2>1
  <2>3. ASSUME NEW t \in Txs, stored[t] # NoTx
        PROVE  \E j \in DOMAIN named' : i + 1 <= j /\ named'[j] = stored[t].cat
    <3>1. PICK j \in DOMAIN named : i <= j /\ named[j] = stored[t].cat
      BY <2>1, <2>3
    <3>2. j + 1 \in DOMAIN named' /\ named'[j + 1] = stored[t].cat /\ i + 1 <= j + 1
      BY <1>3, <1>4, <3>1
    <3> QED
      BY <3>2
  <2> QED
    BY <2>2, <2>3
<1> QED
  BY <1>8, <1>9, <1>10, <1>13, <1>14, <1>15 DEF ReportInv

(* A loop begins with the newest category of the name, and nothing read. *)
LEMMA FindCategoryInv ==
    ASSUME ReportInv, FindCategory
    PROVE  ReportInv'
<1> USE ReportsAssumption DEF ReportsAssumption
<1>0. ReportTypes /\ NamedOnce
  BY DEF ReportInv
<1>1. UNCHANGED <<stored, named, changes>> /\ seen' = Unseen
  BY DEF FindCategory
<1>2. seen' \in [churn : Nat, moved : SUBSET Txs, tied : BOOLEAN, read : Nat]
  BY <1>1 DEF Unseen
<1>3. Nothing \in [Txs -> Nat] /\ \A t \in Txs : Nothing[t] = 0
  BY DEF Nothing
<1>4. NamedOnce'
  BY <1>0, <1>1 DEF NamedOnce, IsInjective, Range
<1>5. CASE named = <<>>
  <2>1. report' = [report EXCEPT !.pc = "summed", !.cat = None, !.counted = Nothing]
    BY <1>5 DEF FindCategory
  <2>2. /\ report' \in Report /\ report'.pc = "summed" /\ report'.cat = None
        /\ report'.counted = Nothing /\ report'.page \in 1..(MaxPages + 1)
    BY <1>0, <1>3, <2>1 DEF ReportTypes, Report
  <2>3. ReportTypes'
    BY <1>0, <1>1, <1>2, <2>2 DEF ReportTypes
  <2>4. PagesBounded'
    BY <1>3, <2>2 DEF PagesBounded
  <2>5. \A t \in Txs : stored[t] = NoTx
    BY <1>0, <1>5 DEF NamedOnce, Range
  <2>6. QuietNobody'
    BY <1>1, <1>3, <2>2, <2>5 DEF QuietNobody
  <2> QED
    BY <1>4, <2>2, <2>3, <2>4, <2>6 DEF ReportInv, QuietRead, QuietSum, QuietFirst
<1>6. CASE named # <<>>
  <2>1. report' = [report EXCEPT !.pc = "page", !.cat = Found, !.page = 1, !.counted = Nothing]
    BY <1>6 DEF FindCategory
  <2>2. Found = named[1] /\ Found \in Cats /\ 1 \in DOMAIN named
    BY <1>0, <1>6 DEF Found, ReportTypes
  <2>3. /\ report' \in Report /\ report'.pc = "page" /\ report'.cat = Found
        /\ report'.counted = Nothing /\ report'.page = 1
    <3>1. report \in Report /\ 1 \in 1..(MaxPages + 1) /\ Found \in Cats \cup {None}
      BY <1>0, <2>2 DEF ReportTypes
    <3> QED
      BY <1>3, <2>1, <3>1 DEF Report
  <2>4. ReportTypes'
    BY <1>0, <1>1, <1>2, <2>3 DEF ReportTypes
  <2>5. PagesBounded'
    BY <1>3, <2>2, <2>3 DEF PagesBounded
  <2>6. /\ Cardinality(TheList') \in Nat /\ TheList' \in SUBSET Txs
        /\ \A t \in Txs : Later(t)' \in Nat
    <3>1. TheList' = Listed(Found)
      BY <1>1, <2>3 DEF TheList, Listed
    <3>2. \A t \in Txs : Later(t)' = NewerIn(Listed(Found), t)
      BY <1>1, <3>1 DEF Later, NewerIn
    <3> QED
      BY <1>0, <3>1, <3>2, ListFacts
  <2>7. Covered' = 0
    BY <2>3 DEF Covered
  <2>8. QuietRead'
    BY <1>1, <2>3, <2>6, <2>7 DEF QuietRead, Smaller, Unseen
  <2>9. QuietSum'
    <3>1. \A t \in Txs : ~ (Later(t)' < Covered')
      BY <2>6, <2>7
    <3> QED
      BY <1>3, <2>3, <3>1 DEF QuietSum
  <2>10. QuietFirst'
    <3>1. \A t \in Txs : stored[t] # NoTx =>
             \E j \in DOMAIN named : 1 <= j /\ named[j] = stored[t].cat
      BY <1>0 DEF NamedOnce, Range, ReportTypes
    <3> QED
      BY <1>1, <2>2, <2>3, <3>1 DEF QuietFirst
  <2> QED
    BY <1>4, <2>2, <2>3, <2>4, <2>5, <2>8, <2>9, <2>10 DEF ReportInv, QuietNobody
<1> QED
  BY <1>5, <1>6

(* What one page does: it has those that come next in the list, and is added *)
(* to the sum but for the incomes.                                           *)
PageEffect(page) ==
    /\ page \in SUBSET TheList /\ Cardinality(page) \in Nat
    /\ Smaller(Covered, Cardinality(TheList)) + Cardinality(page)
          = Smaller(Covered + PageSize, Cardinality(TheList))
    /\ ~ Ties(TheList) => \A t \in TheList :
          t \in page <=> ~ (Later(t) < Covered) /\ Later(t) < Covered + PageSize
    /\ report' \in Report /\ report'.cat = report.cat /\ report'.page = report.page + 1
    /\ report'.counted = Sum(report.counted, page)
    /\ report'.pc = IF IsLast(page) THEN "summed" ELSE "page"
    /\ seen' \in [churn : Nat, moved : SUBSET Txs, tied : BOOLEAN, read : Nat]
    /\ seen'.churn = seen.churn /\ seen'.moved = seen.moved
    /\ seen'.read = seen.read + Cardinality(page)
    /\ ~ seen'.tied => ~ seen.tied /\ ~ Ties(TheList)

LEMMA PageHasEffect ==
    ASSUME ReportInv, GetPage
    PROVE  \E page : PageEffect(page)
<1> USE ReportsAssumption DEF ReportsAssumption
<1>0. ReportTypes /\ NamedOnce /\ PagesBounded
  BY DEF ReportInv
<1>1. PICK page \in Pages(TheList, Skip(report.page)) :
         /\ report' = IF IsLast(page)
                      THEN [NextPage(page) EXCEPT !.pc = "summed"]
                      ELSE NextPage(page)
         /\ seen' = [seen EXCEPT !.read = @ + Cardinality(page), !.tied = @ \/ Ties(TheList)]
  BY DEF GetPage, TheList
<1>2. UNCHANGED <<stored, named, changes>> /\ report.pc = "page"
  BY DEF GetPage
<1>3. /\ report.page \in 1..MaxPages /\ report.cat # None /\ report.counted \in [Txs -> Nat]
      /\ report \in Report
  BY <1>0, <1>2 DEF ReportTypes, Report, PagesBounded
<1>4. Skip(report.page) = Covered /\ Covered \in Nat
  BY <1>3, LimitIsPageSize DEF Skip, Covered
<1>5. /\ IsList(TheList) /\ TheList \in SUBSET Txs /\ Cardinality(TheList) \in Nat
      /\ \A t \in Txs : Later(t) \in Nat
  BY <1>0, ListFacts DEF TheList, Later
<1>6. /\ page \in SUBSET TheList /\ Cardinality(page) \in Nat
      /\ Smaller(Covered, Cardinality(TheList)) + Cardinality(page)
            = Smaller(Covered + PageSize, Cardinality(TheList))
      /\ ~ Ties(TheList) => \A t \in TheList :
            t \in page <=> ~ (Later(t) < Covered) /\ Later(t) < Covered + PageSize
  BY <1>1, <1>4, <1>5, PageFacts DEF Later
<1>7. /\ report' \in Report /\ report'.cat = report.cat /\ report'.page = report.page + 1
      /\ report'.counted = Sum(report.counted, page)
      /\ report'.pc = IF IsLast(page) THEN "summed" ELSE "page"
  <2>1. Sum(report.counted, page) \in [Txs -> Nat]
    BY <1>3 DEF Sum
  <2>2. report.page + 1 \in 1..(MaxPages + 1)
    BY <1>3
  <2>3. /\ NextPage(page) \in Report /\ NextPage(page).cat = report.cat
        /\ NextPage(page).page = report.page + 1
        /\ NextPage(page).counted = Sum(report.counted, page) /\ NextPage(page).pc = "page"
    BY <1>2, <1>3, <2>1, <2>2 DEF NextPage, Report
  <2>4. CASE IsLast(page)
    BY <1>1, <2>3, <2>4 DEF Report
  <2>5. CASE ~ IsLast(page)
    BY <1>1, <2>3, <2>5
  <2> QED
    BY <2>4, <2>5
<1>8. /\ seen' \in [churn : Nat, moved : SUBSET Txs, tied : BOOLEAN, read : Nat]
      /\ seen'.churn = seen.churn /\ seen'.moved = seen.moved
      /\ seen'.read = seen.read + Cardinality(page)
      /\ ~ seen'.tied => ~ seen.tied /\ ~ Ties(TheList)
  <2>1. seen \in [churn : Nat, moved : SUBSET Txs, tied : BOOLEAN, read : Nat]
    BY <1>0 DEF ReportTypes
  <2>2. seen.read + Cardinality(page) \in Nat
    BY <1>6, <2>1
  <2>3. (seen.tied \/ Ties(TheList)) \in BOOLEAN
    OBVIOUS
  <2>4. seen' \in [churn : Nat, moved : SUBSET Txs, tied : BOOLEAN, read : Nat]
    BY <1>1, <2>1, <2>2, <2>3
  <2>5. /\ seen'.churn = seen.churn /\ seen'.moved = seen.moved
        /\ seen'.read = seen.read + Cardinality(page)
    BY <1>1, <2>1
  <2>6. seen'.tied = (seen.tied \/ Ties(TheList))
    BY <1>1, <2>1
  <2> QED
    BY <2>4, <2>5, <2>6
<1> QED
  BY <1>6, <1>7, <1>8 DEF PageEffect

(* A page adds to a quiet loop what comes next in the list. *)
LEMMA GetPageInv ==
    ASSUME ReportInv, GetPage
    PROVE  ReportInv'
<1> USE ReportsAssumption DEF ReportsAssumption
<1>0. ReportTypes /\ NamedOnce /\ PagesBounded
  BY DEF ReportInv
<1>1. PICK page : PageEffect(page)
  BY PageHasEffect
<1>2. UNCHANGED <<stored, named, changes>> /\ report.pc = "page"
  BY DEF GetPage
<1>3. /\ report.page \in 1..MaxPages /\ report.cat # None /\ report.counted \in [Txs -> Nat]
      /\ report \in Report
  BY <1>0, <1>2 DEF ReportTypes, Report, PagesBounded
<1>4. Covered \in Nat
  BY <1>0, CoveredFacts
<1>5. /\ IsList(TheList) /\ TheList \in SUBSET Txs /\ Cardinality(TheList) \in Nat
      /\ \A t \in Txs : Later(t) \in Nat
  BY <1>0, ListFacts DEF TheList, Later
<1>6. /\ page \in SUBSET TheList /\ Cardinality(page) \in Nat
      /\ Smaller(Covered, Cardinality(TheList)) + Cardinality(page)
            = Smaller(Covered + PageSize, Cardinality(TheList))
      /\ ~ Ties(TheList) => \A t \in TheList :
            t \in page <=> ~ (Later(t) < Covered) /\ Later(t) < Covered + PageSize
  BY <1>1 DEF PageEffect
<1>7. /\ report' \in Report /\ report'.cat = report.cat /\ report'.page = report.page + 1
      /\ report'.counted = Sum(report.counted, page)
      /\ report'.pc = IF IsLast(page) THEN "summed" ELSE "page"
  BY <1>1 DEF PageEffect
<1>8. /\ seen' \in [churn : Nat, moved : SUBSET Txs, tied : BOOLEAN, read : Nat]
      /\ seen'.churn = seen.churn /\ seen'.read = seen.read + Cardinality(page)
      /\ ~ seen'.tied => ~ seen.tied /\ ~ Ties(TheList)
  BY <1>1 DEF PageEffect
<1>9. ReportTypes'
  BY <1>0, <1>2, <1>7, <1>8 DEF ReportTypes
<1>10. NamedOnce'
  BY <1>0, <1>2 DEF NamedOnce, IsInjective, Range
<1>11. \A t \in Txs : report'.counted[t] =
          report.counted[t] + IF t \in page \ Incomes THEN 1 ELSE 0
  BY <1>7 DEF Sum
<1>12. PagesBounded'
  <2>1. \A t \in Txs : report'.counted[t] < report'.page
    BY <1>0, <1>3, <1>7, <1>11 DEF PagesBounded
  <2>2. report'.pc = "page" => report'.page <= MaxPages
    BY <1>3, <1>7 DEF IsLast
  <2> QED
    BY <1>3, <1>7, <2>1, <2>2 DEF PagesBounded
<1>13. Covered' = Covered + PageSize
  BY <1>3, <1>7 DEF Covered
<1>14. TheList' = TheList
  BY <1>2, <1>7 DEF TheList, Listed
<1>15. \A t \in Txs : Later(t)' = Later(t)
  BY <1>2, <1>14 DEF Later, NewerIn
<1>16. QuietLoop' => QuietLoop
  BY <1>2, <1>8 DEF QuietLoop
<1>17. QuietRead'
  <2> SUFFICES ASSUME QuietLoop'
               PROVE  /\ seen'.read = Smaller(Covered', Cardinality(TheList'))
                      /\ report'.pc = "summed" =>
                            Cardinality(TheList') <= Covered' \/ report'.page = MaxPages + 1
    BY DEF QuietRead
  <2>1. seen.read = Smaller(Covered, Cardinality(TheList))
    BY <1>3, <1>16 DEF ReportInv, QuietRead
  <2>2. seen'.read = Smaller(Covered', Cardinality(TheList'))
    BY <1>6, <1>8, <1>13, <1>14, <2>1
  <2>3. ASSUME report'.pc = "summed", report'.page # MaxPages + 1
        PROVE  Cardinality(TheList) <= Covered + PageSize
    <3>1. Cardinality(page) < PageSize
      BY <1>3, <1>7, <2>3 DEF IsLast
    <3> QED
      BY <1>4, <1>5, <1>6, <3>1 DEF Smaller
  <2> QED
    BY <1>13, <1>14, <2>2, <2>3
<1>18. QuietSum'
  <2> SUFFICES ASSUME QuietLoop', ~ seen'.tied, NEW t \in Txs
               PROVE  report'.counted[t] =
                         IF t \in TheList' \ Incomes /\ Later(t)' < Covered' THEN 1 ELSE 0
    BY DEF QuietSum
  <2>1. report.counted[t] = IF t \in TheList \ Incomes /\ Later(t) < Covered THEN 1 ELSE 0
    BY <1>3, <1>8, <1>16 DEF ReportInv, QuietSum
  <2>2. t \in TheList => (t \in page <=> ~ (Later(t) < Covered) /\ Later(t) < Covered + PageSize)
    BY <1>6, <1>8
  <2>3. (t \in page => t \in TheList) /\ Later(t) \in Nat
    BY <1>5, <1>6
  <2> QED
    BY <1>4, <1>11, <1>13, <1>14, <1>15, <2>1, <2>2, <2>3
<1>19. QuietFirst'
  BY <1>2, <1>3, <1>7, <1>16 DEF ReportInv, QuietFirst
<1> QED
  BY <1>3, <1>7, <1>9, <1>10, <1>12, <1>17, <1>18, <1>19 DEF ReportInv, QuietNobody

(* Every step preserves the invariant. *)
LEMMA ReportNextInv == ReportInv /\ [ReportNext]_reportVars => ReportInv'
<1> SUFFICES ASSUME ReportInv, [ReportNext]_reportVars PROVE ReportInv'
  OBVIOUS
<1> USE ReportsAssumption DEF ReportsAssumption
<1>0. ReportTypes /\ NamedOnce /\ PagesBounded
  BY DEF ReportInv
<1>a. changes \in Nat
  BY <1>0 DEF ReportTypes
<1>1. ASSUME NEW t \in Txs, RemoveTx(t) PROVE ReportInv'
  <2>1. /\ stored' = [stored EXCEPT ![t] = NoTx] /\ changes' = changes + 1
        /\ changes + 1 <= MaxChanges /\ UNCHANGED <<named, report>>
        /\ seen' = [seen EXCEPT !.churn = @ + 1, !.moved = @ \cup {t}]
    BY <1>1, <1>a DEF RemoveTx, Changed
  <2> QED
    BY <2>1, ChangesInv
<1>2. ASSUME NEW t \in Txs, NEW c \in Range(named), NEW d \in Dates, InsertTx(t, c, d)
      PROVE  ReportInv'
  <2>1. /\ stored' = [stored EXCEPT ![t] = [cat |-> c, date |-> d]] /\ changes' = changes + 1
        /\ changes + 1 <= MaxChanges /\ UNCHANGED <<named, report>>
        /\ seen' = [seen EXCEPT !.churn = @ + 1, !.moved = @ \cup {t}]
    BY <1>2, <1>a DEF InsertTx, Changed
  <2> QED
    BY <2>1, ChangesInv
<1>3. ASSUME NEW t \in Txs, NEW c \in Range(named), NEW d \in Dates, MoveTx(t, c, d)
      PROVE  ReportInv'
  <2>1. /\ stored' = [stored EXCEPT ![t] = [cat |-> c, date |-> d]] /\ changes' = changes + 2
        /\ changes + 2 <= MaxChanges /\ UNCHANGED <<named, report>>
        /\ seen' = [seen EXCEPT !.churn = @ + 1, !.moved = @ \cup {t}]
    BY <1>3, <1>a DEF MoveTx
  <2> QED
    BY <2>1, ChangesInv
<1>4. ASSUME NEW c \in Cats, AddCategory(c) PROVE ReportInv'
  BY <1>4, AddCategoryInv
<1>5. CASE RangeBudgets
  <2>1. UNCHANGED <<stored, named, changes, seen>>
    BY <1>5 DEF RangeBudgets
  <2>2. /\ report' \in Report /\ report'.pc \in {"lookup", "answered"}
        /\ report'.counted = report.counted /\ report'.page = report.page
    <3>1. report \in Report /\ (report.budgets # 0 => report.budgets - 1 \in Nat)
      BY <1>0 DEF ReportTypes, Report
    <3>2. CASE report.budgets = 0
      BY <1>5, <3>1, <3>2 DEF RangeBudgets, Report
    <3>3. CASE report.budgets # 0
      BY <1>5, <3>1, <3>3 DEF RangeBudgets, NextBudget, Report
    <3> QED
      BY <3>2, <3>3
  <2>3. ReportTypes' /\ NamedOnce' /\ PagesBounded'
    BY <1>0, <2>1, <2>2 DEF ReportTypes, NamedOnce, PagesBounded, IsInjective, Range
  <2> QED
    BY <2>2, <2>3, NotQuiet DEF QuietLoop
<1>6. CASE FindCategory
  BY <1>6, FindCategoryInv
<1>7. CASE GetPage
  BY <1>7, GetPageInv
<1>8. CASE SummaryFails
  <2>1. UNCHANGED <<stored, named, changes, seen>>
    BY <1>8 DEF SummaryFails
  <2>2. /\ report' \in Report /\ report'.pc = "failed"
        /\ report'.counted = Nothing /\ report'.page = report.page
    BY <1>0, <1>8 DEF SummaryFails, ReportTypes, Report, Nothing
  <2>3. ReportTypes' /\ NamedOnce'
    BY <1>0, <2>1, <2>2 DEF ReportTypes, NamedOnce, IsInjective, Range
  <2>4. PagesBounded'
    BY <1>0, <2>2 DEF PagesBounded, Nothing, ReportTypes, Report
  <2> QED
    BY <2>2, <2>3, <2>4, NotQuiet DEF QuietLoop
<1>9. CASE UNCHANGED reportVars
  BY <1>9 DEF reportVars, ReportInv, ReportTypes, NamedOnce, PagesBounded, QuietRead, QuietSum,
       QuietNobody, QuietFirst, QuietLoop, Covered, TheList, Listed, Later, NewerIn,
       IsInjective, Range
<1> QED
  BY <1>1, <1>2, <1>3, <1>4, <1>5, <1>6, <1>7, <1>8, <1>9 DEF ReportNext, SummarySteps

(* The invariant is one of the specification. *)
THEOREM ReportsCorrect == ReportSpec => []ReportInv
  BY ReportInitInv, ReportNextInv, PTL DEF ReportSpec

(* Even with equal dates a loop without changes reads as many transactions   *)
(* as there are, up to maxReportPages pages.                                 *)
THEOREM QuietLoopsReadAll == ReportSpec => []QuietLoopReadsAll
<1>1. ReportInv => QuietLoopReadsAll
  <2> SUFFICES ASSUME ReportInv, Quiet, report.cat # None
               PROVE  seen.read = Min({Cardinality(TheList), Reach})
    BY DEF QuietLoopReadsAll, TheList
  <2>1. /\ seen.read = Smaller(Covered, Cardinality(TheList))
        /\ Cardinality(TheList) <= Covered \/ report.page = MaxPages + 1
    BY DEF ReportInv, QuietRead, Quiet, Summed, QuietLoop
  <2>2. Cardinality(TheList) \in Nat
    BY ListFacts DEF ReportInv, TheList
  <2>3. Covered \in Nat /\ Reach \in Nat /\ Covered <= Reach
        /\ (report.page = MaxPages + 1 => Covered = Reach)
    BY CoveredFacts DEF ReportInv
  <2>4. seen.read = Smaller(Cardinality(TheList), Reach)
    BY <2>1, <2>2, <2>3 DEF Smaller
  <2> QED
    BY <2>2, <2>3, <2>4, MinOfTwo
<1> QED
  BY ReportsCorrect, <1>1, PTL

(* When nothing changes during the loop and no two dates are equal, the sum  *)
(* has each expense of the newest category of the name exactly once, up to   *)
(* maxReportPages pages of the latest, and nothing else.                     *)
THEOREM QuietSumsAreExact == ReportSpec => []QuietSumIsExact
<1>1. ReportInv => QuietSumIsExact
  <2> SUFFICES ASSUME ReportInv, Quiet, ~ seen.tied, NEW t \in Txs
               PROVE  /\ report.counted[t] =
                            IF /\ t \notin Incomes /\ stored[t] # NoTx
                               /\ stored[t].cat = report.cat /\ Newer(t) < Reach
                            THEN 1 ELSE 0
                      /\ stored[t] # NoTx => Index(report.cat) <= Index(stored[t].cat)
    BY DEF QuietSumIsExact
  <2>0. QuietLoop /\ report.pc = "summed"
    BY DEF Quiet, Summed, QuietLoop
  <2>1. CASE report.cat = None
    BY <2>0, <2>1 DEF ReportInv, QuietNobody
  <2>2. CASE report.cat # None
    <3>1. t \in TheList <=> stored[t] # NoTx /\ stored[t].cat = report.cat
      BY DEF TheList, Listed
    <3>2. report.counted[t] = IF t \in TheList \ Incomes /\ Later(t) < Covered THEN 1 ELSE 0
      BY <2>0, <2>2 DEF ReportInv, QuietSum
    <3>3. t \in TheList => Newer(t) = Later(t)
      BY <3>1 DEF Newer, Later, NewerIn, TheList
    <3>4. t \in TheList => (Later(t) < Covered <=> Later(t) < Reach)
      <4> SUFFICES ASSUME t \in TheList PROVE Later(t) < Covered <=> Later(t) < Reach
        OBVIOUS
      <4>1. Cardinality(TheList) <= Covered \/ report.page = MaxPages + 1
        BY <2>0, <2>2 DEF ReportInv, QuietRead
      <4>2. Cardinality(TheList) \in Nat /\ IsFiniteSet(TheList) /\ Later(t) \in Nat
        BY ListFacts DEF ReportInv, TheList, Later, IsList
      <4>3. Covered \in Nat /\ Reach \in Nat /\ Covered <= Reach
            /\ (report.page = MaxPages + 1 => Covered = Reach)
        BY CoveredFacts DEF ReportInv
      <4>4. Later(t) < Cardinality(TheList)
        BY PlaceInList
      <4> QED
        BY <4>1, <4>2, <4>3, <4>4
    <3>5. ASSUME stored[t] # NoTx PROVE Index(report.cat) <= Index(stored[t].cat)
      <4>1. PICK i \in DOMAIN named :
               /\ named[i] = report.cat
               /\ \A u \in Txs : stored[u] # NoTx =>
                     \E j \in DOMAIN named : i <= j /\ named[j] = stored[u].cat
        BY <2>0, <2>2 DEF ReportInv, QuietFirst
      <4>2. PICK j \in DOMAIN named : i <= j /\ named[j] = stored[t].cat
        BY <3>5, <4>1
      <4>3. \A a, b \in DOMAIN named : named[a] = named[b] => a = b
        BY DEF ReportInv, NamedOnce, IsInjective
      <4>4. Index(report.cat) = i
        BY <4>1, <4>3 DEF Index
      <4>5. Index(stored[t].cat) = j
        BY <4>2, <4>3 DEF Index
      <4> QED
        BY <4>2, <4>4, <4>5
    <3> QED
      BY <3>1, <3>2, <3>3, <3>4, <3>5
  <2> QED
    BY <2>1, <2>2
<1> QED
  BY ReportsCorrect, <1>1, PTL

-----------------------------------------------------------------------------
(* A list that changes under the loop *)

(* The loop is past the place of t in the list. *)
Passed(t) ==
    \/ report.pc = "summed" /\ report.page <= MaxPages
    \/ Later(t) < Covered

(* What is wrong with t so far, if nothing changes any more: a transaction  *)
(* that the loop has not come to yet and has counted will be counted again. *)
Due(t) ==
    LET times == report.counted[t]
    IN  IF ~ Passed(t) THEN 1..times ELSE IF times = 0 THEN {0} ELSE 1..(times - 1)

Owed == {slip \in Steady \X (0..MaxPages) : slip[2] \in Due(slip[1])}

InLoop == report.pc \in {"page", "summed"} /\ ~ seen.tied

(* A page with two transactions of one date would have shown it. *)
SteadyApart ==
    InLoop /\ report.page > 1 =>
        \A t, u \in Steady : t # u => stored[t].date # stored[u].date

OwedWithinChurn == InLoop => Cardinality(Owed) <= seen.churn

(* Only a name that nobody has is summed up without a page. *)
EndsAfterAPage == report.pc = "summed" /\ report.cat # None => report.page > 1

SlipInv == SteadyApart /\ EndsAfterAPage /\ OwedWithinChurn

(* What is owed can be counted. *)
LEMMA OwedFacts ==
    ASSUME ReportInv
    PROVE  /\ Steady \in SUBSET TheList /\ TheList \in SUBSET Txs
           /\ IsFiniteSet(Owed) /\ Cardinality(Owed) \in Nat
           /\ \A t \in Steady : t \in Txs /\ Later(t) \in Nat /\ report.counted[t] \in 0..MaxPages
<1>1. ReportTypes /\ PagesBounded
  BY DEF ReportInv
<1>2. Steady \in SUBSET TheList /\ TheList \in SUBSET Txs
  BY <1>1, ListFacts DEF Steady, TheList
<1>3. \A t \in Txs : Later(t) \in Nat
  BY <1>1, ListFacts DEF Later, TheList
<1>4. \A t \in Txs : report.counted[t] \in 0..MaxPages
  BY <1>1, ReportsAssumption DEF ReportTypes, Report, PagesBounded, ReportsAssumption
<1>5. IsFiniteSet(Steady)
  BY <1>2, FS_Subset, ReportsAssumption DEF ReportsAssumption
<1>6. IsFiniteSet(0..MaxPages)
  <2>1. 0 \in Int /\ MaxPages \in Int
    BY ReportsAssumption DEF ReportsAssumption
  <2> QED
    BY <2>1, FS_Interval, Zenon
<1>7. IsFiniteSet(Steady \X (0..MaxPages))
  BY <1>5, <1>6, FS_Product, Zenon
<1>8. Owed \in SUBSET (Steady \X (0..MaxPages))
  BY DEF Owed
<1>9. IsFiniteSet(Owed)
  BY <1>7, <1>8, FS_Subset, Zenon
<1>10. Cardinality(Owed) \in Nat
  BY <1>9, FS_CardinalityType, Zenon
<1> QED
  BY <1>2, <1>3, <1>4, <1>9, <1>10

(* u is in front of t in the list. *)
Ahead(u, t) == u \in TheList /\ stored[u].date > stored[t].date

(* A change to one transaction, of whatever kind. *)
OneChange(t, new) ==
    /\ stored' = [stored EXCEPT ![t] = new]
    /\ seen' = [seen EXCEPT !.churn = @ + 1, !.moved = @ \cup {t}]
    /\ UNCHANGED <<named, report>>

(* What is steady after a change was so before, and has its date. *)
LEMMA SteadyShrinks ==
    ASSUME ReportInv, NEW t \in Txs, NEW new, OneChange(t, new)
    PROVE  /\ \A u \in Txs \ {t} : stored'[u] = stored[u] /\ (u \in TheList' <=> u \in TheList)
           /\ \A u \in Steady' : u \in Steady /\ u # t /\ u \in Txs
<1>1. stored \in [Txs -> {NoTx} \cup [cat : Cats, date : Dates]]
  BY DEF ReportInv, ReportTypes
<1>2. \A u \in Txs \ {t} : stored'[u] = stored[u]
  BY <1>1 DEF OneChange
<1>3. \A u \in Txs \ {t} : u \in TheList' <=> u \in TheList
  BY <1>2 DEF OneChange, TheList, Listed
<1>4. seen'.moved = seen.moved \cup {t}
  BY DEF OneChange, ReportInv, ReportTypes
<1>5. ASSUME NEW u \in Steady' PROVE u \in Steady /\ u # t /\ u \in Txs
  <2>1. u \in TheList' /\ u \notin Incomes /\ u \notin seen.moved /\ u # t
    BY <1>4, <1>5 DEF Steady, TheList
  <2>2. u \in Txs
    BY <2>1 DEF TheList, Listed
  <2>3. u \in TheList
    BY <1>3, <2>1, <2>2
  <2> QED
    BY <2>1, <2>2, <2>3 DEF Steady, TheList
<1> QED
  BY <1>2, <1>3, <1>5

(* It moves by one place, or not at all, by whether the changed transaction *)
(* was in front of it and is now.                                           *)
LEMMA PlaceMoves ==
    ASSUME ReportInv, NEW t \in Txs, NEW new, OneChange(t, new), NEW u \in Steady'
    PROVE  /\ Later(u) \in Nat
           /\ (Ahead(t, u) <=> Ahead(t, u)') => Later(u)' = Later(u)
           /\ ~ Ahead(t, u) /\ Ahead(t, u)' => Later(u)' = Later(u) + 1
           /\ Ahead(t, u) /\ ~ Ahead(t, u)' => Later(u) = Later(u)' + 1 /\ Later(u)' \in Nat
<1> DEFINE before == {w \in TheList : stored[w].date > stored[u].date}
           after == {w \in TheList' : stored'[w].date > stored[u].date}
<1>1. u \in Steady /\ u # t /\ u \in Txs /\ stored'[u] = stored[u]
  BY SteadyShrinks
<1>2. Later(u) = Cardinality(before) /\ Later(u)' = Cardinality(after)
  BY <1>1 DEF Later, NewerIn
<1>3. (Ahead(t, u) <=> t \in before) /\ (Ahead(t, u)' <=> t \in after)
  BY <1>1 DEF Ahead
<1>4. \A w \in Txs \ {t} : w \in before <=> w \in after
  BY SteadyShrinks
<1>5. before \in SUBSET Txs /\ after \in SUBSET Txs
  BY DEF TheList, Listed
<1>6. IsFiniteSet(before) /\ IsFiniteSet(after)
  BY <1>5, FS_Subset, ReportsAssumption DEF ReportsAssumption
<1>7. Cardinality(before) \in Nat /\ Cardinality(after) \in Nat
  BY <1>6, FS_CardinalityType
<1> HIDE DEF before, after
<1>8. CASE t \in before <=> t \in after
  <2>1. before = after
    BY <1>4, <1>5, <1>8
  <2> QED
    BY <1>2, <1>3, <1>7, <1>8, <2>1
<1>9. CASE t \notin before /\ t \in after
  <2>1. after = before \cup {t}
    BY <1>4, <1>5, <1>9
  <2>2. Cardinality(before \cup {t}) = Cardinality(before) + 1
    BY <1>6, <1>9, FS_AddElement, Zenon
  <2> QED
    BY <1>2, <1>3, <1>7, <1>9, <2>1, <2>2
<1>10. CASE t \in before /\ t \notin after
  <2>1. before = after \cup {t}
    BY <1>4, <1>5, <1>10
  <2>2. Cardinality(after \cup {t}) = Cardinality(after) + 1
    BY <1>6, <1>10, FS_AddElement, Zenon
  <2> QED
    BY <1>2, <1>3, <1>7, <1>10, <2>1, <2>2
<1> QED
  BY <1>8, <1>9, <1>10

(* The later of two steady transactions is in front. *)
LEMMA PlacesDiffer ==
    ASSUME ReportInv, NEW u \in Steady, NEW v \in Steady, stored[u].date > stored[v].date
    PROVE  Later(u) < Later(v)
<1> DEFINE A == {w \in TheList : stored[w].date > stored[u].date}
           B == {w \in TheList : stored[w].date > stored[v].date}
<1>1. Later(u) = Cardinality(A) /\ Later(v) = Cardinality(B)
  BY DEF Later, NewerIn
<1>2. IsList(TheList) /\ u \in TheList /\ v \in TheList
  BY ListFacts DEF ReportInv, TheList, Steady
<1>3. \A w \in TheList : stored[w].date \in Nat
  BY <1>2 DEF IsList
<1>4. A \in SUBSET B /\ u \in B /\ u \notin A
  BY <1>2, <1>3
<1>5. B \in SUBSET TheList
  OBVIOUS
<1>6. IsFiniteSet(B)
  BY <1>2, <1>5, FS_Subset DEF IsList
<1> HIDE DEF A, B
<1>7. /\ IsFiniteSet(A) /\ Cardinality(A) <= Cardinality(B)
      /\ Cardinality(A) = Cardinality(B) => A = B
  BY <1>4, <1>6, FS_Subset
<1>8. Cardinality(A) \in Nat /\ Cardinality(B) \in Nat
  BY <1>6, <1>7, FS_CardinalityType
<1> QED
  BY <1>1, <1>4, <1>7, <1>8

(* So a change carries at most one of them over the end of what is read. *)
LEMMA OneCrosses ==
    ASSUME ReportInv, ReportTypes', NEW t \in Txs, NEW new, OneChange(t, new),
           NEW u \in Steady', NEW v \in Steady', stored[u].date > stored[v].date,
           ~ (Passed(u)' <=> Passed(u))
    PROVE  Passed(v)' <=> Passed(v)
<1>1. /\ u \in Steady /\ v \in Steady /\ u # t /\ v # t /\ u \in Txs /\ v \in Txs
      /\ stored'[u] = stored[u] /\ stored'[v] = stored[v]
  BY SteadyShrinks
<1>2. Later(u) < Later(v)
  BY <1>1, PlacesDiffer
<1>3. Covered' = Covered /\ Covered \in Nat /\ report' = report
  BY CoveredFacts DEF Covered, OneChange, ReportInv
<1>4. \A w \in {u, v} :
         /\ Later(w) \in Nat
         /\ (Ahead(t, w) <=> Ahead(t, w)') => Later(w)' = Later(w)
         /\ ~ Ahead(t, w) /\ Ahead(t, w)' => Later(w)' = Later(w) + 1
         /\ Ahead(t, w) /\ ~ Ahead(t, w)' => Later(w) = Later(w)' + 1 /\ Later(w)' \in Nat
  BY PlaceMoves
<1>5. (Ahead(t, u) => Ahead(t, v)) /\ (Ahead(t, u)' => Ahead(t, v)')
  <2>1. \A w \in TheList : stored[w].date \in Nat
    BY ListFacts DEF ReportInv, IsList, TheList
  <2>2. u \in TheList /\ v \in TheList
    BY <1>1, OwedFacts
  <2>3. Ahead(t, u) => Ahead(t, v)
    BY <2>1, <2>2 DEF Ahead
  <2>4. t \in TheList' => stored'[t].date \in Nat
    BY ReportsAssumption DEF ReportTypes, TheList, Listed, ReportsAssumption
  <2>5. Ahead(t, u)' => Ahead(t, v)'
    BY <1>1, <2>1, <2>2, <2>4 DEF Ahead
  <2> QED
    BY <2>3, <2>5
<1> QED
  BY <1>2, <1>3, <1>4, <1>5 DEF Passed

(* What it changes about what is owed is at most one slip of that one. *)
LEMMA OwedGrowsByOne ==
    ASSUME ReportInv, ReportTypes', NEW t \in Txs, NEW new, OneChange(t, new),
           \A u, v \in Steady : u # v => stored[u].date # stored[v].date
    PROVE  \E slip : Owed' \in SUBSET (Owed \cup {slip})
<1>1. /\ \A u \in Steady' : u \in Steady /\ u \in Txs
      /\ report' = report
  BY SteadyShrinks DEF OneChange
<1>2. ASSUME NEW u \in Steady', NEW k \in Due(u)', k \notin Due(u)
      PROVE  ~ (Passed(u)' <=> Passed(u)) /\ k = report.counted[u]
  <2>1. report.counted[u] \in Nat
    BY <1>1, OwedFacts, ReportsAssumption DEF ReportsAssumption
  <2>2. Due(u)' = LET times == report.counted[u]
                  IN  IF ~ Passed(u)' THEN 1..times
                      ELSE IF times = 0 THEN {0} ELSE 1..(times - 1)
    BY <1>1 DEF Due
  <2>3. CASE Passed(u)' /\ ~ Passed(u)
    <3>1. k \in IF report.counted[u] = 0 THEN {0} ELSE 1..(report.counted[u] - 1)
      BY <1>2, <2>2, <2>3
    <3>2. k \notin 1..report.counted[u]
      BY <1>2, <2>3 DEF Due
    <3> QED
      BY <2>1, <2>3, <3>1, <3>2
  <2>4. CASE ~ Passed(u)' /\ Passed(u)
    <3>1. k \in 1..report.counted[u]
      BY <1>2, <2>2, <2>4
    <3>2. k \notin IF report.counted[u] = 0 THEN {0} ELSE 1..(report.counted[u] - 1)
      BY <1>2, <2>4 DEF Due
    <3> QED
      BY <2>1, <2>4, <3>1, <3>2
  <2>5. CASE Passed(u)' <=> Passed(u)
    BY <1>2, <2>2, <2>5 DEF Due
  <2> QED
    BY <2>3, <2>4, <2>5
<1>3. ASSUME NEW u \in Steady', NEW v \in Steady', u # v,
             ~ (Passed(u)' <=> Passed(u)), ~ (Passed(v)' <=> Passed(v))
      PROVE  FALSE
  <2>1. stored[u].date \in Nat /\ stored[v].date \in Nat
    BY <1>1, OwedFacts, ListFacts DEF ReportInv, IsList, TheList
  <2>2. stored[u].date > stored[v].date \/ stored[v].date > stored[u].date
    BY <1>1, <1>3, <2>1
  <2> QED
    BY <1>3, <2>2, OneCrosses
<1>4. ASSUME NEW s \in Owed'
      PROVE  /\ s[1] \in Steady' /\ s[2] \in Due(s[1])' /\ s = <<s[1], s[2]>>
             /\ s[2] \in Due(s[1]) => s \in Owed
  BY <1>1, <1>4 DEF Owed
<1>5. CASE \E u \in Steady' : ~ (Passed(u)' <=> Passed(u))
  <2>1. PICK u \in Steady' : ~ (Passed(u)' <=> Passed(u))
    BY <1>5
  <2>2. ASSUME NEW s \in Owed', s \notin Owed PROVE s = <<u, report.counted[u]>>
    <3>1. ~ (Passed(s[1])' <=> Passed(s[1])) /\ s[2] = report.counted[s[1]]
      BY <1>2, <1>4, <2>2
    <3>2. s[1] = u
      BY <1>3, <1>4, <2>1, <3>1
    <3> QED
      BY <1>4, <3>1, <3>2
  <2>3. Owed' \in SUBSET (Owed \cup {<<u, report.counted[u]>>})
    BY <2>2
  <2> QED
    BY <2>3
<1>6. CASE ~ \E u \in Steady' : ~ (Passed(u)' <=> Passed(u))
  <2>1. Owed' \in SUBSET (Owed \cup {0})
    BY <1>2, <1>4, <1>6
  <2> QED
    BY <2>1
<1> QED
  BY <1>5, <1>6

(* A change costs the sum at most one slip. *)
LEMMA ChangeSlips ==
    ASSUME ReportInv, ReportInv', SlipInv, NEW t \in Txs, NEW new, OneChange(t, new)
    PROVE  SlipInv'
<1>1. \A u \in Steady' : u \in Steady /\ u \in Txs /\ u # t /\ stored'[u] = stored[u]
  BY SteadyShrinks
<1>2. /\ report' = report /\ seen.churn \in Nat
      /\ seen'.churn = seen.churn + 1 /\ seen'.tied = seen.tied
  BY DEF OneChange, ReportInv, ReportTypes
<1>3. InLoop' => InLoop
  BY <1>2 DEF InLoop
<1>4. SteadyApart'
  BY <1>1, <1>2, <1>3 DEF SlipInv, SteadyApart
<1>5. ASSUME InLoop' PROVE Cardinality(Owed') <= seen'.churn
  <2>1. report.page \in 1..(MaxPages + 1) /\ MaxPages \in Nat
    BY ReportsAssumption DEF ReportInv, ReportTypes, Report, ReportsAssumption
  <2>2. CASE report.page > 1
    <3>1. \A u, v \in Steady : u # v => stored[u].date # stored[v].date
      BY <1>3, <1>5, <2>2 DEF SlipInv, SteadyApart
    <3>2. PICK slip : Owed' \in SUBSET (Owed \cup {slip})
      BY <3>1, OwedGrowsByOne DEF ReportInv
    <3>3. IsFiniteSet(Owed) /\ Cardinality(Owed) \in Nat /\ Cardinality(Owed) <= seen.churn
      BY <1>3, <1>5, OwedFacts DEF SlipInv, OwedWithinChurn
    <3>4. /\ IsFiniteSet(Owed \cup {slip})
          /\ Cardinality(Owed \cup {slip}) <= Cardinality(Owed) + 1
      <4>1. CASE slip \in Owed
        <5>1. Owed \cup {slip} = Owed
          BY <4>1
        <5>2. /\ IsFiniteSet(Owed \cup {slip})
              /\ Cardinality(Owed \cup {slip}) = Cardinality(Owed)
          BY <3>3, <5>1, Zenon
        <5> QED
          BY <3>3, <5>2
      <4>2. CASE slip \notin Owed
        <5>1. /\ IsFiniteSet(Owed \cup {slip})
              /\ Cardinality(Owed \cup {slip}) = Cardinality(Owed) + 1
          BY <3>3, <4>2, FS_AddElement, Zenon
        <5> QED
          BY <3>3, <5>1
      <4> QED
        BY <4>1, <4>2
    <3>5. /\ IsFiniteSet(Owed') /\ Cardinality(Owed') <= Cardinality(Owed \cup {slip})
      BY <3>2, <3>4, FS_Subset
    <3>6. Cardinality(Owed') \in Nat /\ Cardinality(Owed \cup {slip}) \in Nat
      BY <3>4, <3>5, FS_CardinalityType
    <3> QED
      BY <1>2, <3>3, <3>4, <3>5, <3>6
  <2>3. CASE report.page = 1
    <3>1. \A u \in Steady' : u \in Txs /\ report.counted[u] = 0
      BY <1>1, <2>3 DEF ReportInv, PagesBounded, ReportTypes, Report
    <3>2. Covered' = 0
      BY <1>2, <2>3, ReportsAssumption DEF Covered, ReportsAssumption
    <3>3. ASSUME NEW u \in Steady' PROVE ~ Passed(u)'
      <4>1. Later(u)' \in Nat
        <5>1. Later(u)' = Cardinality({w \in TheList' : stored'[w].date > stored'[u].date})
          BY DEF Later, NewerIn
        <5>2. {w \in TheList' : stored'[w].date > stored'[u].date} \in SUBSET Txs
          BY DEF TheList, Listed
        <5> QED
          BY <5>1, <5>2, FS_Subset, FS_CardinalityType, ReportsAssumption DEF ReportsAssumption
      <4>2. report'.pc # "summed"
        <5>1. report.cat # None
          BY <1>1, ReportsAssumption
          DEF Steady, Listed, ReportInv, ReportTypes, ReportsAssumption
        <5>2. report.pc = "page"
          BY <1>2, <1>5, <2>3, <5>1 DEF SlipInv, EndsAfterAPage, InLoop
        <5> QED
          BY <1>2, <5>2
      <4> QED
        BY <3>2, <4>1, <4>2 DEF Passed
    <3>4. Owed' = {}
      <4> SUFFICES ASSUME NEW s \in Owed' PROVE FALSE
        OBVIOUS
      <4>1. s[1] \in Steady' /\ s[2] \in Due(s[1])'
        BY DEF Owed
      <4>2. Due(s[1])' = 1..report.counted[s[1]]
        BY <1>2, <3>3, <4>1 DEF Due
      <4> QED
        BY <3>1, <4>1, <4>2
    <3>5. Cardinality(Owed') = 0
      BY <3>4, FS_EmptySet
    <3> QED
      BY <1>2, <3>5
  <2> QED
    BY <2>1, <2>2, <2>3
<1>6. EndsAfterAPage'
  BY <1>2 DEF SlipInv, EndsAfterAPage
<1> QED
  BY <1>4, <1>5, <1>6 DEF SlipInv, OwedWithinChurn

(* A page adds no slip: whom it counts a second time was due for it, and     *)
(* whom it leaves out in front of it was missed before.                      *)
LEMMA PageSlips ==
    ASSUME ReportInv, ReportInv', SlipInv, GetPage
    PROVE  SlipInv'
<1> USE ReportsAssumption DEF ReportsAssumption
<1>0. ReportTypes /\ NamedOnce /\ PagesBounded
  BY DEF ReportInv
<1>1. PICK page : PageEffect(page)
  BY PageHasEffect
<1>2. UNCHANGED <<stored, named, changes>> /\ report.pc = "page"
  BY DEF GetPage
<1>3. report.page \in 1..MaxPages /\ report.cat # None /\ report.counted \in [Txs -> Nat]
  BY <1>0, <1>2 DEF ReportTypes, Report, PagesBounded
<1>4. Covered \in Nat /\ Covered' = Covered + PageSize
  BY <1>0, <1>1, <1>3, CoveredFacts DEF Covered, PageEffect
<1>5. TheList' = TheList /\ Steady' = Steady
  BY <1>1, <1>2 DEF TheList, Listed, Steady, PageEffect
<1>6. \A t \in Txs : Later(t)' = Later(t) /\ Later(t) \in Nat
  BY <1>0, <1>2, <1>5, ListFacts DEF Later, NewerIn, TheList
<1>7. InLoop' => InLoop /\ ~ Ties(TheList)
  BY <1>1, <1>2 DEF InLoop, PageEffect
<1>8. SteadyApart'
  BY <1>2, <1>5, <1>7, OwedFacts DEF SteadyApart, Ties
<1>9. EndsAfterAPage'
  BY <1>1, <1>3 DEF EndsAfterAPage, PageEffect
<1>10. ASSUME InLoop', NEW t \in Steady PROVE Due(t)' = Due(t)
  <2>1. t \in TheList /\ t \in Txs /\ t \notin Incomes /\ Later(t) \in Nat
    BY <1>6, OwedFacts DEF Steady
  <2>2. Passed(t) <=> Later(t) < Covered
    BY <1>2 DEF Passed
  <2>3. t \in page <=> ~ (Later(t) < Covered) /\ Later(t) < Covered + PageSize
    BY <1>1, <1>7, <1>10, <2>1 DEF PageEffect
  <2>4. Passed(t)' <=> Later(t) < Covered + PageSize
    <3>1. CASE report'.pc = "summed" /\ report'.page <= MaxPages
      <4>1. Cardinality(page) < PageSize
        BY <1>1, <1>3, <3>1 DEF PageEffect, IsLast
      <4>2. Cardinality(TheList) \in Nat /\ IsList(TheList)
        BY <1>0, ListFacts DEF TheList
      <4>3. Cardinality(TheList) <= Covered + PageSize
        BY <1>1, <1>4, <4>1, <4>2 DEF PageEffect, Smaller
      <4>4. Later(t) < Cardinality(TheList)
        BY <2>1, PlaceInList
      <4> QED
        BY <1>4, <2>1, <3>1, <4>2, <4>3, <4>4 DEF Passed
    <3>2. CASE ~ (report'.pc = "summed" /\ report'.page <= MaxPages)
      BY <1>4, <1>6, <2>1, <3>2 DEF Passed
    <3> QED
      BY <3>1, <3>2
  <2>5. report.counted[t] \in Nat
    BY <1>3, <2>1
  <2>6. report'.counted[t] = report.counted[t] + IF t \in page THEN 1 ELSE 0
    BY <1>1, <2>1 DEF PageEffect, Sum
  <2>7. CASE Later(t) < Covered
    <3>1. t \notin page /\ Passed(t) /\ Passed(t)'
      BY <1>4, <2>1, <2>2, <2>3, <2>4, <2>7
    <3>2. report'.counted[t] = report.counted[t]
      BY <2>5, <2>6, <3>1
    <3> QED
      BY <3>1, <3>2 DEF Due
  <2>8. CASE ~ (Later(t) < Covered) /\ Later(t) < Covered + PageSize
    <3>1. t \in page /\ ~ Passed(t) /\ Passed(t)'
      BY <2>2, <2>3, <2>4, <2>8
    <3>2. /\ report'.counted[t] = report.counted[t] + 1 /\ report'.counted[t] # 0
          /\ report'.counted[t] - 1 = report.counted[t]
      BY <2>5, <2>6, <3>1
    <3> QED
      BY <3>1, <3>2 DEF Due
  <2>9. CASE ~ (Later(t) < Covered + PageSize)
    <3>1. t \notin page /\ ~ Passed(t) /\ ~ Passed(t)'
      BY <1>4, <2>1, <2>2, <2>3, <2>4, <2>9
    <3>2. report'.counted[t] = report.counted[t]
      BY <2>5, <2>6, <3>1
    <3> QED
      BY <3>1, <3>2 DEF Due
  <2> QED
    BY <2>7, <2>8, <2>9
<1>11. InLoop' => Owed' = Owed
  BY <1>5, <1>10 DEF Owed
<1>12. OwedWithinChurn'
  BY <1>1, <1>7, <1>11 DEF SlipInv, OwedWithinChurn, PageEffect
<1> QED
  BY <1>8, <1>9, <1>12 DEF SlipInv

(* No step makes more slips than changes. *)
LEMMA SlipNextInv ==
    ReportInv /\ ReportInv' /\ SlipInv /\ [ReportNext]_reportVars => SlipInv'
<1> SUFFICES ASSUME ReportInv, ReportInv', SlipInv, [ReportNext]_reportVars PROVE SlipInv'
  OBVIOUS
<1>1. ASSUME NEW t \in Txs, RemoveTx(t) PROVE SlipInv'
  <2>1. OneChange(t, NoTx)
    BY <1>1 DEF RemoveTx, Changed, OneChange
  <2> QED
    BY <2>1, ChangeSlips
<1>2. ASSUME NEW t \in Txs, NEW c \in Range(named), NEW d \in Dates,
             InsertTx(t, c, d) \/ MoveTx(t, c, d)
      PROVE  SlipInv'
  <2>1. OneChange(t, [cat |-> c, date |-> d])
    BY <1>2 DEF InsertTx, MoveTx, Changed, OneChange
  <2> QED
    BY <2>1, ChangeSlips
<1>3. CASE UNCHANGED <<stored, report, seen>>
  BY <1>3 DEF SlipInv, SteadyApart, EndsAfterAPage, OwedWithinChurn, InLoop, Owed, Due, Passed,
       Steady, Listed, Later, NewerIn, TheList, Covered
<1>4. CASE report'.pc \notin {"page", "summed"}
  BY <1>4 DEF SlipInv, SteadyApart, EndsAfterAPage, OwedWithinChurn, InLoop
<1>5. CASE FindCategory
  <2>1. stored' = stored /\ seen'.churn = 0
    BY <1>5 DEF FindCategory, Unseen
  <2>2. \/ report'.pc = "page" /\ report'.page = 1 /\ report'.counted = Nothing
        \/ report'.pc = "summed" /\ report'.cat = None
    BY <1>5 DEF FindCategory, ReportInv, ReportTypes, Report
  <2>3. SteadyApart' /\ EndsAfterAPage' /\ Owed' = {}
    <3>1. CASE report'.pc = "page" /\ report'.page = 1 /\ report'.counted = Nothing
      <4>1. Covered' = 0
        BY <3>1, ReportsAssumption DEF Covered, ReportsAssumption
      <4>2. ASSUME NEW s \in Owed' PROVE FALSE
        <5>1. s[1] \in Steady' /\ s[2] \in Due(s[1])'
          BY <4>2 DEF Owed
        <5>2. s[1] \in Txs
          BY <5>1 DEF Steady, Listed
        <5>3. Later(s[1])' \in Nat
          <6>1. Later(s[1])' = NewerIn(Listed(report'.cat), s[1])
            BY <2>1 DEF Later, NewerIn, TheList, Listed
          <6> QED
            BY <5>2, <6>1, ListFacts DEF ReportInv
        <5>4. ~ Passed(s[1])'
          BY <3>1, <4>1, <5>3 DEF Passed
        <5>5. report'.counted[s[1]] = 0
          BY <3>1, <5>2 DEF Nothing
        <5>6. Due(s[1])' = 1..0
          BY <5>4, <5>5 DEF Due
        <5> QED
          BY <5>1, <5>6
      <4> QED
        BY <3>1, <4>2 DEF SteadyApart, EndsAfterAPage
    <3>2. CASE report'.pc = "summed" /\ report'.cat = None
      <4>1. Steady' = {}
        BY <3>2, ReportsAssumption
        DEF Steady, Listed, ReportInv, ReportTypes, ReportsAssumption
      <4> QED
        BY <3>2, <4>1 DEF SteadyApart, EndsAfterAPage, Owed
    <3> QED
      BY <2>2, <3>1, <3>2
  <2>4. Cardinality(Owed') = 0
    BY <2>3, FS_EmptySet
  <2> QED
    BY <2>1, <2>3, <2>4 DEF SlipInv, OwedWithinChurn
<1>6. CASE GetPage
  BY <1>6, PageSlips
<1>7. CASE RangeBudgets \/ SummaryFails
  <2>1. report'.pc \notin {"page", "summed"}
    BY <1>7 DEF RangeBudgets, SummaryFails, NextBudget, ReportInv, ReportTypes, Report
  <2> QED
    BY <1>4, <2>1
<1>8. ASSUME NEW c \in Cats, AddCategory(c) PROVE SlipInv'
  BY <1>3, <1>8 DEF AddCategory
<1>9. CASE UNCHANGED reportVars
  BY <1>3, <1>9 DEF reportVars
<1> QED
  BY <1>1, <1>2, <1>5, <1>6, <1>7, <1>8, <1>9 DEF ReportNext, SummarySteps

(* However transactions come, go and move while the pages are read, the sum  *)
(* misses or repeats at most as many of those that stay as there were        *)
(* changes (SumExpensesByCategory).                                          *)
THEOREM SlipsAreBounded == ReportSpec => []SlipsWithinChurn
<1>1. ReportInit => SlipInv
  BY DEF ReportInit, SlipInv, SteadyApart, EndsAfterAPage, OwedWithinChurn, InLoop
<1>2. ReportInv /\ SlipInv => SlipsWithinChurn
  <2> SUFFICES ASSUME ReportInv, SlipInv, Summed, ~ seen.tied,
                      Cardinality(TheList) <= Reach
               PROVE  Cardinality(Slips) <= seen.churn
    BY DEF SlipsWithinChurn, TheList
  <2>1. ASSUME NEW t \in Steady PROVE Passed(t)
    <3>1. t \in TheList /\ Later(t) \in Nat
      BY OwedFacts
    <3>2. Later(t) < Cardinality(TheList) /\ Cardinality(TheList) \in Nat
      BY <3>1, PlaceInList, ListFacts DEF ReportInv, TheList
    <3>3. Reach \in Nat /\ (report.page = MaxPages + 1 => Covered = Reach)
      BY CoveredFacts DEF ReportInv
    <3>4. report.page \in 1..(MaxPages + 1) /\ MaxPages \in Nat
      BY ReportsAssumption DEF ReportInv, ReportTypes, Report, ReportsAssumption
    <3> QED
      BY <3>1, <3>2, <3>3, <3>4 DEF Passed, Summed
  <2>2. Slips = Owed
    BY <2>1 DEF Slips, Owed, Due
  <2> QED
    BY <2>2 DEF SlipInv, OwedWithinChurn, InLoop, Summed
<1> QED
  BY <1>1, <1>2, SlipNextInv, ReportsCorrect, PTL DEF ReportSpec

-----------------------------------------------------------------------------
(* A Summary ends *)

(* What a Summary has left to do: for each budget a look-up, at most        *)
(* maxReportPages pages and the step to the next budget.                    *)
PerBudget == MaxPages + 3

WorkLeft ==
    CASE report.pc \in {"answered", "failed"} -> 0
      [] report.pc \in {"start", "summed"} -> report.budgets * PerBudget + 1
      [] report.pc = "lookup" -> report.budgets * PerBudget + MaxPages + 3
      [] report.pc = "page" -> report.budgets * PerBudget + MaxPages + 3 - report.page

(* one step less for whatever a Summary does *)
StepsCount == WorkLeft \in Nat /\ WorkLeft' \in Nat /\ WorkLeft' < WorkLeft

LEMMA WorkLeftFacts ==
    ASSUME ReportTypes, PagesBounded
    PROVE  /\ WorkLeft \in Nat /\ report.budgets * PerBudget \in Nat
           /\ report.budgets # 0 =>
                 /\ (report.budgets - 1) * PerBudget \in Nat
                 /\ (report.budgets - 1) * PerBudget + PerBudget = report.budgets * PerBudget
<1>1. report.budgets \in Nat /\ MaxPages \in Nat /\ PerBudget \in Nat /\ report.page \in Nat
  BY ReportsAssumption DEF ReportTypes, Report, PerBudget, ReportsAssumption
<1>2. \A a, b \in Nat : /\ a * b \in Nat
                        /\ a # 0 => (a - 1) * b \in Nat /\ (a - 1) * b + b = a * b
  OBVIOUS
<1>3. report.budgets * PerBudget \in Nat
  BY <1>1, <1>2
<1>4. WorkLeft \in Nat
  <2>1. report.pc \in {"start", "lookup", "page", "summed", "answered", "failed"}
    BY DEF ReportTypes, Report
  <2>2. report.pc = "page" => report.page <= MaxPages
    BY DEF PagesBounded
  <2> HIDE DEF PerBudget
  <2> QED
    BY <1>1, <1>3, <2>1, <2>2 DEF WorkLeft
<1> QED
  BY <1>1, <1>2, <1>3, <1>4

(* Whatever changes around it, a Summary of n budgets takes at most          *)
(* n * (maxReportPages + 3) + 1 steps: each one leaves less to do (the       *)
(* bound of the loop in SumExpensesByCategory, and Summary).                 *)
THEOREM SummaryIsBounded == ReportSpec => [][StepsCount]_report
<1>1. ReportInv /\ ReportInv' /\ [ReportNext]_reportVars => [StepsCount]_report
  <2> SUFFICES ASSUME ReportInv, ReportInv', ReportNext, report' # report PROVE StepsCount
    BY DEF reportVars
  <2>0. MaxPages \in Nat /\ PerBudget = MaxPages + 3
    BY ReportsAssumption DEF ReportsAssumption, PerBudget
  <2>1. /\ WorkLeft \in Nat /\ report.budgets * PerBudget \in Nat
        /\ report.budgets # 0 =>
              /\ (report.budgets - 1) * PerBudget \in Nat
              /\ (report.budgets - 1) * PerBudget + PerBudget = report.budgets * PerBudget
    BY WorkLeftFacts DEF ReportInv
  <2>2. report \in Report /\ report.page \in Nat /\ report.budgets \in Nat
    BY ReportsAssumption DEF ReportInv, ReportTypes, Report, ReportsAssumption
  <2>3. SummarySteps
    BY DEF ReportNext, RemoveTx, InsertTx, MoveTx, Changed, AddCategory
  <2>4. CASE RangeBudgets
    <3>1. WorkLeft = report.budgets * PerBudget + 1
      BY <2>4 DEF RangeBudgets, WorkLeft
    <3>2. CASE report.budgets = 0
      <4>1. report'.pc = "answered"
        BY <2>2, <2>4, <3>2 DEF RangeBudgets, Report
      <4>2. WorkLeft' = 0
        BY <4>1 DEF WorkLeft
      <4> QED
        BY <2>1, <3>1, <4>2 DEF StepsCount
    <3>3. CASE report.budgets # 0
      <4>1. report'.pc = "lookup" /\ report'.budgets = report.budgets - 1
        BY <2>2, <2>4, <3>3 DEF RangeBudgets, NextBudget, Report
      <4>2. WorkLeft' = (report.budgets - 1) * PerBudget + MaxPages + 3
        BY <4>1 DEF WorkLeft, PerBudget
      <4> HIDE DEF WorkLeft
      <4> QED
        BY <2>0, <2>1, <3>1, <3>3, <4>2 DEF StepsCount
    <3> QED
      BY <3>2, <3>3
  <2>5. CASE FindCategory
    <3>1. WorkLeft = report.budgets * PerBudget + MaxPages + 3
      BY <2>5 DEF FindCategory, WorkLeft
    <3>2. /\ report'.budgets = report.budgets
          /\ report'.pc = "summed" \/ (report'.pc = "page" /\ report'.page = 1)
      BY <2>2, <2>5 DEF FindCategory, Report
    <3>3. \/ WorkLeft' = report.budgets * PerBudget + 1
          \/ WorkLeft' = report.budgets * PerBudget + MaxPages + 3 - 1
      BY <3>2 DEF WorkLeft, PerBudget
    <3> QED
      BY <2>0, <2>1, <3>1, <3>3 DEF StepsCount
  <2>6. CASE GetPage
    <3>1. WorkLeft = report.budgets * PerBudget + MaxPages + 3 - report.page
      BY <2>6 DEF GetPage, WorkLeft
    <3>2. report.page <= MaxPages
      BY <2>6 DEF ReportInv, PagesBounded, GetPage
    <3>3. PICK page : PageEffect(page)
      BY <2>6, PageHasEffect
    <3>4. /\ report'.budgets = report.budgets /\ report'.page = report.page + 1
          /\ report'.pc \in {"summed", "page"}
      <4>1. report'.budgets = report.budgets
        BY <2>2, <2>6 DEF GetPage, NextPage, Report
      <4> QED
        BY <3>3, <4>1 DEF PageEffect
    <3>5. \/ WorkLeft' = report.budgets * PerBudget + 1
          \/ WorkLeft' = report.budgets * PerBudget + MaxPages + 3 - (report.page + 1)
      BY <3>4 DEF WorkLeft, PerBudget
    <3>6. \A x, m, p \in Nat : p <= m =>
             /\ x + 1 \in Nat /\ x + 1 < x + m + 3 - p
             /\ x + m + 3 - (p + 1) \in Nat /\ x + m + 3 - (p + 1) < x + m + 3 - p
      OBVIOUS
    <3> HIDE DEF WorkLeft, PerBudget
    <3> DEFINE x == report.budgets * PerBudget
    <3>a. x \in Nat /\ MaxPages \in Nat /\ report.page \in Nat
      BY <2>0, <2>1, <2>2, Zenon
    <3>b. /\ WorkLeft = x + MaxPages + 3 - report.page
          /\ WorkLeft' = x + 1 \/ WorkLeft' = x + MaxPages + 3 - (report.page + 1)
      BY <3>1, <3>5, Zenon
    <3> HIDE DEF x
    <3>c. /\ x + 1 \in Nat /\ x + 1 < x + MaxPages + 3 - report.page
          /\ x + MaxPages + 3 - (report.page + 1) \in Nat
          /\ x + MaxPages + 3 - (report.page + 1) < x + MaxPages + 3 - report.page
      BY <3>2, <3>6, <3>a
    <3>7. WorkLeft' \in Nat /\ WorkLeft' < WorkLeft
      <4>1. CASE WorkLeft' = x + 1
        BY <3>b, <3>c, <4>1
      <4>2. CASE WorkLeft' = x + MaxPages + 3 - (report.page + 1)
        BY <3>b, <3>c, <4>2
      <4> QED
        BY <3>b, <4>1, <4>2
    <3> QED
      BY <2>1, <3>7 DEF StepsCount
  <2>7. CASE SummaryFails
    <3>1. report'.pc = "failed" /\ report.pc \in {"lookup", "page"}
      BY <2>2, <2>7 DEF SummaryFails, Report
    <3>2. WorkLeft' = 0
      BY <3>1 DEF WorkLeft
    <3>3. \/ WorkLeft = report.budgets * PerBudget + MaxPages + 3
          \/ /\ WorkLeft = report.budgets * PerBudget + MaxPages + 3 - report.page
             /\ report.page <= MaxPages
      BY <3>1 DEF WorkLeft, ReportInv, PagesBounded
    <3> QED
      BY <2>0, <2>1, <2>2, <3>2, <3>3 DEF StepsCount
  <2> QED
    BY <2>3, <2>4, <2>5, <2>6, <2>7 DEF SummarySteps
<1> QED
  BY <1>1, ReportsCorrect, PTL DEF ReportSpec

-----------------------------------------------------------------------------

(* A loop ends within maxReportPages, counts nothing more often than there    *)
(* are pages, and finds no category twice under the name.                     *)
THEOREM ReportsStayValid == ReportSpec => []ReportTypeOK
<1>1. ReportInv => ReportTypeOK
  <2> SUFFICES ASSUME ReportInv PROVE ReportTypeOK
    OBVIOUS
  <2>0. ReportTypes /\ NamedOnce /\ PagesBounded
    BY DEF ReportInv
  <2>1. Len(named) \in 0..Cardinality(Cats)
    <3>1. named \in Injection(1..Len(named), Cats) /\ Len(named) \in Nat
      BY <2>0 DEF ReportTypes, NamedOnce, Injection
    <3>2. Cardinality(1..Len(named)) <= Cardinality(Cats)
      BY <3>1, FS_Injection, ReportsAssumption DEF ReportsAssumption
    <3>3. Cardinality(1..Len(named)) = Len(named)
      <4>1. 1 \in Int /\ Len(named) \in Int
        BY <3>1
      <4>2. Cardinality(1..Len(named)) = IF 1 > Len(named) THEN 0 ELSE Len(named) - 1 + 1
        BY <4>1, FS_Interval, Zenon
      <4> QED
        BY <3>1, <4>2
    <3>4. Cardinality(Cats) \in Nat
      BY FS_CardinalityType, ReportsAssumption DEF ReportsAssumption
    <3> QED
      BY <3>1, <3>2, <3>3, <3>4
  <2>2. named \in SeqOf(Cats, Cardinality(Cats))
    <3>1. named \in [1..Len(named) -> Cats]
      BY <2>0 DEF ReportTypes
    <3> QED
      BY <2>1, <3>1 DEF SeqOf
  <2>3. report.counted \in [Txs -> 0..MaxPages]
    <3>1. report.counted \in [Txs -> Nat] /\ report.page \in 1..(MaxPages + 1)
      BY <2>0 DEF ReportTypes, Report
    <3>2. \A t \in Txs : report.counted[t] \in 0..MaxPages
      BY <2>0, <3>1, ReportsAssumption DEF PagesBounded, ReportsAssumption
    <3> QED
      BY <3>1, <3>2
  <2> QED
    BY <2>0, <2>2, <2>3 DEF ReportTypes, NamedOnce, Report, ReportTypeOK
<1> QED
  BY ReportsCorrect, <1>1, PTL

(* Goals and reports share nothing but the process: each keeps the types of  *)
(* its part, whatever the other does.                                        *)
THEOREM BudgetStaysValid == GoalSpec /\ ReportSpec => []BudgetTypeOK
<1>1. GoalTypeOK /\ ReportTypeOK => BudgetTypeOK
  BY DEF BudgetTypeOK
<1> QED
  BY GoalsStayValid, ReportsStayValid, <1>1, PTL

=============================================================================
