------------------------------- MODULE Goals -------------------------------
(***************************************************************************)
(* budget-service: the savings goals of one user (service/goal_service.go, *)
(* repository/mongo_goal_repository.go, handler/goal_handler.go).  A PUT   *)
(* replaces name, target and progress of a goal at once, with what its     *)
(* client last saw of those that it does not change; the service reads the *)
(* goal to compare the target date and then writes: two steps.             *)
(*                                                                         *)
(* Dates are moments of a clock that is finer than the store: MongoDB      *)
(* keeps whole milliseconds, Milli moments each.                           *)
(***************************************************************************)
EXTENDS Naturals

CONSTANTS
    Goals, Tabs,     \* ids of goals; clients that show one and send PUTs
    MaxTime,         \* bound on the clock
    LastDate,        \* bound on the dates of goals
    MaxProgress,     \* bound on current_amount
    Milli,           \* moments in a millisecond
    NoGoal

ASSUME GoalsAssumption ==
    /\ MaxTime \in Nat /\ LastDate \in Nat /\ MaxProgress \in Nat
    /\ Milli \in Nat \ {0}
    /\ NoGoal \notin Goals

VARIABLES
    now,      \* time.Now()
    goals,    \* [Goals -> Goal]
    tab,      \* [Tabs -> Tab]: what a client has seen, and its PUT under way
    (* history, read by properties only *)
    vetted,   \* [Goals -> SUBSET Dates]: stored dates that were not past when accepted
    logged,   \* [Goals -> 0..MaxProgress]: the progress that a user last entered
    stale     \* goals that a PUT has written whose client had not seen the last write

goalVars == <<now, goals, tab, vetted, logged, stale>>

GoalDates == 0..LastDate

(* bson: a date is stored in milliseconds *)
Stored(d) == d - (d % Milli)

Goal == [state : {"none", "stored", "deleted"}, date : GoalDates, progress : 0..MaxProgress]

(* got, gotProgress: from the last answer; date, progress: in the PUT;      *)
(* enters: the user typed progress in.  History of other clients' writes    *)
(* since that answer: behind, there was one; moved, one changed the date.   *)
NoTab == [pc |-> "idle", goal |-> NoGoal, got |-> 0, gotProgress |-> 0, date |-> 0,
          progress |-> 0, enters |-> FALSE, behind |-> FALSE, moved |-> FALSE]

(* a client that was answered with goal g, date d and progress p *)
Shown(g, d, p) == [NoTab EXCEPT !.pc = "shown", !.goal = g, !.got = d, !.gotProgress = p]

GoalInit ==
    /\ now = 0
    /\ goals = [g \in Goals |-> [state |-> "none", date |-> 0, progress |-> 0]]
    /\ tab = [b \in Tabs |-> NoTab]
    /\ vetted = [g \in Goals |-> {}]
    /\ logged = [g \in Goals |-> 0]
    /\ stale = {}

GoalTick ==
    /\ now < MaxTime
    /\ now' = now + 1
    /\ UNCHANGED <<goals, tab, vetted, logged, stale>>

(* the document of a new goal *)
Inserted(d) == [state |-> "stored", date |-> Stored(d), progress |-> 0]

(* POST: a date that is not before now.  The answer has the date as it was  *)
(* sent, not as it is stored; it may get lost.                              *)
GoalCreate(b, g, d) ==
    /\ tab[b].pc # "update"
    /\ goals[g].state = "none"
    /\ d >= now
    /\ goals' = [goals EXCEPT ![g] = Inserted(d)]
    /\ \/ tab' = [tab EXCEPT ![b] = Shown(g, d, 0)]
       \/ UNCHANGED tab
    /\ vetted' = [vetted EXCEPT ![g] = {Stored(d)}]
    /\ UNCHANGED <<now, logged, stale>>

(* GET of one goal, or of the list that has it *)
GoalGet(b, g) ==
    /\ tab[b].pc # "update"
    /\ goals[g].state = "stored"
    /\ tab' = [tab EXCEPT ![b] = Shown(g, goals[g].date, goals[g].progress)]
    /\ UNCHANGED <<now, goals, vetted, logged, stale>>

RefusedDateMutant(d, existing) == d < now

OnlyWhileFuture(d, existing) == d < now /\ existing >= now

(* a past date is refused, unless it is the one that the goal has *)
RefusedDate(d, existing) == d # existing /\ d < now

(* A PUT up to its read: any date, the one that the client was given or its *)
(* day among them; the progress that the client was given, or one that its  *)
(* user enters.                                                             *)
GoalPut(b, d, p, enters) ==
    LET t == tab[b]
        g == goals[t.goal]
        refused == [NoTab EXCEPT !.pc = "refused", !.goal = t.goal, !.got = t.got,
                                 !.date = d, !.moved = t.moved]
        passed == [NoTab EXCEPT !.pc = "update", !.goal = t.goal, !.date = d, !.progress = p,
                                !.enters = enters, !.behind = t.behind]
    IN  /\ t.pc = "shown"
        /\ enters \/ p = t.gotProgress
        /\ tab' = [tab EXCEPT ![b] =
                     IF g.state # "stored" THEN NoTab
                     ELSE IF RefusedDate(d, g.date) THEN refused
                     ELSE passed]
        /\ vetted' = IF g.state = "stored" /\ ~RefusedDate(d, g.date) /\ d >= now
                     THEN [vetted EXCEPT ![t.goal] = @ \cup {Stored(d)}]
                     ELSE vetted
        /\ UNCHANGED <<now, goals, logged, stale>>

SetMutant(g, d, p) == [state |-> "stored", date |-> Stored(d), progress |-> goals[g].progress]

(* $set of the update *)
Set(g, d, p) == [state |-> "stored", date |-> Stored(d), progress |-> p]

(* FindOneAndUpdate updates what it finds, without upsert *)
Matches(g) == goals[g].state = "stored"

(* The write.  The answer is existing with the fields of the request, its   *)
(* date not cut; it may get lost or be an error.                            *)
GoalUpdate(b) ==
    LET t == tab[b]
        moves == Set(t.goal, t.date, t.progress).date # goals[t.goal].date
        other(c) == [c EXCEPT !.behind = @ \/ c.goal = t.goal,
                              !.moved = @ \/ (c.goal = t.goal /\ moves)]
    IN  /\ t.pc = "update"
        /\ Matches(t.goal)
        /\ goals' = [goals EXCEPT ![t.goal] = Set(t.goal, t.date, t.progress)]
        /\ \E mine \in {NoTab, Shown(t.goal, t.date, t.progress)} :
              tab' = [c \in Tabs |-> IF c = b THEN mine ELSE other(tab[c])]
        /\ logged' = IF t.enters THEN [logged EXCEPT ![t.goal] = t.progress] ELSE logged
        /\ stale' = IF t.behind THEN stale \cup {t.goal} ELSE stale
        /\ UNCHANGED <<now, vetted>>

(* the goal is gone: 404; or the call failed and nothing was written *)
GoalUpdateFails(b) ==
    /\ tab[b].pc = "update"
    /\ tab' = [tab EXCEPT ![b] = NoTab]
    /\ UNCHANGED <<now, goals, vetted, logged, stale>>

GoalDelete(g) ==
    /\ goals[g].state = "stored"
    /\ goals' = [goals EXCEPT ![g] = [state |-> "deleted", date |-> 0, progress |-> 0]]
    /\ UNCHANGED <<now, tab, vetted, logged, stale>>

GoalNext ==
    \/ GoalTick
    \/ \E g \in Goals : GoalDelete(g)
    \/ \E b \in Tabs :
          \/ \E g \in Goals : GoalGet(b, g) \/ \E d \in GoalDates : GoalCreate(b, g, d)
          \/ \E d \in GoalDates, p \in 0..MaxProgress, enters \in BOOLEAN : GoalPut(b, d, p, enters)
          \/ GoalUpdate(b)
          \/ GoalUpdateFails(b)

GoalSpec == GoalInit /\ [][GoalNext]_goalVars

-----------------------------------------------------------------------------

GoalTypeOK ==
    /\ now \in 0..MaxTime
    /\ goals \in [Goals -> Goal]
    /\ \A g \in Goals : goals[g].date % Milli = 0
    /\ \A b \in Tabs :
          /\ tab[b].pc \in {"idle", "shown", "update", "refused"}
          /\ tab[b].pc # "idle" => tab[b].goal \in Goals
          /\ {tab[b].got, tab[b].date} \subseteq GoalDates

(* The date of a goal was not in the past when it was accepted for this     *)
(* goal, though it may be now, and though a PUT that was checked against    *)
(* one date can replace another (goalService.Create and Update).            *)
DatesWereVetted ==
    \A g \in Goals : goals[g].state = "stored" => goals[g].date \in vetted[g]

(* A PUT that sends back the date of its client's last answer, GET, POST or *)
(* PUT, is not refused for that date, however late it comes: due goals      *)
(* still take progress (goalService.Update, "must not permanently lock the  *)
(* goal out").  There are two exceptions: another client has changed the    *)
(* date since, or the answer was of a POST or a PUT and its date has more   *)
(* digits than are stored.                                                  *)
DueGoalsTakeProgress ==
    \A b \in Tabs : tab[b].pc = "refused" /\ tab[b].date = tab[b].got
                       => tab[b].moved \/ Stored(tab[b].got) # tab[b].got

(* The progress of a goal is what a user last entered, unless a client that *)
(* had not seen the last write has written the goal                         *)
(* (mongo_goal_repository.go, Update; handleSaveEdit of the goals page      *)
(* sends the progress it has).                                              *)
ProgressKept ==
    \A g \in Goals : goals[g].state = "stored" => goals[g].progress = logged[g] \/ g \in stale

=============================================================================
