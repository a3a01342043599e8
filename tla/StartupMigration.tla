--------------------------- MODULE StartupMigration ---------------------------
(***************************************************************************)
(* Schema migration at startup (main.py, _auto_migrate): a fixed list of   *)
(* statements that every process of the web server runs from its beginning *)
(* whenever it starts, each committed on its own, a failed one skipped.    *)
(* The processes of one deployment start together and may die anywhere; a  *)
(* process that has finished serves requests while the others still        *)
(* migrate.                                                                *)
(*                                                                         *)
(* Modelled are the statements about the stage names of applications: the  *)
(* renames of migrations 30, 31, 38 and 99 and the CHECK that is dropped   *)
(* and added around each.  Stages that behave alike are represented by one *)
(* name.  SchemaUpgrade has the list as a whole.                           *)
(***************************************************************************)
EXTENDS Naturals, Sequences

CONSTANTS
    Processes,   \* processes of the web server
    Apps,        \* applications
    MaxCrashes   \* bound: processes that die

StartAssumption == Processes # {} /\ MaxCrashes \in Nat

VARIABLES
    stage,    \* application.status
    check,    \* the stages application_status_check allows
    proc,     \* the statement a process is about to run; it serves when there is none left
    crashes

vars == <<stage, check, proc, crashes>>

-----------------------------------------------------------------------------
\* Stages of the first schema, of migration 30, of migration 31, and of today.
First == {"applied", "screening"}
Bifurcated == {"applied", "ai_screening", "nexai_bot", "hr_round"}
Corrected == {"applied", "screen", "nexai_bot", "interview"}
Current == {"applied", "screen", "enteri_ai_bot", "interview"}
Stages == First \cup Bifurcated \cup Corrected \cup Current
NoCheck == Stages

Drop == [do |-> "drop"]
Add(S) == [do |-> "add", to |-> S]
Rename(f) == [do |-> "rename", map |-> f]
Everything == [s \in Stages |-> s]

ToBifurcated == [Everything EXCEPT !["screening"] = "ai_screening"]
ToCorrected == [Everything EXCEPT !["ai_screening"] = "screen", !["hr_round"] = "interview"]
\* Mutant for CurrentStagesStand: the last rename the wrong way round.
ToFormer == [Everything EXCEPT !["enteri_ai_bot"] = "nexai_bot"]
ToCurrent == [Everything EXCEPT !["nexai_bot"] = "enteri_ai_bot"]
\* Migration 38: drop, rename everything that is left, add, all in one statement.
Guarantee == [do |-> "guarantee",
              map |-> [ToCorrected EXCEPT !["screening"] = "screen"], to |-> Corrected]

\* The statements that concern these rows, in the order of the list.
Early == <<Drop, Add(First)>>
Migration30 == <<Drop, Add(Bifurcated \cup First), Rename(ToBifurcated), Drop, Add(Bifurcated)>>
Migration31 == <<Drop, Add(Corrected \cup Bifurcated), Rename(ToCorrected), Drop, Add(Corrected)>>
\* Mutant for OnlyTheOldBotLeft: the last CHECK is added beside the one in force.
Migration99Undropped == <<Rename(ToCurrent), Add(Current)>>
Migration99 == <<Rename(ToCurrent), Drop, Add(Current)>>
Statements == Early \o Migration30 \o Migration31 \o <<Guarantee>> \o Migration99

Serving == Len(Statements) + 1

Values == {stage[a] : a \in Apps}

\* A database of the first schema, of migration 31, or of the last release.
Init ==
    /\ \E old \in {First, Corrected, Current} :
          /\ stage \in [Apps -> old]
          /\ check = old
    /\ proc = [p \in Processes |-> 1]
    /\ crashes = 0

-----------------------------------------------------------------------------
At(p, what) == proc[p] < Serving /\ Statements[proc[p]].do = what
Now(p) == Statements[proc[p]]
GoOn(p) == proc' = [proc EXCEPT ![p] = @ + 1] /\ UNCHANGED crashes

\* The loop that drops every CHECK on application.status.
DropCheck(p) ==
    /\ At(p, "drop")
    /\ check' = NoCheck
    /\ GoOn(p)
    /\ UNCHANGED stage

\* ADD CONSTRAINT fails when a row is against it, and when there is one of that name.
AddCheck(p) ==
    /\ At(p, "add")
    /\ check' = IF check = NoCheck /\ Values \subseteq Now(p).to THEN Now(p).to ELSE check
    /\ GoOn(p)
    /\ UNCHANGED stage

Renamed(f) == [a \in Apps |-> f[stage[a]]]

\* An UPDATE fails when a new value is against the CHECK in force.
RenameStages(p) ==
    LET new == Renamed(Now(p).map) IN
    /\ At(p, "rename")
    /\ stage' = IF \A a \in Apps : new[a] = stage[a] \/ new[a] \in check THEN new ELSE stage
    /\ GoOn(p)
    /\ UNCHANGED check

GuaranteeStages(p) ==
    LET new == Renamed(Now(p).map) IN
    /\ At(p, "guarantee")
    /\ IF \A a \in Apps : new[a] \in Now(p).to
       THEN stage' = new /\ check' = Now(p).to
       ELSE UNCHANGED <<stage, check>>
    /\ GoOn(p)

\* A handler of a serving process moves an application to a stage of today.
Move(p, a, s) ==
    /\ proc[p] = Serving
    /\ s \in check
    /\ stage' = [stage EXCEPT ![a] = s]
    /\ UNCHANGED <<check, proc, crashes>>

\* A process dies; what supervises it starts it again.
Restart(p) ==
    /\ crashes < MaxCrashes
    /\ crashes' = crashes + 1
    /\ proc' = [proc EXCEPT ![p] = 1]
    /\ UNCHANGED <<stage, check>>

Migrate(p) ==
    \/ DropCheck(p) \/ AddCheck(p) \/ RenameStages(p) \/ GuaranteeStages(p)

Next ==
    \E p \in Processes :
        \/ Migrate(p)
        \/ \E a \in Apps, s \in Current : Move(p, a, s)
        \/ Restart(p)

Spec == Init /\ [][Next]_vars

-----------------------------------------------------------------------------
Quiet == \A p \in Processes : proc[p] = Serving
Migrating == \E p \in Processes : proc'[p] # proc[p]

\* No statement of the list moves an application that is at a stage of today, however often
\* the list is run and whatever it is interleaved with ("Each statement is safe to re-run").
CurrentStagesStand ==
    [][Migrating => \A a \in Apps : stage[a] \in Current => stage'[a] = stage[a]]_vars

\* When no process migrates any more, no stage of an older release is left but the bot's old
\* name, and no CHECK of an older release to refuse today's moves.  Rows keep that name, against
\* what migration 99 says of them ("must be migrated before the CHECK constraint below stops
\* allowing the old value"): its UPDATE comes under the CHECK of migration 38, which knows no
\* other, and fails; the CHECK of today cannot be added over such rows, and there is none.
OnlyTheOldBotLeft ==
    Quiet => /\ Values \subseteq Current \cup {"nexai_bot"}
             /\ check \in {Current, NoCheck}
             /\ "nexai_bot" \in Values => check = NoCheck
=============================================================================
